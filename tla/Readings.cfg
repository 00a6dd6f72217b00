SPECIFICATION Spec
CONSTANTS
  MaxRetry = 2
  FixRetries = 2
  DataRetries = 2
  BufferSize = 200
  ChunkSize = 64
  SmallString = 10
  Int32Size = 11
  DoubleSize = 33
  MaxDepth = 64
  Ssids <- MCSsids
INVARIANTS
  TypeOK
  BusExclusive
  LocksNotLost
  MessagesAreJson
  GivenUpOnlyForLongName
PROPERTY NoDiscardWithoutTry
\* The application stops when every sensor is lost.
CHECK_DEADLOCK FALSE
