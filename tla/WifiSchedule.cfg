SPECIFICATION BoundedSpec
CONSTANTS
  KaInterval = 2
  WifiInterval = 3
  OffsetNum = 3
  OffsetDen = 2
  MaxProcessing = 3
  MaxDelay = 3
  Horizon = 6
  WifiRetries = 2
  CloudRetries = 2
  Sockets = {0, 1}
INVARIANTS
  TypeOK
  SchedulesArePeriodic
  WifiUpWhenConnected
  SocketsNotLeaked
  ConnectedHasSession
  AzureTaskServes
PROPERTY DelayReachesNextPacket
\* The application stops when the network cannot be recovered.
CHECK_DEADLOCK FALSE
