SPECIFICATION Spec
CONSTANTS
  MaxRounds = 2
  MaxFaults = 1
  Pieces = 2
  Places = 3
  HourOffset = 5
  MinOffset = 30
  Dates <- NetworkDates
INVARIANTS
  TypeOK
  ShowsOwnAnswer
  ClockFromNetwork
