SPECIFICATION FairSpec
CONSTANTS
  SensorOrder <- TwoSensors
  TempRh = "temp"
  MaxRetry = 2
CHECK_DEADLOCK FALSE
INVARIANTS
  TypeOK
  GivenUpMeansDeleted
  CloudOutageHandled
  FailuresNotOverslept
PROPERTIES
  RecoveryComesToRest
  SensorFailuresServed
