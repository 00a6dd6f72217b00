SPECIFICATION Spec
CONSTANTS
  SensorOrder <- OneSensor
  TempRh = "temp"
  MaxRetry = 3
CHECK_DEADLOCK FALSE
INVARIANT SamplesOnlyWithWifi
