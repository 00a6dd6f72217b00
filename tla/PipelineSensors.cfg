SPECIFICATION Spec
CONSTANTS
  Sensors = {s1, s2}
  s1 = s1
  s2 = s2
  SensorCap = 2
  MqttCap = 3
  Rounds = {{"wifiData"}}
SYMMETRY SensorSymmetry
INVARIANTS
  TypeOK
  NoLostJsonWakeup
  JsonReceivesReading
  OneReadingPerSensor
  NoSensorOverflow
  ReadingsKeepTheirSource
  HolderIsActive
PROPERTY ReadingsPublishedInOrder
