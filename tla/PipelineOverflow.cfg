SPECIFICATION Spec
CONSTANTS
  Sensors = {s1, s2}
  s1 = s1
  s2 = s2
  SensorCap = 1
  MqttCap = 1
  Rounds = {{"wifiData"}}
SYMMETRY SensorSymmetry
INVARIANTS
  NoLostJsonWakeup
  JsonReceivesReading
