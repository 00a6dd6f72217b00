SPECIFICATION Spec
CONSTANTS
  Sensors = {s1}
  s1 = s1
  SensorCap = 1
  MqttCap = 2
  Rounds = {{"keepAlive"}, {"wifiData"}, {"keepAlive", "wifiData"}}
PROPERTY FullMqttQueueIsReleased
