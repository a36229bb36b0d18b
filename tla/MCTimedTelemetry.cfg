SPECIFICATION Spec
CONSTANTS
  SensorPeriods <- MCSensorPeriods
  SEND_DATA_SECONDS = 5
  UDP_TIMEOUT = 2
  UDP_MAX_ATTEMPTS = 3
  QUEUE_LENGTH = 2
  QueueWait = 2
  LedDelay = 1
  MeasureMin = 1
  MeasureMax = 3
INVARIANTS
  TypeOK
  StampAgeIsBounded
  SlowSensorLosesNothing
