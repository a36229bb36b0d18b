SPECIFICATION FairSpec
CONSTANTS
  WIFI_MAX_RETRY = 5
  EVENT_QUEUE_SIZE = 5
  OTHER_EVENTS = 1
  MaxFailures = 2
INVARIANTS
  TypeOK
  TasksNeedAddress
  LedIsDarkAtStart
PROPERTIES
  BootLoopEnds
  UsesWifiWell
