SPECIFICATION FairSpecWithoutAnswer
CONSTANTS
  WIFI_MAX_RETRY = 2
  EVENT_QUEUE_SIZE = 5
  OTHER_EVENTS = 1
PROPERTIES
  BlocksUntilConnected
