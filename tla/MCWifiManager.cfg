SPECIFICATION FairSpec
CONSTANTS
  WIFI_MAX_RETRY = 5
  EVENT_QUEUE_SIZE = 7
  OTHER_EVENTS = 2
INVARIANTS
  TypeOK
  OneDriver
  InterfaceFollowsRadio
  AddressIsReported
  QueueStaysShort
PROPERTIES
  StartReturns
  IdleStationIsDriven
  GivesUpLate
