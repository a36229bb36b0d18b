SPECIFICATION FairSpec
CONSTANTS
  retry_count = 3
INVARIANTS
  TypeOK
  NoUseAfterFree
  EarlyReturnMeansAnswer
PROPERTIES
  SyncReturns
  ClockIsLeftAlone
CHECK_DEADLOCK FALSE
