SPECIFICATION FairSamplingSpec
CONSTANTS
  HeapBlocks = 8
  MaxCalls = 3
  QUEUE_LENGTH = 1
INVARIANTS
  TypeOK
  ReadingIsFresh
  OneBlockLostPerCall
PROPERTIES
  EachReadingIsNew
  TaskComesRound
