SPECIFICATION FairSpec
CONSTANTS
  MaxReading = 2
  UDP_MAX_ATTEMPTS = 2
  QUEUE_LENGTH = 1
  RECVMBOX_SIZE = 2
  ReplyTexts <- MCReplyTexts
  MaxResets = 1
  MaxDuplicates = 1
INVARIANTS
  TypeOK
  AckIsBacked
  AckUsedOnce
  SilentLossBound
  PromptNetworkIsHonest
PROPERTIES
  ImplementsCourier
  LedGoesOff
