SPECIFICATION FairSpec
CONSTANTS
  MaxReading = 3
  UDP_MAX_ATTEMPTS = 1
  QUEUE_LENGTH = 2
  RECVMBOX_SIZE = 1
  ReplyTexts <- MCReplyTexts
  MaxResets = 1
  MaxDuplicates = 0
INVARIANTS
  EveryReadingIsSomewhere
  OrderIsKept
PROPERTIES
  UsesSenderWell
  EveryReadingIsSettled
