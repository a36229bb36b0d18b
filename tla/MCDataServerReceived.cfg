SPECIFICATION Spec
CONSTANTS
  MaxReading = 2
  UDP_MAX_ATTEMPTS = 2
  QUEUE_LENGTH = 1
  RECVMBOX_SIZE = 2
  ReplyTexts <- MCAckOnly
  MaxResets = 0
  MaxDuplicates = 0
INVARIANTS
  AckMeansReceived
