SPECIFICATION FairSpec
CONSTANTS
  Modulus = 4
  W = 3
  BufferMax = 2
  MaxResponses = 2
  MaxReceived = 3
  MaxMade = 4
  MaxSent = 5
INVARIANTS
  TypeOK
  AckIsPending
  WatchedAreOwed
  AnswersInOrder
PROPERTIES
  EventuallyAcknowledged
CHECK_DEADLOCK FALSE
