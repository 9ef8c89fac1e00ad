CONSTANTS
  FifoSize = 2
  MaxCount = 1
  SkipTxenTest = FALSE
  MaxEvents = 6
SPECIFICATION FairUartSpec
INVARIANTS
  SentInOrder
  FlagsArrive
  IerAgrees
  FlowFollowsCts
PROPERTIES
  EventuallySent
CHECK_DEADLOCK FALSE
