CONSTANTS
  Process = {p1, p2}
  Bit = {b1, b2}
  None = None
  MaxEdges = 1
SPECIFICATION FairSpec
PROPERTIES
  KilledOnlyInNotify
  InterruptDelivered
CHECK_DEADLOCK FALSE
