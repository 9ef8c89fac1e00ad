CONSTANTS
  Port = {p1, p2}
  None = None
  PassLimit = 1
  MaxOpens = 5
  MaxRaises = 8
SPECIFICATION FairSpec
INVARIANTS
  Chained
  LineReleased
PROPERTIES
  Served
CHECK_DEADLOCK FALSE
