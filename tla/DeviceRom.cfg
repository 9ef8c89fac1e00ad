CONSTANTS
  Client = {c1}
  Cells = 3
  Cleared = 2
  Value = {0, 5}
  Erased = Erased
  Faulty = TRUE
  Signals = TRUE
SPECIFICATION FairRomSpec
INVARIANTS
  ReturnedIsStored
  ClearedForgets
PROPERTIES
  CallsReturn
