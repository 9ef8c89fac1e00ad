CONSTANTS
  Process = {s1}
  Softirq = {timer}
  Hardirq = {}
  Locking = {}
  Led = {"st1", "err"}
  Shell = {s1}
  Timer = timer
  BlinkTicks = 1
SPECIFICATION FairSpec
INVARIANTS
  NeverOtherByte
  SteadyLedShown
PROPERTIES
  LedsBlink
