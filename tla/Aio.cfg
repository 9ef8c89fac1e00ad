CONSTANTS
  Process = {p1, p2}
  NoProcess = none
  Channels = 2
  Samples = 2
  Value = {0, 40000}
  RomRetries = 1
  MaxCalls = 3
SPECIFICATION FairSpec
INVARIANTS SampleIsOwn OutputsAsAsked RoutesAsAsked RomAsAsked
PROPERTY CallsReturn
CHECK_DEADLOCK FALSE
