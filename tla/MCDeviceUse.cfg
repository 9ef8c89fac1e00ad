CONSTANTS
  Files = {f1, f2}
  Devs = {d1, d2}
  Null = Null
  Zeroed = TRUE
  Serial = TRUE
  Boards = {"DIO-0808BL", "DO-16L", "CNT-3202I", "AI-1608LI", "AO-1604VLI", "CPS-SSI-4P"}
  MaxCalls = 3
  DioAsked <- MCDioAsked
  CntAsked <- MCCntAsked
  AioAsked <- MCAioAsked
  SsiAsked <- MCSsiAsked
SPECIFICATION UseSpec
INVARIANTS
  NothingDangles
  NothingKept
  SettingsAsAsked
PROPERTIES
  Promise
