CONSTANTS
  Product = {"COM1PC", "other"}
  Versions = {1, 2}
  Kinds = {"absent", "i8250", "unknown", "i16550", "A", "B", "NS16550A", "i16750", "XScale", "U6_16550A", "i16550A"}
SPECIFICATION PortSpec
INVARIANTS
  SettingsHold
  Rs485Kept
  InterruptGate
  ResourcesFollowType
  ErrorsAsAsked
CHECK_DEADLOCK FALSE
