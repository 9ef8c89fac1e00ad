CONSTANTS
  Process = {p1, p2}
  Channel = {c1, c2}
  Offset = {0, 255}
  Raw = {0, 5, 16777215}
  NoChannel = NoChannel
  MaxCalls = 4
SPECIFICATION Spec
INVARIANTS
  OffsetsAsAsked
  MeasuresAsAsked
SYMMETRY Symmetry
