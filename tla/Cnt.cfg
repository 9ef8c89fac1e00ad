CONSTANTS
  Process = {p1, p2}
  Channel = {c1, c2}
  Value = {v0, v1}
  Default = v0
  MaxChanges = 2
SPECIFICATION Spec
INVARIANTS
  SettingsAsAtStart
  CountsIffStarted
  CountIsFresh
SYMMETRY Symmetry
