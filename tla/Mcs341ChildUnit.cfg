CONSTANTS
  Insmod = insmod
  Timer = timer
  Loader = {l1}
  Shell = {s1}
  Units = {"none", "hl8548"}
  Devices = 2
  FpgaVersion = 2
  ResetTicks = 2
  ButtonModes = {TRUE, FALSE}
  GlitchDuringRestart = FALSE
  MaxGlitch = 0
  MaxTimeout = 1
SPECIFICATION Spec
INVARIANTS
  PowerSequence
