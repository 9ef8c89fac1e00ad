CONSTANTS
  Insmod = insmod
  Timer = timer
  Loader = {}
  Shell = {}
  Units = {"none", "plain", "hl8548"}
  Devices = 2
  FpgaVersion = 2
  ResetTicks = 2
  ButtonModes = {FALSE}
  GlitchDuringRestart = FALSE
  MaxGlitch = 3
  MaxTimeout = 0
SPECIFICATION FairSpec
INVARIANTS
  PoweredIffEnabled
  NoRestartDuringShutdown
PROPERTIES
  Restarted
  ReleasePowersOff
