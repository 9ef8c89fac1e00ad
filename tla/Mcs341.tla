------------------------------- MODULE Mcs341 -------------------------------
(***************************************************************************)
(* The CPS-MCS341 controller as driver/system/cps-driver.c runs it: the    *)
(* bring-up of the FPGA and of the device stack, the 20 ms timer that      *)
(* watches the reset button and restarts an FPGA that lost its state, and  *)
(* the power sequence of the child unit behind the sysfs files.            *)
(*                                                                         *)
(* The machine has one core.  The timer is a softirq: once it has started  *)
(* no process runs until it is done, but it may start between any two      *)
(* steps of a process, also between the load and the store of              *)
(*     mcs341_systeminit_reg |= BIT                                        *)
(* which are therefore two steps here.  The FPGA works on its own.         *)
(***************************************************************************)
EXTENDS Naturals

CONSTANTS
  Insmod,        \* the process that loads the base driver
  Timer,         \* the softirq that runs mcs341_controller_timer_function
  Loader,        \* processes that load a device driver (cpsaio, cpsdio, ...)
  Shell,         \* processes that write the child_unit_* files of sysfs
  Units,         \* the child unit types the files and the parameter are given
  Devices,       \* number of devices stacked on the controller
  FpgaVersion,   \* revision of the FPGA
  ResetTicks,    \* ticks the button is held before the board is reset (5 * 50)
  ButtonModes,   \* values the parameter reset_button_check_mode is given
  GlitchDuringRestart, \* the FPGA may also fail while the timer restarts it
  MaxGlitch,     \* bound: times the FPGA loses its state by itself
  MaxTimeout     \* bound: times the driver stops waiting for the FPGA

Ctx == Loader \cup Shell \cup {Insmod, Timer}

\* "plain" stands for the types 1, 2, 3, 5 and 0x100, which differ only in
\* the pin mode; "unknown" for a number that no case of the switch names.
UnitTypes == {"none", "plain", "hl8548", "unknown"}

ASSUME CtxAssumption ==
  /\ Insmod # Timer
  /\ {Insmod, Timer} \cap (Loader \cup Shell) = {}
  /\ Loader \cap Shell = {}
ASSUME UnitAssumption == Units \subseteq UnitTypes
ASSUME NumberAssumption ==
  /\ Devices \in Nat /\ Devices # 63   \* 0x3f: no answer on the device bus
  /\ FpgaVersion \in Nat \ {0} /\ ResetTicks \in Nat \ {0}
  /\ MaxGlitch \in Nat /\ MaxTimeout \in Nat
  /\ ButtonModes \in SUBSET BOOLEAN /\ GlitchDuringRestart \in BOOLEAN

VARIABLES
  status,      \* FPGA: low bits of the system status register
  hwInit,      \* FPGA: bits set in the system init register (write only)
  hwLvds,      \* FPGA: LVDS power bit of the reset register (write only)
  idsel,       \* FPGA: the devices have been told that idsel is complete
  button,      \* the reset button is down
  checkMode,   \* reset_button_check_mode: the button is being tested
  initReg,     \* mcs341_systeminit_reg, the driver's copy of hwInit
  lvdsReg,     \* mcs341_fpga_reset_reg & LVDS_PWR
  fpgaVer,     \* fpga_ver, 0 until the first bring-up reads it
  childUnit,   \* child_unit
  childEnable, \* child_unit_enable
  resetCount,  \* reset_count, saturated above ResetTicks
  shutdown,    \* shutdown_sequence
  resetOut,    \* the reset output GPIO is driven high
  poweroff,    \* orderly_poweroff has been called
  running,     \* the timer has been added: the base driver is loaded
  pc,          \* what each context does next
  holding,     \* contexts between the load and the store of initReg
  held,        \* the value each of them loaded
  unit,        \* childType argument of the child unit sequence in progress
  nextUnit,    \* the number being stored by child_unit_number, if any
  meddled,     \* history: the parameter changed the type of a unit in use
  glitches, timeouts

fpga   == <<status, hwInit, hwLvds, idsel>>
child  == <<childUnit, childEnable, unit, nextUnit, meddled>>
buttonVars == <<button, checkMode, resetCount, shutdown, resetOut, poweroff>>
bounds == <<glitches, timeouts>>
rmw    == <<holding, held>>
vars == <<fpga, buttonVars, initReg, lvdsReg, fpgaVer, child, running, pc, rmw,
          bounds>>

InitBits == {"RESET", "INTERRUPT", "POWER", "EXTRESET", "G4OUT"}

\* RESETBUSY = 1, INITBUSY = 2, INTERRUPT_END = 4, INIT_END = 8
StatusValues == {1, 3, 8, 12}
Busy    == status \in {1, 3}
InitEnd == status \in {8, 12}

\* The two sequences of the child unit, and the store of its number.
UnitLabels == {"childBegin", "present", "power", "extReset", "childType",
               "g4On", "enable", "exitBegin", "g4Off", "g4Write", "exitPower",
               "extResetOff", "powerOff", "disable", "setUnit"}
Labels == {"idle", "failed", "status", "windows", "reset", "pollInit",
           "number", "interrupt", "pollInterrupt"} \cup UnitLabels

-----------------------------------------------------------------------------
(* Who may take a step, and the steps every sequence is made of. *)

\* A process runs only while the softirq does not, and the other drivers and
\* the sysfs files exist only once the base driver is loaded.
CanRun(c) == /\ c = Timer \/ pc[Timer] = "idle"
             /\ running \/ c = Insmod

At(c, l)   == CanRun(c) /\ pc[c] = l
Goto(c, l) == pc' = [pc EXCEPT ![c] = l]

\* mcs341_systeminit_reg <op>= bits: the load ...
LoadReg(c, l) ==
  /\ At(c, l) /\ c \notin holding
  /\ holding' = holding \cup {c}
  /\ held' = [held EXCEPT ![c] = initReg]
  /\ UNCHANGED <<fpga, buttonVars, initReg, lvdsReg, fpgaVer, child, running,
                 pc, bounds>>

\* ... and the store of what was computed from the loaded value.
StoreReg(c, l, value, next) ==
  /\ At(c, l) /\ c \in holding
  /\ holding' = holding \ {c}
  /\ held' = [held EXCEPT ![c] = {}]
  /\ initReg' = value
  /\ Goto(c, next)
  /\ UNCHANGED <<status, hwLvds, idsel, buttonVars, lvdsReg, fpgaVer, child,
                 running, bounds>>

\* contec_mcs341_controller_setSystemInit() right after the store
SetSystemInit == hwInit' = initReg'

SetBit(c, l, bit, next) ==
  \/ LoadReg(c, l)
  \/ StoreReg(c, l, held[c] \cup {bit}, next) /\ SetSystemInit

ClearBit(c, l, bit, next) ==
  \/ LoadReg(c, l)
  \/ StoreReg(c, l, held[c] \ {bit}, next) /\ SetSystemInit

\* Steps that touch neither the shadow register nor the button.
Quiet == UNCHANGED <<buttonVars, initReg, running, rmw>>

-----------------------------------------------------------------------------
(* _contec_mcs341_controller_cpsDevicesInit *)

\* mutant: the restart forgets the child unit
Ready_NoChild(c) == IF c = Insmod THEN "childBegin" ELSE "idle"

Ready(c) == IF c \in Loader THEN "idle" ELSE "childBegin"
Failed(c) == IF c = Insmod THEN "failed" ELSE "idle"

\* insmod of an aio, dio, cnt or ssi driver calls it while the timer runs.
LoadDriver(l) ==
  /\ At(l, "idle") /\ l \in Loader
  /\ Goto(l, "status")
  /\ Quiet /\ UNCHANGED <<fpga, lvdsReg, fpgaVer, child, bounds>>

ReadStatus(c) ==
  /\ At(c, "status")
  /\ Quiet /\ UNCHANGED <<status, hwInit, idsel, child, bounds>>
  /\ IF status = 1
     THEN Goto(c, Failed(c)) /\ UNCHANGED <<fpgaVer, lvdsReg, hwLvds>>
     ELSE /\ fpgaVer' = FpgaVersion
          /\ lvdsReg' = (lvdsReg \/ FpgaVersion > 1)
          /\ hwLvds' = IF FpgaVersion > 1 THEN lvdsReg' ELSE hwLvds
          /\ Goto(c, IF status = 3 THEN "reset" ELSE "windows")

RequestReset(c) == SetBit(c, "reset", "RESET", "pollInit")

\* The loop gives up on the count alone, also when the answer has come.
Poll(c, l, done, next) ==
  /\ At(c, l)
  /\ Quiet /\ UNCHANGED <<fpga, lvdsReg, fpgaVer, child, glitches>>
  /\ \/ done /\ Goto(c, next) /\ UNCHANGED timeouts
     \/ /\ timeouts < MaxTimeout /\ timeouts' = timeouts + 1
        /\ Goto(c, Failed(c))

PollInitEnd(c) == Poll(c, "pollInit", InitEnd, "number")

\* __contec_mcs341_device_memory: the windows of the devices are kept from
\* the first bring-up on, so only the insmod can miss one.
NoWindow(c) ==
  /\ c = Insmod /\ Devices > 0
  /\ timeouts < MaxTimeout /\ timeouts' = timeouts + 1
  /\ Goto(c, "failed")

\* An FPGA that already runs is only asked for its devices.
DeviceWindows(c) ==
  /\ At(c, "windows")
  /\ Quiet /\ UNCHANGED <<fpga, lvdsReg, fpgaVer, child, glitches>>
  /\ \/ Goto(c, Ready(c)) /\ UNCHANGED timeouts
     \/ NoWindow(c)

\* Device count, their windows, __contec_mcs341_device_idsel_complete.
DeviceNumber(c) ==
  /\ At(c, "number")
  /\ Quiet /\ UNCHANGED <<status, hwInit, hwLvds, lvdsReg, fpgaVer, child,
                          glitches>>
  /\ \/ /\ idsel' = (idsel \/ Devices > 0)
        /\ Goto(c, "interrupt") /\ UNCHANGED timeouts
     \/ NoWindow(c) /\ UNCHANGED idsel

\* mutant: the copy is changed but never written
RequestInterrupt_NotWritten(c) ==
  \/ LoadReg(c, "interrupt")
  \/ /\ StoreReg(c, "interrupt", held[c] \cup {"INTERRUPT"}, "pollInterrupt")
     /\ UNCHANGED hwInit

RequestInterrupt(c) == SetBit(c, "interrupt", "INTERRUPT", "pollInterrupt")

PollInterruptEnd(c) ==
  Poll(c, "pollInterrupt", status = 12, Ready(c))

DevicesInit(c) ==
  \/ ReadStatus(c) \/ DeviceWindows(c)
  \/ RequestReset(c) \/ PollInitEnd(c) \/ DeviceNumber(c)
  \/ RequestInterrupt(c) \/ PollInterruptEnd(c)

-----------------------------------------------------------------------------
(* _contec_mcs341_controller_cpsChildUnitInit and ...cpsChildUnitExit *)

\* The end of a sequence: the insmod adds the timer, the others return.
Return(c) == /\ running' = (running \/ c = Insmod)
             /\ Goto(c, "idle")

\* The type is an argument of the call, the presence is read from the number
\* itself, after the pin mode.
ChildBegin(c) ==
  /\ At(c, "childBegin")
  /\ unit' = [unit EXCEPT ![c] = childUnit]
  /\ Goto(c, "present")
  /\ Quiet /\ UNCHANGED <<fpga, lvdsReg, fpgaVer, childUnit, childEnable,
                          nextUnit, meddled, bounds>>

ChildPresent(c) ==
  /\ At(c, "present")
  /\ Goto(c, IF childUnit # "none" THEN "power" ELSE "childType")
  /\ Quiet /\ UNCHANGED <<fpga, lvdsReg, fpgaVer, child, bounds>>

ChildPower(c)    == SetBit(c, "power", "POWER", "extReset")
ChildExtReset(c) == SetBit(c, "extReset", "EXTRESET", "childType")

\* NONE and unknown types return before child_unit_enable is set.
ChildType(c) ==
  /\ At(c, "childType")
  /\ CASE unit[c] = "hl8548" -> Goto(c, "g4On") /\ UNCHANGED running
       [] unit[c] = "plain"  -> Goto(c, "enable") /\ UNCHANGED running
       [] OTHER              -> Return(c)
  /\ UNCHANGED <<fpga, buttonVars, initReg, lvdsReg, fpgaVer, child, rmw,
                 bounds>>

ChildG4Output(c) == SetBit(c, "g4On", "G4OUT", "enable")

ChildEnabled(c) ==
  /\ At(c, "enable")
  /\ childEnable' = TRUE
  /\ Return(c)
  /\ UNCHANGED <<fpga, buttonVars, initReg, lvdsReg, fpgaVer, childUnit, unit,
                 nextUnit, meddled, rmw, bounds>>

ChildUnitInit(c) ==
  \/ ChildBegin(c) \/ ChildPresent(c) \/ ChildPower(c) \/ ChildExtReset(c)
  \/ ChildType(c) \/ ChildG4Output(c) \/ ChildEnabled(c)

ExitBegin(s) ==
  /\ At(s, "exitBegin")
  /\ unit' = [unit EXCEPT ![s] = childUnit]
  /\ Goto(s, IF childUnit = "hl8548" THEN "g4Off" ELSE "exitPower")
  /\ Quiet /\ UNCHANGED <<fpga, lvdsReg, fpgaVer, childUnit, childEnable,
                          nextUnit, meddled, bounds>>

\* Here the copy changes 100 ms before it is written.
ExitG4Output(s) ==
  \/ LoadReg(s, "g4Off")
  \/ /\ StoreReg(s, "g4Off", held[s] \ {"G4OUT"}, "g4Write")
     /\ UNCHANGED hwInit

ExitG4Write(s) ==
  /\ At(s, "g4Write")
  /\ hwInit' = initReg
  /\ Goto(s, "exitPower")
  /\ Quiet /\ UNCHANGED <<status, hwLvds, idsel, lvdsReg, fpgaVer, child,
                          bounds>>

\* mutant: a disabled unit loses its power before its reset
ExitPower_Swapped(s) ==
  /\ At(s, "exitPower")
  /\ Goto(s, IF childUnit # "none" THEN "powerOff" ELSE "disable")
  /\ Quiet /\ UNCHANGED <<fpga, lvdsReg, fpgaVer, child, bounds>>

ExitPower(s) ==
  /\ At(s, "exitPower")
  /\ Goto(s, IF childUnit # "none" THEN "extResetOff" ELSE "disable")
  /\ Quiet /\ UNCHANGED <<fpga, lvdsReg, fpgaVer, child, bounds>>

ExitExtReset(s) == ClearBit(s, "extResetOff", "EXTRESET", "powerOff")
ExitPowerOff(s) == ClearBit(s, "powerOff", "POWER", "disable")

ExitDisabled(s) ==
  /\ At(s, "disable")
  /\ childEnable' = FALSE
  /\ Goto(s, IF nextUnit[s] = "" THEN "idle" ELSE "setUnit")
  /\ Quiet /\ UNCHANGED <<fpga, lvdsReg, fpgaVer, childUnit, unit, nextUnit,
                          meddled, bounds>>

ChildUnitExit(s) ==
  \/ ExitBegin(s) \/ ExitG4Output(s) \/ ExitG4Write(s) \/ ExitPower(s)
  \/ ExitExtReset(s) \/ ExitPowerOff(s) \/ ExitDisabled(s)

\* child_unit_enable_store
StoreEnable(s, on) ==
  /\ At(s, "idle")
  /\ childUnit # "none" /\ childEnable # on
  /\ Goto(s, IF on THEN "childBegin" ELSE "exitBegin")
  /\ Quiet /\ UNCHANGED <<fpga, lvdsReg, fpgaVer, child, bounds>>

\* child_unit_number_store: the old unit is powered down, if it is enabled,
\* before the number changes.
StoreNumber(s, u) ==
  /\ At(s, "idle")
  /\ nextUnit' = [nextUnit EXCEPT ![s] = u]
  /\ Goto(s, IF childEnable THEN "exitBegin" ELSE "setUnit")
  /\ Quiet /\ UNCHANGED <<fpga, lvdsReg, fpgaVer, childUnit, childEnable,
                          unit, meddled, bounds>>

SetUnit(s) ==
  /\ At(s, "setUnit")
  /\ childUnit' = nextUnit[s]
  /\ nextUnit' = [nextUnit EXCEPT ![s] = ""]
  /\ Goto(s, "idle")
  /\ Quiet /\ UNCHANGED <<fpga, lvdsReg, fpgaVer, childEnable, unit, meddled,
                          bounds>>

\* The number is a module parameter too: writing it runs no sequence, also
\* where a unit of the old type is in use.  Its file is there from before
\* the insmod begins until the module is gone.
InUse == childEnable \/ \E c \in Ctx : pc[c] \in UnitLabels
StoreUnit(u) ==
  /\ pc[Timer] = "idle" /\ pc[Insmod] # "failed"
  /\ childUnit' = u
  /\ meddled' = (meddled \/ (InUse /\ u # childUnit))
  /\ Quiet /\ UNCHANGED <<fpga, lvdsReg, fpgaVer, childEnable, unit, nextUnit,
                          pc, bounds>>

\* The parameter can be written at any time once the module is loaded.
StoreCheckMode(m) ==
  /\ running /\ pc[Timer] = "idle"
  /\ checkMode' = m
  /\ UNCHANGED <<fpga, button, initReg, lvdsReg, fpgaVer, child, resetCount,
                 shutdown, resetOut, poweroff, running, pc, rmw, bounds>>

-----------------------------------------------------------------------------
(* mcs341_controller_timer_function *)

Capped(n, m) == IF n < m THEN n ELSE m

\* The mask that is meant to clear the LVDS bit keeps it.
ButtonHeld ==
  /\ IF resetCount = 0 /\ fpgaVer > 1
     THEN /\ hwLvds' = lvdsReg
          /\ initReg' = initReg \ {"INTERRUPT"}
          /\ SetSystemInit
     ELSE UNCHANGED <<hwLvds, initReg, hwInit>>
  /\ shutdown' = TRUE
  /\ resetCount' = Capped(resetCount + 1, ResetTicks + 1)
  /\ resetOut' = (resetOut \/ resetCount + 1 > ResetTicks)
  /\ UNCHANGED <<pc, poweroff>>

\* mutant: the count is cleared before it is looked at
ButtonUp_ClearedFirst ==
  /\ resetCount' = 0
  /\ poweroff' = (poweroff \/ resetCount' > 0)
  /\ UNCHANGED <<shutdown, resetOut>>

ButtonUp ==
  /\ poweroff' = (poweroff \/ resetCount > 0)
  /\ resetCount' = 0
  /\ UNCHANGED <<shutdown, resetOut>>

\* mutant: the restart does not ask for the shutdown sequence (Ver 1.0.13)
Restart_InShutdown ==
  /\ IF Busy THEN initReg' = {} /\ Goto(Timer, "status")
             ELSE UNCHANGED <<initReg, pc>>
  /\ UNCHANGED <<hwInit, hwLvds>>

\* An FPGA that fell back to its reset state is brought up again, from an
\* empty copy of the init register, unless the system is going down.
Restart ==
  /\ IF ~shutdown /\ Busy
     THEN initReg' = {} /\ Goto(Timer, "status")
     ELSE UNCHANGED <<initReg, pc>>
  /\ UNCHANGED <<hwInit, hwLvds>>

TimerTick ==
  /\ running /\ pc[Timer] = "idle"
  /\ \/ ~checkMode /\ button /\ ButtonHeld
     \/ ~checkMode /\ ~button /\ ButtonUp /\ Restart
     \/ /\ checkMode /\ Restart
        /\ UNCHANGED <<shutdown, resetCount, resetOut, poweroff>>
  /\ UNCHANGED <<status, idsel, button, checkMode, lvdsReg, fpgaVer, child,
                 running, rmw, bounds>>

-----------------------------------------------------------------------------
(* The FPGA and the button. *)

FpgaStep(from, to) ==
  /\ status = from /\ status' = to
  /\ UNCHANGED <<hwInit, hwLvds, idsel, buttonVars, initReg, lvdsReg, fpgaVer,
                 child, running, pc, rmw, bounds>>

FpgaReset        == FpgaStep(1, 3)
FpgaInitEnd      == "RESET" \in hwInit /\ FpgaStep(3, 8)
FpgaInterruptEnd == "INTERRUPT" \in hwInit /\ FpgaStep(8, 12)

\* The FPGA loses its state: every register is back to its reset value.
FpgaGlitch ==
  /\ glitches < MaxGlitch /\ glitches' = glitches + 1
  /\ running /\ (pc[Timer] = "idle" \/ GlitchDuringRestart)
  /\ status' \in {1, 3} /\ hwInit' = {} /\ hwLvds' = FALSE /\ idsel' = FALSE
  /\ UNCHANGED <<buttonVars, initReg, lvdsReg, fpgaVer, child, running, pc,
                 rmw, timeouts>>

PressOrRelease ==
  /\ button' = ~button
  /\ UNCHANGED <<fpga, checkMode, initReg, lvdsReg, fpgaVer, child,
                 resetCount, shutdown, resetOut, poweroff, running, pc, rmw,
                 bounds>>

\* A base driver that could not be loaded leaves nothing that runs.
NotLoaded == pc[Insmod] = "failed" /\ UNCHANGED vars

-----------------------------------------------------------------------------
Init ==
  /\ \E st \in StatusValues :
       /\ status = st
       /\ hwInit = CASE st = 8  -> {"RESET"}
                     [] st = 12 -> {"RESET", "INTERRUPT"}
                     [] OTHER   -> {}
       /\ idsel = (st = 12 /\ Devices > 0)
  /\ hwLvds = FALSE
  /\ button = FALSE /\ checkMode \in ButtonModes
  /\ initReg = {} /\ lvdsReg = FALSE
  /\ fpgaVer = 0
  /\ childUnit \in Units /\ childEnable = FALSE
  /\ resetCount = 0 /\ shutdown = FALSE
  /\ resetOut = FALSE /\ poweroff = FALSE
  /\ running = FALSE
  /\ pc = [c \in Ctx |-> IF c = Insmod THEN "status" ELSE "idle"]
  /\ holding = {} /\ held = [c \in Ctx |-> {}]
  /\ unit = [c \in Ctx |-> "none"]
  /\ nextUnit = [c \in Ctx |-> ""] /\ meddled = FALSE
  /\ glitches = 0 /\ timeouts = 0

Fpga == FpgaReset \/ FpgaInitEnd \/ FpgaInterruptEnd

\* The steps a context takes once its call has begun.
Step(c) == DevicesInit(c) \/ ChildUnitInit(c) \/ ChildUnitExit(c) \/ SetUnit(c)

Request ==
  \/ \E l \in Loader : LoadDriver(l)
  \/ \E s \in Shell, on \in BOOLEAN : StoreEnable(s, on)
  \/ \E s \in Shell, u \in Units : StoreNumber(s, u)
  \/ \E u \in Units : StoreUnit(u)
  \/ \E m \in ButtonModes : StoreCheckMode(m)

Next ==
  \/ \E c \in Ctx : Step(c)
  \/ Request
  \/ TimerTick
  \/ Fpga \/ FpgaGlitch
  \/ PressOrRelease
  \/ NotLoaded

Spec == Init /\ [][Next]_vars

\* The softirq is raised again by mod_timer, a process that can run is
\* scheduled, and the FPGA answers what it is asked.  Nobody has to write a
\* file, load a driver, or touch the button.
Fairness ==
  /\ WF_vars(TimerTick)
  /\ WF_vars(Fpga)
  /\ \A c \in Ctx : WF_vars(Step(c))

FairSpec == Spec /\ Fairness

-----------------------------------------------------------------------------
TypeOK ==
  /\ status \in StatusValues
  /\ hwInit \in SUBSET InitBits /\ initReg \in SUBSET InitBits
  /\ hwLvds \in BOOLEAN /\ lvdsReg \in BOOLEAN /\ idsel \in BOOLEAN
  /\ button \in BOOLEAN /\ checkMode \in BOOLEAN /\ shutdown \in BOOLEAN
  /\ running \in BOOLEAN /\ resetOut \in BOOLEAN /\ poweroff \in BOOLEAN
  /\ resetCount \in 0 .. ResetTicks + 1
  /\ fpgaVer \in {0, FpgaVersion}
  /\ childUnit \in UnitTypes /\ childEnable \in BOOLEAN
  /\ unit \in [Ctx -> UnitTypes]
  /\ nextUnit \in [Ctx -> UnitTypes \cup {""}] /\ meddled \in BOOLEAN
  /\ \A c \in Ctx : pc[c] = "setUnit" => nextUnit[c] # ""
  /\ pc \in [Ctx -> Labels]
  /\ holding \in SUBSET Ctx /\ held \in [Ctx -> SUBSET InitBits]
  /\ glitches \in 0 .. MaxGlitch /\ timeouts \in 0 .. MaxTimeout
AllIdle == \A c \in Ctx : pc[c] = "idle"

(***************************************************************************)
(* Safety                                                                  *)
(***************************************************************************)

\* Once the shutdown sequence has begun ("Do not run without shutdown
\* sequence", Ver 1.0.14) the timer neither starts an FPGA restart nor is
\* still in the middle of one, whatever state the FPGA falls into.
NoRestartDuringShutdown == shutdown => pc[Timer] = "idle"

\* The first tick that sees the button takes the interrupt line down, and
\* nothing raises it again for the rest of the shutdown.
ShutdownMasksInterrupt ==
  (shutdown /\ fpgaVer > 1) => "INTERRUPT" \notin hwInit

\* The child unit leaves reset only while it has power, whatever becomes of
\* its number; and its 3G4 pin is driven only after that, through every
\* enable, disable, change of type and restart, unless the parameter gave a
\* unit in use another type.
PowerSequence ==
  /\ "EXTRESET" \in hwInit => "POWER" \in hwInit
  /\ ("G4OUT" \in hwInit /\ ~meddled) => "EXTRESET" \in hwInit

\* What child_unit_enable tells user space is what the board does, whenever
\* no call is in progress and the FPGA is not waiting to be restarted, unless
\* the parameter gave a unit in use another type.
PoweredIffEnabled ==
  (running /\ AllIdle /\ ~Busy /\ ~meddled) =>
    (childEnable <=> {"POWER", "EXTRESET"} \subseteq hwInit)

(***************************************************************************)
(* Liveness                                                                *)
(***************************************************************************)

\* "If system status of FPGA was initialized, timer function is restarted
\* the FPGA" (Ver.1.0.13): an FPGA that lost its state comes all the way
\* back, unless the system is going down or the driver was never loaded.
Restarted ==
  Busy ~> \/ status = 12 /\ (Devices > 0 => idsel)
          \/ shutdown \/ pc[Insmod] = "failed"

\* A press that a tick has seen powers the system off after the release.
ReleasePowersOff == (resetCount > 0 /\ ~button) ~> (poweroff \/ button)
=============================================================================
