--------------------------- MODULE Mcs341_proofs ---------------------------
(***************************************************************************)
(* What holds of the controller for every set of contexts, every stack and *)
(* every number of FPGA failures and timeouts: its types and the shutdown   *)
(* sequence; and, while one context at a time updates the init register     *)
(* (Regime, Calm), the order of the child unit's power and what             *)
(* child_unit_enable tells of it.  The last section is about the ROM of a   *)
(* stacked device that one process uses: what it wrote or read is stored,   *)
(* and a clear leaves nothing.                                              *)
(***************************************************************************)
EXTENDS Mcs341, DeviceRom, TLAPS

\* The labels and the bits the steps name are labels and bits.
LEMMA Named ==
  /\ {"idle", "failed", "status", "windows", "reset", "pollInit", "number",
      "interrupt", "pollInterrupt", "childBegin", "power", "extReset",
      "present", "childType"} \subseteq Labels
  /\ {"g4On", "enable", "exitBegin", "g4Off", "g4Write", "exitPower",
      "extResetOff", "powerOff", "disable", "setUnit"} \subseteq Labels
  /\ {"RESET", "INTERRUPT", "POWER", "EXTRESET", "G4OUT"} \subseteq InitBits
BY DEF Labels, UnitLabels, InitBits

LEMMA Numbers ==
  /\ MaxGlitch \in Nat /\ MaxTimeout \in Nat
  /\ ResetTicks \in Nat \ {0} /\ FpgaVersion \in Nat \ {0}
BY NumberAssumption DEF NumberAssumption

LEMMA CountUp ==
  ASSUME NEW m \in Nat, NEW n \in 0 .. m, n < m
  PROVE  n + 1 \in 0 .. m
OBVIOUS

\* A step whose new values are typed leads to a typed state.
LEMMA LoadRegType ==
  ASSUME TypeOK, NEW c \in Ctx, NEW l, LoadReg(c, l)
  PROVE  TypeOK'
BY ZenonT(60) DEF TypeOK, LoadReg, fpga, child, buttonVars, bounds

LEMMA StoreRegType ==
  ASSUME TypeOK, NEW c \in Ctx, NEW l, NEW value \in SUBSET InitBits,
         NEW next \in Labels, next # "setUnit",
         StoreReg(c, l, value, next), hwInit' \in SUBSET InitBits
  PROVE  TypeOK'
BY ZenonT(60) DEF TypeOK, StoreReg, Goto, fpga, child, buttonVars, bounds

LEMMA SetBitType ==
  ASSUME TypeOK, NEW c \in Ctx, NEW l, NEW bit \in InitBits,
         NEW next \in Labels, next # "setUnit", SetBit(c, l, bit, next)
  PROVE  TypeOK'
<1>1. CASE LoadReg(c, l)
  BY <1>1, LoadRegType
<1>2. CASE StoreReg(c, l, held[c] \cup {bit}, next) /\ SetSystemInit
  <2>1. held[c] \cup {bit} \in SUBSET InitBits
    BY DEF TypeOK
  <2>2. hwInit' \in SUBSET InitBits
    BY <1>2, <2>1 DEF StoreReg, SetSystemInit
  <2> QED BY <1>2, <2>1, <2>2, StoreRegType
<1> QED BY <1>1, <1>2 DEF SetBit

LEMMA ClearBitType ==
  ASSUME TypeOK, NEW c \in Ctx, NEW l, NEW bit \in InitBits,
         NEW next \in Labels, next # "setUnit", ClearBit(c, l, bit, next)
  PROVE  TypeOK'
<1>1. CASE LoadReg(c, l)
  BY <1>1, LoadRegType
<1>2. CASE StoreReg(c, l, held[c] \ {bit}, next) /\ SetSystemInit
  <2>1. held[c] \ {bit} \in SUBSET InitBits
    BY DEF TypeOK
  <2>2. hwInit' \in SUBSET InitBits
    BY <1>2, <2>1 DEF StoreReg, SetSystemInit
  <2> QED BY <1>2, <2>1, <2>2, StoreRegType
<1> QED BY <1>1, <1>2 DEF ClearBit

\* Going to any label but setUnit keeps what the type says of the labels.
LEMMA GotoType ==
  ASSUME TypeOK, NEW c \in Ctx, NEW l \in Labels, l # "setUnit", Goto(c, l),
         UNCHANGED nextUnit
  PROVE  /\ pc' \in [Ctx -> Labels]
         /\ \A d \in Ctx : pc'[d] = "setUnit" => nextUnit'[d] # ""
<1>1. pc' \in [Ctx -> Labels]
  BY DEF TypeOK, Goto
<1>2. ASSUME NEW d \in Ctx, pc'[d] = "setUnit"
      PROVE  nextUnit'[d] # ""
  BY <1>2 DEF TypeOK, Goto
<1> QED BY <1>1, <1>2

LEMMA DevicesInitType ==
  ASSUME TypeOK, NEW c \in Ctx, DevicesInit(c)
  PROVE  TypeOK'
<1>1. CASE ReadStatus(c)
  <2>1. lvdsReg' \in BOOLEAN /\ hwLvds' \in BOOLEAN
    BY <1>1, Zenon DEF ReadStatus, TypeOK
  <2>2. fpgaVer' \in {0, FpgaVersion}
    BY <1>1 DEF ReadStatus, TypeOK
  <2>3. PICK l \in Labels : l # "setUnit" /\ Goto(c, l)
    BY <1>1, Named DEF ReadStatus, Failed, Ready
  <2> QED
    BY <1>1, <2>1, <2>2, <2>3, ZenonT(60)
    DEF ReadStatus, TypeOK, Goto, Quiet, child, buttonVars, bounds, rmw
<1>2. CASE RequestReset(c)
  BY <1>2, SetBitType, Named DEF RequestReset
<1>3. CASE PollInitEnd(c) \/ PollInterruptEnd(c)
  <2>1. PICK l \in Labels : l # "setUnit" /\ Goto(c, l)
    BY <1>3, Named
    DEF PollInitEnd, PollInterruptEnd, Poll, Failed, Ready
  <2>2. timeouts' \in 0 .. MaxTimeout
    <3>1. \/ UNCHANGED timeouts
          \/ timeouts < MaxTimeout /\ timeouts' = timeouts + 1
      BY <1>3 DEF PollInitEnd, PollInterruptEnd, Poll
    <3>2. timeouts \in 0 .. MaxTimeout
      BY DEF TypeOK
    <3> QED BY <3>1, <3>2, CountUp, Numbers
  <2>3. UNCHANGED <<fpga, lvdsReg, fpgaVer, child, glitches>> /\ Quiet
    BY <1>3 DEF PollInitEnd, PollInterruptEnd, Poll
  <2> QED
    BY <2>1, <2>2, <2>3, ZenonT(60)
    DEF TypeOK, Goto, Quiet, fpga, child, buttonVars, rmw
<1>4. CASE DeviceNumber(c) \/ DeviceWindows(c)
  <2>1. idsel' \in BOOLEAN
    BY <1>4, Zenon DEF DeviceNumber, DeviceWindows, fpga, TypeOK
  <2>2. timeouts' \in 0 .. MaxTimeout
    <3>1. \/ UNCHANGED timeouts
          \/ timeouts < MaxTimeout /\ timeouts' = timeouts + 1
      BY <1>4 DEF DeviceNumber, DeviceWindows, NoWindow
    <3>2. timeouts \in 0 .. MaxTimeout
      BY DEF TypeOK
    <3> QED BY <3>1, <3>2, CountUp, Numbers
  <2>3. PICK l \in Labels : l # "setUnit" /\ Goto(c, l)
    BY <1>4, Named DEF DeviceNumber, DeviceWindows, NoWindow, Ready
  <2>4. /\ UNCHANGED <<status, hwInit, hwLvds, lvdsReg, fpgaVer, child,
                       glitches>>
        /\ Quiet
    BY <1>4 DEF DeviceNumber, DeviceWindows, fpga
  <2> QED
    BY <2>1, <2>2, <2>3, <2>4, ZenonT(60)
    DEF TypeOK, Goto, Quiet, child, buttonVars, rmw
<1>5. CASE RequestInterrupt(c)
  BY <1>5, SetBitType, Named DEF RequestInterrupt
<1> QED BY <1>1, <1>2, <1>3, <1>4, <1>5 DEF DevicesInit

LEMMA ReturnType ==
  ASSUME TypeOK, NEW c \in Ctx, Return(c)
  PROVE  running' \in BOOLEAN /\ Goto(c, "idle")
BY Zenon DEF Return, TypeOK

LEMMA ChildUnitInitType ==
  ASSUME TypeOK, NEW c \in Ctx, ChildUnitInit(c)
  PROVE  TypeOK'
<1>1. CASE ChildBegin(c)
  <2>1. PICK l \in Labels : l # "setUnit" /\ Goto(c, l)
    BY <1>1, Named DEF ChildBegin
  <2>2. unit' \in [Ctx -> UnitTypes]
    BY <1>1 DEF ChildBegin, TypeOK
  <2>3. UNCHANGED nextUnit
    BY <1>1 DEF ChildBegin
  <2>4. /\ pc' \in [Ctx -> Labels]
        /\ \A d \in Ctx : pc'[d] = "setUnit" => nextUnit'[d] # ""
    BY <2>1, <2>3, GotoType
  <2> QED
    BY <1>1, <2>2, <2>4, ZenonT(60)
    DEF ChildBegin, TypeOK, Quiet, fpga, buttonVars, bounds, rmw
<1>2. CASE ChildPower(c) \/ ChildExtReset(c) \/ ChildG4Output(c)
  BY <1>2, SetBitType, Named DEF ChildPower, ChildExtReset, ChildG4Output
<1>3. CASE ChildType(c)
  <2>1. running' \in BOOLEAN
    BY <1>3, ReturnType DEF ChildType, TypeOK
  <2>2. PICK l \in Labels : l # "setUnit" /\ Goto(c, l)
    BY <1>3, ReturnType, Named DEF ChildType
  <2> QED
    BY <1>3, <2>1, <2>2, ZenonT(60)
    DEF ChildType, TypeOK, Goto, fpga, child, buttonVars, bounds, rmw
<1>5. CASE ChildPresent(c)
  <2>1. PICK l \in Labels : l # "setUnit" /\ Goto(c, l)
    BY <1>5, Named DEF ChildPresent
  <2>2. UNCHANGED <<fpga, lvdsReg, fpgaVer, child, bounds>> /\ Quiet
    BY <1>5 DEF ChildPresent
  <2>3. /\ pc' \in [Ctx -> Labels]
        /\ \A d \in Ctx : pc'[d] = "setUnit" => nextUnit'[d] # ""
    BY <2>1, <2>2, GotoType DEF child
  <2> QED
    BY <2>2, <2>3, ZenonT(60)
    DEF TypeOK, Quiet, fpga, child, buttonVars, bounds, rmw
<1>4. CASE ChildEnabled(c)
  BY <1>4, ReturnType, Named, ZenonT(60)
  DEF ChildEnabled, TypeOK, Goto, fpga, buttonVars, bounds, rmw
<1> QED BY <1>1, <1>2, <1>3, <1>4, <1>5 DEF ChildUnitInit

LEMMA ChildUnitExitType ==
  ASSUME TypeOK, NEW c \in Ctx, ChildUnitExit(c)
  PROVE  TypeOK'
<1>1. CASE ExitBegin(c)
  <2>1. PICK l \in Labels : l # "setUnit" /\ Goto(c, l)
    BY <1>1, Named DEF ExitBegin
  <2> QED
    BY <1>1, <2>1, ZenonT(60)
    DEF ExitBegin, TypeOK, Goto, Quiet, fpga, buttonVars, bounds, rmw
<1>2. CASE ExitG4Output(c)
  <2>1. CASE LoadReg(c, "g4Off")
    BY <2>1, LoadRegType
  <2>2. CASE StoreReg(c, "g4Off", held[c] \ {"G4OUT"}, "g4Write")
             /\ UNCHANGED hwInit
    <3>1. /\ held[c] \ {"G4OUT"} \in SUBSET InitBits
          /\ hwInit' \in SUBSET InitBits
      BY <2>2 DEF TypeOK
    <3> QED BY <2>2, <3>1, StoreRegType, Named
  <2> QED BY <1>2, <2>1, <2>2 DEF ExitG4Output
<1>3. CASE ExitG4Write(c)
  BY <1>3, Named, ZenonT(60)
  DEF ExitG4Write, TypeOK, Goto, Quiet, child, buttonVars, bounds, rmw
<1>4. CASE ExitPower(c)
  <2>1. PICK l \in Labels : l # "setUnit" /\ Goto(c, l)
    BY <1>4, Named DEF ExitPower
  <2>2. UNCHANGED <<fpga, lvdsReg, fpgaVer, child, bounds>> /\ Quiet
    BY <1>4 DEF ExitPower
  <2>3. /\ pc' \in [Ctx -> Labels]
        /\ \A d \in Ctx : pc'[d] = "setUnit" => nextUnit'[d] # ""
    BY <2>1, <2>2, GotoType DEF child
  <2> QED
    BY <2>2, <2>3, ZenonT(60)
    DEF TypeOK, Quiet, fpga, child, buttonVars, bounds, rmw
<1>5. CASE ExitExtReset(c) \/ ExitPowerOff(c)
  BY <1>5, ClearBitType, Named DEF ExitExtReset, ExitPowerOff
<1>6. CASE ExitDisabled(c)
  BY <1>6, Named, ZenonT(60)
  DEF ExitDisabled, TypeOK, Goto, Quiet, fpga, buttonVars, bounds, rmw
<1> QED BY <1>1, <1>2, <1>3, <1>4, <1>5, <1>6 DEF ChildUnitExit

LEMMA SetUnitType ==
  ASSUME TypeOK, NEW c \in Ctx, SetUnit(c)
  PROVE  TypeOK'
<1>1. nextUnit[c] \in UnitTypes
  BY DEF SetUnit, At, TypeOK
<1> QED
  BY <1>1, Named, ZenonT(60)
  DEF SetUnit, TypeOK, Goto, Quiet, fpga, child, buttonVars, bounds, rmw

LEMMA RequestType ==
  ASSUME TypeOK, Request
  PROVE  TypeOK'
<1>1. ASSUME NEW l \in Loader, LoadDriver(l) PROVE TypeOK'
  BY <1>1, Named, ZenonT(60)
  DEF LoadDriver, TypeOK, Goto, Quiet, fpga, child, buttonVars, bounds, rmw
<1>2. ASSUME NEW s \in Shell, NEW on \in BOOLEAN, StoreEnable(s, on)
      PROVE  TypeOK'
  <2>1. PICK l \in Labels : l # "setUnit" /\ Goto(s, l)
    BY <1>2, Named DEF StoreEnable
  <2>2. UNCHANGED <<fpga, lvdsReg, fpgaVer, child, bounds>> /\ Quiet
    BY <1>2 DEF StoreEnable
  <2>3. /\ pc' \in [Ctx -> Labels]
        /\ \A d \in Ctx : pc'[d] = "setUnit" => nextUnit'[d] # ""
    BY <2>1, <2>2, GotoType DEF Ctx, child
  <2> QED
    BY <2>2, <2>3, ZenonT(60)
    DEF TypeOK, Quiet, fpga, child, buttonVars, bounds, rmw
<1>3. ASSUME NEW s \in Shell, NEW u \in Units, StoreNumber(s, u)
      PROVE  TypeOK'
  <2>1. u \in UnitTypes /\ u # ""
    BY UnitAssumption DEF UnitAssumption, UnitTypes
  <2>2. PICK l \in Labels : Goto(s, l)
    BY <1>3, Named DEF StoreNumber
  <2>3. nextUnit' \in [Ctx -> UnitTypes \cup {""}]
    BY <1>3, <2>1 DEF StoreNumber, TypeOK
  <2>4. pc' \in [Ctx -> Labels]
    BY <2>2 DEF Goto, TypeOK
  <2>5. ASSUME NEW d \in Ctx, pc'[d] = "setUnit"
        PROVE  nextUnit'[d] # ""
    BY <1>3, <2>1, <2>2, <2>5 DEF StoreNumber, Goto, TypeOK
  <2> QED
    BY <1>3, <2>3, <2>4, <2>5, ZenonT(60)
    DEF StoreNumber, TypeOK, Quiet, fpga, buttonVars, bounds, rmw
<1>4. ASSUME NEW m \in ButtonModes, StoreCheckMode(m) PROVE TypeOK'
  <2>1. m \in BOOLEAN
    BY NumberAssumption DEF NumberAssumption
  <2> QED
    BY <1>4, <2>1, ZenonT(60)
    DEF StoreCheckMode, TypeOK, fpga, child, bounds, rmw
<1>5. ASSUME NEW u \in Units, StoreUnit(u) PROVE TypeOK'
  <2>1. childUnit' \in UnitTypes /\ meddled' \in BOOLEAN
    BY <1>5, UnitAssumption DEF UnitAssumption, StoreUnit, TypeOK, InUse
  <2> QED
    BY <1>5, <2>1, ZenonT(60)
    DEF StoreUnit, TypeOK, Quiet, fpga, buttonVars, bounds, rmw
<1> QED BY <1>1, <1>2, <1>3, <1>4, <1>5 DEF Request

LEMMA TimerTickType ==
  ASSUME TypeOK, TimerTick
  PROVE  TypeOK'
<1>1. /\ hwInit' \in SUBSET InitBits /\ initReg' \in SUBSET InitBits
      /\ hwLvds' \in BOOLEAN
  BY DEF TimerTick, ButtonHeld, ButtonUp, Restart, SetSystemInit, TypeOK
<1>2. shutdown' \in BOOLEAN /\ resetOut' \in BOOLEAN /\ poweroff' \in BOOLEAN
  BY Zenon DEF TimerTick, ButtonHeld, ButtonUp, TypeOK
<1>3. resetCount' \in 0 .. ResetTicks + 1
  <2>1. \/ resetCount' \in {0, resetCount}
        \/ resetCount' = Capped(resetCount + 1, ResetTicks + 1)
    BY DEF TimerTick, ButtonHeld, ButtonUp
  <2>2. resetCount \in 0 .. ResetTicks + 1
    BY DEF TypeOK
  <2> QED BY <2>1, <2>2, Numbers DEF Capped
<1>4. pc' = pc \/ Goto(Timer, "status")
  BY DEF TimerTick, ButtonHeld, Restart
<1>5. /\ pc' \in [Ctx -> Labels]
      /\ \A c \in Ctx : pc'[c] = "setUnit" => nextUnit[c] # ""
  BY <1>4, Named DEF TypeOK, Goto
<1>6. UNCHANGED <<status, idsel, button, checkMode, lvdsReg, fpgaVer, child,
                  running, rmw, bounds>>
  BY DEF TimerTick
<1> QED
  BY <1>1, <1>2, <1>3, <1>5, <1>6, ZenonT(60) DEF TypeOK, child, bounds, rmw

LEMMA EnvironmentType ==
  ASSUME TypeOK, Fpga \/ FpgaGlitch \/ PressOrRelease
  PROVE  TypeOK'
<1>1. CASE Fpga
  <2>1. status' \in StatusValues
    BY <1>1 DEF Fpga, FpgaReset, FpgaInitEnd, FpgaInterruptEnd, FpgaStep,
                StatusValues
  <2>2. UNCHANGED <<hwInit, hwLvds, idsel, buttonVars, initReg, lvdsReg,
                    fpgaVer, child, running, pc, rmw, bounds>>
    BY <1>1 DEF Fpga, FpgaReset, FpgaInitEnd, FpgaInterruptEnd, FpgaStep
  <2> QED BY <2>1, <2>2, ZenonT(60) DEF TypeOK, child, buttonVars, bounds, rmw
<1>2. CASE FpgaGlitch
  <2>1. status' \in StatusValues
    BY <1>2 DEF FpgaGlitch, StatusValues
  <2>2. glitches' \in 0 .. MaxGlitch
    <3>1. glitches < MaxGlitch /\ glitches' = glitches + 1
      BY <1>2 DEF FpgaGlitch
    <3>2. glitches \in 0 .. MaxGlitch
      BY DEF TypeOK
    <3> QED BY <3>1, <3>2, CountUp, Numbers
  <2> QED
    BY <1>2, <2>1, <2>2, ZenonT(60)
    DEF FpgaGlitch, TypeOK, child, buttonVars, rmw
<1>3. CASE PressOrRelease
  BY <1>3, ZenonT(60) DEF PressOrRelease, TypeOK, fpga, child, bounds, rmw
<1> QED BY <1>1, <1>2, <1>3

LEMMA StutterType ==
  ASSUME TypeOK, UNCHANGED vars
  PROVE  TypeOK'
BY ZenonT(60) DEF TypeOK, vars, fpga, child, buttonVars, bounds, rmw

LEMMA NextType ==
  ASSUME TypeOK, [Next]_vars
  PROVE  TypeOK'
<1>1. ASSUME NEW c \in Ctx, Step(c) PROVE TypeOK'
  BY <1>1, DevicesInitType, ChildUnitInitType, ChildUnitExitType, SetUnitType
  DEF Step
<1> QED
  BY <1>1, RequestType, TimerTickType, EnvironmentType, StutterType
  DEF Next, NotLoaded

LEMMA InitType ==
  ASSUME Init
  PROVE  TypeOK
<1>1. status \in StatusValues /\ hwInit \in SUBSET InitBits
  BY DEF Init, StatusValues, InitBits
<1>2. idsel \in BOOLEAN
  BY DEF Init
<1>3. pc \in [Ctx -> Labels] /\ \A c \in Ctx : pc[c] # "setUnit"
  BY Named DEF Init
<1>4. childUnit \in UnitTypes /\ unit \in [Ctx -> UnitTypes]
  BY UnitAssumption DEF Init, UnitAssumption, UnitTypes
<1>5. /\ resetCount \in 0 .. ResetTicks + 1
      /\ glitches \in 0 .. MaxGlitch /\ timeouts \in 0 .. MaxTimeout
  <2>1. resetCount = 0 /\ glitches = 0 /\ timeouts = 0
    BY DEF Init
  <2> QED BY <2>1, Numbers
<1>6. /\ hwLvds \in BOOLEAN /\ lvdsReg \in BOOLEAN /\ button \in BOOLEAN
      /\ shutdown \in BOOLEAN /\ running \in BOOLEAN /\ resetOut \in BOOLEAN
      /\ poweroff \in BOOLEAN /\ childEnable \in BOOLEAN
      /\ meddled \in BOOLEAN
  BY DEF Init
<1>7. checkMode \in BOOLEAN
  BY NumberAssumption DEF Init, NumberAssumption
<1>8. /\ initReg \in SUBSET InitBits /\ fpgaVer \in {0, FpgaVersion}
      /\ nextUnit \in [Ctx -> UnitTypes \cup {""}]
      /\ holding \in SUBSET Ctx /\ held \in [Ctx -> SUBSET InitBits]
  BY DEF Init
<1> QED
  BY <1>1, <1>2, <1>3, <1>4, <1>5, <1>6, <1>7, <1>8 DEF TypeOK

\* Every step of a context, of the environment and of the timer keeps the
\* variables in their types: the driver's copy and the FPGA's register are
\* sets of the five bits the driver names, every label is one of its code,
\* and a process that is about to store a child unit number has one.
THEOREM TypeCorrect == Spec => []TypeOK
<1>1. Init => TypeOK
  BY InitType
<1>2. TypeOK /\ [Next]_vars => TypeOK'
  BY NextType
<1> QED BY <1>1, <1>2, PTL DEF Spec

-----------------------------------------------------------------------------
(* The shutdown sequence. *)

\* A step of a context is taken from a label other than idle, by a context
\* that can run, and moves no other context.
LEMMA StepLabel ==
  ASSUME TypeOK, NEW c \in Ctx, Step(c)
  PROVE  /\ CanRun(c) /\ pc[c] # "idle"
         /\ \A d \in Ctx : d # c => pc'[d] = pc[d]
<1>1. PICK l \in Labels : At(c, l) /\ l # "idle"
  BY Named
  DEF Step, DevicesInit, ReadStatus, DeviceWindows, NoWindow, RequestReset,
      PollInitEnd, DeviceNumber, RequestInterrupt, PollInterruptEnd, Poll,
      ChildUnitInit, ChildBegin, ChildPresent, ChildPower, ChildExtReset, ChildType,
      ChildG4Output, ChildEnabled,
      ChildUnitExit, ExitBegin, ExitG4Output, ExitG4Write, ExitPower,
      ExitExtReset, ExitPowerOff, ExitDisabled, SetUnit, SetBit, ClearBit,
      LoadReg, StoreReg
<1>2. pc' = pc \/ \E k : Goto(c, k)
  <2>1. CASE DevicesInit(c)
    BY <2>1
    DEF DevicesInit, ReadStatus, DeviceWindows, NoWindow, RequestReset,
        PollInitEnd, DeviceNumber, RequestInterrupt, PollInterruptEnd, Poll,
        SetBit, LoadReg, StoreReg
  <2>2. CASE ChildUnitInit(c)
    BY <2>2
    DEF ChildUnitInit, ChildBegin, ChildPresent, ChildPower, ChildExtReset, ChildType,
        ChildG4Output, ChildEnabled, Return, SetBit, LoadReg, StoreReg
  <2>3. CASE ChildUnitExit(c)
    BY <2>3
    DEF ChildUnitExit, ExitBegin, ExitG4Output, ExitG4Write, ExitPower,
        ExitExtReset, ExitPowerOff, ExitDisabled, ClearBit, LoadReg, StoreReg
  <2>4. CASE SetUnit(c)
    BY <2>4 DEF SetUnit
  <2> QED BY <2>1, <2>2, <2>3, <2>4 DEF Step
<1> QED BY <1>1, <1>2 DEF At, Goto, TypeOK

\* Only the tick changes the state of the shutdown sequence ...
LEMMA StepKeepsButton ==
  ASSUME NEW c \in Ctx, Step(c)
  PROVE  UNCHANGED buttonVars
<1>1. CASE DevicesInit(c)
  BY <1>1
  DEF DevicesInit, ReadStatus, DeviceWindows, NoWindow, RequestReset, Quiet,
      PollInitEnd, DeviceNumber,
      RequestInterrupt, PollInterruptEnd, Poll, SetBit, LoadReg, StoreReg
<1>2. CASE ChildUnitInit(c)
  BY <1>2
  DEF ChildUnitInit, ChildBegin, ChildPresent, ChildPower, ChildExtReset, ChildType,
  Quiet,
      ChildG4Output, ChildEnabled, Return, SetBit, LoadReg, StoreReg
<1>3. CASE ChildUnitExit(c)
  BY <1>3
  DEF ChildUnitExit, ExitBegin, ExitG4Output, ExitG4Write, ExitPower, Quiet,
      ExitExtReset, ExitPowerOff, ExitDisabled, ClearBit, LoadReg, StoreReg
<1>4. CASE SetUnit(c)
  BY <1>4 DEF SetUnit, Quiet
<1> QED BY <1>1, <1>2, <1>3, <1>4 DEF Step

\* ... and a request moves neither the timer nor the insmod, nor a register.
LEMMA RequestKeeps ==
  ASSUME TypeOK, Request
  PROVE  /\ pc'[Timer] = pc[Timer] /\ pc'[Insmod] = pc[Insmod]
         /\ UNCHANGED <<shutdown, resetCount, running, hwInit, initReg,
                        fpgaVer>>
<1>1. UNCHANGED pc \/ \E c \in Loader \cup Shell : \E l : Goto(c, l)
  BY DEF Request, LoadDriver, StoreEnable, StoreNumber, StoreUnit, StoreCheckMode
<1>2. /\ Timer \notin Loader \cup Shell /\ Insmod \notin Loader \cup Shell
      /\ Timer \in Ctx /\ Insmod \in Ctx
  BY CtxAssumption DEF CtxAssumption, Ctx
<1>3. UNCHANGED <<shutdown, resetCount, running, hwInit, initReg, fpgaVer>>
  BY DEF Request, LoadDriver, StoreEnable, StoreNumber, StoreUnit, StoreCheckMode, Quiet,
         fpga, buttonVars
<1> QED BY <1>1, <1>2, <1>3 DEF Goto, TypeOK

\* The environment moves no context and at most empties the init register.
LEMMA EnvironmentKeeps ==
  ASSUME Fpga \/ FpgaGlitch \/ PressOrRelease \/ NotLoaded \/ UNCHANGED vars
  PROVE  /\ UNCHANGED <<pc, shutdown, resetCount, running, initReg, fpgaVer>>
         /\ hwInit' \in {hwInit, {}}
<1>1. CASE Fpga
  BY <1>1 DEF Fpga, FpgaReset, FpgaInitEnd, FpgaInterruptEnd, FpgaStep,
              buttonVars
<1>2. CASE FpgaGlitch
  BY <1>2 DEF FpgaGlitch, buttonVars
<1>3. CASE PressOrRelease
  BY <1>3 DEF PressOrRelease, fpga
<1>4. CASE NotLoaded \/ UNCHANGED vars
  BY <1>4 DEF NotLoaded, vars, fpga, buttonVars
<1> QED BY <1>1, <1>2, <1>3, <1>4

LEMMA TimerIsCtx == Timer \in Ctx /\ Insmod \in Ctx /\ Timer # Insmod
BY CtxAssumption DEF CtxAssumption, Ctx

\* Whatever fails, answers late or is loaded meanwhile, the timer is idle
\* from the first tick of a press on: no restart is begun or under way
\* (cps-driver.c 1283-1328; Ver.1.0.14 asks for exactly this).
THEOREM ShutdownStopsRestarts == Spec => []NoRestartDuringShutdown
<1>1. Init => NoRestartDuringShutdown
  BY DEF Init, NoRestartDuringShutdown
<1>2. TypeOK /\ NoRestartDuringShutdown /\ [Next]_vars
        => NoRestartDuringShutdown'
  <2> SUFFICES ASSUME TypeOK, NoRestartDuringShutdown, [Next]_vars
               PROVE  NoRestartDuringShutdown'
    OBVIOUS
  <2>1. ASSUME NEW c \in Ctx, Step(c) PROVE NoRestartDuringShutdown'
    BY <2>1, StepLabel, StepKeepsButton, TimerIsCtx
    DEF NoRestartDuringShutdown, buttonVars
  <2>2. ASSUME Request PROVE NoRestartDuringShutdown'
    BY <2>2, RequestKeeps DEF NoRestartDuringShutdown, buttonVars
  <2>3. ASSUME TimerTick PROVE NoRestartDuringShutdown'
    BY <2>3
    DEF TimerTick, ButtonHeld, ButtonUp, Restart, NoRestartDuringShutdown
  <2>4. ASSUME Fpga \/ FpgaGlitch \/ PressOrRelease \/ NotLoaded
                 \/ UNCHANGED vars
        PROVE  NoRestartDuringShutdown'
    BY <2>4, EnvironmentKeeps DEF NoRestartDuringShutdown
  <2> QED BY <2>1, <2>2, <2>3, <2>4 DEF Next
<1> QED BY <1>1, <1>2, TypeCorrect, PTL DEF Spec

\* The inductive form of ShutdownMasksInterrupt for a board whose drivers
\* are loaded and whose sysfs files nobody writes: then no process can hold
\* an old value of the init register across the tick that masks it, since
\* the insmod is over before the timer is added.
MaskInv ==
  /\ NoRestartDuringShutdown
  /\ shutdown => running
  /\ ~shutdown => resetCount = 0
  /\ running => pc[Insmod] = "idle"
  /\ (shutdown /\ fpgaVer > 1) =>
       "INTERRUPT" \notin initReg /\ "INTERRUPT" \notin hwInit

LEMMA ReturnIsIdle ==
  ASSUME TypeOK, Step(Insmod), ~running, running'
  PROVE  pc'[Insmod] = "idle"
<1>1. CASE DevicesInit(Insmod)
  BY <1>1
  DEF DevicesInit, ReadStatus, DeviceWindows, NoWindow, RequestReset, Quiet,
      PollInitEnd, DeviceNumber,
      RequestInterrupt, PollInterruptEnd, Poll, SetBit, LoadReg, StoreReg
<1>2. CASE ChildUnitInit(Insmod)
  <2>1. Return(Insmod)
    BY <1>2
    DEF ChildUnitInit, ChildBegin, ChildPresent, ChildPower, ChildExtReset, ChildType,
    Quiet,
        ChildG4Output, ChildEnabled, SetBit, LoadReg, StoreReg
  <2> QED BY <2>1, TimerIsCtx DEF Return, Goto, TypeOK
<1>3. CASE ChildUnitExit(Insmod)
  BY <1>3
  DEF ChildUnitExit, ExitBegin, ExitG4Output, ExitG4Write, ExitPower, Quiet,
      ExitExtReset, ExitPowerOff, ExitDisabled, ClearBit, LoadReg, StoreReg
<1>4. CASE SetUnit(Insmod)
  BY <1>4 DEF SetUnit, Quiet
<1> QED BY <1>1, <1>2, <1>3, <1>4 DEF Step

LEMMA OnlyInsmodLoads ==
  ASSUME TypeOK, NEW c \in Ctx, Step(c), c # Insmod
  PROVE  UNCHANGED running
<1>1. CASE DevicesInit(c)
  BY <1>1
  DEF DevicesInit, ReadStatus, DeviceWindows, NoWindow, RequestReset, Quiet,
      PollInitEnd, DeviceNumber,
      RequestInterrupt, PollInterruptEnd, Poll, SetBit, LoadReg, StoreReg
<1>2. CASE ChildUnitInit(c)
  <2>1. Return(c) \/ UNCHANGED running
    BY <1>2
    DEF ChildUnitInit, ChildBegin, ChildPresent, ChildPower, ChildExtReset, ChildType,
    Quiet,
        ChildG4Output, ChildEnabled, SetBit, LoadReg, StoreReg
  <2>2. CASE Return(c)
    BY <2>2, Zenon DEF Return, TypeOK
  <2> QED BY <2>1, <2>2
<1>3. CASE ChildUnitExit(c)
  BY <1>3
  DEF ChildUnitExit, ExitBegin, ExitG4Output, ExitG4Write, ExitPower, Quiet,
      ExitExtReset, ExitPowerOff, ExitDisabled, ClearBit, LoadReg, StoreReg
<1>4. CASE SetUnit(c)
  BY <1>4 DEF SetUnit, Quiet
<1> QED BY <1>1, <1>2, <1>3, <1>4 DEF Step

\* With nobody loading a driver or writing the sysfs files, the interrupt
\* line stays down from the first tick of a press on, whatever the FPGA
\* does (cps-driver.c 1283-1293).  With such a process it need not: the
\* update it has begun before the tick writes the bit back.
THEOREM ShutdownKeepsMask ==
  ASSUME Loader = {}, Shell = {}
  PROVE  Spec => []ShutdownMasksInterrupt
<1>1. Init => MaskInv
  BY DEF Init, MaskInv, NoRestartDuringShutdown
<1>2. TypeOK /\ MaskInv /\ [Next]_vars => MaskInv'
  <2> SUFFICES ASSUME TypeOK, MaskInv, [Next]_vars PROVE MaskInv'
    OBVIOUS
  <2>1. ASSUME NEW c \in Ctx, Step(c) PROVE MaskInv'
    <3>1. c \in {Insmod, Timer}
      BY DEF Ctx
    <3>2. ~shutdown
      BY <2>1, <3>1, StepLabel
      DEF MaskInv, NoRestartDuringShutdown
    <3>3. UNCHANGED buttonVars
      BY <2>1, StepKeepsButton
    <3>4. running' => pc'[Insmod] = "idle"
      <4>1. CASE c = Insmod
        BY <2>1, <4>1, ReturnIsIdle, StepLabel DEF MaskInv
      <4>2. CASE c # Insmod
        BY <2>1, <4>2, OnlyInsmodLoads, StepLabel, TimerIsCtx DEF MaskInv
      <4> QED BY <4>1, <4>2
    <3> QED
      BY <3>2, <3>3, <3>4 DEF MaskInv, NoRestartDuringShutdown, buttonVars
  <2>2. ASSUME Request PROVE MaskInv'
    BY <2>2, RequestKeeps DEF MaskInv, NoRestartDuringShutdown, buttonVars
  <2>3. ASSUME TimerTick PROVE MaskInv'
    <3>1. CASE ButtonHeld
      <4>1. /\ shutdown' /\ running /\ UNCHANGED <<pc, fpgaVer, running>>
            /\ pc[Timer] = "idle"
        BY <2>3, <3>1 DEF TimerTick, ButtonHeld
      <4>2. fpgaVer > 1 =>
              "INTERRUPT" \notin initReg' /\ "INTERRUPT" \notin hwInit'
        <5>1. CASE resetCount = 0
          BY <3>1, <5>1 DEF ButtonHeld, SetSystemInit
        <5>2. CASE resetCount # 0
          BY <3>1, <5>2 DEF ButtonHeld, MaskInv
        <5> QED BY <5>1, <5>2
      <4> QED BY <4>1, <4>2 DEF MaskInv, NoRestartDuringShutdown
    <3>2. CASE ~ButtonHeld
      <4>1. /\ Restart /\ running /\ UNCHANGED <<shutdown, fpgaVer, running>>
            /\ pc[Timer] = "idle" /\ resetCount' \in {0, resetCount}
        BY <2>3, <3>2 DEF TimerTick, ButtonUp
      <4>2. pc'[Insmod] = pc[Insmod]
        BY <4>1, TimerIsCtx DEF Restart, Goto, TypeOK
      <4> QED BY <4>1, <4>2 DEF Restart, MaskInv, NoRestartDuringShutdown
    <3> QED BY <3>1, <3>2
  <2>4. ASSUME Fpga \/ FpgaGlitch \/ PressOrRelease \/ NotLoaded
                 \/ UNCHANGED vars
        PROVE  MaskInv'
    BY <2>4, EnvironmentKeeps DEF MaskInv, NoRestartDuringShutdown
  <2> QED BY <2>1, <2>2, <2>3, <2>4 DEF Next
<1>3. MaskInv => ShutdownMasksInterrupt
  BY DEF MaskInv, ShutdownMasksInterrupt
<1> QED BY <1>1, <1>2, <1>3, TypeCorrect, PTL DEF Spec

-----------------------------------------------------------------------------
(* The power of the child unit. *)

\* Either nothing but the base driver runs, and the FPGA fails as it likes;
\* or one process writes the sysfs files while others load their drivers,
\* and the FPGA does not fail.  Two processes that write the files, or one
\* that does while the timer restarts the FPGA, lose each other's bits.
Regime ==
  \/ Loader = {} /\ Shell = {}
  \/ MaxGlitch = 0 /\ \A s, t \in Shell : s = t

PowerBits == {"POWER", "EXTRESET", "G4OUT"}
Agrees(a, b) == \A x \in PowerBits : x \in a <=> x \in b

\* Where a context is about to update the init register, where it is in a
\* sequence that updates it, and where the FPGA need not have answered yet.
Updating == {"reset", "interrupt", "power", "extReset", "g4On", "g4Off",
             "extResetOff", "powerOff"}
Acting == Labels \ {"idle", "failed", "status", "windows"}
Early == {"idle", "failed", "status", "reset", "pollInit"}

\* One context at a time is in such a sequence: the insmod before all others,
\* the timer only where there are no processes, and a driver that is loaded
\* only looks at the status, because the FPGA has answered by then.
Turns ==
  /\ running => pc[Insmod] = "idle"
  /\ ~running => \A c \in Ctx \ {Insmod} : pc[c] = "idle"
  /\ pc[Insmod] \notin Early => ~Busy
  /\ \A l \in Loader : pc[l] \in {"idle", "status", "windows"}
  /\ (Loader # {} \/ Shell # {}) =>
       pc[Timer] = "idle" /\ (running => ~Busy)

\* What a context that is bringing the unit up, taking it down, or about to
\* store the register relies on.
Upward(c) ==
  /\ pc[c] = "extReset" => "POWER" \in initReg
  /\ ~meddled =>
       /\ pc[c] \in {"present", "power", "extReset", "childType", "g4On",
                     "enable"} => unit[c] = childUnit
       /\ pc[c] \in {"power", "extReset", "g4On", "enable"} =>
            childUnit # "none"
       /\ pc[c] \in {"childType", "g4On", "enable"} /\ childUnit # "none" =>
            "POWER" \in initReg /\ "EXTRESET" \in initReg
       /\ pc[c] = "g4On" => childUnit = "hl8548"

Downward(c) ==
  /\ pc[c] \in {"g4Write", "exitPower", "extResetOff", "powerOff", "disable",
                "setUnit"} => ("G4OUT" \notin initReg \/ meddled)
  /\ pc[c] = "powerOff" => "EXTRESET" \notin initReg

Loaded(c) == c \in holding => pc[c] \in Updating /\ Agrees(held[c], initReg)

Facts(c) == Upward(c) /\ Downward(c) /\ Loaded(c)

\* The bits are in order in the copy and in the register, and the 3G4 pin is
\* driven only for a unit that has one and is enabled, or is about to be:
\* except, for the pin, where the parameter changed the type of a unit in use.
Ordered(r) ==
  /\ "EXTRESET" \in r => "POWER" \in r
  /\ ("G4OUT" \in r /\ ~meddled) => "EXTRESET" \in r

DrivenPin ==
  ("G4OUT" \in initReg /\ ~meddled) =>
    childUnit = "hl8548" /\ (childEnable \/ \E c \in Ctx : pc[c] = "enable")

SequenceInv ==
  /\ Turns
  /\ Ordered(initReg) /\ Ordered(hwInit) /\ DrivenPin
  /\ \A c \in Ctx : Facts(c)

\* Only the parameter changes the type of a unit in use.
LEMMA StepKeepsMeddled ==
  ASSUME NEW c \in Ctx, Step(c)
  PROVE  meddled' = meddled
<1>1. CASE DevicesInit(c)
  BY <1>1
  DEF DevicesInit, ReadStatus, DeviceWindows, NoWindow, RequestReset, child,
      PollInitEnd, DeviceNumber,
      RequestInterrupt, PollInterruptEnd, Poll, SetBit, LoadReg, StoreReg
<1>2. CASE ChildUnitInit(c)
  BY <1>2
  DEF ChildUnitInit, ChildBegin, ChildPresent, ChildPower, ChildExtReset,
      ChildType, ChildG4Output, ChildEnabled, Return, SetBit, LoadReg, StoreReg,
      child
<1>3. CASE ChildUnitExit(c)
  BY <1>3
  DEF ChildUnitExit, ExitBegin, ExitG4Output, ExitG4Write, ExitPower, child,
      ExitExtReset, ExitPowerOff, ExitDisabled, ClearBit, LoadReg, StoreReg
<1>4. CASE SetUnit(c)
  BY <1>4 DEF SetUnit
<1> QED BY <1>1, <1>2, <1>3, <1>4 DEF Step

LEMMA Contexts ==
  /\ Insmod \in Ctx /\ Timer \in Ctx /\ Insmod # Timer
  /\ Loader \subseteq Ctx /\ Shell \subseteq Ctx
  /\ \A c \in Ctx : c \in Loader \/ c \in Shell \/ c = Insmod \/ c = Timer
  /\ \A l \in Loader : l \notin Shell /\ l # Insmod /\ l # Timer
  /\ \A s \in Shell : s # Insmod /\ s # Timer
BY CtxAssumption DEF CtxAssumption, Ctx

LEMMA Sole ==
  ASSUME TypeOK, Turns, Regime, NEW c \in Ctx,
         pc[c] \in Acting \/ (c \in Shell /\ running),
         NEW d \in Ctx, d # c
  PROVE  pc[d] \notin Acting
<1>1. {"idle", "status", "windows"} \cap Acting = {}
  BY DEF Acting
<1>2. CASE c = Insmod
  <2>1. ~running
    BY <1>1, <1>2, Contexts DEF Turns
  <2> QED BY <1>1, <1>2, <2>1 DEF Turns
<1>3. CASE c = Timer
  <2>1. pc[c] \in Acting
    BY <1>3, Contexts
  <2>2. running /\ Loader = {} /\ Shell = {}
    BY <1>1, <1>3, <2>1, Contexts DEF Turns
  <2>3. d = Insmod
    BY <1>3, <2>2, Contexts
  <2> QED BY <1>1, <2>2, <2>3 DEF Turns
<1>4. CASE c \in Loader
  BY <1>1, <1>4, Contexts DEF Turns
<1>5. CASE c \in Shell
  <2>1. running
    BY <1>1, <1>5, Contexts DEF Turns
  <2>2. pc[Insmod] = "idle" /\ pc[Timer] = "idle"
    BY <1>5, <2>1 DEF Turns
  <2>3. d \notin Shell
    BY <1>5 DEF Regime
  <2>4. d \in Loader => pc[d] \in {"idle", "status", "windows"}
    BY DEF Turns
  <2> QED BY <1>1, <2>2, <2>3, <2>4, Contexts
<1> QED BY <1>2, <1>3, <1>4, <1>5, Contexts

\* A context outside every sequence relies on nothing.
LEMMA RestFacts ==
  ASSUME TypeOK, NEW d \in Ctx, Facts(d), pc[d] \notin Acting,
         pc'[d] = pc[d], d \in holding' => d \in holding
  PROVE  Facts(d)'
<1>1. pc[d] \in {"idle", "failed", "status", "windows"}
  BY DEF TypeOK, Acting
<1>2. d \notin holding
  BY <1>1 DEF Facts, Loaded, Updating
<1> QED BY <1>1, <1>2 DEF Facts, Upward, Downward, Loaded

\* Where a step leads: a context that goes on past the answer of the FPGA has
\* seen it, and a driver being loaded never resets an FPGA that answered.
LEMMA StepMoves ==
  ASSUME TypeOK, NEW c \in Ctx, Step(c)
  PROVE  /\ UNCHANGED status
         /\ pc'[c] \notin Early => pc[c] \notin Early \/ ~Busy
         /\ c \in Loader /\ pc[c] \in {"status", "windows"} /\ ~Busy =>
              pc'[c] \in {"idle", "windows"}
         /\ pc[c] \in Early => UNCHANGED running
<1>1. CASE DevicesInit(c)
  <2>1. UNCHANGED <<status, running>>
    BY <1>1 DEF DevicesInit, ReadStatus, DeviceWindows, NoWindow, RequestReset,
       PollInitEnd, DeviceNumber, RequestInterrupt, PollInterruptEnd, Poll,
       SetBit, LoadReg, StoreReg, Quiet, fpga
  <2>2. pc'[c] \notin Early => pc[c] \notin Early \/ ~Busy
    <3>1. CASE ReadStatus(c)
      BY <3>1 DEF ReadStatus, Goto, TypeOK, StatusValues, Busy, Early, Failed
    <3>2. CASE RequestReset(c)
      BY <3>2 DEF RequestReset, SetBit, LoadReg, StoreReg, Goto, TypeOK, Early, At
    <3>3. CASE PollInitEnd(c)
      <4>1. \/ status \in {8, 12}
            \/ pc'[c] \in {"failed", "idle"}
        BY <3>3 DEF PollInitEnd, Poll, Goto, TypeOK, InitEnd, Failed
      <4> QED BY <4>1 DEF Early, Busy
    <3>4. CASE DeviceWindows(c) \/ DeviceNumber(c) \/ RequestInterrupt(c)
                 \/ PollInterruptEnd(c)
      BY <3>4 DEF DeviceWindows, DeviceNumber, RequestInterrupt, SetBit, LoadReg,
         StoreReg, PollInterruptEnd, Poll, At, Early
    <3> QED BY <1>1, <3>1, <3>2, <3>3, <3>4 DEF DevicesInit
  <2>3. ASSUME c \in Loader, pc[c] \in {"status", "windows"}, ~Busy
        PROVE  pc'[c] \in {"idle", "windows"}
    <3>1. c # Insmod
      BY <2>3, Contexts
    <3>2. CASE ReadStatus(c)
      BY <2>3, <3>1, <3>2 DEF ReadStatus, Goto, TypeOK, Busy, Failed
    <3>3. CASE DeviceWindows(c)
      BY <2>3, <3>1, <3>3 DEF DeviceWindows, NoWindow, Goto, TypeOK, Ready
    <3> QED BY <1>1, <2>3, <3>2, <3>3
            DEF DevicesInit, RequestReset, PollInitEnd, DeviceNumber,
                RequestInterrupt, PollInterruptEnd, Poll, SetBit, LoadReg,
                StoreReg, At
  <2> QED BY <2>1, <2>2, <2>3
<1>2. CASE ChildUnitInit(c)
  <2>1. UNCHANGED status
    BY <1>2 DEF ChildUnitInit, ChildBegin, ChildPresent, ChildPower, ChildExtReset,
         ChildType,
       ChildG4Output, ChildEnabled, SetBit, LoadReg, StoreReg, fpga
  <2>2. pc[c] \notin Early \cup {"windows"}
    BY <1>2 DEF ChildUnitInit, ChildBegin, ChildPresent, ChildPower, ChildExtReset,
         ChildType,
       ChildG4Output, ChildEnabled, SetBit, LoadReg, StoreReg, At, Early
  <2> QED BY <2>1, <2>2 DEF Early
<1>3. CASE ChildUnitExit(c) \/ SetUnit(c)
  <2>1. UNCHANGED status
    BY <1>3 DEF ChildUnitExit, ExitBegin, ExitG4Output, ExitG4Write, ExitPower,
       ExitExtReset, ExitPowerOff, ExitDisabled, ClearBit, LoadReg, StoreReg,
       SetUnit, fpga
  <2>2. pc[c] \notin Early \cup {"windows"}
    BY <1>3 DEF ChildUnitExit, ExitBegin, ExitG4Output, ExitG4Write, ExitPower,
       ExitExtReset, ExitPowerOff, ExitDisabled, ClearBit, LoadReg, StoreReg,
       SetUnit, At, Early
  <2> QED BY <2>1, <2>2 DEF Early
<1> QED BY <1>1, <1>2, <1>3 DEF Step

LEMMA StepTurns ==
  ASSUME TypeOK, Turns, NEW c \in Ctx, Step(c)
  PROVE  Turns'
<1>1. /\ pc[c] # "idle" /\ \A d \in Ctx : d # c => pc'[d] = pc[d]
      /\ status' = status
  BY StepLabel, StepMoves
<1>2. (Busy <=> Busy') /\ (c # Insmod => running /\ running' = running)
  BY <1>1, OnlyInsmodLoads DEF Busy, Turns
<1>3. CASE c = Insmod
  <2>1. ~running /\ Timer # c /\ Timer \in Ctx
    BY <1>1, <1>3, Contexts DEF Turns
  <2>2. running' => pc'[Insmod] = "idle" /\ pc[Insmod] \notin Early
    BY <1>3, <2>1, ReturnIsIdle, StepMoves
  <2>3. pc'[Insmod] \notin Early => ~Busy
    BY <1>3, StepMoves DEF Turns
  <2>4. \A d \in Ctx \ {Insmod} : pc'[d] = "idle"
    BY <1>1, <1>3, <2>1 DEF Turns
  <2> QED BY <1>2, <2>1, <2>2, <2>3, <2>4, Contexts DEF Turns
<1>4. CASE c = Timer
  BY <1>1, <1>2, <1>4, Contexts DEF Turns
<1>5. CASE c \in Loader
  <2>1. ~Busy /\ pc[c] \in {"status", "windows"}
    <3>1. Loader # {}
      BY <1>5
    <3> QED BY <1>1, <1>2, <1>5, <3>1, Contexts DEF Turns
  <2>2. pc'[c] \in {"idle", "windows"}
    BY <1>5, <2>1, StepMoves
  <2> QED BY <1>1, <1>2, <1>5, <2>2, Contexts DEF Turns
<1>6. CASE c \in Shell
  BY <1>1, <1>2, <1>6, Contexts DEF Turns
<1> QED BY <1>3, <1>4, <1>5, <1>6, Contexts

\* Which bits a store changes.
LEMMA StoreEffect ==
  ASSUME TypeOK, NEW c \in Ctx, Facts(c), NEW l, NEW value, NEW next,
         StoreReg(c, l, value, next)
  PROVE  /\ pc[c] = l /\ pc'[c] = next /\ initReg' = value
         /\ Agrees(held[c], initReg)
         /\ holding' = holding \ {c}
         /\ UNCHANGED <<childUnit, childEnable, unit, nextUnit, running, status,
                        shutdown>>
BY DEF StoreReg, At, Goto, TypeOK, Facts, Loaded, child, buttonVars

\* The load changes nothing the invariant speaks of.
LEMMA LoadSequence ==
  ASSUME TypeOK, NEW c \in Ctx, NEW l \in Updating, LoadReg(c, l),
         Ordered(initReg), Ordered(hwInit), DrivenPin, Facts(c)
  PROVE  Ordered(initReg)' /\ Ordered(hwInit)' /\ DrivenPin' /\ Facts(c)'
<1>1. /\ pc[c] = l /\ held'[c] = initReg
      /\ UNCHANGED <<initReg, hwInit, pc, childUnit, childEnable, unit,
                     meddled>>
  BY DEF LoadReg, At, TypeOK, fpga, child
<1>2. Ordered(initReg)' /\ Ordered(hwInit)' /\ DrivenPin'
  BY <1>1 DEF Ordered, DrivenPin
<1>3. Upward(c)' /\ Downward(c)'
  BY <1>1 DEF Facts, Upward, Downward
<1>4. Loaded(c)'
  BY <1>1 DEF Loaded, Agrees
<1> QED BY <1>2, <1>3, <1>4 DEF Facts

\* In a sequence only its own context can be about to enable the unit.
LEMMA OwnPin ==
  ASSUME TypeOK, Turns, Regime, DrivenPin, NEW c \in Ctx,
         pc[c] \in Acting \/ (c \in Shell /\ running), pc[c] # "enable",
         "G4OUT" \in initReg, ~meddled
  PROVE  childUnit = "hl8548" /\ childEnable
<1>1. ASSUME NEW d \in Ctx, pc[d] = "enable" PROVE FALSE
  BY <1>1, Sole DEF Acting, Labels, UnitLabels
<1> QED BY <1>1 DEF DrivenPin

LEMMA DevicesInitSequence ==
  ASSUME TypeOK, SequenceInv, Regime, NEW c \in Ctx, DevicesInit(c)
  PROVE  Ordered(initReg)' /\ Ordered(hwInit)' /\ DrivenPin' /\ Facts(c)'
<1> USE DEF SequenceInv
<1>0. meddled' = meddled
  BY StepKeepsMeddled DEF Step
<1> USE <1>0
<1>1. CASE ReadStatus(c) \/ DeviceWindows(c) \/ PollInitEnd(c) \/ DeviceNumber(c)
             \/ PollInterruptEnd(c)
  <2>1. /\ UNCHANGED <<initReg, hwInit, holding, held, childUnit, childEnable>>
        /\ pc[c] \in {"status", "windows", "pollInit", "number",
                      "pollInterrupt"}
        /\ pc'[c] \in {"failed", "idle", "reset", "windows", "childBegin",
                       "number", "interrupt"}
        /\ \A d \in Ctx : d # c => pc'[d] = pc[d]
    BY <1>1 DEF ReadStatus, DeviceWindows, NoWindow, PollInitEnd, DeviceNumber,
       PollInterruptEnd, Poll, Quiet, fpga, child, rmw, At, Goto, TypeOK, Ready,
       Failed
  <2>2. c \notin holding
    BY <2>1 DEF Facts, Loaded, Updating
  <2> QED BY <2>1, <2>2
          DEF Ordered, DrivenPin, Facts, Upward, Downward, Loaded
<1>2. CASE RequestReset(c) \/ RequestInterrupt(c)
  <2>1. CASE LoadReg(c, "reset") \/ LoadReg(c, "interrupt")
    BY <2>1, LoadSequence DEF Updating
  <2>2. CASE StoreReg(c, "reset", held[c] \cup {"RESET"}, "pollInit")
               /\ SetSystemInit
    <3>1. /\ pc[c] = "reset" /\ pc'[c] = "pollInit" /\ c \notin holding'
          /\ hwInit' = initReg' /\ Agrees(initReg', initReg)
          /\ UNCHANGED <<childUnit, childEnable>>
      BY <2>2, StoreEffect DEF SetSystemInit, Agrees, PowerBits
    <3>2. ("G4OUT" \in initReg /\ ~meddled) =>
            childUnit = "hl8548" /\ childEnable
      BY <3>1, OwnPin DEF Acting, Labels, UnitLabels
    <3> QED BY <3>1, <3>2
            DEF Agrees, PowerBits, Ordered, DrivenPin, Facts, Upward, Downward,
                Loaded
  <2>3. CASE /\ StoreReg(c, "interrupt", held[c] \cup {"INTERRUPT"},
                         "pollInterrupt")
             /\ SetSystemInit
    <3>1. /\ pc[c] = "interrupt" /\ pc'[c] = "pollInterrupt"
          /\ c \notin holding'
          /\ hwInit' = initReg' /\ Agrees(initReg', initReg)
          /\ UNCHANGED <<childUnit, childEnable>>
      BY <2>3, StoreEffect DEF SetSystemInit, Agrees, PowerBits
    <3>2. ("G4OUT" \in initReg /\ ~meddled) =>
            childUnit = "hl8548" /\ childEnable
      BY <3>1, OwnPin DEF Acting, Labels, UnitLabels
    <3> QED BY <3>1, <3>2
            DEF Agrees, PowerBits, Ordered, DrivenPin, Facts, Upward, Downward,
                Loaded
  <2> QED BY <1>2, <2>1, <2>2, <2>3 DEF RequestReset, RequestInterrupt, SetBit
<1> QED BY <1>1, <1>2 DEF DevicesInit

LEMMA ChildUnitInitSequence ==
  ASSUME TypeOK, SequenceInv, Regime, NEW c \in Ctx, ChildUnitInit(c)
  PROVE  Ordered(initReg)' /\ Ordered(hwInit)' /\ DrivenPin' /\ Facts(c)'
<1> USE DEF SequenceInv
<1>0. meddled' = meddled
  BY StepKeepsMeddled DEF Step
<1> USE <1>0
<1>1. CASE ChildBegin(c)
  <2>1. /\ UNCHANGED <<initReg, hwInit, holding, held, childUnit, childEnable>>
        /\ pc[c] = "childBegin" /\ unit'[c] = childUnit
        /\ pc'[c] = "present"
        /\ \A d \in Ctx : d # c => pc'[d] = pc[d]
    BY <1>1 DEF ChildBegin, Quiet, fpga, rmw, At, Goto, TypeOK
  <2>2. c \notin holding
    BY <2>1 DEF Facts, Loaded, Updating
  <2> QED BY <2>1, <2>2
          DEF Ordered, DrivenPin, Facts, Upward, Downward, Loaded
<1>7. CASE ChildPresent(c)
  <2>1. /\ UNCHANGED <<initReg, hwInit, holding, held, childUnit, childEnable,
                       unit>>
        /\ pc[c] = "present"
        /\ \/ childUnit # "none" /\ pc'[c] = "power"
           \/ childUnit = "none" /\ pc'[c] = "childType"
        /\ \A d \in Ctx : d # c => pc'[d] = pc[d]
    BY <1>7 DEF ChildPresent, Quiet, fpga, rmw, child, At, Goto, TypeOK
  <2>2. c \notin holding
    BY <2>1 DEF Facts, Loaded, Updating
  <2> QED BY <2>1, <2>2
          DEF Ordered, DrivenPin, Facts, Upward, Downward, Loaded
<1>2. CASE ChildPower(c)
  <2>1. CASE LoadReg(c, "power")
    BY <2>1, LoadSequence DEF Updating
  <2>2. CASE StoreReg(c, "power", held[c] \cup {"POWER"}, "extReset")
               /\ SetSystemInit
    <3>1. /\ pc[c] = "power" /\ pc'[c] = "extReset" /\ c \notin holding'
          /\ hwInit' = initReg' /\ "POWER" \in initReg'
          /\ "EXTRESET" \in initReg' <=> "EXTRESET" \in initReg
          /\ "G4OUT" \in initReg' <=> "G4OUT" \in initReg
          /\ UNCHANGED <<childUnit, childEnable, unit>>
      BY <2>2, StoreEffect DEF SetSystemInit, Agrees, PowerBits
    <3>2. ("G4OUT" \in initReg /\ ~meddled) =>
            childUnit = "hl8548" /\ childEnable
      BY <3>1, OwnPin DEF Acting, Labels, UnitLabels
    <3> QED BY <3>1, <3>2
            DEF Ordered, DrivenPin, Facts, Upward, Downward, Loaded
  <2> QED BY <1>2, <2>1, <2>2 DEF ChildPower, SetBit
<1>3. CASE ChildExtReset(c)
  <2>1. CASE LoadReg(c, "extReset")
    BY <2>1, LoadSequence DEF Updating
  <2>2. CASE StoreReg(c, "extReset", held[c] \cup {"EXTRESET"}, "childType")
               /\ SetSystemInit
    <3>1. /\ pc[c] = "extReset" /\ pc'[c] = "childType" /\ c \notin holding'
          /\ hwInit' = initReg' /\ "EXTRESET" \in initReg'
          /\ "POWER" \in initReg' <=> "POWER" \in initReg
          /\ "G4OUT" \in initReg' <=> "G4OUT" \in initReg
          /\ UNCHANGED <<childUnit, childEnable, unit>>
      BY <2>2, StoreEffect DEF SetSystemInit, Agrees, PowerBits
    <3>2. ("G4OUT" \in initReg /\ ~meddled) =>
            childUnit = "hl8548" /\ childEnable
      BY <3>1, OwnPin DEF Acting, Labels, UnitLabels
    <3> QED BY <3>1, <3>2
            DEF Ordered, DrivenPin, Facts, Upward, Downward, Loaded
  <2> QED BY <1>3, <2>1, <2>2 DEF ChildExtReset, SetBit
<1>4. CASE ChildType(c)
  <2>1. /\ UNCHANGED <<initReg, hwInit, holding, held, childUnit, childEnable,
                       unit>>
        /\ pc[c] = "childType"
        /\ \/ unit[c] = "hl8548" /\ pc'[c] = "g4On"
           \/ unit[c] = "plain" /\ pc'[c] = "enable"
           \/ pc'[c] = "idle"
        /\ \A d \in Ctx : d # c => pc'[d] = pc[d]
    BY <1>4 DEF ChildType, Return, fpga, child, rmw, At, Goto, TypeOK
  <2>2. c \notin holding
    BY <2>1 DEF Facts, Loaded, Updating
  <2>3. unit[c] = childUnit \/ meddled
    BY <2>1 DEF Facts, Upward
  <2> QED BY <2>1, <2>2, <2>3
          DEF Ordered, DrivenPin, Facts, Upward, Downward, Loaded
<1>5. CASE ChildG4Output(c)
  <2>1. CASE LoadReg(c, "g4On")
    BY <2>1, LoadSequence DEF Updating
  <2>2. CASE StoreReg(c, "g4On", held[c] \cup {"G4OUT"}, "enable")
               /\ SetSystemInit
    <3>1. /\ pc[c] = "g4On" /\ pc'[c] = "enable" /\ c \notin holding'
          /\ hwInit' = initReg' /\ "G4OUT" \in initReg'
          /\ "POWER" \in initReg' <=> "POWER" \in initReg
          /\ "EXTRESET" \in initReg' <=> "EXTRESET" \in initReg
          /\ UNCHANGED <<childUnit, childEnable, unit>>
      BY <2>2, StoreEffect DEF SetSystemInit, Agrees, PowerBits
    <3>2. meddled \/ (/\ childUnit = "hl8548"
                      /\ "POWER" \in initReg /\ "EXTRESET" \in initReg)
      BY <3>1 DEF Facts, Upward
    <3> QED BY <3>1, <3>2
            DEF Ordered, DrivenPin, Facts, Upward, Downward, Loaded
  <2> QED BY <1>5, <2>1, <2>2 DEF ChildG4Output, SetBit
<1>6. CASE ChildEnabled(c)
  <2>1. /\ UNCHANGED <<initReg, hwInit, holding, held, childUnit, unit>>
        /\ pc[c] = "enable" /\ pc'[c] = "idle" /\ childEnable' = TRUE
    BY <1>6 DEF ChildEnabled, Return, fpga, rmw, At, Goto, TypeOK
  <2>2. c \notin holding
    BY <2>1 DEF Facts, Loaded, Updating
  <2> QED BY <2>1, <2>2
          DEF Ordered, DrivenPin, Facts, Upward, Downward, Loaded
<1> QED BY <1>1, <1>2, <1>3, <1>4, <1>5, <1>6, <1>7 DEF ChildUnitInit

LEMMA ChildUnitExitSequence ==
  ASSUME TypeOK, SequenceInv, Regime, NEW c \in Ctx, ChildUnitExit(c)
  PROVE  Ordered(initReg)' /\ Ordered(hwInit)' /\ DrivenPin' /\ Facts(c)'
<1> USE DEF SequenceInv
<1>0. meddled' = meddled
  BY StepKeepsMeddled DEF Step
<1> USE <1>0
<1>1. CASE ExitBegin(c) \/ ExitPower(c)
  <2>1. /\ UNCHANGED <<initReg, hwInit, holding, held, childUnit, childEnable>>
        /\ \/ pc[c] = "exitBegin" /\ childUnit = "hl8548" /\ pc'[c] = "g4Off"
           \/ pc[c] = "exitBegin" /\ childUnit # "hl8548"
                /\ pc'[c] = "exitPower"
           \/ pc[c] = "exitPower" /\ pc'[c] \in {"extResetOff", "disable"}
        /\ \A d \in Ctx : d # c => pc'[d] = pc[d]
    BY <1>1 DEF ExitBegin, ExitPower, Quiet, fpga, rmw, child, At, Goto, TypeOK
  <2>2. c \notin holding
    BY <2>1 DEF Facts, Loaded, Updating
  <2> QED BY <2>1, <2>2
          DEF Ordered, DrivenPin, Facts, Upward, Downward, Loaded
<1>2. CASE ExitG4Output(c)
  <2>1. CASE LoadReg(c, "g4Off")
    BY <2>1, LoadSequence DEF Updating
  <2>2. CASE StoreReg(c, "g4Off", held[c] \ {"G4OUT"}, "g4Write")
               /\ UNCHANGED hwInit
    <3>1. /\ pc'[c] = "g4Write" /\ c \notin holding'
          /\ "G4OUT" \notin initReg'
          /\ "POWER" \in initReg' <=> "POWER" \in initReg
          /\ "EXTRESET" \in initReg' <=> "EXTRESET" \in initReg
      BY <2>2, StoreEffect DEF Agrees, PowerBits
    <3> QED BY <2>2, <3>1
            DEF Ordered, DrivenPin, Facts, Upward, Downward, Loaded
  <2> QED BY <1>2, <2>1, <2>2 DEF ExitG4Output
<1>3. CASE ExitG4Write(c)
  <2>1. /\ UNCHANGED <<initReg, holding, held>> /\ hwInit' = initReg
        /\ pc[c] = "g4Write" /\ pc'[c] = "exitPower"
    BY <1>3 DEF ExitG4Write, Quiet, rmw, At, Goto, TypeOK
  <2>2. c \notin holding /\ ("G4OUT" \notin initReg \/ meddled)
    BY <2>1 DEF Facts, Loaded, Updating, Downward
  <2> QED BY <2>1, <2>2
          DEF Ordered, DrivenPin, Facts, Upward, Downward, Loaded
<1>4. CASE ExitExtReset(c)
  <2>1. CASE LoadReg(c, "extResetOff")
    BY <2>1, LoadSequence DEF Updating
  <2>2. CASE StoreReg(c, "extResetOff", held[c] \ {"EXTRESET"}, "powerOff")
               /\ SetSystemInit
    <3>1. /\ pc[c] = "extResetOff" /\ pc'[c] = "powerOff" /\ c \notin holding'
          /\ hwInit' = initReg' /\ "EXTRESET" \notin initReg'
          /\ "G4OUT" \in initReg' <=> "G4OUT" \in initReg
      BY <2>2, StoreEffect DEF SetSystemInit, Agrees, PowerBits
    <3>2. "G4OUT" \notin initReg \/ meddled
      BY <3>1 DEF Facts, Downward
    <3> QED BY <3>1, <3>2
            DEF Ordered, DrivenPin, Facts, Upward, Downward, Loaded
  <2> QED BY <1>4, <2>1, <2>2 DEF ExitExtReset, ClearBit
<1>5. CASE ExitPowerOff(c)
  <2>1. CASE LoadReg(c, "powerOff")
    BY <2>1, LoadSequence DEF Updating
  <2>2. CASE StoreReg(c, "powerOff", held[c] \ {"POWER"}, "disable")
               /\ SetSystemInit
    <3>1. /\ pc[c] = "powerOff" /\ pc'[c] = "disable" /\ c \notin holding'
          /\ hwInit' = initReg'
          /\ "EXTRESET" \in initReg' <=> "EXTRESET" \in initReg
          /\ "G4OUT" \in initReg' <=> "G4OUT" \in initReg
      BY <2>2, StoreEffect DEF SetSystemInit, Agrees, PowerBits
    <3>2. ("G4OUT" \notin initReg \/ meddled) /\ "EXTRESET" \notin initReg
      BY <3>1 DEF Facts, Downward
    <3> QED BY <3>1, <3>2
            DEF Ordered, DrivenPin, Facts, Upward, Downward, Loaded
  <2> QED BY <1>5, <2>1, <2>2 DEF ExitPowerOff, ClearBit
<1>6. CASE ExitDisabled(c)
  <2>1. /\ UNCHANGED <<initReg, hwInit, holding, held>>
        /\ pc[c] = "disable" /\ pc'[c] \in {"idle", "setUnit"}
    BY <1>6 DEF ExitDisabled, Quiet, fpga, rmw, At, Goto, TypeOK
  <2>2. c \notin holding /\ ("G4OUT" \notin initReg \/ meddled)
    BY <2>1 DEF Facts, Loaded, Updating, Downward
  <2> QED BY <2>1, <2>2
          DEF Ordered, DrivenPin, Facts, Upward, Downward, Loaded
<1> QED BY <1>1, <1>2, <1>3, <1>4, <1>5, <1>6 DEF ChildUnitExit

LEMMA SetUnitSequence ==
  ASSUME TypeOK, SequenceInv, NEW c \in Ctx, SetUnit(c)
  PROVE  Ordered(initReg)' /\ Ordered(hwInit)' /\ DrivenPin' /\ Facts(c)'
<1> USE DEF SequenceInv
<1>0. meddled' = meddled
  BY StepKeepsMeddled DEF Step
<1> USE <1>0
<1>1. /\ UNCHANGED <<initReg, hwInit, holding, held>>
      /\ pc[c] = "setUnit" /\ pc'[c] = "idle"
  BY DEF SetUnit, Quiet, fpga, rmw, At, Goto, TypeOK
<1>2. c \notin holding /\ ("G4OUT" \notin initReg \/ meddled)
  BY <1>1 DEF Facts, Loaded, Updating, Downward
<1> QED BY <1>1, <1>2
        DEF Ordered, DrivenPin, Facts, Upward, Downward, Loaded

LEMMA StepHolds ==
  ASSUME NEW c \in Ctx, Step(c)
  PROVE  holding' \subseteq holding \cup {c}
<1>1. CASE DevicesInit(c)
  BY <1>1
  DEF DevicesInit, ReadStatus, DeviceWindows, NoWindow, RequestReset, Quiet,
      PollInitEnd, DeviceNumber, RequestInterrupt, PollInterruptEnd, Poll,
      SetBit, LoadReg, StoreReg, rmw
<1>2. CASE ChildUnitInit(c)
  BY <1>2
  DEF ChildUnitInit, ChildBegin, ChildPresent, ChildPower, ChildExtReset, ChildType,
  Quiet,
      ChildG4Output, ChildEnabled, Return, SetBit, LoadReg, StoreReg, rmw
<1>3. CASE ChildUnitExit(c)
  BY <1>3
  DEF ChildUnitExit, ExitBegin, ExitG4Output, ExitG4Write, ExitPower, Quiet,
      ExitExtReset, ExitPowerOff, ExitDisabled, ClearBit, LoadReg, StoreReg, rmw
<1>4. CASE SetUnit(c)
  BY <1>4 DEF SetUnit, Quiet, rmw
<1> QED BY <1>1, <1>2, <1>3, <1>4 DEF Step

\* Outside a sequence a context only looks at the FPGA.
LEMMA IdleStep ==
  ASSUME TypeOK, NEW c \in Ctx, Step(c), pc[c] \notin Acting
  PROVE  UNCHANGED <<initReg, holding, held, childUnit, childEnable, unit,
                     meddled>>
<1>1. pc[c] \in {"idle", "failed", "status", "windows"}
  BY DEF TypeOK, Acting
<1>2. CASE DevicesInit(c)
  <2>1. ReadStatus(c) \/ DeviceWindows(c)
    BY <1>1, <1>2
    DEF DevicesInit, RequestReset, PollInitEnd, DeviceNumber, RequestInterrupt,
        PollInterruptEnd, Poll, SetBit, LoadReg, StoreReg, At
  <2> QED BY <2>1 DEF ReadStatus, DeviceWindows, Quiet, child, rmw
<1>3. CASE ChildUnitInit(c)
  BY <1>1, <1>3
  DEF ChildUnitInit, ChildBegin, ChildPresent, ChildPower, ChildExtReset, ChildType,
      ChildG4Output, ChildEnabled, SetBit, LoadReg, StoreReg, At
<1>4. CASE ChildUnitExit(c) \/ SetUnit(c)
  BY <1>1, <1>4
  DEF ChildUnitExit, ExitBegin, ExitG4Output, ExitG4Write, ExitPower,
      ExitExtReset, ExitPowerOff, ExitDisabled, SetUnit, ClearBit, LoadReg,
      StoreReg, At
<1> QED BY <1>2, <1>3, <1>4 DEF Step

LEMMA StepSequence ==
  ASSUME TypeOK, SequenceInv, Regime, NEW c \in Ctx, Step(c)
  PROVE  SequenceInv'
<1>1. Turns'
  BY StepTurns DEF SequenceInv
<1>2. Ordered(initReg)' /\ Ordered(hwInit)' /\ DrivenPin' /\ Facts(c)'
  BY DevicesInitSequence, ChildUnitInitSequence, ChildUnitExitSequence,
     SetUnitSequence DEF Step
<1>3. ASSUME NEW d \in Ctx, d # c PROVE Facts(d)'
  <2>1. /\ pc'[d] = pc[d] /\ (d \in holding' => d \in holding)
        /\ meddled' = meddled
    BY <1>3, StepLabel, StepHolds, StepKeepsMeddled
  <2>2. CASE pc[c] \in Acting
    <3>1. pc[d] \notin Acting
      BY <1>3, <2>2, Sole DEF SequenceInv
    <3> QED BY <2>1, <3>1, RestFacts DEF SequenceInv
  <2>3. CASE pc[c] \notin Acting
    <3>1. UNCHANGED <<initReg, childUnit, unit, holding, held, meddled>>
      BY <2>3, IdleStep
    <3> QED BY <2>1, <3>1
            DEF SequenceInv, Facts, Upward, Downward, Loaded, Agrees
  <2> QED BY <2>2, <2>3
<1> QED BY <1>1, <1>2, <1>3 DEF SequenceInv

LEMMA RequestSequence ==
  ASSUME TypeOK, SequenceInv, Regime, Request
  PROVE  SequenceInv'
<1> USE DEF SequenceInv
<1>1. UNCHANGED <<initReg, hwInit, holding, held, childEnable, unit, running,
                  status>> /\ (meddled => meddled')
  <2>1. UNCHANGED <<initReg, hwInit, holding, held, childEnable, unit, running,
                    status>>
    BY DEF Request, LoadDriver, StoreEnable, StoreNumber, StoreUnit,
           StoreCheckMode, Quiet, fpga, child, rmw
  <2>2. ASSUME meddled PROVE meddled'
    BY <2>2, Zenon DEF Request, LoadDriver, StoreEnable, StoreNumber, StoreUnit,
                       StoreCheckMode, child
  <2> QED BY <2>1, <2>2
<1>2. Ordered(initReg)' /\ Ordered(hwInit)'
  BY <1>1 DEF Ordered
<1>3. ASSUME NEW c \in Ctx, pc[c] = "idle", pc'[c] # "idle", c \notin {Insmod, Timer},
             running, UNCHANGED <<childUnit, meddled>>,
             \A d \in Ctx : d # c => pc'[d] = pc[d],
             c \in Loader => pc'[c] = "status",
             c \in Shell => pc'[c] \in {"childBegin", "exitBegin"}
                              \/ (/\ pc'[c] = "setUnit"
                                  /\ "G4OUT" \notin initReg \/ meddled)
      PROVE  SequenceInv'
  <2>1. Turns'
    BY <1>1, <1>3, Contexts DEF Turns, Busy
  <2>2. DrivenPin'
    BY <1>1, <1>3 DEF DrivenPin
  <2>3. Facts(c)'
    <3>1. c \notin holding
      BY <1>3 DEF Facts, Loaded, Updating
    <3>2. c \in Loader \/ c \in Shell
      BY <1>3, Contexts
    <3> QED BY <1>1, <1>3, <3>1, <3>2 DEF Facts, Upward, Downward, Loaded
  <2>4. ASSUME NEW d \in Ctx, d # c PROVE Facts(d)'
    BY <1>1, <1>3, <2>4 DEF Facts, Upward, Downward, Loaded, Agrees
  <2> QED BY <1>2, <2>1, <2>2, <2>3, <2>4
<1>4. ASSUME NEW l \in Loader, LoadDriver(l) PROVE SequenceInv'
  <2>1. /\ pc[l] = "idle" /\ pc'[l] = "status" /\ running
        /\ \A d \in Ctx : d # l => pc'[d] = pc[d]
        /\ UNCHANGED <<childUnit, meddled>>
    BY <1>4, Contexts DEF LoadDriver, child, At, CanRun, Goto, TypeOK
  <2> QED BY <1>3, <2>1, Contexts
<1>5. ASSUME NEW s \in Shell, NEW on \in BOOLEAN, StoreEnable(s, on)
      PROVE  SequenceInv'
  <2>1. /\ pc[s] = "idle" /\ pc'[s] \in {"childBegin", "exitBegin"} /\ running
        /\ \A d \in Ctx : d # s => pc'[d] = pc[d]
        /\ UNCHANGED <<childUnit, meddled>>
    BY <1>5, Contexts DEF StoreEnable, child, At, CanRun, Goto, TypeOK
  <2> QED BY <1>3, <2>1, Contexts
<1>6. ASSUME NEW s \in Shell, NEW u \in Units, StoreNumber(s, u)
      PROVE  SequenceInv'
  <2>1. /\ pc[s] = "idle" /\ running
        /\ \/ childEnable /\ pc'[s] = "exitBegin"
           \/ ~childEnable /\ pc'[s] = "setUnit"
        /\ \A d \in Ctx : d # s => pc'[d] = pc[d]
        /\ UNCHANGED <<childUnit, meddled>>
    BY <1>6, Contexts DEF StoreNumber, At, CanRun, Goto, TypeOK
  <2>2. ~childEnable => ("G4OUT" \notin initReg \/ meddled)
    BY <2>1, OwnPin, Contexts
  <2> QED BY <1>3, <2>1, <2>2, Contexts
<1>7. ASSUME NEW m \in ButtonModes, StoreCheckMode(m) PROVE SequenceInv'
  <2>1. pc' = pc /\ UNCHANGED <<childUnit, meddled>>
    BY <1>7 DEF StoreCheckMode, child
  <2>2. Turns' /\ DrivenPin'
    BY <1>1, <2>1 DEF Turns, DrivenPin, Busy
  <2>3. \A d \in Ctx : Facts(d)'
    BY <1>1, <2>1 DEF Facts, Upward, Downward, Loaded, Agrees
  <2> QED BY <1>2, <2>2, <2>3
<1>8. ASSUME NEW u \in Units, StoreUnit(u) PROVE SequenceInv'
  <2>1. /\ pc' = pc /\ childUnit' = u
        /\ meddled' = (meddled \/ (InUse /\ u # childUnit))
    BY <1>8 DEF StoreUnit
  <2>2. Turns'
    BY <1>1, <2>1 DEF Turns, Busy
  <2>3. CASE u = childUnit
    <3>1. DrivenPin'
      BY <1>1, <2>1, <2>3 DEF DrivenPin
    <3>2. \A d \in Ctx : Facts(d)'
      BY <1>1, <2>1, <2>3 DEF Facts, Upward, Downward, Loaded, Agrees
    <3> QED BY <1>2, <2>2, <3>1, <3>2
  <2>4. CASE u # childUnit
    <3>1. ~meddled' => /\ ~childEnable /\ ~meddled
                       /\ \A d \in Ctx : pc[d] \notin UnitLabels
      BY <2>1, <2>4 DEF InUse
    <3>2. DrivenPin'
      BY <1>1, <2>1, <3>1 DEF DrivenPin, UnitLabels
    <3>3. \A d \in Ctx : Facts(d)'
      BY <1>1, <2>1, <3>1
      DEF Facts, Upward, Downward, Loaded, Agrees, UnitLabels
    <3> QED BY <1>2, <2>2, <3>2, <3>3
  <2> QED BY <2>3, <2>4
<1> QED BY <1>4, <1>5, <1>6, <1>7, <1>8 DEF Request

LEMMA TimerTickSequence ==
  ASSUME TypeOK, SequenceInv, TimerTick
  PROVE  SequenceInv'
<1> USE DEF SequenceInv
<1>1. /\ running /\ pc[Timer] = "idle" /\ pc[Insmod] = "idle"
      /\ UNCHANGED <<status, childUnit, childEnable, unit, meddled, running,
                     holding, held>>
  BY DEF TimerTick, Turns, child, rmw
<1>2. CASE ButtonHeld
  <2>1. /\ UNCHANGED pc /\ Agrees(initReg', initReg)
        /\ hwInit' \in {hwInit, initReg'}
    BY <1>2 DEF TimerTick, ButtonHeld, SetSystemInit, Agrees, PowerBits
  <2>2. Turns'
    BY <1>1, <2>1 DEF Turns, Busy
  <2>3. Ordered(initReg)' /\ Ordered(hwInit)' /\ DrivenPin'
    BY <1>1, <2>1 DEF Agrees, PowerBits, Ordered, DrivenPin
  <2>4. ASSUME NEW c \in Ctx PROVE Facts(c)'
    <3>1. Upward(c)' /\ Downward(c)'
      BY <1>1, <2>1 DEF Agrees, PowerBits, Facts, Upward, Downward
    <3>2. Loaded(c)'
      BY <1>1, <2>1 DEF Agrees, Facts, Loaded
    <3> QED BY <3>1, <3>2 DEF Facts
  <2> QED BY <2>2, <2>3, <2>4
<1>3. CASE Restart
  <2>1. CASE UNCHANGED <<initReg, pc>>
    <3>1. UNCHANGED hwInit
      BY <1>3 DEF Restart
    <3> QED BY <1>1, <2>1, <3>1
            DEF Turns, Busy, Ordered, DrivenPin, Facts, Upward, Downward,
                Loaded, Agrees
  <2>2. CASE Busy /\ initReg' = {} /\ Goto(Timer, "status")
    <3>1. UNCHANGED hwInit /\ Loader = {} /\ Shell = {}
      BY <1>1, <1>3, <2>2 DEF Restart, Turns
    <3>2. /\ pc'[Timer] = "status" /\ \A c \in Ctx : c # Timer => pc'[c] = pc[c]
      BY <2>2, Contexts DEF Goto, TypeOK
    <3>3. \A c \in Ctx : pc[c] = "idle" /\ pc'[c] \in {"idle", "status"}
      BY <1>1, <3>1, <3>2, Contexts
    <3>4. \A c \in Ctx : Facts(c)'
      <4>1. \A c \in Ctx : c \notin holding
        BY <3>3 DEF Facts, Loaded, Updating
      <4> QED BY <1>1, <3>3, <4>1 DEF Facts, Upward, Downward, Loaded
    <3>5. Turns'
      BY <1>1, <3>1, <3>2, Contexts DEF Turns, Early
    <3> QED BY <1>1, <2>2, <3>1, <3>4, <3>5 DEF Ordered, DrivenPin
  <2> QED BY <1>3, <2>1, <2>2 DEF Restart
<1> QED BY <1>2, <1>3 DEF TimerTick

LEMMA EnvironmentSequence ==
  ASSUME TypeOK, SequenceInv, Regime,
         Fpga \/ FpgaGlitch \/ PressOrRelease \/ NotLoaded \/ UNCHANGED vars
  PROVE  SequenceInv'
<1> USE DEF SequenceInv
<1>1. /\ UNCHANGED <<pc, initReg, holding, held, childUnit, childEnable, unit,
                     meddled, running>>
      /\ hwInit' \in {hwInit, {}}
  <2>1. CASE Fpga
    BY <2>1 DEF Fpga, FpgaReset, FpgaInitEnd, FpgaInterruptEnd, FpgaStep, child,
                rmw
  <2>2. CASE FpgaGlitch
    BY <2>2 DEF FpgaGlitch, child, rmw
  <2>3. CASE PressOrRelease
    BY <2>3 DEF PressOrRelease, fpga, child, rmw
  <2>4. CASE NotLoaded \/ UNCHANGED vars
    BY <2>4 DEF NotLoaded, vars, fpga, child, rmw
  <2> QED BY <2>1, <2>2, <2>3, <2>4
<1>2. Turns'
  <2>1. CASE ~FpgaGlitch
    <3>1. ~Busy => ~Busy'
      BY <2>1 DEF Fpga, FpgaReset, FpgaInitEnd, FpgaInterruptEnd, FpgaStep,
                  PressOrRelease, NotLoaded, vars, fpga, Busy
    <3> QED BY <1>1, <3>1 DEF Turns
  <2>2. CASE FpgaGlitch
    <3>1. running /\ MaxGlitch # 0
      <4>1. running /\ glitches < MaxGlitch /\ glitches \in 0 .. MaxGlitch
        BY <2>2 DEF FpgaGlitch, TypeOK
      <4> QED BY <4>1, Numbers
    <3>2. Loader = {} /\ Shell = {} /\ pc[Insmod] = "idle"
      BY <3>1 DEF Regime, Turns
    <3> QED BY <1>1, <3>1, <3>2 DEF Turns, Early
  <2> QED BY <2>1, <2>2
<1>3. Ordered(initReg)' /\ Ordered(hwInit)' /\ DrivenPin'
  BY <1>1 DEF Ordered, DrivenPin
<1>4. \A c \in Ctx : Facts(c)'
  BY <1>1 DEF Facts, Upward, Downward, Loaded, Agrees
<1> QED BY <1>2, <1>3, <1>4

LEMMA NextSequence ==
  ASSUME TypeOK, SequenceInv, Regime, [Next]_vars
  PROVE  SequenceInv'
BY StepSequence, RequestSequence, TimerTickSequence, EnvironmentSequence
DEF Next

LEMMA InitSequence ==
  ASSUME Init
  PROVE  SequenceInv
<1>1. /\ initReg = {} /\ holding = {} /\ ~running
      /\ pc[Insmod] = "status" /\ \A c \in Ctx : c # Insmod => pc[c] = "idle"
  BY Contexts DEF Init
<1>2. \A x \in PowerBits : x \notin hwInit
  BY DEF Init, PowerBits
<1>3. Turns
  BY <1>1, Contexts DEF Turns, Early
<1>4. Ordered(initReg) /\ Ordered(hwInit) /\ DrivenPin
  BY <1>1, <1>2 DEF Ordered, DrivenPin, PowerBits
<1>5. \A c \in Ctx : Facts(c)
  BY <1>1 DEF Facts, Upward, Downward, Loaded
<1> QED BY <1>3, <1>4, <1>5 DEF SequenceInv

\* The child unit leaves reset only with power, and its 3G4 pin is driven only
\* after that, through every enable, disable and change of type by one
\* process while any number of drivers load and time out, and through every
\* restart of an FPGA that fails at any moment.
THEOREM UnitKeepsSequence ==
  ASSUME Regime
  PROVE  Spec => []PowerSequence
<1>1. Init => SequenceInv
  BY InitSequence
<1>2. TypeOK /\ SequenceInv /\ [Next]_vars => SequenceInv'
  BY NextSequence
<1>3. SequenceInv => PowerSequence
  BY DEF SequenceInv, Ordered, PowerSequence
<1> QED BY <1>1, <1>2, <1>3, TypeCorrect, PTL DEF Spec

-----------------------------------------------------------------------------
(* What child_unit_enable tells is what the board does. *)

\* Besides, the FPGA fails neither while the driver gives up waiting for it
\* nor while the timer restarts it, and the types are those the switch names.
Calm ==
  /\ "unknown" \notin Units
  /\ \/ Loader = {} /\ Shell = {} /\ MaxTimeout = 0 /\ ~GlitchDuringRestart
     \/ MaxGlitch = 0 /\ \A s, t \in Shell : s = t

Both == {"POWER", "EXTRESET"}
Same(a, b) == \A x \in Both : x \in a <=> x \in b

BringUp == {"status", "windows", "reset", "pollInit", "number", "interrupt",
            "pollInterrupt"}
Exiting == {"exitBegin", "g4Off", "g4Write", "exitPower", "extResetOff",
            "powerOff", "disable"}

\* The register shows the two bits of the copy, unless the FPGA has failed
\* and the timer has not begun to restart it.
Dead == Busy /\ hwInit = {} /\ running /\ pc[Timer] = "idle"
Shown == Dead \/ Same(hwInit, initReg)

\* A restart begins from an empty copy and an empty register, and leaves the
\* FPGA running; before a shutdown nothing else writes to an FPGA that failed.
Restarting ==
  /\ running /\ pc[Timer] = "idle" /\ Busy /\ ~shutdown => hwInit = {}
  /\ pc[Timer] \notin Early => ~Busy
  /\ pc[Timer] = "status" => initReg = {} /\ hwInit = {} /\ Busy
  /\ MaxGlitch = 0 => pc[Timer] = "idle" /\ (running => ~Busy)
  /\ \A s \in Shell : pc[s] \notin BringUp

Off == ~childEnable /\ \A x \in Both : x \notin initReg
On == childEnable /\ \A x \in Both : x \in initReg

\* Without a unit nothing is powered, a unit is taken down only while it is
\* enabled, and the insmod powers nothing before it comes to the unit.
UnitInv ==
  /\ childUnit # "unknown" /\ \A c \in Ctx : nextUnit[c] # "unknown"
  /\ childUnit = "none" => Off
  /\ ~running => ~childEnable
  /\ ~running /\ pc[Insmod] \notin UnitLabels => Off

Leaving(c) ==
  /\ pc[c] \in Exiting => childEnable
  /\ pc[c] = "disable" => \A x \in Both : x \notin initReg
  /\ pc[c] = "setUnit" => Off

\* When no sequence is in progress the unit is up or down, or the FPGA failed
\* again before the restart got anywhere.
Down == initReg = {} /\ hwInit = {} /\ Busy
Settled ==
  running /\ pc[Timer] = "idle" /\ (\A c \in Ctx : pc[c] \notin Acting) =>
    On \/ Off \/ Down

EnabledInv ==
  /\ SequenceInv
  /\ Shown /\ Restarting /\ UnitInv /\ Settled
  /\ \A c \in Ctx : Leaving(c)

LEMMA CalmRegime == Calm => Regime
BY DEF Calm, Regime

\* A step never returns to the beginning of the bring-up, and the timer gives
\* up only at the status as long as it waits for the FPGA.
LEMMA StepLabels ==
  ASSUME TypeOK, NEW c \in Ctx, Step(c)
  PROVE  /\ pc'[c] # "status"
         /\ pc'[c] \in BringUp => pc[c] \in BringUp
         /\ c = Timer /\ pc[c] \in Early /\ pc'[c] = "idle" /\ MaxTimeout = 0 =>
              pc[c] = "status" /\ UNCHANGED <<hwInit, initReg>>
<1>1. CASE DevicesInit(c)
  <2>1. pc[c] \in BringUp
    BY <1>1 DEF DevicesInit, ReadStatus, DeviceWindows, RequestReset,
       PollInitEnd, DeviceNumber, RequestInterrupt, PollInterruptEnd, Poll,
       SetBit, LoadReg, StoreReg, At, BringUp
  <2>2. pc'[c] # "status"
    BY <1>1 DEF DevicesInit, ReadStatus, DeviceWindows, NoWindow, RequestReset,
       PollInitEnd, DeviceNumber, RequestInterrupt, PollInterruptEnd, Poll,
       SetBit, LoadReg, StoreReg, At, Goto, TypeOK, Ready, Failed
  <2>3. ASSUME pc[c] \in Early, pc'[c] = "idle", MaxTimeout = 0
        PROVE  pc[c] = "status" /\ UNCHANGED <<hwInit, initReg>>
    <3>1. ~(timeouts < MaxTimeout)
      <4>1. timeouts \in 0 .. 0
        BY <2>3 DEF TypeOK
      <4> QED BY <2>3, <4>1
    <3>2. CASE ReadStatus(c)
      <4>1. pc[c] = "status" /\ initReg' = initReg
        BY <3>2 DEF ReadStatus, At, Quiet
      <4>2. hwInit' = hwInit
        BY <3>2 DEF ReadStatus
      <4> QED BY <4>1, <4>2
    <3>3. CASE RequestReset(c)
      BY <2>3, <3>3 DEF RequestReset, SetBit, LoadReg, StoreReg, At, Goto,
         TypeOK
    <3>4. CASE PollInitEnd(c)
      BY <2>3, <3>1, <3>4 DEF PollInitEnd, Poll, Goto, TypeOK
    <3>5. CASE DeviceWindows(c) \/ DeviceNumber(c) \/ RequestInterrupt(c)
                 \/ PollInterruptEnd(c)
      BY <2>3, <3>5 DEF DeviceWindows, DeviceNumber, RequestInterrupt, SetBit,
         LoadReg, StoreReg, PollInterruptEnd, Poll, At, Early
    <3> QED BY <1>1, <3>2, <3>3, <3>4, <3>5 DEF DevicesInit
  <2> QED BY <2>1, <2>2, <2>3
<1>2. CASE ChildUnitInit(c)
  <2>1. pc[c] \notin Early /\ pc'[c] \notin BringUp
    BY <1>2 DEF ChildUnitInit, ChildBegin, ChildPresent, ChildPower, ChildExtReset,
         ChildType,
       ChildG4Output, ChildEnabled, Return, SetBit, LoadReg, StoreReg, At, Goto,
       TypeOK, Early, BringUp
  <2> QED BY <2>1 DEF BringUp
<1>3. CASE ChildUnitExit(c) \/ SetUnit(c)
  <2>1. pc[c] \notin Early /\ pc'[c] \notin BringUp
    BY <1>3 DEF ChildUnitExit, ExitBegin, ExitG4Output, ExitG4Write, ExitPower,
       ExitExtReset, ExitPowerOff, ExitDisabled, ClearBit, LoadReg, StoreReg,
       SetUnit, At, Goto, TypeOK, Early, BringUp
  <2> QED BY <2>1 DEF BringUp
<1> QED BY <1>1, <1>2, <1>3 DEF Step

\* Who takes a step finds the register as the copy says, and the timer at
\* rest unless it is the one.
LEMMA StepAlive ==
  ASSUME TypeOK, EnabledInv, NEW c \in Ctx, Step(c)
  PROVE  /\ Same(hwInit, initReg)
         /\ c # Timer => pc[Timer] = "idle"
         /\ c # Insmod => running
         /\ c = Insmod => ~running
         /\ c \in Loader \/ c \in Shell => ~Busy
<1>1. pc[c] # "idle"
  BY StepLabel
<1>2. c # Insmod => running
  BY <1>1 DEF EnabledInv, SequenceInv, Turns
<1>3. c = Insmod => ~running
  BY <1>1 DEF EnabledInv, SequenceInv, Turns
<1>4. c \in Loader \/ c \in Shell => ~Busy /\ pc[Timer] = "idle"
  <2>1. ASSUME c \in Loader \/ c \in Shell PROVE Loader # {} \/ Shell # {}
    BY <2>1
  <2> QED BY <1>2, <2>1, Contexts DEF EnabledInv, SequenceInv, Turns
<1>5. c = Insmod => pc[Timer] = "idle"
  BY <1>3, Contexts DEF EnabledInv, SequenceInv, Turns
<1>6. ~Dead
  BY <1>1, <1>3, <1>4, Contexts DEF Dead
<1> QED BY <1>2, <1>3, <1>4, <1>5, <1>6, Contexts DEF EnabledInv, Shown

LEMMA StepRestarting ==
  ASSUME TypeOK, EnabledInv, Calm, NEW c \in Ctx, Step(c)
  PROVE  Restarting'
<1> USE DEF EnabledInv
<1>1. /\ \A d \in Ctx : d # c => pc'[d] = pc[d]
      /\ status' = status /\ shutdown' = shutdown
      /\ c # Insmod => running' = running
  BY StepLabel, StepMoves, StepKeepsButton, OnlyInsmodLoads DEF buttonVars
<1>2. Busy' <=> Busy
  BY <1>1 DEF Busy
<1>3. MaxGlitch = 0 => pc'[Timer] = "idle" /\ (running' => ~Busy')
  <2>1. c # Timer \/ MaxGlitch # 0
    BY StepLabel, Contexts DEF Restarting
  <2>2. c = Insmod /\ running' => ~Busy
    BY StepMoves, StepAlive DEF SequenceInv, Turns
  <2> QED BY <1>1, <1>2, <2>1, <2>2, Contexts DEF Restarting
<1>4. pc'[Timer] \notin Early => ~Busy'
  BY <1>1, <1>2, StepMoves, Contexts DEF Restarting
<1>5. pc'[Timer] # "status"
  BY <1>1, StepLabels, StepAlive, Contexts
<1>6. \A s \in Shell : pc'[s] \notin BringUp
  BY <1>1, StepLabels, Contexts DEF Restarting
<1>7. ASSUME running', pc'[Timer] = "idle", Busy', ~shutdown'
      PROVE  hwInit' = {}
  <2>1. c = Timer
    BY <1>1, <1>2, <1>7, StepMoves, StepAlive, Contexts
    DEF SequenceInv, Turns
  <2>2. MaxGlitch # 0
    BY <1>2, <1>3, <1>7
  <2>3. MaxTimeout = 0
    BY <2>2 DEF Calm
  <2>4. pc[Timer] = "status" /\ hwInit' = hwInit
    BY <1>2, <1>7, <2>1, <2>3, StepLabels DEF Restarting
  <2> QED BY <2>4 DEF Restarting
<1> QED BY <1>3, <1>4, <1>5, <1>6, <1>7 DEF Restarting

\* The load changes nothing the invariant speaks of.
LEMMA LoadEnabled ==
  ASSUME TypeOK, EnabledInv, Same(hwInit, initReg), NEW c \in Ctx, NEW l,
         LoadReg(c, l)
  PROVE  Same(hwInit, initReg)' /\ UnitInv' /\ Leaving(c)' /\ Settled'
<1>1. UNCHANGED <<initReg, hwInit, status, pc, childUnit, childEnable, nextUnit,
                  running>>
  BY DEF LoadReg, fpga, child
<1> QED BY <1>1 DEF EnabledInv, Same, UnitInv, Leaving, Settled, On, Off, Down,
                    Busy

\* A step of a sequence that goes on leaves nothing to say of its end.
LEMMA GoesOn ==
  ASSUME TypeOK, EnabledInv, NEW c \in Ctx, Step(c), pc'[c] \in Acting,
         UNCHANGED <<childUnit, childEnable, nextUnit>>,
         childUnit = "none" => Same(initReg', initReg),
         pc'[c] \notin UnitLabels =>
           pc[c] \notin UnitLabels /\ Same(initReg', initReg)
  PROVE  UnitInv' /\ Settled'
<1>1. (running => running') /\ (c # Insmod => running)
  BY StepAlive, OnlyInsmodLoads
<1>2. UnitInv'
  BY <1>1 DEF EnabledInv, UnitInv, Off, Same
<1> QED BY <1>1, <1>2 DEF Settled

LEMMA DevicesInitEnabled ==
  ASSUME TypeOK, EnabledInv, Calm, NEW c \in Ctx, DevicesInit(c)
  PROVE  Same(hwInit, initReg)' /\ UnitInv' /\ Leaving(c)' /\ Settled'
<1> USE DEF EnabledInv
<1>1. Step(c) /\ Same(hwInit, initReg)
  BY StepAlive DEF Step
<1>2. CASE ReadStatus(c) \/ DeviceWindows(c) \/ PollInitEnd(c) \/ DeviceNumber(c)
             \/ PollInterruptEnd(c)
  <2>1. /\ UNCHANGED <<initReg, hwInit, status, childUnit, childEnable, nextUnit,
                       running>>
        /\ pc[c] \in BringUp
        /\ pc'[c] \in {"failed", "idle", "reset", "windows", "childBegin",
                       "number", "interrupt"}
        /\ \A d \in Ctx : d # c => pc'[d] = pc[d]
    BY <1>2 DEF ReadStatus, DeviceWindows, NoWindow, PollInitEnd, DeviceNumber,
       PollInterruptEnd, Poll, Quiet, fpga, child, At, Goto, TypeOK, Ready,
       Failed, BringUp
  <2>2. Same(hwInit, initReg)' /\ UnitInv' /\ Leaving(c)'
    <3>1. pc[c] \notin UnitLabels
      BY <2>1 DEF BringUp, UnitLabels
    <3> QED BY <1>1, <2>1, <3>1, Contexts
            DEF Same, UnitInv, Off, Leaving, Exiting
  <2>3. CASE c = Insmod
    BY <1>1, <2>1, <2>2, <2>3, StepAlive DEF Settled
  <2>4. CASE c = Timer
    <3>1. MaxTimeout = 0
      <4>1. MaxGlitch # 0
        BY <2>1, <2>4 DEF Restarting, BringUp
      <4> QED BY <4>1 DEF Calm
    <3>2. ~(timeouts < MaxTimeout)
      <4>1. timeouts \in 0 .. 0
        BY <3>1 DEF TypeOK
      <4> QED BY <3>1, <4>1
    <3>3. pc'[c] = "idle" => pc[c] = "status"
      <4>1. CASE ReadStatus(c)
        BY <4>1 DEF ReadStatus, At
      <4>2. CASE DeviceWindows(c)
        BY <2>4, <4>2, Contexts DEF DeviceWindows, NoWindow, Goto, TypeOK, Ready
      <4>3. CASE PollInitEnd(c) \/ PollInterruptEnd(c)
        BY <2>4, <3>2, <4>3, Contexts
        DEF PollInitEnd, PollInterruptEnd, Poll, Goto, TypeOK, Ready
      <4>4. CASE DeviceNumber(c)
        BY <4>4 DEF DeviceNumber, NoWindow, Goto, TypeOK
      <4> QED BY <1>2, <4>1, <4>2, <4>3, <4>4
    <3>4. pc[c] = "status" => Down /\ Down'
      BY <2>1, <2>4 DEF Restarting, Down, Busy
    <3> QED BY <2>2, <2>4, <3>3, <3>4 DEF Settled
  <2>5. CASE c \in Loader
    <3>1. pc[c] \in {"idle", "status", "windows"}
      BY <2>5 DEF SequenceInv, Turns
    <3>2. (\A d \in Ctx : pc'[d] \notin Acting)
             => \A d \in Ctx : pc[d] \notin Acting
      BY <2>1, <3>1 DEF Acting
    <3>3. pc'[Timer] = pc[Timer]
      BY <2>1, <2>5, Contexts
    <3> QED BY <2>1, <2>2, <3>2, <3>3 DEF Settled, On, Off, Down, Busy
  <2>6. CASE c \in Shell
    BY <2>1, <2>6 DEF Restarting
  <2> QED BY <2>2, <2>3, <2>4, <2>5, <2>6, Contexts
<1>3. CASE RequestReset(c) \/ RequestInterrupt(c)
  <2>1. CASE LoadReg(c, "reset") \/ LoadReg(c, "interrupt")
    BY <1>1, <2>1, LoadEnabled
  <2>2. CASE \/ StoreReg(c, "reset", held[c] \cup {"RESET"}, "pollInit")
                  /\ SetSystemInit
             \/ /\ StoreReg(c, "interrupt", held[c] \cup {"INTERRUPT"},
                            "pollInterrupt")
                /\ SetSystemInit
    <3>1. /\ pc[c] \in {"reset", "interrupt"}
          /\ pc'[c] \in {"pollInit", "pollInterrupt"}
          /\ hwInit' = initReg' /\ Agrees(initReg', initReg)
          /\ UNCHANGED <<childUnit, childEnable, nextUnit>>
      BY <2>2, StoreEffect DEF SequenceInv, SetSystemInit, Agrees, PowerBits
    <3>2. Same(hwInit, initReg)' /\ Same(initReg', initReg)
      BY <3>1 DEF Agrees, PowerBits, Same, Both
    <3>3. pc'[c] \in Acting /\ pc[c] \notin UnitLabels
      BY <3>1 DEF Acting, Labels, UnitLabels
    <3>4. Leaving(c)'
      BY <3>1 DEF Leaving, Exiting
    <3> QED BY <1>1, <3>1, <3>2, <3>3, <3>4, GoesOn
  <2> QED BY <1>3, <2>1, <2>2 DEF RequestReset, RequestInterrupt, SetBit
<1> QED BY <1>2, <1>3 DEF DevicesInit

LEMMA ChildUnitInitEnabled ==
  ASSUME TypeOK, EnabledInv, Calm, ~meddled, NEW c \in Ctx, ChildUnitInit(c)
  PROVE  Same(hwInit, initReg)' /\ UnitInv' /\ Leaving(c)' /\ Settled'
<1> USE DEF EnabledInv
<1>1. Step(c) /\ Same(hwInit, initReg)
  BY StepAlive DEF Step
<1>2. CASE ChildBegin(c) \/ ChildPresent(c)
  <2>1. /\ UNCHANGED <<initReg, hwInit, childUnit, childEnable, nextUnit>>
        /\ pc'[c] \in {"present", "power", "childType"}
    BY <1>2 DEF ChildBegin, ChildPresent, Quiet, fpga, child, Goto, TypeOK
  <2>2. /\ pc'[c] \in Acting /\ pc'[c] \in UnitLabels
        /\ Same(initReg', initReg) /\ Same(hwInit, initReg)'
    BY <1>1, <2>1 DEF Acting, Labels, UnitLabels, Same
  <2> QED BY <1>1, <2>1, <2>2, GoesOn DEF Leaving, Exiting
<1>3. CASE ChildPower(c) \/ ChildExtReset(c) \/ ChildG4Output(c)
  <2>1. CASE LoadReg(c, "power") \/ LoadReg(c, "extReset") \/ LoadReg(c, "g4On")
    BY <1>1, <2>1, LoadEnabled
  <2>2. CASE \/ StoreReg(c, "power", held[c] \cup {"POWER"}, "extReset")
                  /\ SetSystemInit
             \/ StoreReg(c, "extReset", held[c] \cup {"EXTRESET"}, "childType")
                  /\ SetSystemInit
             \/ StoreReg(c, "g4On", held[c] \cup {"G4OUT"}, "enable")
                  /\ SetSystemInit
    <3>1. /\ pc[c] \in {"power", "extReset", "g4On"}
          /\ pc'[c] \in {"extReset", "childType", "enable"}
          /\ hwInit' = initReg'
          /\ UNCHANGED <<childUnit, childEnable, nextUnit>>
      BY <2>2, StoreEffect DEF SequenceInv, SetSystemInit
    <3>2. Same(hwInit, initReg)' /\ childUnit # "none"
      BY <3>1 DEF Same, SequenceInv, Facts, Upward
    <3>3. pc'[c] \in Acting /\ pc'[c] \in UnitLabels
      BY <3>1 DEF Acting, Labels, UnitLabels
    <3>4. Leaving(c)'
      BY <3>1 DEF Leaving, Exiting
    <3> QED BY <1>1, <3>1, <3>2, <3>3, <3>4, GoesOn
  <2> QED BY <1>3, <2>1, <2>2 DEF ChildPower, ChildExtReset, ChildG4Output, SetBit
<1>4. CASE ChildType(c)
  <2>1. /\ UNCHANGED <<initReg, hwInit, status, childUnit, childEnable, nextUnit>>
        /\ pc[c] = "childType"
        /\ \/ unit[c] \in {"hl8548", "plain"} /\ pc'[c] \in {"g4On", "enable"}
           \/ unit[c] \notin {"hl8548", "plain"} /\ pc'[c] = "idle"
    BY <1>4 DEF ChildType, Return, fpga, child, At, Goto, TypeOK
  <2>2. Same(initReg', initReg) /\ Same(hwInit, initReg)' /\ Leaving(c)'
    BY <1>1, <2>1 DEF Same, Leaving, Exiting
  <2>3. CASE pc'[c] \in {"g4On", "enable"}
    <3>1. pc'[c] \in Acting /\ pc'[c] \in UnitLabels
      BY <2>3 DEF Acting, Labels, UnitLabels
    <3> QED BY <1>1, <2>1, <2>2, <3>1, GoesOn
  <2>4. CASE pc'[c] = "idle"
    <3>1. unit[c] = childUnit
      BY <2>1 DEF SequenceInv, Facts, Upward
    <3>2. childUnit = "none"
      BY <2>1, <2>4, <3>1 DEF UnitInv, TypeOK, UnitTypes
    <3>3. Off /\ Off'
      BY <2>1, <3>2 DEF UnitInv, Off
    <3>4. UnitInv'
      BY <2>1, <3>3 DEF UnitInv, Off
    <3> QED BY <2>2, <3>3, <3>4 DEF Settled
  <2> QED BY <2>1, <2>3, <2>4
<1>5. CASE ChildEnabled(c)
  <2>1. /\ UNCHANGED <<initReg, hwInit, childUnit, nextUnit>>
        /\ pc[c] = "enable" /\ pc'[c] = "idle" /\ childEnable' = TRUE
        /\ running' = (running \/ c = Insmod)
    BY <1>5 DEF ChildEnabled, Return, fpga, At, Goto, TypeOK
  <2>2. childUnit # "none" /\ \A x \in Both : x \in initReg
    BY <2>1 DEF SequenceInv, Facts, Upward, Both
  <2>3. Same(hwInit, initReg)' /\ Leaving(c)' /\ On'
    BY <1>1, <2>1, <2>2 DEF Same, Leaving, Exiting, On
  <2>4. running'
    BY <1>1, <2>1, StepAlive
  <2> QED BY <2>1, <2>2, <2>3, <2>4 DEF UnitInv, Settled
<1> QED BY <1>2, <1>3, <1>4, <1>5 DEF ChildUnitInit

LEMMA ChildUnitExitEnabled ==
  ASSUME TypeOK, EnabledInv, Calm, NEW c \in Ctx, ChildUnitExit(c)
  PROVE  Same(hwInit, initReg)' /\ UnitInv' /\ Leaving(c)' /\ Settled'
<1> USE DEF EnabledInv
<1>1. Step(c) /\ Same(hwInit, initReg)
  BY StepAlive DEF Step
<1>2. CASE ExitBegin(c) \/ ExitPower(c) \/ ExitG4Write(c)
  <2>1. /\ UNCHANGED <<initReg, childUnit, childEnable, nextUnit>>
        /\ hwInit' \in {hwInit, initReg}
        /\ pc[c] \in {"exitBegin", "exitPower", "g4Write"}
        /\ pc'[c] \in {"g4Off", "exitPower", "extResetOff"}
             \/ (pc'[c] = "disable" /\ childUnit = "none")
    BY <1>2 DEF ExitBegin, ExitPower, ExitG4Write, Quiet, fpga, child, At, Goto,
       TypeOK
  <2>2. childEnable /\ childUnit # "none"
    BY <2>1 DEF Leaving, Exiting, UnitInv, Off
  <2>3. Same(initReg', initReg) /\ Same(hwInit, initReg)'
    BY <1>1, <2>1 DEF Same
  <2>4. pc'[c] \in Acting /\ pc'[c] \in UnitLabels /\ Leaving(c)'
    BY <2>1, <2>2 DEF Acting, Labels, UnitLabels, Leaving
  <2> QED BY <1>1, <2>1, <2>3, <2>4, GoesOn
<1>3. CASE ExitG4Output(c)
  <2>1. CASE LoadReg(c, "g4Off")
    BY <1>1, <2>1, LoadEnabled
  <2>2. CASE StoreReg(c, "g4Off", held[c] \ {"G4OUT"}, "g4Write")
               /\ UNCHANGED hwInit
    <3>1. /\ pc[c] = "g4Off" /\ pc'[c] = "g4Write"
          /\ "POWER" \in initReg' <=> "POWER" \in initReg
          /\ "EXTRESET" \in initReg' <=> "EXTRESET" \in initReg
          /\ UNCHANGED <<childUnit, childEnable, nextUnit>>
      BY <2>2, StoreEffect DEF SequenceInv, Agrees, PowerBits
    <3>2. Same(initReg', initReg) /\ Same(hwInit, initReg)'
      BY <1>1, <2>2, <3>1 DEF Same, Both
    <3>3. pc'[c] \in Acting /\ pc'[c] \in UnitLabels /\ Leaving(c)'
      BY <3>1 DEF Acting, Labels, UnitLabels, Leaving, Exiting
    <3> QED BY <1>1, <3>1, <3>2, <3>3, GoesOn
  <2> QED BY <1>3, <2>1, <2>2 DEF ExitG4Output
<1>4. CASE ExitExtReset(c) \/ ExitPowerOff(c)
  <2>1. CASE LoadReg(c, "extResetOff") \/ LoadReg(c, "powerOff")
    BY <1>1, <2>1, LoadEnabled
  <2>2. ASSUME pc[c] \in {"extResetOff", "powerOff"}
        PROVE  childEnable /\ childUnit # "none"
    BY <2>2 DEF Leaving, Exiting, UnitInv, Off
  <2>3. CASE StoreReg(c, "extResetOff", held[c] \ {"EXTRESET"}, "powerOff")
               /\ SetSystemInit
    <3>1. /\ pc[c] = "extResetOff" /\ pc'[c] = "powerOff" /\ hwInit' = initReg'
          /\ UNCHANGED <<childUnit, childEnable, nextUnit>>
      BY <2>3, StoreEffect DEF SequenceInv, SetSystemInit
    <3>2. pc'[c] \in Acting /\ pc'[c] \in UnitLabels /\ Leaving(c)' /\ Same(hwInit, initReg)'
      BY <2>2, <3>1 DEF Acting, Labels, UnitLabels, Leaving, Exiting, Same
    <3> QED BY <1>1, <2>2, <3>1, <3>2, GoesOn
  <2>4. CASE StoreReg(c, "powerOff", held[c] \ {"POWER"}, "disable")
               /\ SetSystemInit
    <3>1. /\ pc[c] = "powerOff" /\ pc'[c] = "disable" /\ hwInit' = initReg'
          /\ "POWER" \notin initReg'
          /\ "EXTRESET" \in initReg' <=> "EXTRESET" \in initReg
          /\ UNCHANGED <<childUnit, childEnable, nextUnit>>
      BY <2>4, StoreEffect DEF SequenceInv, SetSystemInit, Agrees, PowerBits
    <3>2. "EXTRESET" \notin initReg
      BY <3>1 DEF SequenceInv, Facts, Downward
    <3>3. pc'[c] \in Acting /\ pc'[c] \in UnitLabels /\ Leaving(c)' /\ Same(hwInit, initReg)'
      BY <2>2, <3>1, <3>2 DEF Acting, Labels, UnitLabels, Leaving, Exiting, Same, Both
    <3> QED BY <1>1, <2>2, <3>1, <3>3, GoesOn
  <2> QED BY <1>4, <2>1, <2>3, <2>4 DEF ExitExtReset, ExitPowerOff, ClearBit
<1>5. CASE ExitDisabled(c)
  <2>1. /\ UNCHANGED <<initReg, hwInit, childUnit, nextUnit>>
        /\ pc[c] = "disable" /\ pc'[c] \in {"idle", "setUnit"}
        /\ childEnable' = FALSE
    BY <1>5 DEF ExitDisabled, Quiet, fpga, At, Goto, TypeOK
  <2>2. Off'
    BY <2>1 DEF Leaving, Off
  <2>3. Same(hwInit, initReg)' /\ Leaving(c)'
    BY <1>1, <2>1, <2>2 DEF Same, Leaving, Exiting
  <2> QED BY <2>1, <2>2, <2>3 DEF UnitInv, Settled
<1> QED BY <1>2, <1>3, <1>4, <1>5 DEF ChildUnitExit

LEMMA SetUnitEnabled ==
  ASSUME TypeOK, EnabledInv, NEW c \in Ctx, SetUnit(c)
  PROVE  Same(hwInit, initReg)' /\ UnitInv' /\ Leaving(c)' /\ Settled'
<1> USE DEF EnabledInv
<1>1. Same(hwInit, initReg)
  BY StepAlive DEF Step
<1>2. /\ UNCHANGED <<initReg, hwInit, childEnable>>
      /\ pc[c] = "setUnit" /\ pc'[c] = "idle" /\ childUnit' = nextUnit[c]
      /\ \A d \in Ctx : nextUnit'[d] \in {nextUnit[d], ""}
  BY DEF SetUnit, Quiet, fpga, At, Goto, TypeOK
<1>3. Off /\ Off'
  BY <1>2 DEF Leaving, Off
<1>4. Same(hwInit, initReg)' /\ Leaving(c)'
  BY <1>1, <1>2 DEF Same, Leaving, Exiting
<1>5. UnitInv'
  BY <1>2, <1>3 DEF UnitInv, Off
<1> QED BY <1>3, <1>4, <1>5 DEF Settled

LEMMA StepEnabled ==
  ASSUME TypeOK, EnabledInv, Calm, ~meddled, NEW c \in Ctx, Step(c)
  PROVE  EnabledInv'
<1>1. SequenceInv' /\ Restarting'
  BY StepSequence, StepRestarting, CalmRegime DEF EnabledInv
<1>2. Same(hwInit, initReg)' /\ UnitInv' /\ Leaving(c)' /\ Settled'
  BY DevicesInitEnabled, ChildUnitInitEnabled, ChildUnitExitEnabled,
     SetUnitEnabled DEF Step
<1>3. ASSUME NEW d \in Ctx, d # c PROVE Leaving(d)'
  <2>1. pc'[d] = pc[d]
    BY <1>3, StepLabel
  <2>2. CASE pc[c] \in Acting
    <3>1. pc[d] \notin Acting
      BY <1>3, <2>2, Sole, CalmRegime DEF EnabledInv, SequenceInv
    <3>2. pc[d] \notin Exiting /\ pc[d] # "disable" /\ pc[d] # "setUnit"
      BY <3>1 DEF Acting, Labels, UnitLabels, Exiting
    <3> QED BY <2>1, <3>2 DEF Leaving
  <2>3. CASE pc[c] \notin Acting
    <3>1. UNCHANGED <<initReg, childEnable>>
      BY <2>3, IdleStep
    <3> QED BY <2>1, <3>1 DEF EnabledInv, Leaving, Off
  <2> QED BY <2>2, <2>3
<1> QED BY <1>1, <1>2, <1>3 DEF EnabledInv, Shown

LEMMA RequestEnabled ==
  ASSUME TypeOK, EnabledInv, Calm, Request, ~meddled'
  PROVE  EnabledInv'
<1> USE DEF EnabledInv
<1>1. /\ UNCHANGED <<initReg, hwInit, childEnable, running, status, shutdown>>
      /\ SequenceInv'
  BY RequestSequence, CalmRegime
  DEF Request, LoadDriver, StoreEnable, StoreNumber, StoreUnit, StoreCheckMode, Quiet,
      fpga, child, buttonVars
<1>2. pc'[Timer] = pc[Timer] /\ pc'[Insmod] = pc[Insmod]
  BY RequestKeeps
<1>3. Shown'
  BY <1>1, <1>2 DEF Shown, Dead, Busy, Same
<1>4. ASSUME NEW c \in Ctx, c \in Loader \/ c \in Shell,
             pc[c] = "idle", childUnit' = childUnit,
             \A d \in Ctx : d # c => pc'[d] = pc[d],
             c \in Loader => pc'[c] = "status",
             c \in Shell => \/ pc'[c] = "childBegin"
                            \/ pc'[c] = "exitBegin" /\ childEnable
                            \/ pc'[c] = "setUnit" /\ Off,
             \A d \in Ctx : nextUnit'[d] # "unknown"
      PROVE  EnabledInv'
  <2>1. Restarting'
    <3>1. \A s \in Shell : pc'[s] \notin BringUp
      BY <1>4, Contexts DEF Restarting, BringUp
    <3> QED BY <1>1, <1>2, <3>1 DEF Restarting, Busy
  <2>2. UnitInv'
    BY <1>1, <1>2, <1>4 DEF UnitInv, Off
  <2>3. Leaving(c)'
    BY <1>1, <1>4, Contexts DEF Leaving, Exiting, Off
  <2>4. \A d \in Ctx : d # c => Leaving(d)'
    BY <1>1, <1>4 DEF Leaving, Off
  <2>5. Settled'
    <3>1. pc[c] \notin Acting
      BY <1>4 DEF Acting
    <3>2. (\A d \in Ctx : pc'[d] \notin Acting)
             => \A d \in Ctx : pc[d] \notin Acting
      BY <1>4, <3>1
    <3> QED BY <1>1, <1>2, <3>2 DEF Settled, On, Off, Down, Busy
  <2> QED BY <1>1, <1>3, <2>1, <2>2, <2>3, <2>4, <2>5
<1>5. ASSUME NEW l \in Loader, LoadDriver(l) PROVE EnabledInv'
  <2>1. /\ pc[l] = "idle" /\ pc'[l] = "status"
        /\ UNCHANGED <<nextUnit, childUnit>>
        /\ \A d \in Ctx : d # l => pc'[d] = pc[d]
    BY <1>5, Contexts DEF LoadDriver, At, Goto, TypeOK, child
  <2> QED BY <1>4, <2>1, Contexts DEF UnitInv
<1>6. ASSUME NEW s \in Shell, NEW on \in BOOLEAN, StoreEnable(s, on)
      PROVE  EnabledInv'
  <2>1. /\ pc[s] = "idle" /\ UNCHANGED <<nextUnit, childUnit>>
        /\ \/ pc'[s] = "childBegin"
           \/ pc'[s] = "exitBegin" /\ childEnable
        /\ \A d \in Ctx : d # s => pc'[d] = pc[d]
    BY <1>6, Contexts DEF StoreEnable, At, Goto, TypeOK, child
  <2> QED BY <1>4, <2>1, Contexts DEF UnitInv
<1>7. ASSUME NEW s \in Shell, NEW u \in Units, StoreNumber(s, u)
      PROVE  EnabledInv'
  <2>1. /\ pc[s] = "idle" /\ running
        /\ \/ childEnable /\ pc'[s] = "exitBegin"
           \/ ~childEnable /\ pc'[s] = "setUnit"
        /\ \A d \in Ctx : d # s => pc'[d] = pc[d]
        /\ nextUnit' = [nextUnit EXCEPT ![s] = u] /\ childUnit' = childUnit
    BY <1>7, Contexts DEF StoreNumber, At, CanRun, Goto, TypeOK
  <2>2. \A d \in Ctx : nextUnit'[d] # "unknown"
    BY <2>1 DEF Calm, UnitInv, TypeOK
  <2>3. ~childEnable => Off
    <3>1. \A d \in Ctx : pc[d] \notin Acting
      <4>1. pc[s] \notin Acting
        BY <2>1 DEF Acting
      <4> QED BY <2>1, <4>1, Sole, CalmRegime, Contexts DEF SequenceInv
    <3>2. ~Busy /\ pc[Timer] = "idle"
      <4>1. Shell # {}
        OBVIOUS
      <4> QED BY <2>1, <4>1 DEF SequenceInv, Turns
    <3> QED BY <2>1, <3>1, <3>2 DEF Settled, On, Down
  <2> QED BY <1>4, <2>1, <2>2, <2>3, Contexts
<1>8. ASSUME NEW m \in ButtonModes, StoreCheckMode(m) PROVE EnabledInv'
  <2>1. pc' = pc /\ UNCHANGED <<nextUnit, childUnit>>
    BY <1>8 DEF StoreCheckMode, child
  <2>2. Restarting' /\ UnitInv' /\ Settled'
    BY <1>1, <2>1 DEF Restarting, UnitInv, Settled, On, Off, Down, Busy
  <2>3. \A d \in Ctx : Leaving(d)'
    BY <1>1, <2>1 DEF Leaving, Off
  <2> QED BY <1>1, <1>3, <2>2, <2>3
<1>9. ASSUME NEW u \in Units, StoreUnit(u) PROVE EnabledInv'
  <2>1. /\ pc' = pc /\ nextUnit' = nextUnit /\ childUnit' = u
        /\ pc[Timer] = "idle" /\ pc[Insmod] # "failed"
        /\ u # childUnit => ~InUse
    BY <1>9 DEF StoreUnit
  <2>2. Restarting' /\ Settled'
    BY <1>1, <2>1 DEF Restarting, Settled, On, Off, Down, Busy
  <2>3. \A d \in Ctx : Leaving(d)'
    BY <1>1, <2>1 DEF Leaving, Off
  <2>4. u # childUnit => Off
    <3>1. ASSUME u # childUnit, ~running PROVE Off
      BY <2>1, <3>1, Contexts DEF InUse, UnitInv
    <3>2. ASSUME u # childUnit, running PROVE Off
      <4>1. ~childEnable /\ \A d \in Ctx : pc[d] \notin UnitLabels
        BY <2>1, <3>2 DEF InUse
      <4>2. ASSUME NEW d \in Ctx PROVE pc[d] \notin Acting
        <5>1. pc[d] \in {"idle", "failed", "status", "windows"}
                \cup UnitLabels \cup BringUp
          BY DEF TypeOK, Labels, BringUp
        <5>2. CASE d \in Shell
          BY <4>1, <5>1, <5>2 DEF Restarting, Acting, BringUp
        <5>3. CASE d \in Loader
          BY <5>3 DEF SequenceInv, Turns, Acting
        <5>4. CASE d = Timer \/ d = Insmod
          BY <2>1, <3>2, <5>4 DEF SequenceInv, Turns, Acting
        <5> QED BY <5>2, <5>3, <5>4, Contexts
      <4>3. On \/ Off \/ Down
        BY <2>1, <3>2, <4>2 DEF Settled
      <4> QED BY <4>1, <4>3 DEF On, Off, Down
    <3> QED BY <3>1, <3>2
  <2>5. UnitInv'
    <3>1. u # "unknown"
      BY DEF Calm
    <3> QED BY <1>1, <2>1, <2>4, <3>1 DEF UnitInv, Off
  <2> QED BY <1>1, <1>3, <2>2, <2>3, <2>5
<1> QED BY <1>5, <1>6, <1>7, <1>8, <1>9 DEF Request

LEMMA TimerTickEnabled ==
  ASSUME TypeOK, EnabledInv, TimerTick
  PROVE  EnabledInv'
<1> USE DEF EnabledInv
<1>1. /\ running /\ pc[Timer] = "idle" /\ pc[Insmod] = "idle"
      /\ UNCHANGED <<status, childUnit, childEnable, nextUnit, running>>
      /\ SequenceInv'
  BY TimerTickSequence DEF TimerTick, SequenceInv, Turns, child
<1>2. CASE ButtonHeld
  <2>1. /\ UNCHANGED pc /\ Same(initReg', initReg) /\ shutdown'
        /\ hwInit' = hwInit \/ hwInit' = initReg'
        /\ initReg' \subseteq initReg
    BY <1>2 DEF TimerTick, ButtonHeld, SetSystemInit, Same, Both
  <2>2. Shown'
    BY <1>1, <2>1 DEF Shown, Dead, Same, Busy
  <2>3. Restarting'
    BY <1>1, <2>1 DEF Restarting, Busy
  <2>4. UnitInv' /\ \A c \in Ctx : Leaving(c)'
    BY <1>1, <2>1 DEF UnitInv, Leaving, Off, Same
  <2>5. Settled'
    <3>1. Down => Down'
      BY <1>1, <2>1 DEF Down, Busy
    <3> QED BY <1>1, <2>1, <3>1 DEF Settled, On, Off, Same
  <2> QED BY <1>1, <2>2, <2>3, <2>4, <2>5
<1>3. CASE Restart /\ UNCHANGED shutdown
  <2>1. CASE UNCHANGED <<initReg, pc>>
    <3>1. UNCHANGED hwInit
      BY <1>3 DEF Restart
    <3> QED BY <1>1, <1>3, <2>1, <3>1
            DEF Shown, Dead, Same, Restarting, UnitInv, Leaving, Settled, On,
                Off, Down, Busy
  <2>2. CASE ~shutdown /\ Busy /\ initReg' = {} /\ Goto(Timer, "status")
    <3>1. UNCHANGED hwInit /\ Loader = {} /\ Shell = {} /\ hwInit = {}
      BY <1>1, <1>3, <2>2 DEF Restart, SequenceInv, Turns, Restarting
    <3>2. /\ pc'[Timer] = "status" /\ \A c \in Ctx : c # Timer => pc'[c] = pc[c]
      BY <2>2, Contexts DEF Goto, TypeOK
    <3>3. \A c \in Ctx : pc'[c] \in {"idle", "status"}
      BY <1>1, <3>1, <3>2, Contexts
    <3>4. Shown' /\ Settled'
      BY <2>2, <3>1, <3>2 DEF Shown, Same, Settled
    <3>5. Restarting'
      BY <1>1, <2>2, <3>1, <3>2, Contexts DEF Restarting, Busy, Early
    <3>6. UnitInv' /\ \A c \in Ctx : Leaving(c)'
      BY <1>1, <2>2, <3>3 DEF UnitInv, Leaving, Exiting, Off
    <3> QED BY <1>1, <3>4, <3>5, <3>6
  <2> QED BY <1>3, <2>1, <2>2 DEF Restart
<1> QED BY <1>2, <1>3 DEF TimerTick, ButtonUp

LEMMA EnvironmentEnabled ==
  ASSUME TypeOK, EnabledInv, Calm,
         Fpga \/ FpgaGlitch \/ PressOrRelease \/ NotLoaded \/ UNCHANGED vars
  PROVE  EnabledInv'
<1> USE DEF EnabledInv
<1>1. /\ UNCHANGED <<pc, initReg, childUnit, childEnable, nextUnit, running,
                     shutdown>>
      /\ SequenceInv'
  <2>1. CASE Fpga
    BY <2>1, EnvironmentSequence, CalmRegime
    DEF Fpga, FpgaReset, FpgaInitEnd, FpgaInterruptEnd, FpgaStep, child,
        buttonVars
  <2>2. CASE FpgaGlitch
    BY <2>2, EnvironmentSequence, CalmRegime DEF FpgaGlitch, child, buttonVars
  <2>3. CASE PressOrRelease
    BY <2>3, EnvironmentSequence, CalmRegime DEF PressOrRelease, child
  <2>4. CASE NotLoaded \/ UNCHANGED vars
    BY <2>4, EnvironmentSequence, CalmRegime
    DEF NotLoaded, vars, child, buttonVars
  <2> QED BY <2>1, <2>2, <2>3, <2>4
<1>2. UnitInv' /\ \A c \in Ctx : Leaving(c)'
  BY <1>1 DEF UnitInv, Leaving, Off
<1>3. CASE FpgaGlitch
  <2>1. hwInit' = {} /\ Busy' /\ running
    BY <1>3 DEF FpgaGlitch, Busy
  <2>2. pc[Timer] = "idle" /\ MaxGlitch # 0
    <3>1. MaxGlitch # 0
      <4>1. glitches < MaxGlitch /\ glitches \in 0 .. MaxGlitch
        BY <1>3 DEF FpgaGlitch, TypeOK
      <4> QED BY <4>1, Numbers
    <3> QED BY <1>3, <3>1 DEF Calm, FpgaGlitch
  <2>3. Shown' /\ Restarting'
    BY <1>1, <2>1, <2>2 DEF Shown, Dead, Restarting, Early
  <2>4. Settled'
    BY <1>1, <2>1 DEF Settled, On, Off, Down
  <2> QED BY <1>1, <1>2, <2>3, <2>4
<1>4. CASE ~FpgaGlitch
  <2>1. /\ hwInit' = hwInit
        /\ Busy' => Busy
        /\ hwInit = {} /\ Busy => Busy'
    BY <1>4 DEF Fpga, FpgaReset, FpgaInitEnd, FpgaInterruptEnd, FpgaStep,
                PressOrRelease, NotLoaded, vars, fpga, Busy
  <2>2. Shown' /\ Restarting'
    BY <1>1, <2>1 DEF Shown, Dead, Same, Restarting
  <2>3. Settled'
    BY <1>1, <2>1 DEF Settled, On, Off, Down
  <2> QED BY <1>1, <1>2, <2>2, <2>3
<1> QED BY <1>3, <1>4

LEMMA InitEnabled ==
  ASSUME Init, Calm
  PROVE  EnabledInv
<1>1. /\ initReg = {} /\ ~running /\ ~childEnable
      /\ pc[Insmod] = "status" /\ \A c \in Ctx : c # Insmod => pc[c] = "idle"
      /\ \A c \in Ctx : nextUnit[c] = ""
  BY Contexts DEF Init
<1>2. childUnit # "unknown"
  BY DEF Init, Calm
<1>3. Same(hwInit, initReg)
  BY DEF Init, Same, Both
<1>4. Restarting
  BY <1>1, Contexts DEF Restarting, Early, BringUp
<1>5. UnitInv /\ \A c \in Ctx : Leaving(c)
  BY <1>1, <1>2 DEF UnitInv, Leaving, Exiting, Off
<1> QED BY <1>1, <1>3, <1>4, <1>5, InitSequence DEF EnabledInv, Shown, Settled

\* The parameter's mark stays.
LEMMA MeddledStays ==
  ASSUME TypeOK, [Next]_vars, meddled
  PROVE  meddled'
<1>1. ASSUME NEW c \in Ctx, Step(c) PROVE meddled'
  BY <1>1, StepKeepsMeddled
<1>2. CASE Request
  BY <1>2 DEF Request, LoadDriver, StoreEnable, StoreNumber, StoreUnit,
              StoreCheckMode, child
<1>3. CASE TimerTick \/ Fpga \/ FpgaGlitch \/ PressOrRelease \/ NotLoaded
             \/ UNCHANGED vars
  BY <1>3 DEF TimerTick, Fpga, FpgaReset, FpgaInitEnd, FpgaInterruptEnd,
              FpgaStep, FpgaGlitch, PressOrRelease, NotLoaded, vars, child
<1> QED BY <1>1, <1>2, <1>3 DEF Next

\* What child_unit_enable tells user space is what the board does, whenever no
\* call is in progress and no restart is due: through every restart of an FPGA
\* that fails between restarts, and through every change one process makes
\* while drivers are loaded and time out.  An FPGA that answers after the
\* driver has given up waiting, or a unit number without a name, breaks it.
THEOREM UnitIsAsShown ==
  ASSUME Calm
  PROVE  Spec => []PoweredIffEnabled
<1>1. Init => EnabledInv
  BY InitEnabled
<1>2. TypeOK /\ (~meddled => EnabledInv) /\ [Next]_vars
        => (~meddled => EnabledInv)'
  <2> SUFFICES ASSUME TypeOK, ~meddled => EnabledInv, [Next]_vars, ~meddled'
               PROVE  EnabledInv'
    OBVIOUS
  <2>1. ~meddled
    BY MeddledStays
  <2>2. ASSUME NEW c \in Ctx, Step(c) PROVE EnabledInv'
    BY <2>1, <2>2, StepEnabled
  <2>3. CASE Request
    BY <2>1, <2>3, RequestEnabled
  <2>4. CASE TimerTick
    BY <2>1, <2>4, TimerTickEnabled
  <2>5. CASE Fpga \/ FpgaGlitch \/ PressOrRelease \/ NotLoaded
               \/ UNCHANGED vars
    BY <2>1, <2>5, EnvironmentEnabled
  <2> QED BY <2>2, <2>3, <2>4, <2>5 DEF Next
<1>3. TypeOK /\ (~meddled => EnabledInv) => PoweredIffEnabled
  <2> SUFFICES ASSUME TypeOK, EnabledInv, running, AllIdle, ~Busy
               PROVE  childEnable <=> {"POWER", "EXTRESET"} \subseteq hwInit
    BY DEF PoweredIffEnabled
  <2>1. pc[Timer] = "idle" /\ \A c \in Ctx : pc[c] \notin Acting
    BY Contexts DEF AllIdle, Acting
  <2>2. On \/ Off
    BY <2>1 DEF EnabledInv, Settled, Down
  <2>3. Same(hwInit, initReg)
    BY DEF EnabledInv, Shown, Dead
  <2> QED BY <2>2, <2>3 DEF On, Off, Same, Both, TypeOK
<1> QED BY <1>1, <1>2, <1>3, TypeCorrect, PTL DEF Spec

-------------------------------------------------------------------------------
(* The ROM of a device: the invariant                                        *)

OneClient == \E c : Client = {c}

Array(f) == f = [c \in Client |-> f[c]]

\* What is left of a get, a set or an erase.
GetSteps   == {GetScript, <<"addrInit", "read", "disable", "fetch">>,
               <<"read", "disable", "fetch">>, <<"disable", "fetch">>, <<"fetch">>, <<>>}
SetSteps   == {SetScript, <<"enable", "addrInit", "write", "disable">>,
               <<"addrInit", "write", "disable">>, <<"write", "disable">>, <<"disable">>,
                    <<>>}
EraseSteps == {EraseScript, <<"erase", "disable">>, <<"disable">>, <<>>}

Getting(c) == call[c].op = "read" \/ (call[c].op = "write" /\ gets[c] < 3)
Setting(c) == \/ call[c].op = "write" /\ gets[c] = 3
              \/ call[c].op = "clear" /\ cnt[c] \in 1..Cleared
Erasing(c) == call[c].op = "clear" /\ cnt[c] > Cleared

First(s) == IF s = <<>> THEN "end" ELSE Head(s)

\* The step that the device and the registers are still to see: a command that
\* has been obeyed is over for them while the client sleeps.
Ahead(c) == First(IF cmd = "done" THEN Tail(script[c]) ELSE script[c])

RomTypes ==
  /\ rom \in [Cell -> Content] /\ reg \in [Cell -> Content] /\ access \in BOOLEAN
  /\ Array(call) /\ Array(script) /\ Array(started) /\ Array(gets) /\ Array(chkVal)
  /\ Array(count) /\ Array(cnt) /\ Array(result) /\ Array(refusals) /\ Array(woken)

\* One command is given at a time, by the client that sleeps.
CommandInv(c) ==
  /\ call[c] \in Calls \cup {Idle} /\ gets[c] \in 0..3 /\ cnt[c] \in 0..(Cleared + 1)
  /\ count[c] \in 0..6 /\ refusals[c] \in 0..Attempts /\ woken[c] \in BOOLEAN
  /\ \/ script[c] = <<>>
     \/ Getting(c) /\ script[c] \in GetSteps
     \/ Setting(c) /\ script[c] \in SetSteps
     \/ Erasing(c) /\ script[c] \in EraseSteps
  /\ started[c] \in BOOLEAN
  /\ IF started[c] THEN script[c] # <<>> /\ Head(script[c]) \in Commands /\ cmd \in {Head(script[c]), "done"}
                   ELSE cmd = "none"
  /\ access <=> Ahead(c) \in {"addrInit", "read", "write", "erase", "disable"}

\* What a get has brought so far is what the ROM holds.
GetInv(c) ==
  (call[c].op \in {"read", "write"} /\ gets[c] < 3) =>
    /\ Ahead(c) \in {"disable", "fetch"} => reg = rom
    /\ Ahead(c) = "end" => chkVal[c] = rom[call[c].cell]

\* Before the ROM is written in an attempt every earlier attempt was refused;
\* after it the ROM holds the value or has refused this one too.
WriteInv(c) ==
  call[c].op = "write" =>
    /\ (gets[c] = 3 /\ Ahead(c) \in {"put", "enable", "addrInit", "write"}) => refusals[c] = count[c]
    /\ (gets[c] = 3 /\ Ahead(c) \in {"enable", "addrInit", "write"}) => reg[call[c].cell] = call[c].val
    /\ (gets[c] < 3 \/ Ahead(c) \in {"disable", "end"}) =>
         rom[call[c].cell] = call[c].val \/ refusals[c] = count[c] + 1

Blank(c, x) == rom[x] \in {0, Erased} \/ (woken[c] /\ (x >= Cleared \/ refusals[c] > 0))

\* The registers a clear has passed are zero, and so is the ROM after the last;
\* an erase that was not cut short does the rest.
ClearInv(c) ==
  call[c].op = "clear" =>
    /\ cnt[c] <= Cleared =>
         \A x \in Cell : x + 1 < cnt[c] \/ (x + 1 = cnt[c] /\ Ahead(c) # "put") => reg[x] = 0
    /\ cnt[c] = Cleared /\ Ahead(c) \in {"disable", "end"} /\ refusals[c] = 0 => rom = reg
    /\ cnt[c] > Cleared /\ refusals[c] = 0 =>
         \A x \in Cell : x + 1 <= Cleared => rom[x] \in {0, Erased}
    /\ cnt[c] > Cleared /\ Ahead(c) \in {"disable", "end"} /\ ~woken[c] =>
         \A x \in Cell : rom[x] = Erased

Stored(c, v) == rom[result[c].of.cell] = v \/ (result[c].of.op = "write" /\ refusals[c] = Attempts)

ResultInv(c) ==
  /\ result[c] = [of |-> result[c].of, says |-> result[c].says, val |-> result[c].val]
  /\ call[c] # Idle => result[c].of = call[c] /\ result[c].says = "running"
  /\ result[c].says = "success" => Stored(c, result[c].val)
  /\ result[c].says = "cleared" => \A x \in Cell : Blank(c, x)

ClientInv(c) == CommandInv(c) /\ GetInv(c) /\ WriteInv(c) /\ ClearInv(c) /\ ResultInv(c)
RomInv == RomTypes /\ \A c \in Client : ClientInv(c)

\* The steps follow each other.
LEMMA GetFollows ==
  ASSUME NEW s \in GetSteps, s # <<>>
  PROVE  /\ Tail(s) \in GetSteps /\ Head(s) \in {"enable", "addrInit", "read", "disable", "fetch"}
         /\ First(s) = Head(s)
         /\ Head(s) = "enable" => First(Tail(s)) = "addrInit"
         /\ Head(s) = "addrInit" => First(Tail(s)) = "read"
         /\ Head(s) = "read" => First(Tail(s)) = "disable"
         /\ Head(s) = "disable" => First(Tail(s)) = "fetch"
         /\ Head(s) = "fetch" => First(Tail(s)) = "end"
<1> DEFINE s4 == <<"addrInit", "read", "disable", "fetch">>
           s3 == <<"read", "disable", "fetch">>
           s2 == <<"disable", "fetch">>
           s1 == <<"fetch">>
<1>1. Tail(GetScript) = s4 /\ Tail(s4) = s3 /\ Tail(s3) = s2 /\ Tail(s2) = s1 /\ Tail(s1) = <<>>
  BY DEF GetScript
<1>2. /\ Head(GetScript) = "enable" /\ Head(s4) = "addrInit" /\ Head(s3) = "read"
      /\ Head(s2) = "disable" /\ Head(s1) = "fetch"
  BY DEF GetScript
<1>3. GetScript # <<>> /\ s4 # <<>> /\ s3 # <<>> /\ s2 # <<>> /\ s1 # <<>>
  BY DEF GetScript
<1>4. s \in {GetScript, s4, s3, s2, s1} /\ GetSteps = {GetScript, s4, s3, s2, s1, <<>>}
  BY DEF GetSteps
<1> HIDE DEF s4, s3, s2, s1
<1> QED BY <1>1, <1>2, <1>3, <1>4 DEF First

LEMMA SetFollows ==
  ASSUME NEW s \in SetSteps, s # <<>>
  PROVE  /\ Tail(s) \in SetSteps /\ Head(s) \in {"put", "enable", "addrInit", "write", "disable"}
         /\ First(s) = Head(s)
         /\ Head(s) = "put" => First(Tail(s)) = "enable"
         /\ Head(s) = "enable" => First(Tail(s)) = "addrInit"
         /\ Head(s) = "addrInit" => First(Tail(s)) = "write"
         /\ Head(s) = "write" => First(Tail(s)) = "disable"
         /\ Head(s) = "disable" => First(Tail(s)) = "end"
<1> DEFINE s4 == <<"enable", "addrInit", "write", "disable">>
           s3 == <<"addrInit", "write", "disable">>
           s2 == <<"write", "disable">>
           s1 == <<"disable">>
<1>1. Tail(SetScript) = s4 /\ Tail(s4) = s3 /\ Tail(s3) = s2 /\ Tail(s2) = s1 /\ Tail(s1) = <<>>
  BY DEF SetScript
<1>2. /\ Head(SetScript) = "put" /\ Head(s4) = "enable" /\ Head(s3) = "addrInit"
      /\ Head(s2) = "write" /\ Head(s1) = "disable"
  BY DEF SetScript
<1>3. SetScript # <<>> /\ s4 # <<>> /\ s3 # <<>> /\ s2 # <<>> /\ s1 # <<>>
  BY DEF SetScript
<1>4. s \in {SetScript, s4, s3, s2, s1} /\ SetSteps = {SetScript, s4, s3, s2, s1, <<>>}
  BY DEF SetSteps
<1> HIDE DEF s4, s3, s2, s1
<1> QED BY <1>1, <1>2, <1>3, <1>4 DEF First

LEMMA EraseFollows ==
  ASSUME NEW s \in EraseSteps, s # <<>>
  PROVE  /\ Tail(s) \in EraseSteps /\ Head(s) \in {"enable", "erase", "disable"}
         /\ First(s) = Head(s)
         /\ Head(s) = "enable" => First(Tail(s)) = "erase"
         /\ Head(s) = "erase" => First(Tail(s)) = "disable"
         /\ Head(s) = "disable" => First(Tail(s)) = "end"
<1> DEFINE s2 == <<"erase", "disable">>
           s1 == <<"disable">>
<1>1. Tail(EraseScript) = s2 /\ Tail(s2) = s1 /\ Tail(s1) = <<>>
  BY DEF EraseScript
<1>2. Head(EraseScript) = "enable" /\ Head(s2) = "erase" /\ Head(s1) = "disable"
  BY DEF EraseScript
<1>3. EraseScript # <<>> /\ s2 # <<>> /\ s1 # <<>>
  BY DEF EraseScript
<1>4. s \in {EraseScript, s2, s1} /\ EraseSteps = {EraseScript, s2, s1, <<>>}
  BY DEF EraseSteps
<1> HIDE DEF s2, s1
<1> QED BY <1>1, <1>2, <1>3, <1>4 DEF First

LEMMA ArraySet ==
  ASSUME NEW f, Array(f), NEW c \in Client, NEW v
  PROVE  Array([f EXCEPT ![c] = v]) /\ [f EXCEPT ![c] = v][c] = v
BY DEF Array

LEMMA CallsAre ==
  /\ Idle \notin Calls /\ Idle.op = "idle"
  /\ \A x \in Calls :
       /\ x.op \in {"clear", "read", "write"}
       /\ x.op \in {"read", "write"} => x.cell \in Cell
BY DEF Calls, Idle

\* Where a step of a script is: before the device, or after it.
LEMMA AtIs ==
  ASSUME NEW c \in Client
  PROVE  /\ cmd # "done" => Ahead(c) = First(script[c])
         /\ cmd = "done" => Ahead(c) = First(Tail(script[c]))
         /\ script[c] = <<>> /\ cmd # "done" => Ahead(c) = "end"
         /\ script[c] # <<>> /\ cmd # "done" => Ahead(c) = Head(script[c])
BY DEF Ahead, First

\* What is between two scripts.
LEMMA Between ==
  ASSUME NEW c \in Client, CommandInv(c), script[c] = <<>>
  PROVE  ~started[c] /\ cmd = "none" /\ Ahead(c) = "end" /\ access = FALSE
<1>1. ~started[c] /\ cmd = "none"
  BY DEF CommandInv
<1>2. Ahead(c) = "end"
  BY <1>1, AtIs
<1> QED BY <1>1, <1>2 DEF CommandInv, RomTypes

\* The one client's invariant is everybody's.
LEMMA OneForAll ==
  ASSUME NEW c, Client = {c}, RomTypes', CommandInv(c)', GetInv(c)', WriteInv(c)', ClearInv(c)', ResultInv(c)'
  PROVE  RomInv'
BY DEF RomInv, ClientInv

\* A register is set; only sets put values.
LEMMA PutKeeps ==
  ASSUME NEW c, Client = {c}, RomInv, Put(c)
  PROVE  RomInv'
<1> DEFINE s == script[c]
<1>1. c \in Client /\ RomTypes /\ CommandInv(c) /\ GetInv(c) /\ WriteInv(c) /\ ClearInv(c) /\ ResultInv(c)
  BY DEF RomInv, ClientInv
<1>2. s # <<>> /\ Head(s) = "put"
  BY DEF Put, Doing
<1>3. Setting(c) /\ s \in SetSteps
  BY <1>1, <1>2, GetFollows, EraseFollows DEF CommandInv
<1>4. Tail(s) \in SetSteps /\ First(Tail(s)) = "enable"
  BY <1>2, <1>3, SetFollows
<1>5. Array(script') /\ script'[c] = Tail(s)
  BY <1>1, ArraySet DEF RomTypes, Put, Advance
<1>6. reg' = [reg EXCEPT ![Num(c)] = ValW(c)]
      /\ UNCHANGED <<rom, access, cmd, call, started, gets, chkVal, count, cnt, result,
                     refusals, woken>>
  BY DEF Put, loop, history
<1>7. cmd = "none" /\ ~started[c]
  BY <1>1, <1>2 DEF CommandInv, Commands
<1>8. Ahead(c) = "put" /\ Ahead(c)' = "enable"
  <2>1. Ahead(c) = "put"
    BY <1>1, <1>2, <1>7, AtIs
  <2>2. cmd' # "done"
    BY <1>6, <1>7
  <2> QED BY <1>4, <1>5, <2>1, <2>2 DEF Ahead
<1>9. Setting(c)' /\ call' = call
  BY <1>3, <1>6 DEF Setting
<1>10. CommandInv(c)'
  BY <1>1, <1>4, <1>5, <1>6, <1>7, <1>8, <1>9 DEF CommandInv
<1>11. GetInv(c)'
  BY <1>8 DEF GetInv
<1>12. Num(c) \in Cell /\ ValW(c) \in Content
  <2>1. CASE call[c].op = "clear"
    <3>1. cnt[c] \in 1..Cleared /\ Num(c) = cnt[c] - 1 /\ ValW(c) = 0
      BY <1>3, <2>1 DEF Setting, Num, ValW
    <3> QED BY <3>1, CellsAssumption, ValueAssumption DEF Cell, Content
  <2>2. CASE call[c].op = "write"
    <3>1. call[c] \in Calls
      BY <1>1, <2>2, CallsAre DEF CommandInv
    <3>2. call[c].cell \in Cell /\ call[c].val \in Value
      BY <2>2, <3>1 DEF Calls
    <3> QED BY <2>2, <3>2 DEF Num, ValW, Content
  <2> QED BY <1>3, <2>1, <2>2 DEF Setting
<1>13. reg' \in [Cell -> Content] /\ reg'[Num(c)] = ValW(c)
       /\ \A x \in Cell : x # Num(c) => reg'[x] = reg[x]
  BY <1>1, <1>6, <1>12 DEF RomTypes
<1>14. RomTypes'
  BY <1>1, <1>5, <1>6, <1>13 DEF RomTypes
<1>15. ClearInv(c)'
  <2> SUFFICES ASSUME call[c].op = "clear" PROVE ClearInv(c)'
    BY <1>6 DEF ClearInv
  <2>1. cnt[c] \in 1..Cleared /\ cnt'[c] = cnt[c] /\ Num(c) = cnt[c] - 1 /\ ValW(c) = 0
    BY <1>3, <1>6 DEF Setting, Num, ValW
  <2>2. ASSUME NEW x \in Cell, x + 1 < cnt[c] \/ x + 1 = cnt[c] PROVE reg'[x] = 0
    <3>1. CASE x + 1 < cnt[c]
      <4>1. x # cnt[c] - 1 /\ cnt[c] <= Cleared
        BY <2>1, <3>1, CellsAssumption DEF Cell
      <4>2. reg[x] = 0
        BY <1>1, <3>1, <4>1 DEF ClearInv
      <4> QED BY <1>13, <2>1, <4>1, <4>2
    <3>2. CASE x + 1 = cnt[c]
      <4>1. x = cnt[c] - 1
        BY <2>1, <3>2, CellsAssumption DEF Cell
      <4> QED BY <1>13, <2>1, <4>1
    <3> QED BY <2>2, <3>1, <3>2
  <2>3. ~(cnt[c] > Cleared)
    BY <2>1, CellsAssumption
  <2> QED BY <1>8, <2>1, <2>2, <2>3 DEF ClearInv
<1>16. ResultInv(c)'
  BY <1>1, <1>6 DEF ResultInv, Stored, Blank
<1>17. WriteInv(c)'
  <2> SUFFICES ASSUME call[c].op = "write" PROVE WriteInv(c)'
    BY <1>6 DEF WriteInv
  <2>1. gets[c] = 3 /\ gets'[c] = 3
    BY <1>3, <1>6 DEF Setting
  <2>2. refusals'[c] = count'[c]
    BY <1>1, <1>6, <1>8, <2>1 DEF WriteInv
  <2>3. Num(c) = call[c].cell /\ ValW(c) = call[c].val
    BY DEF Num, ValW
  <2>4. reg'[call'[c].cell] = call'[c].val
    BY <1>6, <1>13, <2>3
  <2> QED BY <1>8, <2>1, <2>2, <2>4 DEF WriteInv
<1> QED BY <1>10, <1>11, <1>14, <1>15, <1>16, <1>17, OneForAll

\* A get brings what the registers, and so the ROM, hold.
LEMMA FetchKeeps ==
  ASSUME NEW c, Client = {c}, RomInv, Fetch(c)
  PROVE  RomInv'
<1> DEFINE s == script[c]
<1>1. c \in Client /\ RomTypes /\ CommandInv(c) /\ GetInv(c) /\ WriteInv(c) /\ ClearInv(c) /\ ResultInv(c)
  BY DEF RomInv, ClientInv
<1>2. s # <<>> /\ Head(s) = "fetch"
  BY DEF Fetch, Doing
<1>3. Getting(c) /\ s \in GetSteps
  BY <1>1, <1>2, SetFollows, EraseFollows DEF CommandInv
<1>4. Tail(s) \in GetSteps /\ First(Tail(s)) = "end"
  BY <1>2, <1>3, GetFollows
<1>5. /\ Array(script') /\ script'[c] = Tail(s) /\ Array(chkVal') /\ chkVal'[c] = reg[Num(c)]
  BY <1>1, ArraySet DEF RomTypes, Fetch, Advance
<1>6. UNCHANGED <<rom, reg, access, cmd, call, started, gets, count, cnt, result, refusals, woken>>
  BY DEF Fetch, device, history
<1>7. cmd = "none" /\ ~started[c]
  BY <1>1, <1>2 DEF CommandInv, Commands
<1>8. Ahead(c) = "fetch" /\ Ahead(c)' = "end"
  <2>1. Ahead(c) = "fetch"
    BY <1>1, <1>2, <1>7, AtIs
  <2>2. cmd' # "done"
    BY <1>6, <1>7
  <2> QED BY <1>4, <1>5, <2>1, <2>2 DEF Ahead
<1>9. Getting(c)' /\ call[c].op # "clear" /\ Num(c) = call[c].cell
  BY <1>3, <1>6 DEF Getting, Num
<1>10. CommandInv(c)'
  BY <1>1, <1>4, <1>5, <1>6, <1>7, <1>8, <1>9 DEF CommandInv
<1>11. GetInv(c)'
  <2> SUFFICES ASSUME call[c].op \in {"read", "write"}, gets[c] < 3 PROVE chkVal'[c] = rom[call[c].cell]
    BY <1>6, <1>8 DEF GetInv
  <2>1. reg = rom
    BY <1>1, <1>8 DEF GetInv
  <2> QED BY <1>5, <1>9, <2>1
<1>12. RomTypes'
  BY <1>1, <1>5, <1>6 DEF RomTypes
<1>13. ClearInv(c)'
  BY <1>6, <1>9 DEF ClearInv
<1>14. ResultInv(c)'
  BY <1>1, <1>6 DEF ResultInv, Stored, Blank
<1>15. WriteInv(c)'
  <2> SUFFICES ASSUME call[c].op = "write" PROVE WriteInv(c)'
    BY <1>6 DEF WriteInv
  <2>1. gets[c] < 3 /\ gets'[c] < 3 /\ gets'[c] # 3
    BY <1>1, <1>3, <1>6 DEF Getting
  <2>2. rom'[call'[c].cell] = call'[c].val \/ refusals'[c] = count'[c] + 1
    BY <1>1, <1>6, <2>1 DEF WriteInv
  <2> QED BY <2>1, <2>2 DEF WriteInv
<1> QED BY <1>10, <1>11, <1>12, <1>13, <1>14, <1>15, OneForAll

\* A command that is given is not obeyed yet.
LEMMA StartKeeps ==
  ASSUME NEW c, Client = {c}, RomInv, StartCommand(c)
  PROVE  RomInv'
<1> DEFINE s == script[c]
<1>1. c \in Client /\ RomTypes /\ CommandInv(c) /\ GetInv(c) /\ WriteInv(c) /\ ClearInv(c) /\ ResultInv(c)
  BY DEF RomInv, ClientInv
<1>2. s # <<>> /\ Head(s) \in Commands /\ ~started[c] /\ cmd' = Head(s)
  BY DEF StartCommand, Doing
<1>3. Array(started') /\ started'[c] = TRUE
  BY <1>1, ArraySet DEF RomTypes, StartCommand
<1>4. UNCHANGED <<rom, reg, access, call, script, gets, chkVal, count, cnt, result, refusals, woken>>
  BY DEF StartCommand, loop, history
<1>5. cmd = "none" /\ cmd' # "done"
  BY <1>1, <1>2 DEF CommandInv, Commands
<1>6. Ahead(c)' = Ahead(c)
  BY <1>4, <1>5 DEF Ahead
<1>7. Getting(c)' = Getting(c) /\ Setting(c)' = Setting(c) /\ Erasing(c)' = Erasing(c)
  BY <1>4 DEF Getting, Setting, Erasing
<1>8. CommandInv(c)'
  BY <1>1, <1>2, <1>3, <1>4, <1>6, <1>7 DEF CommandInv
<1>9. GetInv(c)' /\ WriteInv(c)' /\ ClearInv(c)'
  BY <1>1, <1>4, <1>6 DEF GetInv, WriteInv, ClearInv
<1>10. RomTypes' /\ ResultInv(c)'
  BY <1>1, <1>3, <1>4 DEF RomTypes, ResultInv, Stored, Blank
<1> QED BY <1>8, <1>9, <1>10, OneForAll

\* Only an erase may be over before the device has obeyed.
LEMMA FinishKeeps ==
  ASSUME NEW c, Client = {c}, RomInv, FinishCommand(c)
  PROVE  RomInv'
<1> DEFINE s == script[c]
<1>1. c \in Client /\ RomTypes /\ CommandInv(c) /\ GetInv(c) /\ WriteInv(c) /\ ClearInv(c) /\ ResultInv(c)
  BY DEF RomInv, ClientInv
<1>2. started[c] /\ s # <<>> /\ Head(s) \in Commands /\ cmd' = "none"
      /\ (cmd = "done" \/ (cmd = "erase" /\ Head(s) = "erase"))
  BY <1>1 DEF CommandInv, FinishCommand, Slept
<1>3. /\ Array(script') /\ script'[c] = Tail(s) /\ Array(started') /\ started'[c] = FALSE
  BY <1>1, ArraySet DEF RomTypes, FinishCommand, Advance
<1>4. /\ UNCHANGED <<rom, reg, access, call, gets, chkVal, count, cnt, result, refusals>>
      /\ Array(woken') /\ woken'[c] = (woken[c] \/ cmd = Head(s))
  <2>1. woken' = [woken EXCEPT ![c] = woken[c] \/ cmd = Head(s)]
    BY DEF FinishCommand
  <2>2. Array(woken') /\ woken'[c] = (woken[c] \/ cmd = Head(s))
    BY <1>1, <2>1, ArraySet DEF RomTypes
  <2> QED BY <2>2 DEF FinishCommand, loop
<1>5. /\ Getting(c)' = Getting(c) /\ Setting(c)' = Setting(c) /\ Erasing(c)' = Erasing(c)
      /\ Ahead(c)' = First(Tail(s))
  BY <1>2, <1>3, <1>4 DEF Getting, Setting, Erasing, Ahead
<1>6. \/ Getting(c) /\ Tail(s) \in GetSteps
      \/ Setting(c) /\ Tail(s) \in SetSteps
      \/ Erasing(c) /\ Tail(s) \in EraseSteps
  BY <1>1, <1>2, GetFollows, SetFollows, EraseFollows DEF CommandInv
<1>7. ASSUME cmd = "done"
      PROVE  /\ CommandInv(c)' /\ GetInv(c)' /\ WriteInv(c)' /\ ClearInv(c)'
             /\ woken'[c] = woken[c]
  <2>1. Ahead(c)' = Ahead(c)
    BY <1>1, <1>5, <1>7, AtIs
  <2>2. woken'[c] = woken[c]
    BY <1>1, <1>2, <1>4, <1>7 DEF CommandInv, Commands
  <2>3. CommandInv(c)'
    BY <1>1, <1>2, <1>3, <1>4, <1>5, <1>6, <2>1 DEF CommandInv
  <2>4. GetInv(c)' /\ WriteInv(c)' /\ ClearInv(c)'
    BY <1>1, <1>4, <2>1, <2>2 DEF GetInv, WriteInv, ClearInv
  <2> QED BY <2>2, <2>3, <2>4
<1>8. ASSUME cmd = "erase", Head(s) = "erase"
      PROVE  /\ CommandInv(c)' /\ GetInv(c)' /\ WriteInv(c)' /\ ClearInv(c)'
             /\ call[c].op = "clear" /\ woken'[c]
  <2>1. Erasing(c) /\ s \in EraseSteps
    BY <1>1, <1>2, <1>8, GetFollows, SetFollows DEF CommandInv
  <2>2. Ahead(c) = "erase" /\ Ahead(c)' = "disable"
    <3>1. Ahead(c) = "erase"
      BY <1>1, <1>2, <1>8, AtIs
    <3>2. First(Tail(s)) = "disable"
      BY <1>2, <1>8, <2>1, EraseFollows
    <3> QED BY <1>5, <3>1, <3>2
  <2>3. CommandInv(c)'
    BY <1>1, <1>2, <1>3, <1>4, <1>5, <1>6, <2>2 DEF CommandInv
  <2>4. call[c].op = "clear" /\ cnt[c] > Cleared /\ ~(cnt[c] <= Cleared) /\ cnt[c] # Cleared
    BY <1>1, <2>1, CellsAssumption DEF Erasing, CommandInv
  <2>5. GetInv(c)' /\ WriteInv(c)'
    BY <1>4, <2>4 DEF GetInv, WriteInv
  <2>6. woken'[c]
    BY <1>4, <1>8
  <2>7. ClearInv(c)'
    BY <1>1, <1>4, <2>4, <2>6 DEF ClearInv
  <2> QED BY <2>3, <2>4, <2>5, <2>6, <2>7
<1>9. /\ CommandInv(c)' /\ GetInv(c)' /\ WriteInv(c)' /\ ClearInv(c)'
      /\ woken'[c] = woken[c] \/ call[c].op = "clear"
  BY <1>2, <1>7, <1>8
<1>10. RomTypes'
  BY <1>1, <1>3, <1>4 DEF RomTypes
<1>11. ResultInv(c)'
  <2>1. CASE woken'[c] = woken[c]
    BY <1>1, <1>4, <2>1 DEF ResultInv, Stored, Blank
  <2>2. CASE call[c].op = "clear"
    <3>1. result[c].says = "running"
      BY <1>1, <2>2, CallsAre DEF ResultInv
    <3> QED BY <1>1, <1>4, <3>1 DEF ResultInv
  <2> QED BY <1>9, <2>1, <2>2
<1> QED BY <1>9, <1>10, <1>11, OneForAll

\* The device obeys: it copies the registers to the ROM in a set only and back
\* in a get only.
LEMMA ObeyKeeps ==
  ASSUME NEW c, Client = {c}, RomInv, Obey
  PROVE  RomInv'
<1> DEFINE s == script[c]
           inside == {"addrInit", "read", "write", "erase", "disable"}
<1>1. c \in Client /\ RomTypes /\ CommandInv(c) /\ GetInv(c) /\ WriteInv(c) /\ ClearInv(c) /\ ResultInv(c)
  BY DEF RomInv, ClientInv
<1>2. /\ cmd \in Commands /\ cmd' = "done"
      /\ access' = (cmd = "enable" \/ (access /\ cmd # "disable"))
      /\ reg' = IF cmd = "read" /\ access THEN rom ELSE reg
      /\ UNCHANGED <<call, script, started, gets, chkVal, count, cnt, result, woken>>
  BY DEF Obey, loop
<1>3. PICK taken \in BOOLEAN :
        /\ ~taken => Faulty /\ cmd = "write"
        /\ refusals' = [d \in Client |->
                           IF ~taken /\ started[d] /\ refusals[d] < Attempts
                             THEN refusals[d] + 1 ELSE refusals[d]]
        /\ rom' = CASE access /\ taken /\ cmd = "write" -> reg
                    [] access /\ cmd = "erase" -> [x \in Cell |-> Erased]
                    [] OTHER -> rom
  BY DEF Obey
<1>4. started[c] /\ s # <<>> /\ cmd = Head(s) /\ cmd # "done" /\ cmd \notin {"put", "fetch"}
  BY <1>1, <1>2 DEF CommandInv, Commands
<1>5. Ahead(c) = cmd /\ Ahead(c)' = First(Tail(s)) /\ (access <=> cmd \in inside)
  <2>1. Ahead(c) = cmd
    BY <1>1, <1>4, AtIs
  <2>2. Ahead(c)' = First(Tail(s))
    BY <1>2 DEF Ahead
  <2> QED BY <1>1, <2>1, <2>2 DEF CommandInv
<1>6. /\ Getting(c)' = Getting(c) /\ Setting(c)' = Setting(c) /\ Erasing(c)' = Erasing(c)
      /\ call' = call /\ gets' = gets /\ cnt' = cnt /\ script' = script
  BY <1>2 DEF Getting, Setting, Erasing
<1>7. \/ Getting(c) /\ s \in GetSteps
      \/ Setting(c) /\ s \in SetSteps
      \/ Erasing(c) /\ s \in EraseSteps
  BY <1>1, <1>4 DEF CommandInv
<1>8. access' <=> Ahead(c)' \in inside
  <2>1. cmd = "enable" => Ahead(c)' \in {"addrInit", "erase"}
    BY <1>4, <1>5, <1>7, GetFollows, SetFollows, EraseFollows
  <2>2. cmd = "disable" => Ahead(c)' \in {"fetch", "end"}
    BY <1>4, <1>5, <1>7, GetFollows, SetFollows, EraseFollows
  <2>3. cmd \notin {"enable", "disable"} => Ahead(c)' \in {"read", "write", "disable"} /\ cmd \in inside
    BY <1>4, <1>5, <1>7, GetFollows, SetFollows, EraseFollows
  <2> QED BY <1>2, <1>5, <2>1, <2>2, <2>3
<1>14. /\ Array(refusals') /\ refusals'[c] \in 0..Attempts
       /\ refusals'[c] = 0 => taken /\ refusals[c] = 0
       /\ taken \/ cmd # "write" => refusals'[c] = refusals[c]
       /\ ~taken /\ refusals[c] < Attempts => refusals'[c] = refusals[c] + 1
  <2> DEFINE one(d) == IF ~taken /\ started[d] /\ refusals[d] < Attempts
                         THEN refusals[d] + 1 ELSE refusals[d]
  <2>1. refusals' = [d \in Client |-> one(d)]
    BY <1>3
  <2>2. refusals'[c] = one(c)
    BY <1>1, <2>1
  <2>3. Array(refusals')
    BY <2>1 DEF Array
  <2>4. refusals[c] \in 0..Attempts /\ Attempts = 7
    BY <1>1 DEF CommandInv, Attempts
  <2> QED BY <1>3, <1>4, <2>2, <2>3, <2>4
<1>9. CommandInv(c)'
  BY <1>1, <1>2, <1>4, <1>6, <1>8, <1>14 DEF CommandInv
<1>10. RomTypes'
  <2>1. [x \in Cell |-> Erased] \in [Cell -> Content]
    BY DEF Content
  <2>2. rom' \in {reg, [x \in Cell |-> Erased], rom}
    BY <1>3
  <2>3. rom' \in [Cell -> Content] /\ reg' \in [Cell -> Content]
    BY <1>1, <1>2, <2>1, <2>2 DEF RomTypes
  <2>4. access' \in BOOLEAN
    BY <1>1, <1>2, <1>3 DEF RomTypes
  <2> QED BY <1>1, <1>2, <1>14, <2>3, <2>4 DEF RomTypes
<1>11. GetInv(c)'
  <2> SUFFICES ASSUME call[c].op \in {"read", "write"}, gets[c] < 3
               PROVE  /\ Ahead(c)' \in {"disable", "fetch"} => reg' = rom'
                      /\ Ahead(c)' = "end" => chkVal'[c] = rom'[call'[c].cell]
    BY <1>6 DEF GetInv
  <2>1. s \in GetSteps
    BY <1>1, <1>7 DEF Setting, Erasing
  <2>2. /\ cmd \in {"enable", "addrInit", "read", "disable"} /\ Ahead(c)' # "end"
        /\ cmd \in {"enable", "addrInit"} => Ahead(c)' \notin {"disable", "fetch"}
    BY <1>4, <1>5, <2>1, GetFollows
  <2>3. rom' = rom
    BY <1>3, <2>2
  <2>4. cmd = "read" => reg' = rom
    BY <1>2, <1>5
  <2>5. cmd = "disable" => reg' = rom
    BY <1>1, <1>2, <1>5 DEF GetInv
  <2> QED BY <2>2, <2>3, <2>4, <2>5
<1>12. ClearInv(c)'
  <2> SUFFICES ASSUME call[c].op = "clear"
               PROVE  /\ cnt[c] <= Cleared =>
                           \A x \in Cell :
                             x + 1 < cnt[c] \/ (x + 1 = cnt[c] /\ Ahead(c)' # "put") => reg'[x] = 0
                      /\ cnt[c] = Cleared /\ Ahead(c)' \in {"disable", "end"}
                           /\ refusals'[c] = 0 => rom' = reg'
                      /\ cnt[c] > Cleared /\ refusals'[c] = 0 =>
                           \A x \in Cell : x + 1 <= Cleared => rom'[x] \in {0, Erased}
                      /\ cnt[c] > Cleared /\ Ahead(c)' \in {"disable", "end"} /\ ~woken[c] =>
                           \A x \in Cell : rom'[x] = Erased
    BY <1>2, <1>6 DEF ClearInv
  <2>1. CASE cnt[c] \in 1..Cleared
    <3>1. s \in SetSteps /\ ~(cnt[c] > Cleared)
      BY <1>7, <2>1, CellsAssumption DEF Getting, Erasing
    <3>2. /\ cmd \in {"enable", "addrInit", "write", "disable"}
          /\ cmd \in {"enable", "addrInit"} => Ahead(c)' \notin {"disable", "end"}
      BY <1>4, <1>5, <3>1, SetFollows
    <3>3. reg' = reg /\ Ahead(c) # "put"
      BY <1>2, <1>4, <1>5, <3>2
    <3>4. cmd = "write" /\ refusals'[c] = 0 => rom' = reg
      BY <1>3, <1>5, <1>14
    <3>5. cmd = "disable" /\ refusals'[c] = 0 /\ cnt[c] = Cleared => rom' = reg
      <4>1. cmd = "disable" => rom' = rom
        BY <1>3
      <4> QED BY <1>1, <1>5, <1>14, <4>1 DEF ClearInv
    <3>6. \A x \in Cell : x + 1 < cnt[c] \/ x + 1 = cnt[c] => reg[x] = 0
      BY <1>1, <2>1, <3>3 DEF ClearInv
    <3> QED BY <3>1, <3>2, <3>3, <3>4, <3>5, <3>6
  <2>2. CASE cnt[c] > Cleared
    <3>1. s \in EraseSteps /\ ~(cnt[c] <= Cleared) /\ cnt[c] # Cleared
      BY <1>1, <1>7, <2>2, CellsAssumption DEF Getting, Setting, CommandInv
    <3>2. cmd # "write"
      BY <1>4, <3>1, EraseFollows
    <3>3. rom' \in {rom, [x \in Cell |-> Erased]} /\ refusals'[c] = refusals[c]
      BY <1>3, <1>14, <3>2
    <3>4. \A x \in Cell : [y \in Cell |-> Erased][x] = Erased
      OBVIOUS
    <3>5. refusals[c] = 0 => \A x \in Cell : x + 1 <= Cleared => rom[x] \in {0, Erased}
      BY <1>1, <2>2 DEF ClearInv
    <3>6. ASSUME Ahead(c)' \in {"disable", "end"}, ~woken[c], NEW x \in Cell
          PROVE  rom'[x] = Erased
      <4>1. cmd \in {"erase", "disable"}
        BY <1>4, <1>5, <3>1, <3>6, EraseFollows
      <4>2. CASE cmd = "erase"
        <5>1. access
          BY <1>5, <4>2
        <5> QED BY <1>3, <4>2, <5>1
      <4>3. CASE cmd = "disable"
        <5>1. rom' = rom
          BY <1>3, <4>3
        <5> QED BY <1>1, <1>5, <2>2, <3>6, <4>3, <5>1 DEF ClearInv
      <4> QED BY <4>1, <4>2, <4>3
    <3> QED BY <3>1, <3>3, <3>4, <3>5, <3>6
  <2>3. cnt[c] \in 1..Cleared \/ cnt[c] > Cleared
    BY <1>7 DEF Getting, Setting, Erasing
  <2> QED BY <2>1, <2>2, <2>3
<1>13. ResultInv(c)'
  <2>1. call[c] # Idle
    BY <1>7, CallsAre DEF Getting, Setting, Erasing
  <2>2. result[c].says = "running"
    BY <1>1, <2>1 DEF ResultInv
  <2> QED BY <1>1, <1>2, <2>2 DEF ResultInv
<1>15. WriteInv(c)'
  <2> SUFFICES ASSUME call[c].op = "write"
               PROVE  WriteInv(c)'
    BY <1>6 DEF WriteInv
  <2> DEFINE x == call[c].cell
  <2>1. call[c] \in Calls /\ x \in Cell /\ count[c] \in 0..6 /\ Attempts = 7 /\ gets[c] \in 0..3
    BY <1>1, CallsAre DEF CommandInv, Attempts
  <2>2. CASE gets[c] < 3
    <3>1. s \in GetSteps
      BY <1>7, <2>2 DEF Setting, Erasing
    <3>2. cmd \in {"enable", "addrInit", "read", "disable"}
      BY <1>4, <3>1, GetFollows
    <3>3. rom' = rom /\ refusals'[c] = refusals[c]
      BY <1>3, <1>14, <3>2
    <3>4. rom'[x] = call[c].val \/ refusals'[c] = count[c] + 1
      BY <1>1, <2>2, <3>3 DEF WriteInv
    <3> QED BY <1>2, <1>6, <2>2, <3>4 DEF WriteInv
  <2>3. CASE gets[c] = 3
    <3>1. s \in SetSteps
      BY <1>7, <2>3 DEF Getting, Erasing
    <3>2. /\ cmd \in {"enable", "addrInit", "write", "disable"}
          /\ cmd \in {"enable", "addrInit"} => Ahead(c)' \in {"addrInit", "write"}
          /\ cmd = "write" => Ahead(c)' = "disable"
          /\ cmd = "disable" => Ahead(c)' = "end"
      BY <1>4, <1>5, <3>1, SetFollows
    <3>3. reg' = reg
      BY <1>2, <3>2
    <3>4. CASE cmd \in {"enable", "addrInit"}
      <4>1. refusals'[c] = count[c] /\ reg'[x] = call[c].val
        BY <1>1, <1>5, <1>14, <2>3, <3>3, <3>4 DEF WriteInv
      <4> QED BY <1>2, <1>6, <2>3, <3>2, <3>4, <4>1 DEF WriteInv
    <3>5. CASE cmd = "write"
      <4>1. refusals[c] = count[c] /\ reg[x] = call[c].val /\ access
        BY <1>1, <1>5, <2>3, <3>5 DEF WriteInv
      <4>2. taken => rom'[x] = call[c].val
        BY <1>3, <3>5, <4>1
      <4>3. ~taken => refusals'[c] = count[c] + 1
        BY <1>14, <2>1, <4>1
      <4> QED BY <1>2, <1>6, <2>3, <3>2, <3>5, <4>2, <4>3 DEF WriteInv
    <3>6. CASE cmd = "disable"
      <4>1. rom' = rom /\ refusals'[c] = refusals[c]
        BY <1>3, <1>14, <3>6
      <4>2. rom'[x] = call[c].val \/ refusals'[c] = count[c] + 1
        BY <1>1, <1>5, <3>6, <4>1 DEF WriteInv
      <4> QED BY <1>2, <1>6, <2>3, <3>2, <3>6, <4>2 DEF WriteInv
    <3> QED BY <3>2, <3>4, <3>5, <3>6
  <2> QED BY <2>1, <2>2, <2>3
<1> QED BY <1>9, <1>10, <1>11, <1>12, <1>13, <1>15, OneForAll

\* A call begins with its first script, or with none.
LEMMA CallKeeps ==
  ASSUME NEW c, Client = {c}, RomInv, NEW x \in Calls, Call(c, x)
  PROVE  RomInv'
<1> DEFINE t == IF x.op = "write" THEN SetScript ELSE <<>>
<1>1. c \in Client /\ RomTypes /\ CommandInv(c) /\ GetInv(c) /\ WriteInv(c) /\ ClearInv(c) /\ ResultInv(c)
  BY DEF RomInv, ClientInv
<1>2. x.op \in {"clear", "read", "write"} /\ x # Idle
  BY CallsAre
<1>3. call[c] = Idle /\ call[c].op = "idle"
  BY CallsAre DEF Call
<1>4. script[c] = <<>>
  BY <1>1, <1>3 DEF CommandInv, Getting, Setting, Erasing
<1>5. ~started[c] /\ cmd = "none" /\ Ahead(c) = "end" /\ access = FALSE
  BY <1>1, <1>4, Between
<1>6. UNCHANGED <<rom, reg, access, cmd, started, chkVal>>
  BY DEF Call, device
<1>7. /\ Array(call') /\ call'[c] = x /\ Array(script') /\ script'[c] = t
      /\ Array(gets') /\ gets'[c] = 3 /\ Array(cnt') /\ cnt'[c] = 0
      /\ Array(refusals') /\ refusals'[c] = 0 /\ Array(woken') /\ woken'[c] = FALSE
      /\ Array(count') /\ count'[c] = 0
  <2>1. /\ call' = [call EXCEPT ![c] = x] /\ script' = [script EXCEPT ![c] = t]
        /\ gets' = [gets EXCEPT ![c] = 3] /\ cnt' = [cnt EXCEPT ![c] = 0]
        /\ refusals' = [refusals EXCEPT ![c] = 0] /\ woken' = [woken EXCEPT ![c] = FALSE]
        /\ count' = [count EXCEPT ![c] = 0]
    BY DEF Call
  <2> HIDE DEF t
  <2>2. Array(call') /\ call'[c] = x /\ Array(script') /\ script'[c] = t
    BY <1>1, <2>1, ArraySet DEF RomTypes
  <2>3. Array(gets') /\ gets'[c] = 3
    <3>1. PICK three : three = 3
      OBVIOUS
    <3>2. gets' = [gets EXCEPT ![c] = three]
      BY <2>1, <3>1
    <3>3. Array(gets') /\ gets'[c] = three
      BY <1>1, <3>2, ArraySet DEF RomTypes
    <3> QED BY <3>1, <3>3
  <2>4. Array(cnt') /\ cnt'[c] = 0
    BY <1>1, <2>1, ArraySet DEF RomTypes
  <2>5. Array(refusals') /\ refusals'[c] = 0 /\ Array(woken') /\ woken'[c] = FALSE
    BY <1>1, <2>1, ArraySet DEF RomTypes
  <2>6. Array(count') /\ count'[c] = 0
    BY <1>1, <2>1, ArraySet DEF RomTypes
  <2> QED BY <2>2, <2>3, <2>4, <2>5, <2>6
<1>8. /\ Array(result')
      /\ result'[c] = [of |-> x, says |-> "running", val |-> 0]
  BY <1>1, ArraySet DEF RomTypes, Call
<1>9. Ahead(c)' \in {"end", "put"}
  <2>1. SetScript # <<>> /\ Head(SetScript) = "put"
    BY DEF SetScript
  <2>2. First(t) \in {"end", "put"}
    BY <2>1 DEF First
  <2>3. cmd' # "done"
    BY <1>5, <1>6
  <2>4. Ahead(c)' = First(script'[c])
    BY <2>3 DEF Ahead
  <2> QED BY <1>7, <2>2, <2>4
<1>10. CommandInv(c)'
  <2>1. script'[c] = <<>> \/ (Setting(c)' /\ script'[c] \in SetSteps)
    BY <1>7 DEF Setting, SetSteps
  <2> HIDE DEF t
  <2>2. call'[c] \in Calls \cup {Idle} /\ gets'[c] \in 0..3 /\ cnt'[c] \in 0..(Cleared + 1)
        /\ count'[c] \in 0..6 /\ refusals'[c] \in 0..Attempts /\ woken'[c] \in BOOLEAN
    <3>1. call'[c] = x /\ gets'[c] = 3 /\ woken'[c] \in BOOLEAN
      BY <1>7
    <3>2. cnt'[c] = 0 /\ count'[c] = 0 /\ refusals'[c] = 0
      BY <1>7
    <3>3. 3 \in 0..3 /\ 0 \in 0..6 /\ 0 \in 0..Attempts /\ 0 \in 0..(Cleared + 1)
      BY CellsAssumption DEF Attempts
    <3> QED BY <3>1, <3>2, <3>3
  <2>3. started'[c] = FALSE /\ cmd' = "none" /\ access' = FALSE
    BY <1>1, <1>5, <1>6 DEF CommandInv
  <2>4. ~(Ahead(c)' \in {"addrInit", "read", "write", "erase", "disable"})
    BY <1>9
  <2> QED BY <2>1, <2>2, <2>3, <2>4 DEF CommandInv
<1>11. GetInv(c)'
  BY <1>7 DEF GetInv
<1>12. ClearInv(c)'
  <2>1. \A y \in Cell : ~(y + 1 < 0) /\ y + 1 # 0
    BY CellsAssumption DEF Cell
  <2>2. 0 # Cleared /\ ~(0 > Cleared)
    BY CellsAssumption
  <2> QED BY <1>7, <2>1, <2>2 DEF ClearInv
<1>13. RomTypes'
  BY <1>1, <1>6, <1>7, <1>8 DEF RomTypes
<1>14. ResultInv(c)'
  BY <1>7, <1>8 DEF ResultInv
<1>15. WriteInv(c)'
  <2> SUFFICES ASSUME x.op = "write" PROVE WriteInv(c)'
    BY <1>7 DEF WriteInv
  <2>1. Ahead(c)' = "put"
    <3>1. script'[c] = SetScript /\ cmd' # "done"
      BY <1>5, <1>6, <1>7
    <3> QED BY <3>1 DEF Ahead, First, SetScript
  <2>2. ~(gets'[c] < 3)
    BY <1>7
  <2> QED BY <1>7, <2>1, <2>2 DEF WriteInv
<1> QED BY <1>10, <1>11, <1>12, <1>13, <1>14, <1>15, OneForAll

\* A call returns what it may.
LEMMA AnswerKeeps ==
  ASSUME NEW c, Client = {c}, RomInv, ~InScript(c), call[c] # Idle,
         NEW says, NEW val, Answer(c, says, val),
         says = "success" => \/ val = rom[call[c].cell]
                             \/ call[c].op = "write" /\ refusals[c] = Attempts,
         says = "cleared" => \A x \in Cell : Blank(c, x)
  PROVE  RomInv'
<1>1. c \in Client /\ RomTypes /\ CommandInv(c) /\ ResultInv(c)
  BY DEF RomInv, ClientInv
<1>2. script[c] = <<>> /\ UNCHANGED <<rom, reg, access, cmd, script, started, gets, count, cnt, refusals, woken>>
  BY DEF InScript, Answer, device, history
<1>3. ~started[c] /\ cmd = "none" /\ Ahead(c) = "end" /\ access = FALSE
  BY <1>1, <1>2, Between
<1>4. Array(call') /\ call'[c] = Idle /\ Array(chkVal') /\ call'[c].op = "idle"
  <2>1. call' = [call EXCEPT ![c] = Idle] /\ chkVal' = [chkVal EXCEPT ![c] = 0]
    BY DEF Answer
  <2>2. Array(call') /\ call'[c] = Idle
    BY <1>1, <2>1, ArraySet DEF RomTypes
  <2>3. Array(chkVal')
    BY <1>1, <2>1, ArraySet DEF RomTypes
  <2> QED BY <2>2, <2>3, CallsAre
<1>5. Array(result') /\ result'[c] = [of |-> call[c], says |-> says, val |-> val]
  <2> DEFINE new == [of |-> call[c], says |-> says, val |-> val]
  <2>1. result' = [result EXCEPT ![c] = new]
    BY DEF Answer
  <2> HIDE DEF new
  <2>2. Array(result') /\ result'[c] = new
    BY <1>1, <2>1, ArraySet DEF RomTypes
  <2> QED BY <2>2 DEF new
<1>6. Ahead(c)' = "end"
  BY <1>2, <1>3 DEF Ahead, First
<1>7. CommandInv(c)'
  BY <1>1, <1>2, <1>3, <1>4, <1>6 DEF CommandInv
<1>8. GetInv(c)' /\ WriteInv(c)' /\ ClearInv(c)'
  BY <1>4 DEF GetInv, WriteInv, ClearInv
<1>9. RomTypes'
  BY <1>1, <1>2, <1>4, <1>5 DEF RomTypes
<1>10. ResultInv(c)'
  <2>1. result'[c].of = call[c] /\ result'[c].says = says /\ result'[c].val = val
    BY <1>5
  <2>2. says = "success" => Stored(c, val)'
    BY <1>2, <2>1 DEF Stored
  <2>3. says = "cleared" => \A x \in Cell : Blank(c, x)'
    BY <1>2 DEF Blank
  <2> QED BY <1>4, <1>5, <2>1, <2>2, <2>3 DEF ResultInv, Stored
<1> QED BY <1>7, <1>8, <1>9, <1>10, OneForAll

LEMMA GetKeeps ==
  ASSUME NEW c, Client = {c}, RomInv, Get(c)
  PROVE  RomInv'
<1>1. c \in Client /\ RomTypes /\ CommandInv(c) /\ WriteInv(c) /\ ResultInv(c)
  BY DEF RomInv, ClientInv
<1>2. /\ script[c] = <<>> /\ call[c].op \in {"read", "write"} /\ gets[c] > 0
      /\ UNCHANGED <<rom, reg, access, cmd, call, started, chkVal, count, cnt, result,
                     refusals, woken>>
  BY DEF InScript, Get, device, history
<1>3. ~started[c] /\ cmd = "none" /\ Ahead(c) = "end" /\ access = FALSE
  BY <1>1, <1>2, Between
<1>4. /\ Array(gets') /\ gets'[c] = gets[c] - 1 /\ Array(script') /\ script'[c] = GetScript
  BY <1>1, ArraySet DEF RomTypes, Get
<1>5. gets'[c] \in 0..3 /\ gets'[c] < 3
  BY <1>1, <1>2, <1>4 DEF CommandInv
<1>6. Ahead(c)' = "enable"
  <2>1. cmd' # "done"
    BY <1>2, <1>3
  <2>2. First(GetScript) = "enable"
    BY DEF First, GetScript
  <2> QED BY <1>4, <2>1, <2>2 DEF Ahead
<1>7. CommandInv(c)'
  <2>1. Getting(c)' /\ script'[c] \in GetSteps
    BY <1>2, <1>4, <1>5 DEF Getting, GetSteps
  <2> QED BY <1>1, <1>2, <1>3, <1>5, <1>6, <2>1 DEF CommandInv
<1>8. GetInv(c)'
  BY <1>6 DEF GetInv
<1>9. ClearInv(c)'
  BY <1>2 DEF ClearInv
<1>10. RomTypes' /\ ResultInv(c)'
  BY <1>1, <1>2, <1>4 DEF RomTypes, ResultInv, Stored, Blank
<1>11. WriteInv(c)'
  <2> SUFFICES ASSUME call[c].op = "write" PROVE WriteInv(c)'
    BY <1>2 DEF WriteInv
  <2>1. rom[call[c].cell] = call[c].val \/ refusals[c] = count[c] + 1
    BY <1>1, <1>3 DEF WriteInv
  <2>2. ~(gets'[c] = 3)
    BY <1>5
  <2> QED BY <1>2, <2>1, <2>2 DEF WriteInv
<1> QED BY <1>7, <1>8, <1>9, <1>10, <1>11, OneForAll

LEMMA RetryKeeps ==
  ASSUME NEW c, Client = {c}, RomInv, Retry(c)
  PROVE  RomInv'
<1>1. c \in Client /\ RomTypes /\ CommandInv(c) /\ GetInv(c) /\ WriteInv(c) /\ ResultInv(c)
  BY DEF RomInv, ClientInv
<1>2. /\ script[c] = <<>> /\ call[c].op = "write" /\ gets[c] = 0 /\ count[c] <= 5 /\ chkVal[c] # call[c].val
      /\ UNCHANGED <<rom, reg, access, cmd, call, started, chkVal, cnt, result, refusals,
                     woken>>
  BY DEF InScript, Retry, WriteChecked, Again, device, history
<1>3. ~started[c] /\ cmd = "none" /\ Ahead(c) = "end" /\ access = FALSE
  BY <1>1, <1>2, Between
<1>4. /\ Array(gets') /\ gets'[c] = 3 /\ Array(script') /\ script'[c] = SetScript
      /\ Array(count') /\ count'[c] = count[c] + 1
  <2>1. /\ gets' = [gets EXCEPT ![c] = 3] /\ script' = [script EXCEPT ![c] = SetScript]
        /\ count' = [count EXCEPT ![c] = count[c] + 1]
    BY DEF Retry, Again
  <2>2. Array(gets') /\ gets'[c] = 3
    <3>1. PICK three : three = 3
      OBVIOUS
    <3>2. gets' = [gets EXCEPT ![c] = three]
      BY <2>1, <3>1
    <3>3. Array(gets') /\ gets'[c] = three
      BY <1>1, <3>2, ArraySet DEF RomTypes
    <3> QED BY <3>1, <3>3
  <2>3. Array(script') /\ script'[c] = SetScript
    BY <1>1, <2>1, ArraySet DEF RomTypes
  <2>4. Array(count') /\ count'[c] = count[c] + 1
    BY <1>1, <2>1, ArraySet DEF RomTypes
  <2> QED BY <2>2, <2>3, <2>4
<1>5. Ahead(c)' = "put"
  <2>1. cmd' # "done"
    BY <1>2, <1>3
  <2>2. First(SetScript) = "put"
    BY DEF First, SetScript
  <2> QED BY <1>4, <2>1, <2>2 DEF Ahead
<1>6. CommandInv(c)'
  <2>1. Setting(c)' /\ script'[c] \in SetSteps
    BY <1>2, <1>4 DEF Setting, SetSteps
  <2>2. count'[c] \in 0..6
    BY <1>1, <1>2, <1>4 DEF CommandInv
  <2> QED BY <1>1, <1>2, <1>3, <1>4, <1>5, <2>1, <2>2 DEF CommandInv
<1>7. GetInv(c)' /\ ClearInv(c)'
  BY <1>2, <1>4 DEF GetInv, ClearInv
<1>8. RomTypes' /\ ResultInv(c)'
  BY <1>1, <1>2, <1>4 DEF RomTypes, ResultInv, Stored, Blank
<1>9. WriteInv(c)'
  <2>1. chkVal[c] = rom[call[c].cell]
    BY <1>1, <1>2, <1>3 DEF GetInv
  <2>2. refusals[c] = count[c] + 1
    BY <1>1, <1>2, <1>3, <2>1 DEF WriteInv
  <2>3. refusals'[c] = count'[c]
    BY <1>2, <1>4, <2>2
  <2>4. ~(gets'[c] < 3)
    BY <1>4
  <2> QED BY <1>4, <1>5, <2>3, <2>4 DEF WriteInv
<1> QED BY <1>6, <1>7, <1>8, <1>9, OneForAll

\* A clear goes on to the next register, from the last one to the erase.
LEMMA ClearNextKeeps ==
  ASSUME NEW c, Client = {c}, RomInv, ClearNext(c)
  PROVE  RomInv'
<1> DEFINE n == cnt[c]
           t == IF n < Cleared THEN SetScript ELSE EraseScript
<1>1. c \in Client /\ RomTypes /\ CommandInv(c) /\ ClearInv(c) /\ ResultInv(c)
  BY DEF RomInv, ClientInv
<1>2. /\ script[c] = <<>> /\ call[c].op = "clear" /\ n <= Cleared
      /\ UNCHANGED <<rom, reg, access, cmd, call, started, gets, chkVal, count, result,
                     refusals, woken>>
  BY DEF InScript, ClearNext, device, history
<1>3. ~started[c] /\ cmd = "none" /\ Ahead(c) = "end" /\ access = FALSE
  BY <1>1, <1>2, Between
<1>4. /\ Array(cnt') /\ cnt'[c] = n + 1 /\ Array(script') /\ script'[c] = t
  <2>1. cnt' = [cnt EXCEPT ![c] = n + 1] /\ script' = [script EXCEPT ![c] = t]
    BY DEF ClearNext
  <2> HIDE DEF n, t
  <2>2. Array(cnt') /\ cnt'[c] = n + 1
    BY <1>1, <2>1, ArraySet DEF RomTypes
  <2>3. Array(script') /\ script'[c] = t
    BY <1>1, <2>1, ArraySet DEF RomTypes
  <2> QED BY <2>2, <2>3
<1>5. n \in 0..Cleared /\ n + 1 \in 0..(Cleared + 1) /\ n \in Nat /\ Cleared \in Nat /\ Cells \in Nat
  BY <1>1, <1>2, CellsAssumption DEF CommandInv
<1>6. Ahead(c)' = IF n < Cleared THEN "put" ELSE "enable"
  <2>1. cmd' # "done"
    BY <1>2, <1>3
  <2>2. First(SetScript) = "put" /\ First(EraseScript) = "enable"
    BY DEF First, SetScript, EraseScript
  <2> QED BY <1>4, <2>1, <2>2 DEF Ahead
<1>7. CommandInv(c)'
  <2>1. CASE n < Cleared
    <3>1. Setting(c)' /\ script'[c] \in SetSteps
      BY <1>2, <1>4, <1>5, <2>1 DEF Setting, SetSteps
    <3> QED BY <1>1, <1>2, <1>3, <1>4, <1>5, <1>6, <3>1 DEF CommandInv
  <2>2. CASE n = Cleared
    <3>1. Erasing(c)' /\ script'[c] \in EraseSteps
      BY <1>2, <1>4, <1>5, <2>2 DEF Erasing, EraseSteps
    <3> QED BY <1>1, <1>2, <1>3, <1>4, <1>5, <1>6, <3>1 DEF CommandInv
  <2> QED BY <1>5, <2>1, <2>2
<1>8. GetInv(c)' /\ WriteInv(c)'
  BY <1>2 DEF GetInv, WriteInv
<1>9. \A x \in Cell : x + 1 <= n => reg[x] = 0
  <2>1. \A x \in Cell : x + 1 <= n => x + 1 < n \/ x + 1 = n
    BY <1>5 DEF Cell
  <2> QED BY <1>1, <1>2, <1>3, <2>1 DEF ClearInv
<1>10. ClearInv(c)'
  <2>1. CASE n < Cleared
    <3>1. Ahead(c)' = "put" /\ ~(n + 1 > Cleared)
      BY <1>5, <1>6, <2>1
    <3>2. \A x \in Cell : x + 1 < n + 1 => x + 1 <= n
      BY <1>5 DEF Cell
    <3> QED BY <1>2, <1>4, <1>9, <3>1, <3>2 DEF ClearInv
  <2>2. CASE n = Cleared
    <3>1. ~(n + 1 <= Cleared) /\ n + 1 # Cleared
      BY <1>5, <2>2
    <3>2. refusals[c] = 0 => rom = reg
      BY <1>1, <1>2, <1>3, <2>2 DEF ClearInv
    <3>3. \A x \in Cell : x + 1 <= Cleared => x + 1 <= n
      BY <2>2
    <3>4. Ahead(c)' = "enable"
      BY <1>5, <1>6, <2>2
    <3> QED BY <1>2, <1>4, <1>9, <3>1, <3>2, <3>3, <3>4 DEF ClearInv
  <2> QED BY <1>5, <2>1, <2>2
<1>11. RomTypes' /\ ResultInv(c)'
  BY <1>1, <1>2, <1>4 DEF RomTypes, ResultInv, Stored, Blank
<1> QED BY <1>7, <1>8, <1>10, <1>11, OneForAll

\* Before the first call nothing has happened yet.
LEMMA RomBegins == RomInit => RomInv
<1> SUFFICES ASSUME RomInit PROVE RomInv
  OBVIOUS
<1>1. RomTypes
  BY DEF RomInit, RomTypes, Array, Content
<1>2. ASSUME NEW c \in Client PROVE ClientInv(c)
  <2>1. /\ call[c] = Idle /\ script[c] = <<>> /\ started[c] = FALSE /\ gets[c] = 0 /\ cnt[c] = 0
        /\ cmd = "none" /\ access = FALSE /\ count[c] = 0 /\ refusals[c] = 0 /\ woken[c] = FALSE
        /\ result[c] = [of |-> Idle, says |-> "nothing", val |-> 0]
    BY DEF RomInit
  <2>2. Ahead(c) = "end"
    BY <2>1, AtIs
  <2>3. call[c].op = "idle"
    BY <2>1, CallsAre
  <2>4. CommandInv(c)
    <3>1. 0 \in 0..(Cleared + 1) /\ 0 \in 0..3 /\ 0 \in 0..6 /\ 0 \in 0..Attempts
      BY CellsAssumption DEF Attempts
    <3> QED BY <2>1, <2>2, <3>1 DEF CommandInv
  <2>5. GetInv(c) /\ WriteInv(c) /\ ClearInv(c)
    BY <2>3 DEF GetInv, WriteInv, ClearInv
  <2>6. ResultInv(c)
    BY <2>1 DEF ResultInv
  <2> QED BY <2>4, <2>5, <2>6 DEF ClientInv
<1> QED BY <1>1, <1>2 DEF RomInv

\* Every step of one client and its device keeps it.
LEMMA RomStep == OneClient /\ RomInv /\ [RomNext]_romVars => RomInv'
<1> SUFFICES ASSUME OneClient, RomInv, [RomNext]_romVars PROVE RomInv'
  OBVIOUS
<1>1. PICK c : Client = {c}
  BY DEF OneClient
<1>2. c \in Client /\ CommandInv(c) /\ GetInv(c) /\ WriteInv(c) /\ ClearInv(c)
  BY <1>1 DEF RomInv, ClientInv
<1>3. CASE CallStep(c)
  <2>1. CASE Put(c) \/ Fetch(c) \/ StartCommand(c) \/ FinishCommand(c)
    BY <1>1, <2>1, PutKeeps, FetchKeeps, StartKeeps, FinishKeeps
  <2>2. CASE Get(c) \/ Retry(c) \/ ClearNext(c)
    BY <1>1, <2>2, GetKeeps, RetryKeeps, ClearNextKeeps
  <2>3. ASSUME ~InScript(c)
        PROVE  Ahead(c) = "end"
    BY <1>2, <2>3, Between DEF InScript
  <2>4. CASE ReadReturns(c)
    <3>1. ~InScript(c) /\ call[c].op = "read" /\ gets[c] = 0 /\ Answer(c, "success", chkVal[c])
      BY <2>4 DEF ReadReturns
    <3>2. chkVal[c] = rom[call[c].cell] /\ call[c] # Idle
      BY <1>2, <2>3, <3>1, CallsAre DEF GetInv
    <3> QED BY <1>1, <3>1, <3>2, AnswerKeeps
  <2>5. CASE WriteReturns(c)
    <3>1. ~InScript(c) /\ call[c].op = "write" /\ gets[c] = 0
          /\ (count[c] > 5 \/ chkVal[c] = call[c].val) /\ Answer(c, "success",
          call[c].val)
      BY <2>5 DEF WriteReturns, WriteChecked
    <3>2. chkVal[c] = rom[call[c].cell] /\ call[c] # Idle
      BY <1>2, <2>3, <3>1, CallsAre DEF GetInv
    <3>3. rom[call[c].cell] = call[c].val \/ refusals[c] = count[c] + 1
      BY <1>2, <3>1 DEF WriteInv
    <3>4. count[c] > 5 => count[c] + 1 = Attempts
      BY <1>2 DEF CommandInv, Attempts
    <3>5. call[c].val = rom[call[c].cell] \/ refusals[c] = Attempts
      BY <3>1, <3>2, <3>3, <3>4
    <3> QED BY <1>1, <3>1, <3>2, <3>5, AnswerKeeps
  <2>6. CASE ClearReturns(c)
    <3>1. ~InScript(c) /\ call[c].op = "clear" /\ cnt[c] > Cleared /\ Answer(c, "cleared", 0)
      BY <2>6 DEF ClearReturns
    <3>2. call[c] # Idle /\ \A x \in Cell : Blank(c, x)
      <4>1. ~woken[c] => \A x \in Cell : rom[x] = Erased
        BY <1>2, <2>3, <3>1 DEF ClearInv
      <4>2. refusals[c] = 0 => \A x \in Cell : x + 1 <= Cleared => rom[x] \in {0, Erased}
        BY <1>2, <3>1 DEF ClearInv
      <4>3. \A x \in Cell : x + 1 <= Cleared \/ x >= Cleared
        BY CellsAssumption DEF Cell
      <4>4. refusals[c] = 0 \/ refusals[c] > 0
        BY <1>2 DEF CommandInv, Attempts
      <4> QED BY <3>1, <4>1, <4>2, <4>3, <4>4, CallsAre DEF Blank
    <3> QED BY <1>1, <3>1, <3>2, AnswerKeeps
  <2> QED BY <1>3, <2>1, <2>2, <2>4, <2>5, <2>6 DEF CallStep
<1>4. CASE \E x \in Calls : Call(c, x)
  BY <1>1, <1>4, CallKeeps
<1>5. CASE Obey
  BY <1>1, <1>5, ObeyKeeps
<1>6. CASE UNCHANGED romVars
  BY <1>6 DEF romVars, device, loop, history, RomInv, RomTypes, ClientInv, CommandInv,
       GetInv,
     WriteInv, ClearInv, ResultInv, Stored, Blank, Ahead, Getting, Setting, Erasing
<1> QED BY <1>1, <1>3, <1>4, <1>5, <1>6 DEF RomNext

\* Where one client's calls are, and what they know of the ROM by then.
THEOREM RomInvariant == OneClient => (RomSpec => []RomInv)
<1> SUFFICES ASSUME OneClient PROVE RomSpec => []RomInv
  OBVIOUS
<1>1. RomInit => RomInv
  BY RomBegins
<1>2. RomInv /\ [RomNext]_romVars => RomInv'
  BY RomStep
<1> QED BY <1>1, <1>2, PTL DEF RomSpec

\* What one process was told is stored, or read, is in the ROM until its next
\* call, for any number of channels and values, unless the ROM refused all seven
\* attempts of that write, which the ioctl does not report (cpsaio.c 672-718,
\* 1526, 1584, cpsssi.c 1186).
THEOREM ValueIsStored == OneClient => (RomSpec => []ReturnedIsStored)
<1> SUFFICES ASSUME OneClient PROVE RomSpec => []ReturnedIsStored
  OBVIOUS
<1>1. RomInv => ReturnedIsStored
  BY DEF RomInv, ClientInv, ResultInv, Stored, ReturnedIsStored
<1> QED BY <1>1, RomInvariant, PTL

\* A clear leaves no correction value, for any number of channels and of those
\* the driver overwrites; if a signal ends the erase early the overwritten ones
\* are zero, where the ROM took the zeros (cpsaio.c 728-755, cpsssi.c 1219-1229).
THEOREM ClearIsComplete == OneClient => (RomSpec => []ClearedForgets)
<1> SUFFICES ASSUME OneClient PROVE RomSpec => []ClearedForgets
  OBVIOUS
<1>1. RomInv => ClearedForgets
  BY DEF RomInv, ClientInv, ResultInv, Blank, ClearedForgets
<1> QED BY <1>1, RomInvariant, PTL
=============================================================================
