------------------------------ MODULE AioCalls ------------------------------
(***************************************************************************)
(* The functions of libcpsaio that set up and query an open analog device, *)
(* each followed through the ioctls of cpsaio to the commands of the       *)
(* device.  A command has a number in one of two spaces and 16 or 32 bits  *)
(* of data.  A call is one step here; Aio.tla has the conversions, the     *)
(* interrupt and the ROM, and interleaves the ioctls of processes.         *)
(***************************************************************************)
LOCAL INSTANCE Integers
LOCAL INSTANCE Sequences

cps_aio_data == {
  [Ability |-> {"ECU", "AI", "MEM"}, ai |-> <<16, 8>>, ao |-> <<0, 0>>, Name |-> "AI-1608LI"],
  [Ability |-> {"ECU", "AO", "MEM"}, ai |-> <<0, 0>>, ao |-> <<16, 4>>, Name |-> "AO-1604LI"],
  [Ability |-> {"ECU", "AI", "MEM"}, ai |-> <<16, 8>>, ao |-> <<0, 0>>, Name |-> "AI-1608ALI"],
  [Ability |-> {"ECU", "AO", "MEM"}, ai |-> <<0, 0>>, ao |-> <<16, 4>>, Name |-> "AO-1604VLI"] }

Names == {p.Name : p \in cps_aio_data}
find_analog_device(d) == CHOOSE p \in cps_aio_data : p.Name = d.name
Has(d, ability) == ability \in find_analog_device(d).Ability

-----------------------------------------------------------------------------
(* The words that are read without a command *)

AISTATUS == 4
AOSTATUS == 12
MEMSTATUS == 28
Words == {AISTATUS, AOSTATUS, MEMSTATUS}
read_ai_status(d) == d.word[AISTATUS]
read_ao_status(d) == d.word[AOSTATUS]

-----------------------------------------------------------------------------
(* Commands: number, space and size *)

Ecu == "ECU"
Ext == "EXT"
EcuCommand == [AI_INTERRUPT_FLAG |-> <<Ecu, 4096, 2>>, INIT |-> <<Ecu, 0, 0>>,
               SETINPUTSIGNAL |-> <<Ecu, 3, 4>>]
\* The two sides have the same commands, each behind its own base.
TwoSides == {"AI", "AO"}
Base(side) == IF side = "AI" THEN 4096 ELSE 8192
Table(side) ==
  LET Of(n, size) == <<Ext, Base(side) + n, size>>
  IN  [FORCE_STOP |-> Of(2, 0), GATE_OPEN |-> Of(1, 0), INIT |-> Of(0, 0), SETCALIBRATION |-> Of(32, 4),
       SETCHANNEL |-> Of(5, 2), SETCLOCK |-> Of(3, 4), SETSAMPNUM |-> Of(9, 4), SINGLEMULTI |-> Of(12, 2)]
MemInit == <<Ext, 24576, 0>>

\* Where commands leave their data, but for the connections.
Registers == {<<Ecu, 4096>>} \cup {<<Ext, Base(side) + n>> : side \in TwoSides, n \in {3, 5, 9, 12, 32}}

\* The device answers a command without data by doing it: an initialisation
\* clears what belongs to it, opening and stopping move the gate.
RegsZeroed(d, cleared) == [d EXCEPT !.reg = [r \in Registers |-> IF r \in cleared THEN 0 ELSE @[r]]]
EcuCleared(d) == RegsZeroed([d EXCEPT !.route = {}], {r \in Registers : r[1] = Ecu})
SideCleared(d, c) ==
  RegsZeroed([d EXCEPT !.gate = "shut"], {r \in Registers : r[1] = Ext /\ r[2] \div 4096 = c[2] \div 4096})
Called(d, c) ==
  CASE c = EcuCommand.INIT -> EcuCleared(d)
    [] \E side \in TwoSides : c = Table(side).INIT -> SideCleared(d, c)
    [] \E side \in TwoSides : c = Table(side).GATE_OPEN -> [d EXCEPT !.gate = "open"]
    [] \E side \in TwoSides : c = Table(side).FORCE_STOP -> [d EXCEPT !.gate = "shut"]
    [] c = MemInit -> d

\* Connecting an input takes the place of what it was connected to.
Connected(route, val) ==
  {c \in route : c[1] # val % 65536} \cup {<<val % 65536, val \div 65536>>}

\* A word leaves the upper half of the data alone: the value is its lower.
command(d, c, val) ==
  LET data == IF c[3] = 4 THEN val ELSE val % 65536
  IN  IF c = EcuCommand.SETINPUTSIGNAL THEN [d EXCEPT !.route = Connected(@, data)]
      ELSE [d EXCEPT !.reg[<<c[1], c[2]>>] = data]
ReadCommand(d, c) == LET data == d.reg[<<c[1], c[2]>>] IN IF c[3] = 4 THEN data ELSE data % 65536

-----------------------------------------------------------------------------
(* The ioctls: those of an ability the product lacks do nothing and succeed *)

ioctl_ecu(d, cmd, val) ==
  CASE cmd = "SETECU_SIGNAL" -> command(d, EcuCommand.SETINPUTSIGNAL, val)
    [] cmd = "SET_INTERRUPT_FLAG_AI" -> command(d, EcuCommand.AI_INTERRUPT_FLAG, val)

\* Both sides have the same ioctls, each its own commands.
ioctl_side(d, table, cmd, val) ==
  CASE cmd = "SETCHANNEL" -> command(d, table.SETCHANNEL, val)
    [] cmd = "SETTRANSFER_MODE" -> command(d, table.SINGLEMULTI, val)
    [] cmd = "SET_CLOCK" -> command(d, table.SETCLOCK, val)
    [] cmd = "SET_SAMPNUM" -> command(d, table.SETSAMPNUM, val)
    [] cmd = "SET_CALIBRATION" -> command(d, table.SETCALIBRATION, val)
    [] cmd = "START" -> Called(d, table.GATE_OPEN)
    [] cmd = "STOP" -> Called(d, table.FORCE_STOP)
ioctl_ai(d, cmd, val) == IF Has(d, "AI") THEN ioctl_side(d, Table("AI"), cmd, val) ELSE d
ioctl_ao(d, cmd, val) == IF Has(d, "AO") THEN ioctl_side(d, Table("AO"), cmd, val) ELSE d
CalibrationOf(d, side) == ReadCommand(d, Table(side).SETCALIBRATION)

InitIoctl(d) ==
  LET p == find_analog_device(d)
      ecu == Called(d, EcuCommand.INIT)
      ai == IF p.ai[2] > 0 THEN Called(ecu, Table("AI").INIT) ELSE ecu
      ao == IF p.ao[2] > 0 THEN Called(ai, Table("AO").INIT) ELSE ai
  IN  Called(ao, MemInit)
ExitIoctl(d) ==
  LET p == find_analog_device(d)
      ai == IF p.ai[2] > 0 THEN Called(d, Table("AI").FORCE_STOP) ELSE d
  IN  IF p.ao[2] > 0 THEN Called(ai, Table("AO").FORCE_STOP) ELSE ai
Resolution(d, inout) == IF inout = "AI" THEN find_analog_device(d).ai[1] ELSE find_analog_device(d).ao[1]
MaxChannel(d, inout) == IF inout = "AI" THEN find_analog_device(d).ai[2] ELSE find_analog_device(d).ao[2]
MemStatus(d) == d.word[MEMSTATUS]

\* The same commands with a number, space and size the program gives; the
\* input fills another structure than the one it copies back, so that the
\* program finds what it gave.
DirectCommandOutput(d, c, val) == IF c[3] \in {2, 4} THEN command(d, c, val) ELSE d
DirectCommandCall(d, c) == Called(d, c)
DirectCommandInput(d, c, given) == given
DirectInput(d, addr) == d.word[addr]

-----------------------------------------------------------------------------
(* The library *)

ioctl_of(d, isOutput, cmd, val) == IF isOutput THEN ioctl_ao(d, cmd, val) ELSE ioctl_ai(d, cmd, val)
set_exchange(d, isOutput, isMulti) == ioctl_of(d, isOutput, "SETTRANSFER_MODE", IF isMulti THEN 1 ELSE 0)

SetEcuSignal(d, dest, src) == ioctl_ecu(d, "SETECU_SIGNAL", src * 65536 + dest)
\* Inputs of the controller: clock, start and stop of the two sides, and
\* what Init connects them to.
Inputs == {4, 0, 2, 36, 32, 34}
FirstSource(dest) ==
  CASE dest = 4 -> 4 [] dest = 2 -> 17 [] dest = 36 -> 66 [] dest = 34 -> 80 [] dest \in {0, 32} -> 384
Connect(d, dest) == SetEcuSignal(d, dest, FirstSource(dest))
Init(d) == Connect(Connect(Connect(Connect(Connect(Connect(InitIoctl(d), 4), 0), 2), 36), 32), 34)
Exit(d) == ExitIoctl(d)

QueryDeviceName(d) == find_analog_device(d).Name
GetAiResolution(d) == Resolution(d, "AI")
GetAoResolution(d) == Resolution(d, "AO")
GetAiMaxChannels(d) == MaxChannel(d, "AI")
GetAoMaxChannels(d) == MaxChannel(d, "AO")
GetAiStatus(d) == read_ai_status(d)
GetAoStatus(d) == read_ao_status(d)

\* Clocks are given in nanoseconds here; the device counts 25 of them.
SetChannels(d, isOutput, n) == ioctl_of(set_exchange(d, isOutput, TRUE), isOutput, "SETCHANNEL", n - 1)
SetAiChannels(d, AiChannels) == SetChannels(d, FALSE, AiChannels)
SetAoChannels(d, AoChannels) == SetChannels(d, TRUE, AoChannels)
SetAiSamplingClock(d, ns) == ioctl_ai(d, "SET_CLOCK", (ns - 25) \div 25)
SetAoSamplingClock(d, ns) == ioctl_ao(d, "SET_CLOCK", ns \div 25 - 1)
SetAiEventSamplingTimes(d, n) == ioctl_ai(d, "SET_SAMPNUM", n - 1)
SetAoEventSamplingTimes(d, n) == ioctl_ao(d, "SET_SAMPNUM", n - 1)

\* A single conversion is set up over what was set for sampling.
SingleAi(d, AiChannel) ==
  LET alone == ioctl_ai(set_exchange(d, FALSE, FALSE), "SETCHANNEL", AiChannel)
      started == ioctl_ai(SetAiEventSamplingTimes(alone, 1), "START", 0)
  IN  ioctl_ai(ioctl_ecu(started, "SET_INTERRUPT_FLAG_AI", 32768), "STOP", 0)
SingleAo(d, AoChannel) ==
  LET alone == ioctl_ao(set_exchange(d, TRUE, FALSE), "SETCHANNEL", AoChannel)
  IN  ioctl_ao(SetAoEventSamplingTimes(alone, 1), "START", 0)

\* The word of a correction: its data, the output channel, range and kind.
AI_CALIBRATION_DATA(sel, range, data) == (data % 256) * 65536 + (range % 8) * 2 + (sel % 2)
AO_CALIBRATION_DATA(sel, channel, range, data) == AI_CALIBRATION_DATA(sel, range, data) + (channel % 4) * 16
Unpacked(val) == <<val % 2, (val \div 2) % 8, (val \div 65536) % 256>>
SetAiCalibrationData(d, select, range, data) ==
  ioctl_ai(d, "SET_CALIBRATION", AI_CALIBRATION_DATA(select, range, data))
SetAoCalibrationData(d, select, ch, range, data) ==
  ioctl_ao(d, "SET_CALIBRATION", AO_CALIBRATION_DATA(select, ch, range, data))
GetAiCalibrationData(d) == Unpacked(CalibrationOf(d, "AI"))
GetAoCalibrationData(d) == Unpacked(CalibrationOf(d, "AO"))

\* The argument is passed by value, so that the driver takes the first word
\* of it, the register's address, for the address of the argument: -EFAULT,
\* which nobody looks at.
Fault(d) == d
Outp(d, addr, value) == Fault(d)
EcuOutp(d, addr, value) == Fault(d)
CommandOutp(d, addr, value) == Fault(d)

-----------------------------------------------------------------------------
(* A program's requests, and what it is told about them *)

Boot(name) == [gate |-> "shut", name |-> name, reg |-> [c \in Registers |-> 0], route |-> {},
               word |-> [w \in Words |-> w * 16 + 3]]

StatusAt(of) == CASE of = "AI" -> AISTATUS [] of = "AO" -> AOSTATUS [] of = "MEM" -> MEMSTATUS
Sides(d) == {s \in TwoSides : Has(d, s)}
Facts(d) == [k \in {<<"limits", 0>>, <<"name", 0>>, <<"status", "MEM">>} \cup {<<"status", s>> : s \in Sides(d)} |->
  CASE k[1] = "limits" -> IF Has(d, "AI") THEN <<16, 8, 0, 0>> ELSE <<0, 0, 16, 4>>
    [] k[1] = "name" -> d.name
    [] k[1] = "status" -> d.word[StatusAt(k[2])]]

Request(c, ch, v) == [call |-> c, ch |-> ch, val |-> v]
\* What a program may ask of the device: the settings of a side it has, and
\* the inputs of its event controller.  A clock is a multiple of 25 ns.
Word(n) == n \in Nat /\ n < 65536
Byte(n) == n \in Nat /\ n < 256
Clock(ns) == ns \div 25 \in Nat \ {0} /\ ns = 25 * (ns \div 25)
Legal(d, r) ==
  \/ /\ r.ch \in Sides(d)
     /\ \/ r.call = "Channels" /\ r.val = <<r.val[1]>> /\ r.val[1] \in Nat \ {0} /\ Word(r.val[1] - 1)
        \/ r.call = "Times" /\ r.val = <<r.val[1]>> /\ r.val[1] \in Nat \ {0}
        \/ r.call \in {"Clock", "DirectClock"} /\ r.val = <<r.val[1]>> /\ Clock(r.val[1])
        \/ r.call = "Calibration" /\ r.val = <<r.val[1], r.val[2], r.val[3]>> /\ r.val[1] \in {0, 1} /\ r.val[2] \in 0..7 /\ Byte(r.val[3])
        \/ r.call = "Single" /\ r.val = <<r.val[1]>> /\ Word(r.val[1])
        \/ r.call = "DirectGate" /\ r.val \in {<<0>>, <<1>>}
  \/ /\ r.ch = "ECU"
     /\ \/ r.call = "Route" /\ r.val = <<r.val[1], r.val[2]>> /\ r.val[1] \in Inputs /\ Word(r.val[2])
        \/ r.call \in {"Init", "Exit", "Outp", "EcuOutp", "CommandOutp"}

Do(d, r) ==
  LET ai == r.ch = "AI"
      table == Table(r.ch) IN
  CASE r.call = "Channels" -> IF ai THEN SetAiChannels(d, r.val[1]) ELSE SetAoChannels(d, r.val[1])
    [] r.call = "Times" -> IF ai THEN SetAiEventSamplingTimes(d, r.val[1]) ELSE SetAoEventSamplingTimes(d, r.val[1])
    [] r.call = "Clock" -> IF ai THEN SetAiSamplingClock(d, r.val[1]) ELSE SetAoSamplingClock(d, r.val[1])
    [] r.call = "Route" -> SetEcuSignal(d, r.val[1], r.val[2])
    [] r.call = "Calibration" ->
         IF ai THEN SetAiCalibrationData(d, r.val[1], r.val[2], r.val[3])
               ELSE SetAoCalibrationData(d, r.val[1], 3, r.val[2], r.val[3])
    [] r.call = "Single" -> IF ai THEN SingleAi(d, r.val[1]) ELSE SingleAo(d, r.val[1])
    [] r.call = "DirectClock" -> DirectCommandOutput(d, table.SETCLOCK, r.val[1] \div 25 - 1)
    [] r.call = "DirectGate" -> DirectCommandCall(d, IF r.val = <<1>> THEN table.GATE_OPEN ELSE table.FORCE_STOP)
    [] r.call = "Init" -> Init(d)
    [] r.call = "Exit" -> Exit(d)
    [] r.call = "Outp" -> Outp(d, AOSTATUS, 1)
    [] r.call = "EcuOutp" -> EcuOutp(d, 3, 1)
    [] r.call = "CommandOutp" -> CommandOutp(d, 4099, 1)

Settles(r) ==
  CASE r.call = "Route" -> [k \in {<<"Route", r.val[1]>>} |-> r.val[2]]
    [] r.call = "Single" -> [k \in {<<"Times", r.ch>>, <<"Single", r.ch>>} |-> IF k[1] = "Times" THEN <<1>> ELSE r.val]
    [] r.call = "DirectClock" -> [k \in {<<"Clock", r.ch>>, <<"Given", r.ch>>} |-> IF k[1] = "Clock" THEN r.val ELSE 1]
    [] r.call = "DirectGate" -> [k \in {<<"Gate", "ECU">>} |-> IF r.val = <<1>> THEN "open" ELSE "shut"]
    [] r.call = "Init" -> [k \in {<<"Route", dest>> : dest \in Inputs} |-> FirstSource(k[2])]
    [] r.call = "Exit" -> [k \in {<<"Gate", "ECU">>} |-> "shut"]
    [] r.call \in {"Outp", "EcuOutp", "CommandOutp"} -> <<>>
    [] OTHER -> [k \in {<<r.call, r.ch>>} |-> r.val]

\* A single conversion and the channels to sample take each other's place;
\* the initialisation takes everything that had been set.
Forgets(r) ==
  CASE r.call = "Single" -> {<<"Channels", r.ch>>, <<"Gate", "ECU">>}
    [] r.call = "Channels" -> {<<"Single", r.ch>>}
    [] r.call = "Init" -> {<<c, s>> : c \in {"Channels", "Times", "Clock", "Calibration", "Single"}, s \in TwoSides} \cup {<<"Gate", "ECU">>}
    [] OTHER -> {}

\* The driver has no case for the library's getters of channels, clock and
\* times: these are what the registers mean.
Answers(d, k) ==
  LET table == Table(k[2])
      reg(c) == ReadCommand(d, c) IN
  CASE k[1] = "limits" -> {<<GetAiResolution(d), GetAiMaxChannels(d), GetAoResolution(d), GetAoMaxChannels(d)>>}
    [] k[1] = "name" -> {QueryDeviceName(d)}
    [] k[1] = "status" -> {DirectInput(d, StatusAt(k[2])),
         CASE k[2] = "AI" -> GetAiStatus(d) [] k[2] = "AO" -> GetAoStatus(d) [] k[2] = "MEM" -> MemStatus(d)}
    [] k[1] = "Channels" -> {<<reg(table.SETCHANNEL) + 1>> : m \in {1} \cap {reg(table.SINGLEMULTI)}}
    [] k[1] = "Single" -> {<<reg(table.SETCHANNEL)>> : m \in {0} \cap {reg(table.SINGLEMULTI)}}
    [] k[1] = "Times" -> {<<reg(table.SETSAMPNUM) + 1>>}
    [] k[1] = "Clock" -> {<<(reg(table.SETCLOCK) + 1) * 25>>}
    [] k[1] = "Gate" -> {d.gate}
    [] k[1] = "Given" -> {DirectCommandInput(d, table.SETCLOCK, 1)}
    [] k[1] = "Calibration" -> {IF k[2] = "AI" THEN GetAiCalibrationData(d) ELSE GetAoCalibrationData(d)}
    [] k[1] = "Route" -> {c[2] : c \in {e \in d.route : e[1] = k[2]}}
=============================================================================
