------------------------------ MODULE CntCalls ------------------------------
(***************************************************************************)
(* The functions of libcpscnt on an open device, each followed through the *)
(* ioctls of cpscnt to the driver's copy of the settings and to the        *)
(* registers, which are reached by the number of a command.  The mode byte *)
(* is the set of its 1 bits, the other values are naturals.  A call is one *)
(* step here; Cnt.tla interleaves the ioctls of processes.                 *)
(***************************************************************************)
LOCAL INSTANCE Integers

cps_cnt_data == {[channelNum |-> 2, Name |-> "CNT-3202I"]}
Names == {p.Name : p \in cps_cnt_data}
get_cnt_devname(d) == (CHOOSE p \in cps_cnt_data : p.Name = d.name).Name
Channels == {0, 1}

\* Bits of the mode byte.
sel0 == 0
sel1 == 1
sel2 == 2
dir == 3
ub == 4
zsel == 5
reset == 7

\* Numbers of the commands.
COUNT(ch) == ch * 5
MODE(ch) == ch * 5 + 1
STATUS(ch) == MODE(ch)
Z_PHASE(ch) == ch * 5 + 2
COMPARE_REG(ch) == ch * 5 + 3
DIGITAL_FILTER(ch) == ch * 5 + 4
LATCH_COUNT == 20
INTERRUPT_MASK == 21
SENCE_PORT == 22
TIMER_DATA == 23
ONESHOT_PULSE_WIDTH == 25
SELECT_COMMON_INPUT == 26
Commands == 0..9 \cup 20..26

-----------------------------------------------------------------------------
(* Commands: the bytes of a value go over one address, lowest first *)

ulong2uchar(data) ==
  <<data % 256, (data \div 256) % 256, (data \div 65536) % 256, (data \div 16777216) % 256>>
uchar2ulong(data) == data[1] + data[2] * 256 + data[3] * 65536 + data[4] * 16777216

\* What the device makes of the bytes it is sent.
Number(data, size) == IF size = 4 THEN uchar2ulong(data) ELSE data[1]
Write(d, command, size, val) ==
  [d EXCEPT !.reg[command] = Number(ulong2uchar(val), size)]
Read(d, command, size) == Number(ulong2uchar(d.reg[command]), size)

-----------------------------------------------------------------------------
(* The copy of the settings that the driver keeps of every channel *)

\* Made new, with the device as it is, and with the reset flag up if the
\* parameter of the module says so.
Zeros == [ch \in Channels |-> 0]
allocate_list(d) ==
  [compare |-> Zeros, filter |-> Zeros, input_sig |-> {}, latch |-> 0,
   mode |-> [ch \in Channels |-> IF d.alwaysOn THEN {reset} ELSE {}],
   pulsewidth |-> 0, sence |-> 255, zPhase |-> Zeros, alwaysOn |-> d.alwaysOn,
   latched |-> d.latched, name |-> d.name, reg |-> d.reg, status |-> d.status]
reset_flag_always_on(d, val) == [d EXCEPT !.alwaysOn = val # 0]

With(byte, bit, val) == IF val % 2 = 1 THEN byte \cup {bit} ELSE byte \ {bit}
BitOf(byte, bit) == IF bit \in byte THEN 1 ELSE 0

\* Mutant: the whole byte is replaced, with the bits others have set.
set_op_mode_WholeByte(ch, d, valb) == [d EXCEPT !.mode[ch] = valb]

set_op_mode(ch, d, valb) ==
  [d EXCEPT !.mode[ch] = (@ \ {sel0, sel1, sel2, ub}) \cup (valb \cap {sel0, sel1, sel2, ub})]
get_op_mode(ch, d) == d.mode[ch] \cap {sel0, sel1, sel2, ub}
set_reset(ch, d, valb) == [d EXCEPT !.mode[ch] = With(@, reset, valb)]
set_z_logic(ch, d, valb) == [d EXCEPT !.mode[ch] = With(@, zsel, valb)]
get_z_logic(ch, d) == BitOf(d.mode[ch], zsel)
set_count_direction(ch, d, valb) == [d EXCEPT !.mode[ch] = With(@, dir, valb)]
get_count_direction(ch, d) == BitOf(d.mode[ch], dir)

\* One byte for all channels, of which only the bit of ch is kept.
set_selectsignal(ch, d, valb) == [d EXCEPT !.input_sig = IF valb % 2 = 1 THEN {ch} ELSE {}]
get_selectsignal(ch, d) == BitOf(d.input_sig, ch)

set_z_mode(ch, d, valb) == [d EXCEPT !.zPhase[ch] = (valb % 4) * 2]
get_z_mode(ch, d) == (d.zPhase[ch] \div 2) % 4
set_digital_filter(ch, d, valb) == [d EXCEPT !.filter[ch] = valb]
get_digital_filter(ch, d) == d.filter[ch]
set_pulse_width(d, valb) == [d EXCEPT !.pulsewidth = valb]
get_pulse_width(d) == d.pulsewidth
set_count_latch(d, valb) == [d EXCEPT !.latch = valb]
get_count_latch(d) == d.latch

-----------------------------------------------------------------------------
(* Starting and stopping *)

\* What a bit of a byte is worth.
Weight == <<1, 2, 4, 8, 16, 32, 64, 128>>
Worth(bits, b) == IF b \in bits THEN Weight[b + 1] ELSE 0
ByteOf(bits) ==
  Worth(bits, 0) + Worth(bits, 1) + Worth(bits, 2) + Worth(bits, 3)
    + Worth(bits, 4) + Worth(bits, 5) + Worth(bits, 6) + Worth(bits, 7)
Bit(byte, b) == (byte \div Weight[b + 1]) % 2
HasBit(byte, b) == Bit(byte, b) = 1
SetMode(d, ch) == Write(d, MODE(ch), 1, ByteOf(d.mode[ch]))

\* The flag of the copy is left alone if it is to be always on.
Flagged(d, ch, valb) == IF d.alwaysOn THEN d ELSE set_reset(ch, d, valb)

\* The input signal is not written but read back.
StartCommon(d) ==
  LET e == Write(d, SENCE_PORT, 1, d.sence)
      sig == {b \in 0..7 : HasBit(Read(e, SELECT_COMMON_INPUT, 1), b)}
  IN  Write([e EXCEPT !.input_sig = sig], ONESHOT_PULSE_WIDTH, 1, e.pulsewidth)
StartChannel(d, ch) ==
  LET filtered == Write(d, DIGITAL_FILTER(ch), 1, d.filter[ch])
      phased == Write(filtered, Z_PHASE(ch), 1, d.zPhase[ch])
      compared == Write(phased, COMPARE_REG(ch), 4, d.compare[ch])
  IN  SetMode(Flagged(compared, ch, 1), ch)
start_by_channel(d, enableCh) ==
  LET common == StartCommon(d)
      first == IF 0 \in enableCh THEN StartChannel(common, 0) ELSE common
  IN  IF 1 \in enableCh THEN StartChannel(first, 1) ELSE first

StopChannel(d, ch) == SetMode(Flagged(d, ch, 0), ch)
stop_by_channel(d, enableCh) ==
  LET first == IF 0 \in enableCh THEN StopChannel(d, 0) ELSE d
  IN  IF 1 \in enableCh THEN StopChannel(first, 1) ELSE first

-----------------------------------------------------------------------------
(* The ioctls that change something, and those that answer *)

\* Counts and comparison go to the device at once, the comparison to both.
CountIoctl(d, cmd, ch, val) ==
  CASE cmd = "INIT_COUNT" -> Write(d, COUNT(ch), 4, val)
    [] cmd = "SET_COMPARE_REG" -> Write([d EXCEPT !.compare[ch] = val], COMPARE_REG(ch), 4, val)

\* Settings change the copy only.
CopyIoctl(d, cmd, ch, val) ==
  CASE cmd = "SET_MODE" -> set_op_mode(ch, d, val)
    [] cmd = "SET_Z_PHASE" -> set_z_mode(ch, d, val)
    [] cmd = "SET_FILTER" -> set_digital_filter(ch, d, val)
    [] cmd = "SET_DIRECTION" -> set_count_direction(ch, d, val)
    [] cmd = "SET_Z_LOGIC" -> set_z_logic(ch, d, val)
    [] cmd = "SET_ONESHOT_PULSE_WIDTH" -> set_pulse_width(d, val)
    [] cmd = "SET_SELECT_COMMON_INPUT" -> set_selectsignal(ch, d, val)

\* The latch freezes the counts of the channels whose bits are written.
Latch(d, valb) ==
  LET e == Write(set_count_latch(d, valb), LATCH_COUNT, 1, valb)
  IN  [e EXCEPT !.latched = [ch \in Channels |->
         IF HasBit(valb, ch) THEN Read(e, COUNT(ch), 4) ELSE @[ch]]]

\* Registers for which the library has no function, and none of its own
\* touches but for the sence register.
RegisterOf == [RESET_SENCE |-> SENCE_PORT, SET_INTERRUPT_MASK |-> INTERRUPT_MASK,
               SET_TIMER_DATA |-> TIMER_DATA]
RegisterIoctl(d, cmd, val) ==
  Write(d, RegisterOf[cmd], IF cmd = "SET_TIMER_DATA" THEN 4 ELSE 1, val)
GetInterruptMask(d) == Read(d, INTERRUPT_MASK, 1)

GetIoctl(d, cmd, ch) ==
  CASE cmd = "GET_FILTER" -> get_digital_filter(ch, d)
    [] cmd = "GET_Z_LOGIC" -> get_z_logic(ch, d)
    [] cmd = "GET_ONESHOT_PULSE_WIDTH" -> get_pulse_width(d)
    [] cmd = "GET_SELECT_COMMON_INPUT" -> get_selectsignal(ch, d)
    [] cmd = "GET_MAX_CHANNELS" -> (CHOOSE p \in cps_cnt_data : p.Name = d.name).channelNum
    [] cmd = "GET_STATUS" -> d.status[ch]

-----------------------------------------------------------------------------
(* The library *)

\* Gate control counts with both edges or one; two phases are multiplied.
SetOperationMode(d, ChNo, Phase, Mul, SyncDir) ==
  LET multiply == {b \in {sel0, sel1} : HasBit(Mul, b)}
      valb == CASE Phase = "GATECONTROL" -> {sel0, sel1} \cup (IF Mul = 1 THEN {sel2} ELSE {})
                [] Phase = "1PHASE" -> {sel0, sel1, ub}
                [] Phase = "2PHASE" -> multiply \cup (IF SyncDir = 0 THEN {sel2} ELSE {})
  IN  CopyIoctl(d, "SET_MODE", ChNo, valb)

SetZMode(d, ChNo, Mode) == CopyIoctl(d, "SET_Z_PHASE", ChNo, Mode)
SetZLogic(d, ChNo, Logic) == CopyIoctl(d, "SET_Z_LOGIC", ChNo, Logic)
SelectChannelSignal(d, ChNo, SigType) == CopyIoctl(d, "SET_SELECT_COMMON_INPUT", ChNo, SigType)
SetCountDirection(d, ChNo, Dir) == CopyIoctl(d, "SET_DIRECTION", ChNo, Dir)
SetDigitalFilter(d, ChNo, FilterValue) == CopyIoctl(d, "SET_FILTER", ChNo, FilterValue % 256)
SetPulseWidth(d, ChNo, PlsWidth) == CopyIoctl(d, "SET_ONESHOT_PULSE_WIDTH", ChNo, PlsWidth % 256)

GetMaxChannels(d) == GetIoctl(d, "GET_MAX_CHANNELS", 0)
GetZLogic(d, ChNo) == GetIoctl(d, "GET_Z_LOGIC", ChNo)
GetChannelSignal(d, ChNo) == GetIoctl(d, "GET_SELECT_COMMON_INPUT", ChNo)
GetDigitalFilter(d, ChNo) == GetIoctl(d, "GET_FILTER", ChNo)
GetPulseWidth(d, ChNo) == GetIoctl(d, "GET_ONESHOT_PULSE_WIDTH", ChNo)
ReadStatus(d, ChNo) == GetIoctl(d, "GET_STATUS", ChNo)
InputDIBit(d, ChNo) == ReadStatus(d, ChNo) % 2

\* It issues the setter, with a value nobody wrote.
GetCountDirection(d, ChNo, garbage) == CopyIoctl(d, "SET_DIRECTION", ChNo, garbage)

StartCount(d, ChNos) == start_by_channel(d, ChNos)
StopCount(d, ChNos) == stop_by_channel(d, ChNos)
Preset(d, ChNos, PresetData) ==
  LET first == IF 0 \in ChNos THEN CountIoctl(d, "INIT_COUNT", 0, PresetData) ELSE d
  IN  IF 1 \in ChNos THEN CountIoctl(first, "INIT_COUNT", 1, PresetData) ELSE first
LatchCounts(d, ChNos) == Latch(d, ByteOf(ChNos))
ReadCount(d, ChNos) == [ch \in ChNos |-> LatchCounts(d, ChNos).latched[ch]]
NotifyCountUp(d, ChNo, Count) == CountIoctl(d, "SET_COMPARE_REG", ChNo, Count)

-----------------------------------------------------------------------------
(* A program's requests, and what it is told about them *)

\* What the copy says of the reset flag.
Flag(d, ch) == BitOf(d.mode[ch], reset)

Boot(name) == allocate_list(
  [alwaysOn |-> FALSE, latched |-> Zeros, name |-> name, reg |-> [c \in Commands |-> 0],
   status |-> [ch \in Channels |-> 1 + ch]])

Facts(d) == [k \in {<<"status", ch>> : ch \in Channels} \cup {<<"channels", 0>>, <<"name", 0>>} |->
  CASE k[1] = "status" -> <<d.status[k[2]], d.status[k[2]] % 2>>
    [] k[1] = "channels" -> 2
    [] k[1] = "name" -> d.name]

\* Gate x2, one phase, two phases x4 asynchronous and x2 synchronous, and what
\* the selection bits of the mode byte are for each.
Modes == <<<<"GATECONTROL", 1, 0>>, <<"1PHASE", 0, 0>>, <<"2PHASE", 2, 0>>, <<"2PHASE", 1, 1>>>>
ModeBits == <<{0, 1, 2}, {0, 1, 4}, {1, 2}, {0}>>

Request(c, ch, v) == [call |-> c, ch |-> ch, chs |-> {}, val |-> v]
Many(c, chs) == [call |-> c, ch |-> 0, chs |-> chs, val |-> 0]
\* What a program may ask of the device, and the administrator of the module;
\* a long word has 32 bits.
Byte(v) == v \in Nat /\ v < 256
Long(v) == v \in Nat /\ v \div 16777216 < 256
Legal(d, r) ==
  \/ r.call = "SetOperationMode" /\ r.ch \in Channels /\ r.val \in 1..4
  \/ r.call \in {"SetZLogic", "SetCountDirection", "SelectChannelSignal"} /\ r.ch \in Channels /\ r.val \in {0, 1}
  \/ r.call = "SetZMode" /\ r.ch \in Channels /\ r.val \in 0..3
  \/ r.call = "SetDigitalFilter" /\ r.ch \in Channels /\ Byte(r.val)
  \/ r.call \in {"SetPulseWidth", "SET_INTERRUPT_MASK", "RESET_SENCE"} /\ r.ch = 0 /\ Byte(r.val)
  \/ r.call = "SET_TIMER_DATA" /\ r.ch = 0 /\ Long(r.val)
  \/ r.call \in {"NotifyCountUp", "Preset"} /\ r.ch \in Channels /\ Long(r.val)
  \/ r.call = "GetCountDirection" /\ r.ch \in Channels /\ r.val \in Nat
  \/ r.call \in {"StartCount", "StopCount", "ReadCount"} /\ r.chs \subseteq Channels
  \/ r.call = "reset_flag_always_on" /\ r.val \in Nat

Do(d, r) ==
  CASE r.call = "SetOperationMode" -> SetOperationMode(d, r.ch, Modes[r.val][1], Modes[r.val][2], Modes[r.val][3])
    [] r.call = "SetZMode" -> SetZMode(d, r.ch, r.val)
    [] r.call = "SetZLogic" -> SetZLogic(d, r.ch, r.val)
    [] r.call = "SelectChannelSignal" -> SelectChannelSignal(d, r.ch, r.val)
    [] r.call = "SetCountDirection" -> SetCountDirection(d, r.ch, r.val)
    [] r.call = "GetCountDirection" -> GetCountDirection(d, r.ch, r.val)
    [] r.call = "SetDigitalFilter" -> SetDigitalFilter(d, r.ch, r.val)
    [] r.call = "SetPulseWidth" -> SetPulseWidth(d, r.ch, r.val)
    [] r.call = "NotifyCountUp" -> NotifyCountUp(d, r.ch, r.val)
    [] r.call = "Preset" -> Preset(d, {r.ch}, r.val)
    [] r.call = "ReadCount" -> LatchCounts(d, r.chs)
    [] r.call = "StartCount" -> StartCount(d, r.chs)
    [] r.call = "StopCount" -> StopCount(d, r.chs)
    [] r.call = "reset_flag_always_on" -> reset_flag_always_on(d, r.val)
    [] OTHER -> RegisterIoctl(d, r.call, r.val)

\* A started channel counts and a stopped one does not, unless the parameter
\* of the module leaves the flag to what it was.
Counting(d, r, ch) ==
  IF d.alwaysOn THEN Flag(d, ch) ELSE IF r.call = "StartCount" THEN 1 ELSE 0

\* The one byte of the signals: selecting that of a channel clears the other,
\* and a start replaces both by what the device has.
Signal(d, r, ch) ==
  IF r.call = "StartCount" THEN Bit(Read(d, SELECT_COMMON_INPUT, 1), ch)
  ELSE IF ch = r.ch THEN r.val ELSE 0
Signals == {<<"SelectChannelSignal", ch>> : ch \in Channels}
Run(chs) == {<<"counting", ch>> : ch \in chs} \cup {<<"flag", ch>> : ch \in chs}

\* What a call says, of the device it is made of: keys and values.
Settles(d, r) ==
  CASE r.call = "StartCount" ->
         [k \in Run(r.chs) \cup Signals |->
            IF k \in Signals THEN Signal(d, r, k[2]) ELSE Counting(d, r, k[2])]
    [] r.call = "StopCount" -> [k \in Run(r.chs) |-> Counting(d, r, k[2])]
    [] r.call = "SelectChannelSignal" -> [k \in Signals |-> Signal(d, r, k[2])]
    [] r.call \in {"GetCountDirection", "ReadCount", "RESET_SENCE", "reset_flag_always_on"} -> <<>>
    [] OTHER -> [k \in {<<r.call, r.ch>>} |-> r.val]

\* Asking for the direction changes it, to what nobody knows.
Forgets(r) == IF r.call = "GetCountDirection" THEN {<<"SetCountDirection", r.ch>>} ELSE {}

\* A reload of the module, with or without the parameter, makes a new copy;
\* the registers stay.
Reloaded(d, on) == allocate_list([d EXCEPT !.alwaysOn = on])
Loads(on) == [k \in {<<"flag", ch>> : ch \in Channels} |-> IF on THEN 1 ELSE 0]
Kept == {"status", "channels", "name", "counting", "Preset", "SET_INTERRUPT_MASK", "SET_TIMER_DATA"}

\* What the getters answer that work, and for a setting of the copy what the
\* registers of the device hold once the channel is started with it.
ModeOf(d, ch) == Read(StartCount(d, {ch}), MODE(ch), 1)
Answers(d, k) ==
  CASE k[1] = "status" -> {<<ReadStatus(d, k[2]), InputDIBit(d, k[2])>>}
    [] k[1] = "channels" -> {GetMaxChannels(d)}
    [] k[1] = "name" -> {get_cnt_devname(d)}
    [] k[1] = "SetOperationMode" ->
         {m \in DOMAIN Modes : ModeBits[m] = {b \in {sel0, sel1, sel2, ub} : HasBit(ModeOf(d, k[2]), b)}}
    [] k[1] = "SetZMode" -> {(Read(StartCount(d, {k[2]}), Z_PHASE(k[2]), 1) \div 2) % 4}
    [] k[1] = "SetZLogic" -> {GetZLogic(d, k[2]), Bit(ModeOf(d, k[2]), zsel)}
    [] k[1] = "SelectChannelSignal" -> {GetChannelSignal(d, k[2])}
    [] k[1] = "SetCountDirection" -> {Bit(ModeOf(d, k[2]), dir)}
    [] k[1] = "SetDigitalFilter" ->
         {GetDigitalFilter(d, k[2]), Read(StartCount(d, {k[2]}), DIGITAL_FILTER(k[2]), 1)}
    [] k[1] = "SetPulseWidth" -> {GetPulseWidth(d, k[2]), Read(StartCount(d, {0}), ONESHOT_PULSE_WIDTH, 1)}
    [] k[1] = "NotifyCountUp" ->
         {Read(e, COMPARE_REG(k[2]), 4) : e \in {d, StartCount(d, {k[2]})}}
    [] k[1] = "Preset" -> {ReadCount(d, {k[2]})[k[2]], ReadCount(d, Channels)[k[2]]}
    [] k[1] = "counting" -> {Bit(Read(d, MODE(k[2]), 1), reset)}
    [] k[1] = "flag" -> {Flag(d, k[2])}
    [] k[1] = "SET_INTERRUPT_MASK" -> {GetInterruptMask(d)}
    [] k[1] = "SET_TIMER_DATA" -> {Read(d, TIMER_DATA, 4)}
=============================================================================
