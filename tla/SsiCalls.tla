------------------------------ MODULE SsiCalls ------------------------------
(***************************************************************************)
(* The functions of libcpsssi on an open device, each followed through the *)
(* ioctls of cpsssi to the driver's channel data and offsets and to the    *)
(* bytes of the converter, which are reached through three registers of    *)
(* the FPGA.  A word is its highest byte and the 24 bits below; doubles    *)
(* are given in the unit of the register they end in.  A call is one step  *)
(* here; Ssi.tla interleaves the ioctls of processes.                      *)
(***************************************************************************)
LOCAL INSTANCE Integers
LOCAL INSTANCE Sequences
INSTANCE SsiOffset

cps_ssi_data == {[Name |-> "CPS-SSI-4P", ssiChannel |-> 4]}
Names == {p.Name : p \in cps_ssi_data}
find_sensor_device(d) == CHOOSE p \in cps_ssi_data : p.Name = d.name
get_ssi_devname(d) == find_sensor_device(d).Name
Channels == 0..3

-----------------------------------------------------------------------------
(* The bytes of the converter *)

STATUS == 0
START_CHANNEL == <<133, 136, 140, 143>>
TEMP_CHANNEL == <<32, 44, 60, 72>>
CHANNEL_DATA == <<528, 540, 556, 568>>
SENSE_RESISTANCE == 520
Words == {TEMP_CHANNEL[i] : i \in 1..4} \cup {CHANNEL_DATA[i] : i \in 1..4} \cup {SENSE_RESISTANCE}
Addresses == {STATUS} \cup UNION {{a, a + 1, a + 2, a + 3} : a \in Words}

BytesOf(word) == <<word[1], word[2] \div 65536, (word[2] \div 256) % 256, word[2] % 256>>
WordOf(bytes) == <<bytes[1], (bytes[2] * 256 + bytes[3]) * 256 + bytes[4]>>
Written(reg, at, word) ==
  [a \in Addresses |-> IF at <= a /\ a < at + 4 THEN BytesOf(word)[(a - at) + 1] ELSE reg[a]]

\* A conversion leaves a status byte, here 1, and the temperature; then the
\* device reports that it is done.
Converted(d, ch) ==
  [d EXCEPT !.reg = [Written(@, TEMP_CHANNEL[ch + 1], <<1, d.raw[ch]>>) EXCEPT ![STATUS] = 64]]
Transacted(d) ==
  CASE d.port["rw"] = "read" -> [d EXCEPT !.port["data"] = d.reg[d.port["address"]]]
    [] d.port["rw"] = "write" /\ d.port["address"] # STATUS -> [d EXCEPT !.reg[d.port["address"]] = d.port["data"]]
    [] OTHER -> Converted(d, (CHOOSE i \in 1..4 : START_CHANNEL[i] = d.port["data"]) - 1)

command(d, wCommand, val) == [d EXCEPT !.port[wCommand] = val]

\* Address, data, direction; then the driver waits for the device.
command_4p_write(d, at, byte) ==
  Transacted(command(command(command(d, "address", at), "data", byte), "rw", "write"))
command_4p_read(d, at) ==
  Transacted(command(command(d, "address", at), "rw", "read")).port["data"]

\* A command for each byte, the last of which stays in the registers.
write_word(d, at, word) ==
  command_4p_write([d EXCEPT !.reg = Written(@, at, word)], at + 3, BytesOf(word)[4])
read_word(d, at) == WordOf([i \in 1..4 |-> command_4p_read(d, (at + i) - 1)])

set_sense_resistance(d, word) == write_word(d, SENSE_RESISTANCE, word)
get_sense_resistance(d) == read_word(d, SENSE_RESISTANCE)
set_channel(d, ch, word) == write_word(d, CHANNEL_DATA[ch + 1], word)
get_channel(d, ch) == read_word(d, CHANNEL_DATA[ch + 1])
set_start(d, ch) == command_4p_write(d, STATUS, START_CHANNEL[ch + 1])
get_temprature(d, ch) == read_word(d, TEMP_CHANNEL[ch + 1])

-----------------------------------------------------------------------------
(* The driver's data of a channel, and its offsets *)

WIRE_3 == 5
WIRE_4 == 13
STANDARD_EU == 0
STANDARD_JP == 2
GET_RTD_WIRE_MODE(word) == (word[2] \div 262144) % 16
GET_RTD_STANDARD(word) == (word[2] \div 4096) % 4
\* A PT100 with its sense resistor between channels 2 and 3 and 250 uA.
SET_RTD(wire, std) == <<96, 3 * 4194304 + wire * 262144 + 6 * 16384 + std * 4096>>

Wires == {"w3", "w4"}
allocate_offset_list(d) == [d EXCEPT !.off = [ch \in Channels |-> [w \in Wires |-> 0]]]
NoChannelData == [ch \in Channels |-> [last |-> 0, std |-> 0, wire |-> 0]]
OffsetOf(wire) == IF wire = WIRE_3 THEN "w3" ELSE "w4"

set_channeldata_offset(d, ch, bVal) == [d EXCEPT !.off[ch][OffsetOf(d.data[ch].wire)] = bVal]
get_channeldata_offset(d, ch) == d.off[ch][OffsetOf(d.data[ch].wire)]
set_channeldata_basic(d, ch, word) ==
  [d EXCEPT !.data[ch] =
     [last |-> @.last, std |-> GET_RTD_STANDARD(word), wire |-> GET_RTD_WIRE_MODE(word)]]
set_channeldata_lastStatus(d, ch, status) == [d EXCEPT !.data[ch].last = status]

-----------------------------------------------------------------------------
(* The ioctls *)

\* Nothing tells what the FPGA does with the converter's settings.
InitIoctl(d) == d
InData(d, ch) == set_channeldata_lastStatus(d, ch, get_temprature(d, ch)[1])
InDataVal(d, ch) == addsub(get_temprature(d, ch)[2], get_channeldata_offset(d, ch))
\* The states of all channels, which are forgotten.
InStatus(d) == [d EXCEPT !.data = [ch \in Channels |-> [@[ch] EXCEPT !.last = 0]]]
InStatusVal(d) == [ch \in Channels |-> d.data[ch].last]
BusyStatus(d) == command_4p_read(d, STATUS)
SetChannelIoctl(d, ch, word) == set_channel(set_channeldata_basic(d, ch, word), ch, word)

WriteRom(d, num, val) == [d EXCEPT !.rom[num] = val % 65536]
ReadRom(d, num) == d.rom[num]
\* As many words as there are channels are zeroed, and then the ROM cleared.
ClearRom(d) ==
  [d EXCEPT !.rom = [n \in DOMAIN @ |-> 0]]

DirectCommandOutput(d, at, val) == command_4p_write(d, at, val)
DirectCommandInput(d, at) == command_4p_read(d, at)

-----------------------------------------------------------------------------
(* The library *)

SENSE_DEFAULT == 2048000   \* 2000 ohms in units of 1/1024
SET_SENSE(val) == <<232 + ((val \div 16777216) % 8), val % 16777216>>
GET_SENSE(word) == (word[1] % 8) * 16777216 + word[2]
SetSenseResistor(d, sense) == set_sense_resistance(d, SET_SENSE(sense))
GetSenseResistor(d) == GET_SENSE(get_sense_resistance(d))

Init(d) == SetSenseResistor(InitIoctl(d), SENSE_DEFAULT)

WireMode(iWire) == IF iWire = "w3" THEN WIRE_3 ELSE WIRE_4
Standard(iJpt) == IF iJpt = "JPT" THEN STANDARD_JP ELSE STANDARD_EU
SetChannel(d, ch, iWire, iJpt) == SetChannelIoctl(d, ch, SET_RTD(WireMode(iWire), Standard(iJpt)))
GetWire(d, ch) == OffsetOf(GET_RTD_WIRE_MODE(get_channel(d, ch)))
GetJpt(d, ch) == IF GET_RTD_STANDARD(get_channel(d, ch)) = STANDARD_JP THEN "JPT" ELSE "PT"

Start(d, ch) == set_start(d, ch)
IsConversionStartBusyStatus(d) == BusyStatus(d)
GetData(d, ch) == InDataVal(d, ch)
GetStatus(d) == InStatusVal(d)
\* Started, waited for until the device reports the end, and fetched.
Single(d, ch) == InData(Start(d, ch), ch)
SingleTemperature(d, ch) == Temperature(InDataVal(Start(d, ch), ch))
\* The polynomial of the standard, in place of its value.
SingleResistance(d, ch) == <<GetJpt(d, ch), SingleTemperature(d, ch)>>

SetCalibrationOffset(d, ch, iWire, n) ==
  LET selected == SetChannel(d, ch, iWire, GetJpt(d, ch))
      stored == set_channeldata_offset(selected, ch, double2uchar(n))
  IN  SetChannel(stored, ch, GetWire(d, ch), GetJpt(d, ch))
\* Reading selects and restores as well.
AfterGetOffset(d, ch, iWire) ==
  SetChannel(SetChannel(d, ch, iWire, GetJpt(d, ch)), ch, GetWire(d, ch), GetJpt(d, ch))
GetCalibrationOffset(d, ch, iWire) ==
  uchar2double(get_channeldata_offset(SetChannel(d, ch, iWire, GetJpt(d, ch)), ch))

double2ushort(n) == IF n >= 0 THEN n % 65536 ELSE ((65535 - ((-n) % 65536)) + 1) % 65536
ushort2double(b) == IF b >= 32768 THEN -(32768 - (b % 32768)) ELSE b % 32768

SetCalibrationGain(d, n) == SetSenseResistor(d, n + SENSE_DEFAULT)
SetCalibrationGainToUShort(d, b) == SetSenseResistor(d, ushort2double(b) + SENSE_DEFAULT)
GetCalibrationGain(d) == GetSenseResistor(d) - SENSE_DEFAULT

WriteCalibrationGain(d, n) == WriteRom(d, 0, double2ushort(n))
ReadCalibrationGain(d) == ushort2double(ReadRom(d, 0))
WriteCalibrationOffset(d, ch, n3, n4) ==
  WriteRom(d, ch + 1, PackOffsets(double2uchar(n3), double2uchar(n4)))
ReadCalibrationOffset(d, ch) ==
  LET both == UnpackOffsets(ReadRom(d, ch + 1)) IN <<uchar2double(both.w3), uchar2double(both.w4)>>

ClearOffsets(d, ch) == SetCalibrationOffset(SetCalibrationOffset(d, ch, "w3", 0), ch, "w4", 0)
ClearRam(d) ==
  ClearOffsets(ClearOffsets(ClearOffsets(ClearOffsets(SetCalibrationGain(d, 0), 0), 1), 2), 3)
ClearCalibrationData(d, iClear) ==
  LET ram == IF "RAM" \in iClear THEN ClearRam(d) ELSE d
  IN  IF "ROM" \in iClear THEN ClearRom(ram) ELSE ram

\* The argument is passed by value: -EFAULT, which nobody looks at.
CommandOutp(d, at, val) == d

-----------------------------------------------------------------------------
(* A program's requests, and what it is told about them *)

\* 25 degrees, -3, 0 and 100, in units of 1/1024.
Boot(name) == allocate_offset_list(
  [data |-> NoChannelData, name |-> name, off |-> <<>>,
   port |-> [p \in {"address", "data", "rw"} |-> IF p = "rw" THEN "read" ELSE 0],
   raw |-> [ch \in Channels |-> <<25600, 16774144, 0, 102400>>[ch + 1]],
   reg |-> [a \in Addresses |-> 0], rom |-> [n \in 0..4 |-> 0]])

\* The first open has new channel data; a reload of the module new offsets.
Opened(d) == [d EXCEPT !.data = NoChannelData]
Reloaded(d) == allocate_offset_list(d)

Facts(d) == [k \in {<<"name", 0>>, <<"channels", 0>>} |-> IF k[1] = "name" THEN d.name ELSE 4]

Request(c, ch, how, num) == [call |-> c, ch |-> ch, how |-> how, num |-> num]
\* What a program may ask of the device: how is a wiring and a standard, num
\* holds the numbers of a call.  The sense resistor's word has 27 bits.
SignedByte(n) == n \in Int /\ -128 <= n /\ n < 128
SignedShort(n) == n \in Int /\ -32768 <= n /\ n < 32768
Resistance(n) == n \in Nat /\ n \div 16777216 < 8
Legal(d, r) ==
  \/ r.call = "SetChannel" /\ r.ch \in Channels /\ r.how \in Wires \X {"PT", "JPT"}
  \/ r.call = "SetOffset" /\ r.ch \in Channels /\ r.how \in {<<w>> : w \in Wires} /\ SignedByte(r.num[1])
  \/ r.call = "GetOffset" /\ r.ch \in Channels /\ r.how \in {<<w>> : w \in Wires}
  \/ r.call = "SetGain" /\ r.num[1] \in Int /\ Resistance(r.num[1] + SENSE_DEFAULT)
  \/ r.call \in {"SetGainToUShort", "WriteGain"} /\ SignedShort(r.num[1])
  \/ r.call = "WriteOffset" /\ r.ch \in Channels /\ r.num = <<r.num[1], r.num[2]>> /\ SignedByte(r.num[1]) /\ SignedByte(r.num[2])
  \/ r.call = "Clear" /\ r.how \in {<<"RAM">>, <<"ROM">>}
  \/ r.call = "Single" /\ r.ch \in Channels
  \/ r.call \in {"GetStatus", "Init", "CommandOutp"}
  \/ r.call = "DirectCommandOutput" /\ r.ch \in 0..3 /\ r.num[1] \in Nat /\ r.num[1] < 256

Do(d, r) ==
  LET n == r.num[1] IN
  CASE r.call = "SetChannel" -> SetChannel(d, r.ch, r.how[1], r.how[2])
    [] r.call = "SetOffset" -> SetCalibrationOffset(d, r.ch, r.how[1], n)
    [] r.call = "GetOffset" -> AfterGetOffset(d, r.ch, r.how[1])
    [] r.call = "SetGain" -> SetCalibrationGain(d, n)
    [] r.call = "SetGainToUShort" -> SetCalibrationGainToUShort(d, double2ushort(n))
    [] r.call = "WriteGain" -> WriteCalibrationGain(d, n)
    [] r.call = "WriteOffset" -> WriteCalibrationOffset(d, r.ch, n, r.num[2])
    [] r.call = "Clear" -> ClearCalibrationData(d, {r.how[1]})
    [] r.call = "Single" -> Single(d, r.ch)
    [] r.call = "GetStatus" -> InStatus(d)
    [] r.call = "Init" -> Init(d)
    [] r.call = "CommandOutp" -> CommandOutp(d, SENSE_RESISTANCE, 0)
    [] r.call = "DirectCommandOutput" -> DirectCommandOutput(d, SENSE_RESISTANCE + r.ch, n)

\* Keys the call gives a value: the gain is byte 3 of the resistor's word too.
Settles(r) ==
  CASE r.call = "SetChannel" -> [k \in {<<"SetChannel", r.ch>>} |-> r.how]
    [] r.call = "SetOffset" -> [k \in {<<r.how[1], r.ch>>} |-> r.num[1]]
    [] r.call \in {"SetGain", "SetGainToUShort"} -> [k \in {<<"Gain", 0>>} |-> r.num[1]]
    [] r.call = "WriteGain" -> [k \in {<<"WriteGain", 0>>} |-> r.num[1]]
    [] r.call = "WriteOffset" -> [k \in {<<"WriteOffset", r.ch>>} |-> r.num]
    [] r.call = "Clear" /\ r.how = <<"RAM">> -> [k \in (Wires \X Channels) \cup {<<"Gain", 0>>} |-> 0]
    [] r.call = "Clear" /\ r.how = <<"ROM">> ->
         [k \in {<<"WriteGain", 0>>} \cup {<<"WriteOffset", ch>> : ch \in Channels} |->
            IF k[1] = "WriteGain" THEN 0 ELSE <<0, 0>>]
    [] r.call = "Single" -> [k \in {<<"last", r.ch>>} |-> 1]
    [] r.call = "GetStatus" -> [k \in {<<"last", ch>> : ch \in Channels} |-> 0]
    [] r.call = "Init" -> [k \in {<<"Gain", 0>>} |-> 0]
    [] r.call = "DirectCommandOutput" -> [k \in {<<"byte", r.ch>>} |-> r.num[1]]
    [] OTHER -> <<>>

Forgets(r) ==
  CASE r.call \in {"SetGain", "SetGainToUShort", "Init"} \/ (r.call = "Clear" /\ r.how = <<"RAM">>) -> {<<"byte", i>> : i \in 0..3}
    [] r.call = "DirectCommandOutput" -> {<<"Gain", 0>>}
    [] OTHER -> {}
KeptByReload == {"SetChannel", "Gain", "WriteGain", "WriteOffset", "byte", "name", "channels"}
KeptByOpen == KeptByReload \cup {"w3", "w4"}

\* What the getters answer, and what a measurement shows of the offset of the
\* wiring the driver has for the channel.
Answers(d, k) ==
  LET ch == k[2] IN
  CASE k[1] = "name" -> {get_ssi_devname(d)}
    [] k[1] = "channels" -> {find_sensor_device(d).ssiChannel}
    [] k[1] = "SetChannel" -> {<<GetWire(d, ch), GetJpt(d, ch)>>, <<GetWire(d, ch), SingleResistance(d, ch)[1]>>}
    [] k[1] \in {"w3", "w4"} -> {GetCalibrationOffset(d, ch, k[1])} \cup
         {(SingleTemperature(d, ch) - Temperature(d.raw[ch])) \div 32 :
            w \in {k[1]} \cap {OffsetOf(d.data[ch].wire)}}
    [] k[1] = "Gain" -> {GetCalibrationGain(d)}
    [] k[1] = "WriteGain" -> {ReadCalibrationGain(d)}
    [] k[1] = "WriteOffset" -> {ReadCalibrationOffset(d, ch)}
    [] k[1] = "last" -> {GetStatus(d)[ch]}
    [] k[1] = "byte" -> {DirectCommandInput(d, SENSE_RESISTANCE + ch)}
=============================================================================
