------------------------------ MODULE DioCalls ------------------------------
(***************************************************************************)
(* The functions of libcpsdio on an open device, each followed through the *)
(* ioctls of cpsdio down to the registers.  The registers are the memory   *)
(* reg of their offsets; a byte is the set of its 1 bits, a word is two.   *)
(* A call is one step here; Dio.tla interleaves the ioctls of programs, and *)
(* has OutBit and the interrupt.                                           *)
(***************************************************************************)
LOCAL INSTANCE Integers
LOCAL INSTANCE Sequences

\* Terminals in and out, and whether the product has a supply of its own.
cps_dio_data == {
  [in |-> 8,  Name |-> "DIO-0808L",   out |-> 8,  power |-> FALSE],
  [in |-> 8,  Name |-> "DIO-0808BL",  out |-> 8,  power |-> TRUE],
  [in |-> 8,  Name |-> "DIO-0808RL",  out |-> 8,  power |-> FALSE],
  [in |-> 0,  Name |-> "RRY-4PCC",    out |-> 4,  power |-> FALSE],
  [in |-> 8,  Name |-> "DIO-0808RBL", out |-> 8,  power |-> TRUE],
  [in |-> 16, Name |-> "DI-16L",      out |-> 0,  power |-> FALSE],
  [in |-> 16, Name |-> "DI-16BL",     out |-> 0,  power |-> TRUE],
  [in |-> 0,  Name |-> "DO-16L",      out |-> 16, power |-> FALSE],
  [in |-> 0,  Name |-> "DO-16BL",     out |-> 16, power |-> TRUE],
  [in |-> 16, Name |-> "DI-16RL",     out |-> 0,  power |-> FALSE],
  [in |-> 16, Name |-> "DI-16RBL",    out |-> 0,  power |-> TRUE],
  [in |-> 0,  Name |-> "DO-16RL",     out |-> 16, power |-> FALSE],
  [in |-> 0,  Name |-> "DO-16RBL",    out |-> 16, power |-> TRUE] }

Names == {p.Name : p \in cps_dio_data}
get_dio_portnum(d) == LET p == CHOOSE q \in cps_dio_data : q.Name = d.name IN <<p.in, p.out>>
get_dio_devname(d) == (CHOOSE p \in cps_dio_data : p.Name = d.name).Name
HasPower(d) == (CHOOSE p \in cps_dio_data : p.Name = d.name).power

-----------------------------------------------------------------------------
(* The registers.  Outputs are echoed where they are written. *)

Input == 0
Output == 2
Power == 8
Filter == 9
Mask == 16
Edge == 20
Offsets == {0, 1, 2, 3, 8, 9, 16, 17, 20, 21}

Bits == 0..7
inpb(d, a) == d.reg[a]
outb(d, a, byte) == [d EXCEPT !.reg[a] = byte]
inpw(d, a) == d.reg[a] \cup {b + 8 : b \in d.reg[a + 1]}
outw(d, a, word) == outb(outb(d, a, word \cap Bits), a + 1, {b \in Bits : b + 8 \in word})

read_digital_input(d, port) == inpb(d, port + Input)
read_digital_output_echo(d, port) == inpb(d, port + Output)
write_digital_output(d, port, val) == outb(d, port + Output, val)

set_internal_power_supply(d, isOn) == outb(d, Power, isOn)
get_internal_power_supply(d) == inpb(d, Power)
set_digital_filter(d, val) == outb(d, Filter, val)
get_digital_filter(d) == inpb(d, Filter)
write_interrupt_mask(d, val) == outw(d, Mask, val)
set_interrupt_edge(d, val) == outw(d, Edge, val)
get_interrupt_edge(d) == inpw(d, Edge)

-----------------------------------------------------------------------------
(* The ioctls: each names what it reads, or the device it leaves *)

OutIoctl(d, cmd, port, val) ==
  CASE cmd = "OUT_PORT" -> write_digital_output(d, port, val)
    [] cmd = "SET_INTERNAL_POW" -> set_internal_power_supply(d, val)
    [] cmd = "SET_FILTER" -> set_digital_filter(d, val)
    [] cmd = "SET_INT_MASK" -> write_interrupt_mask(d, val)
    [] cmd = "SET_INT_EGDE" -> set_interrupt_edge(d, val)

InIoctl(d, cmd, port) ==
  CASE cmd = "INP_PORT" -> read_digital_input(d, port)
    [] cmd = "OUT_PORT_ECHO" -> read_digital_output_echo(d, port)
    [] cmd = "GET_INTERNAL_POW" -> get_internal_power_supply(d)
    [] cmd = "GET_FILTER" -> get_digital_filter(d)

InfoIoctl(d, cmd) ==
  CASE cmd = "GET_INP_PORTNUM" -> get_dio_portnum(d)[1]
    [] cmd = "GET_OUTP_PORTNUM" -> get_dio_portnum(d)[2]
    [] cmd = "GET_DEVICE_NAME" -> get_dio_devname(d)

-----------------------------------------------------------------------------
(* The library *)

GetMaxPort(d) == <<InfoIoctl(d, "GET_INP_PORTNUM"), InfoIoctl(d, "GET_OUTP_PORTNUM")>>
QueryDeviceName(d) == InfoIoctl(d, "GET_DEVICE_NAME")

InpByte(d, Num) == InIoctl(d, "INP_PORT", Num)
InpBit(d, Num) == (Num % 8) \in InIoctl(d, "INP_PORT", Num \div 8)
EchoBackByte(d, Num) == InIoctl(d, "OUT_PORT_ECHO", Num)
EchoBackBit(d, Num) == (Num % 8) \in InIoctl(d, "OUT_PORT_ECHO", Num \div 8)
OutByte(d, Num, Data) == OutIoctl(d, "OUT_PORT", Num, Data)

\* Several ports or bits, one after the other.
InpMultiByte(d, Ports) == [i \in DOMAIN Ports |-> InpByte(d, Ports[i])]
InpMultiBit(d, Nums) == [i \in DOMAIN Nums |-> InpBit(d, Nums[i])]
EchoBackMultiByte(d, Ports) == [i \in DOMAIN Ports |-> EchoBackByte(d, Ports[i])]
EchoBackMultiBit(d, Nums) == [i \in DOMAIN Nums |-> EchoBackBit(d, Nums[i])]
OutMultiByte(d, Ports, Data) ==
  LET after[n \in 0..Len(Ports)] ==
        IF n = 0 THEN d ELSE OutByte(after[n - 1], Ports[n], Data[n])
  IN  after[Len(Ports)]

SetDigitalFilter(d, FilterValue) == OutIoctl(d, "SET_FILTER", 0, FilterValue \cap 0..5)
GetDigitalFilter(d) == InIoctl(d, "GET_FILTER", 0)
SetInternalPowerSupply(d, isInternal) == OutIoctl(d, "SET_INTERNAL_POW", 0, isInternal \cap {0})
GetInternalPowerSupply(d) == InIoctl(d, "GET_INTERNAL_POW", 0)

\* The only bit that is not masked is BitNum; its edge is Logic.
NotifyInterrupt(d, BitNum, Logic) ==
  OutIoctl(OutIoctl(d, "SET_INT_MASK", 0, (0..15) \ {BitNum}),
           "SET_INT_EGDE", 0, {b + BitNum : b \in Logic})

-----------------------------------------------------------------------------
(* A program's requests, and what it is told about them *)

\* A device before its first use: some terminals are on.
Boot(name) == [name |-> name,
               reg |-> [a \in Offsets |-> IF a = 0 THEN {0, 7} ELSE IF a = 1 THEN {1} ELSE {}]]

\* Bits seen one by one, as a set of numbers.
Seen(bits) == {i - 1 : i \in {j \in DOMAIN bits : bits[j]}}
Terminals(n) == [i \in 1..n |-> i - 1]
InPorts(d) == 0..(GetMaxPort(d)[1] \div 8 - 1)
OutPorts(d) == IF GetMaxPort(d)[2] = 0 THEN {} ELSE 0..((GetMaxPort(d)[2] - 1) \div 8)

Facts(d) == [k \in {<<"in", p>> : p \in InPorts(d)} \cup {<<"ports", 0>>, <<"name", 0>>} |->
  CASE k[1] = "in" -> d.reg[k[2]]
    [] k[1] = "ports" -> get_dio_portnum(d)
    [] k[1] = "name" -> d.name]

Request(c, p, v) == [call |-> c, ch |-> p, next |-> {}, val |-> v]
Multi(v, w) == [call |-> "OutMultiByte", ch |-> 0, next |-> w, val |-> v]
\* What a program may ask of the device: a call, a port or terminal, a byte,
\* and the byte of the next port.
Legal(d, r) ==
  \/ r.call = "OutByte" /\ r.ch \in OutPorts(d) /\ r.val \subseteq Bits
  \/ r.call = "OutMultiByte" /\ r.ch = 0 /\ OutPorts(d) = {0, 1} /\ r.val \subseteq Bits /\ r.next \subseteq Bits
  \/ r.call = "SetDigitalFilter" /\ r.ch = 0 /\ r.val \subseteq Bits
  \/ r.call = "SetInternalPowerSupply" /\ r.ch = 0 /\ HasPower(d) /\ r.val \subseteq Bits
  \/ r.call = "NotifyInterrupt" /\ r.ch \in 0..15 /\ r.val \in {{0}, {}}

Do(d, r) ==
  CASE r.call = "OutByte" -> OutByte(d, r.ch, r.val)
    [] r.call = "OutMultiByte" -> OutMultiByte(d, <<0, 1>>, <<r.val, r.next>>)
    [] r.call = "SetDigitalFilter" -> SetDigitalFilter(d, r.val)
    [] r.call = "SetInternalPowerSupply" -> SetInternalPowerSupply(d, r.val)
    [] r.call = "NotifyInterrupt" -> NotifyInterrupt(d, r.ch, r.val)

\* What the request settles: keys and what they are from now on.
Settles(r) ==
  CASE r.call = "OutByte" -> [k \in {<<"out", r.ch>>} |-> r.val]
    [] r.call = "OutMultiByte" -> [k \in {<<"out", 0>>, <<"out", 1>>} |-> IF k[2] = 0 THEN r.val ELSE r.next]
    [] r.call = "SetDigitalFilter" -> [k \in {<<"SetDigitalFilter", 0>>} |-> r.val \cap 0..5]
    [] r.call = "SetInternalPowerSupply" -> [k \in {<<"SetInternalPowerSupply", 0>>} |-> r.val \cap {0}]
    [] r.call = "NotifyInterrupt" -> [k \in {<<"notify", 0>>} |-> <<r.ch, r.val>>]
Forgets(r) == {}

\* All that the library's getters answer about a key.  No getter reads the
\* mask and the edges: they are what a notification needs of the registers.
Answers(d, k) ==
  CASE k[1] = "in" -> {InpByte(d, k[2]), InpMultiByte(d, <<k[2]>>)[1],
         {n - 8 * k[2] : n \in Seen(InpMultiBit(d, Terminals(8 * k[2] + 8))) \ 0..(8 * k[2] - 1)}}
    [] k[1] = "out" -> {EchoBackByte(d, k[2]), EchoBackMultiByte(d, <<k[2]>>)[1],
         {n - 8 * k[2] : n \in Seen(EchoBackMultiBit(d, Terminals(8 * k[2] + 8))) \ 0..(8 * k[2] - 1)}}
    [] k[1] = "ports" -> {GetMaxPort(d)}
    [] k[1] = "name" -> {QueryDeviceName(d)}
    [] k[1] = "SetDigitalFilter" -> {GetDigitalFilter(d)}
    [] k[1] = "SetInternalPowerSupply" -> {GetInternalPowerSupply(d)}
    [] k[1] = "notify" -> {<<b, IF b \in get_interrupt_edge(d) THEN {0} ELSE {}>> :
                              b \in (0..15) \ inpw(d, Mask)}
=============================================================================
