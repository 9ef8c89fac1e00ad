--------------------------------- MODULE Ssi ---------------------------------
(***************************************************************************)
(* A sensor input (CPS-SSI-4P) as driver/ssi/cpsssi.c and                  *)
(* lib/ssi/libcpsssi.c use it.  Each channel has a wiring, which is kept   *)
(* three times: in the device, which outlives the module; in the channel   *)
(* data, which live from the first open to the last close; and the offsets *)
(* of both wirings, which live as long as the module.  An offset goes to   *)
(* and comes from the wiring the channel data name, so the library selects *)
(* the wiring it wants for a moment and then puts the old one back.        *)
(*                                                                         *)
(* An ioctl holds dev->lock with the interrupts off and is one step; a call *)
(* of the library is several ioctls, between which other processes make    *)
(* theirs.  A channel setting is abstracted to its wiring, a measured value *)
(* to the members of Raw.                                                  *)
(***************************************************************************)
EXTENDS SsiOffset, FiniteSets, TLC

CONSTANTS
  Process,   \* the processes that use the device
  Channel,   \* its channels
  Offset,    \* offsets that are set, bytes
  Raw,       \* what a conversion may leave in the register
  NoChannel, \* no conversion is running
  MaxCalls   \* bound: calls of the library

ASSUME SsiAssumption ==
  /\ Offset \subseteq Byte /\ 0 \in Offset
  /\ Raw \subseteq Register
  /\ NoChannel \notin Channel
  /\ MaxCalls \in Nat

VARIABLES
  (* the device *)
  wire,        \* wiring every channel is set to
  converting,  \* the channel that is being converted
  wiredAs,     \* wiring the last conversion of every channel was made with
  (* the driver *)
  users,       \* processes that have the node open
  copy,        \* Current_Wire_Status of every channel
  off,         \* cpsssi_xp_head: offsets of every channel and wiring
  (* the processes *)
  pc,          \* where in the library a process is
  call,        \* the call's channel, wiring, offset and the wiring to restore
  made,        \* calls made so far
  (* history *)
  asked,       \* wiring last asked for, "none" if the device dropped it
  askedOff,    \* offset last asked for
  mixed,       \* channels that calls of two processes used at once
  wrong        \* channels one of whose measurements was wrong

device == <<wire, converting, wiredAs>>
driver == <<users, copy, off>>
calls == <<pc, call, made>>
history == <<asked, askedOff, mixed, wrong>>
vars == <<device, driver, calls, history>>

Wire == {"w3", "w4"}
Wiring == Wire \cup {"none"}   \* "none": a word that names neither
Setting == {"get", "select", "access", "restore"}
Measuring == {"start", "wait", "indata"}
Pc == {"idle"} \cup Setting \cup Measuring
NoCall == [c |-> NoChannel, w |-> "none", v |-> 0, back |-> "none", set |-> FALSE]

Cleared == [c \in Channel |-> "none"]
NoOffsets == [c \in Channel |-> [w \in Wire |-> 0]]

\* Every switch on a wiring takes what it does not know for four wires.
Known(w) == IF w = "w3" THEN "w3" ELSE "w4"

Init ==
  /\ wire = Cleared /\ converting = NoChannel /\ wiredAs = Cleared
  /\ users = {} /\ copy = Cleared /\ off = NoOffsets
  /\ pc = [p \in Process |-> "idle"] /\ call = [p \in Process |-> NoCall]
  /\ made = 0
  /\ asked = Cleared /\ askedOff = NoOffsets /\ mixed = {} /\ wrong = {}

Idle(p) == p \in users /\ pc[p] = "idle"
Goto(p, l) == pc' = [pc EXCEPT ![p] = l]
Make == made < MaxCalls /\ made' = made + 1

\* History: calls of another process that are using c.
Busy(p, c) == \E q \in Process \ {p} : pc[q] # "idle" /\ call[q].c = c
Mix(p, c) == mixed' = IF Busy(p, c) THEN mixed \cup {c} ELSE mixed

-----------------------------------------------------------------------------
(* The module and its node *)

\* cpsssi_exit frees the offsets, cpsssi_init allocates them.
Reload ==
  /\ users = {}
  /\ off' = NoOffsets /\ askedOff' = NoOffsets
  /\ UNCHANGED <<device, users, copy, calls, asked, mixed, wrong>>

\* The first open allocates the channel data, cleared.
Open(p) ==
  /\ p \notin users
  /\ users' = users \cup {p}
  /\ copy' = IF users = {} THEN Cleared ELSE copy
  /\ UNCHANGED <<device, off, calls, history>>

\* Opening is followed by IOCTL_CPSSSI_INIT.  Nothing tells whether the device
\* drops the channels' settings then: it may.
SsiInit(p) ==
  /\ Idle(p) /\ Make
  /\ wire' = Cleared /\ asked' = Cleared
  /\ converting' = NoChannel
  /\ mixed' = mixed \cup {c \in Channel : Busy(p, c)}
  /\ UNCHANGED <<wiredAs, driver, pc, call, askedOff, wrong>>

\* The last close frees the channel data.
Close(p) ==
  /\ Idle(p)
  /\ users' = users \ {p}
  /\ copy' = IF users = {p} THEN Cleared ELSE copy
  /\ UNCHANGED <<device, off, calls, history>>

-----------------------------------------------------------------------------
(* Wirings *)

\* IOCTL_CPSSSI_SET_CHANNEL: the channel data, then the device.
SetChannelRegister(c, w) ==
  /\ copy' = [copy EXCEPT ![c] = w]
  /\ wire' = [wire EXCEPT ![c] = w]

SetChannel(p, c, w) ==
  /\ Idle(p) /\ Make
  /\ SetChannelRegister(c, w)
  /\ asked' = [asked EXCEPT ![c] = w]
  /\ Mix(p, c)
  /\ UNCHANGED <<converting, wiredAs, users, off, pc, call, askedOff, wrong>>

-----------------------------------------------------------------------------
(* Offsets: read the wiring, select one, set or get the offset, restore *)

Calibrate(p, request) ==
  /\ Idle(p) /\ Make
  /\ Goto(p, "get")
  /\ call' = [call EXCEPT ![p] = request]
  /\ Mix(p, request.c)
  /\ UNCHANGED <<device, driver, asked, askedOff, wrong>>

SetCalibrationOffset(p, c, w, v) ==
  Calibrate(p, [NoCall EXCEPT !.c = c, !.w = w, !.v = v, !.set = TRUE])

GetCalibrationOffset(p, c, w) == Calibrate(p, [NoCall EXCEPT !.c = c, !.w = w])

GetChannel(p) ==
  /\ pc[p] = "get"
  /\ Goto(p, "select")
  /\ call' = [call EXCEPT ![p].back = Known(wire[call[p].c])]
  /\ UNCHANGED <<device, driver, made, history>>

SelectWire(p) ==
  /\ pc[p] = "select"
  /\ Goto(p, "access")
  /\ SetChannelRegister(call[p].c, call[p].w)
  /\ UNCHANGED <<converting, wiredAs, users, off, call, made, history>>

\* Mutant: the wiring the device is set to when the call comes, not the one
\* that is selected for it.
SetOffset_OfBack(p) ==
  /\ pc[p] = "access" /\ call[p].set
  /\ Goto(p, "restore")
  /\ off' = [off EXCEPT ![call[p].c][call[p].back] = call[p].v]
  /\ askedOff' = [askedOff EXCEPT ![call[p].c][call[p].w] = call[p].v]
  /\ UNCHANGED <<device, users, copy, call, made, asked, mixed, wrong>>

\* IOCTL_CPSSSI_SET_OFFSET goes to the wiring the channel data name.
SetOffset(p) ==
  /\ pc[p] = "access" /\ call[p].set
  /\ Goto(p, "restore")
  /\ off' = [off EXCEPT ![call[p].c][Known(copy[call[p].c])] = call[p].v]
  /\ askedOff' = [askedOff EXCEPT ![call[p].c][call[p].w] = call[p].v]
  /\ UNCHANGED <<device, users, copy, call, made, asked, mixed, wrong>>

GetOffset(p) ==
  /\ pc[p] = "access" /\ ~call[p].set
  /\ Goto(p, "restore")
  /\ UNCHANGED <<device, driver, call, made, history>>

RestoreWire(p) ==
  /\ pc[p] = "restore"
  /\ Goto(p, "idle")
  /\ SetChannelRegister(call[p].c, call[p].back)
  /\ call' = [call EXCEPT ![p] = NoCall]
  /\ UNCHANGED <<converting, wiredAs, users, off, made, history>>

-----------------------------------------------------------------------------
(* Measurements *)

Single(p, c) ==
  /\ Idle(p) /\ Make
  /\ Goto(p, "start")
  /\ call' = [call EXCEPT ![p] = [NoCall EXCEPT !.c = c]]
  /\ Mix(p, c)
  /\ UNCHANGED <<device, driver, asked, askedOff, wrong>>

\* A start while a conversion runs may be ignored: the other conversion ends.
Start(p) ==
  /\ pc[p] = "start"
  /\ Goto(p, "wait")
  /\ \/ converting' = call[p].c
     \/ converting # NoChannel /\ UNCHANGED converting
  /\ mixed' = IF converting = NoChannel THEN mixed
              ELSE mixed \cup {call[p].c, converting}
  /\ UNCHANGED <<wire, wiredAs, driver, call, made, asked, askedOff, wrong>>

\* The device ends a conversion.
Converted ==
  /\ converting # NoChannel
  /\ wiredAs' = [wiredAs EXCEPT ![converting] = wire[converting]]
  /\ converting' = NoChannel
  /\ UNCHANGED <<wire, driver, calls, history>>

\* Mutant: the status is not waited for.
BusyStatus_Once(p) ==
  /\ pc[p] = "wait"
  /\ Goto(p, "indata")
  /\ UNCHANGED <<device, driver, call, made, history>>

\* STARTBUSYSTATUS is polled for the bit that says the conversion is done.
BusyStatus(p) ==
  /\ pc[p] = "wait" /\ converting = NoChannel
  /\ Goto(p, "indata")
  /\ UNCHANGED <<device, driver, call, made, history>>

\* A measurement is right if it was made with the wiring asked for and was
\* corrected by the offset asked for it, provided the sum fits the register.
RightMeasure(c, raw, value) ==
  LET exact == Temperature(raw) + 32 * uchar2double(askedOff[c][asked[c]])
  IN /\ wiredAs[c] = asked[c]
     /\ InRange(exact) => Temperature(value) = exact

\* IOCTL_CPSSSI_INDATA corrects by the offset of the wiring the channel data
\* name; the history looks at channels that were set since the first open.
InData(p) ==
  LET c == call[p].c IN
  /\ pc[p] = "indata"
  /\ Goto(p, "idle")
  /\ call' = [call EXCEPT ![p] = NoCall]
  /\ \E raw \in Raw :
       LET value == addsub(raw, off[c][Known(copy[c])])
       IN wrong' = IF \/ c \in mixed \/ asked[c] = "none" \/ copy[c] = "none"
                      \/ RightMeasure(c, raw, value)
                   THEN wrong ELSE wrong \cup {c}
  /\ UNCHANGED <<device, driver, made, asked, askedOff, mixed>>

-----------------------------------------------------------------------------
Call(p) ==
  \/ Open(p) \/ SsiInit(p) \/ Close(p)
  \/ \E c \in Channel : Single(p, c)
  \/ \E c \in Channel, w \in Wire : SetChannel(p, c, w) \/ GetCalibrationOffset(p, c, w)
  \/ \E c \in Channel, w \in Wire, v \in Offset : SetCalibrationOffset(p, c, w, v)
  \/ GetChannel(p) \/ SelectWire(p) \/ SetOffset(p) \/ GetOffset(p) \/ RestoreWire(p)
  \/ Start(p) \/ BusyStatus(p) \/ InData(p)

Next ==
  \/ Reload \/ Converted
  \/ \E p \in Process : Call(p)

Spec == Init /\ [][Next]_vars

Symmetry == Permutations(Process) \cup Permutations(Channel)

-----------------------------------------------------------------------------
\* Types of the device, the driver, the calls and the history.
TypeOK ==
  /\ wire \in [Channel -> Wiring] /\ wiredAs \in [Channel -> Wiring]
  /\ converting \in Channel \cup {NoChannel}
  /\ users \subseteq Process /\ copy \in [Channel -> Wiring]
  /\ off \in [Channel -> [Wire -> Offset]]
  /\ pc \in [Process -> Pc]
  /\ call \in [Process -> [c : Channel \cup {NoChannel}, w : Wiring, v : Offset,
                           back : Wiring, set : BOOLEAN]]
  /\ made \in 0..MaxCalls
  /\ asked \in [Channel -> Wiring] /\ askedOff \in [Channel -> [Wire -> Offset]]
  /\ mixed \subseteq Channel /\ wrong \subseteq Channel

\* The channel data and the device never name two wirings, however the calls
\* of several processes, opens and closes mix.
CopyIsWiring ==
  \A c \in Channel : wire[c] = "none" \/ copy[c] \in {"none", wire[c]}

\* Each wiring of a channel has the offset last set for it, although it is set
\* by way of the channel's current wiring, unless two processes used the
\* channel at once.
OffsetsAsAsked == \A c \in Channel \ mixed : off[c] = askedOff[c]

\* Between calls a channel has the wiring last asked for: reading or setting
\* the offset of the other wiring leaves it as it was.
WiringAsAsked ==
  \A c \in Channel \ mixed :
    \/ asked[c] = "none" \/ wire[c] = asked[c]
    \/ \E p \in Process : call[p].c = c /\ pc[p] \in {"access", "restore"}

\* A measurement on a channel set since the first open was made with the
\* wiring asked for and corrected by that wiring's offset.
MeasuresAsAsked == wrong = {}
===============================================================================
