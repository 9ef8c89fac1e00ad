----------------------------- MODULE Ssi_proofs -----------------------------
(***************************************************************************)
(* Proofs about Ssi, for any processes, channels, offsets and bounds: the  *)
(* arithmetic of the correction, type correctness, and that wirings,       *)
(* offsets and measurements are as asked for on channels that no two       *)
(* processes use at once.                                                  *)
(***************************************************************************)
EXTENDS Ssi, TLAPS

(* Arithmetic *)

\* An offset that fits a byte survives the conversion to a byte and back.
THEOREM OffsetRoundTrip ==
  ASSUME NEW n \in -128..127
  PROVE  double2uchar(n) \in Byte /\ uchar2double(double2uchar(n)) = n
<1>1. CASE n >= 0
  BY SMT, <1>1 DEF double2uchar, uchar2double, Byte
<1>2. CASE n < 0
  <2>1. (-n) % 256 = -n
    BY SMT, <1>2
  <2>2. double2uchar(n) = 256 + n
    BY SMT, <1>2, <2>1 DEF double2uchar
  <2> QED
    BY SMT, <1>2, <2>2 DEF uchar2double, Byte
<1> QED
  BY SMT, <1>1, <1>2

\* The remainder of a number that is at most one modulus out of range.
LEMMA Wrap ==
  ASSUME NEW n \in Nat \ {0}, NEW x \in Int
  PROVE  /\ 0 <= x /\ x < n => x % n = x
         /\ n <= x /\ x < 2 * n => x % n = x - n
         /\ -n <= x /\ x < 0 => x % n = x + n
BY SMT

\* What a byte stands for as an offset, and what the driver adds for it.
LEMMA AddsubIsSum ==
  ASSUME NEW reg \in Int, NEW b \in Byte
  PROVE  /\ uchar2double(b) \in -128..127
         /\ addsub(reg, b) = (reg + 32 * uchar2double(b)) % 16777216
<1>1. b \in Int /\ 0 <= b /\ b <= 255
  BY SMT DEF Byte
<1>2. CASE b < 128
  <2>1. b % 128 = b
    BY SMT, <1>1, <1>2
  <2>2. uchar2double(b) = b
    BY SMT, <1>1, <1>2, <2>1 DEF uchar2double
  <2>3. addsub(reg, b) = (reg + b * 32) % 16777216
    BY SMT, <1>1, <1>2, <2>1 DEF addsub
  <2> QED
    BY SMT, <1>1, <1>2, <2>2, <2>3
<1>3. CASE b >= 128
  <2>1. b % 128 = b - 128
    BY SMT, <1>1, <1>3
  <2>2. uchar2double(b) = b - 256
    BY SMT, <1>1, <1>3, <2>1 DEF uchar2double
  <2>3. addsub(reg, b) = (reg - (256 - b) * 32) % 16777216
    BY SMT, <1>1, <1>3, <2>1 DEF addsub
  <2>4. reg - (256 - b) * 32 = reg + 32 * (b - 256)
    BY SMT, <1>1
  <2> QED
    BY SMT, <1>1, <1>3, <2>2, <2>3, <2>4
<1> QED
  BY SMT, <1>1, <1>2, <1>3

LEMMA RegisterRange ==
  ASSUME NEW reg \in Register PROVE reg \in Int /\ 0 <= reg /\ reg < 16777216
BY SMT DEF Register

LEMMA InRangeBounds ==
  ASSUME NEW n \in Int, InRange(n) PROVE -8388608 <= n /\ n <= 8388607
BY SMT DEF InRange

\* A corrected temperature is the measured one and 32 times the offset, as long
\* as the sum fits the register.
THEOREM CorrectedIsSum ==
  ASSUME NEW reg \in Register, NEW b \in Byte,
         InRange(Temperature(reg) + 32 * uchar2double(b))
  PROVE  Temperature(addsub(reg, b)) = Temperature(reg) + 32 * uchar2double(b)
<1>1. reg \in Int /\ 0 <= reg /\ reg < 16777216
  BY RegisterRange
<1>2. PICK o \in Int : o = 32 * uchar2double(b) /\ -4096 <= o /\ o <= 4064
  BY SMT, AddsubIsSum
<1>3. addsub(reg, b) = (reg + o) % 16777216
  BY SMT, <1>1, <1>2, AddsubIsSum
<1>4. Temperature(reg) = IF reg >= 8388608 THEN reg - 16777216 ELSE reg
  <2>1. reg % 8388608 = IF reg >= 8388608 THEN reg - 8388608 ELSE reg
    BY SMT, <1>1
  <2> QED
    BY SMT, <1>1, <2>1 DEF Temperature
<1>5. PICK t \in Int : t = Temperature(reg) + o /\ -8388608 <= t /\ t <= 8388607
  <2>1. Temperature(reg) + o \in Int /\ InRange(Temperature(reg) + o)
    BY SMT, <1>1, <1>2, <1>4
  <2> QED
    BY <2>1, InRangeBounds
<1>6. addsub(reg, b) = IF t >= 0 THEN t ELSE t + 16777216
  <2>1. CASE reg >= 8388608
    <3>1. reg + o = t + 16777216
      BY SMT, <1>1, <1>2, <1>4, <1>5, <2>1
    <3> QED
      BY SMT, <1>3, <1>5, <3>1, Wrap
  <2>2. CASE reg < 8388608
    <3>1. reg + o = t
      BY SMT, <1>1, <1>2, <1>4, <1>5, <2>2
    <3> QED
      BY SMT, <1>3, <1>5, <3>1, Wrap
  <2> QED
    BY SMT, <1>1, <2>1, <2>2
<1>7. Temperature(addsub(reg, b)) = t
  <2>1. CASE t >= 0
    BY SMT, <1>5, <1>6, <2>1 DEF Temperature
  <2>2. CASE t < 0
    <3>1. (t + 16777216) % 8388608 = t + 8388608
      BY SMT, <1>5, <2>2
    <3> QED
      BY SMT, <1>5, <1>6, <2>2, <3>1 DEF Temperature
  <2> QED
    BY SMT, <1>5, <2>1, <2>2
<1> QED
  BY SMT, <1>2, <1>5, <1>7

\* The two offsets of a channel come back from the word they are stored in.
THEOREM PackedOffsets ==
  ASSUME NEW w3 \in Byte, NEW w4 \in Byte
  PROVE  UnpackOffsets(PackOffsets(w3, w4)) = [w3 |-> w3, w4 |-> w4]
<1>0. w3 \in Int /\ 0 <= w3 /\ w3 <= 255 /\ w4 \in Int /\ 0 <= w4 /\ w4 <= 255
  BY SMT DEF Byte
<1>1. (w3 * 256 + w4) \div 256 = w3 /\ (w3 * 256 + w4) % 256 = w4
  BY SMT, <1>0
<1>2. w3 % 256 = w3
  BY SMT, <1>0
<1> QED
  BY SMT, <1>1, <1>2 DEF UnpackOffsets, PackOffsets

-----------------------------------------------------------------------------
(* Types *)

LEMMA TypeInit == Init => TypeOK
<1>1. Cleared \in [Channel -> Wiring] /\ NoOffsets \in [Channel -> [Wire -> Offset]]
  BY SsiAssumption DEF Cleared, Wiring, NoOffsets
<1> QED
  BY <1>1, SsiAssumption DEF Init, TypeOK, Pc, NoCall, Wiring

LEMMA TypeRequest ==
  ASSUME NEW c \in Channel, NEW w \in Wiring, NEW v \in Offset, NEW b \in BOOLEAN
  PROVE  [NoCall EXCEPT !.c = c, !.w = w, !.v = v, !.set = b]
           \in [c : Channel \cup {NoChannel}, w : Wiring, v : Offset,
                back : Wiring, set : BOOLEAN]
BY DEF NoCall, Wiring

\* A call knows its channel, and the wirings it selects.
InCall ==
  \A p \in Process : pc[p] # "idle" =>
    /\ p \in users /\ call[p].c \in Channel
    /\ pc[p] \in Setting => call[p].w \in Wire
    /\ pc[p] \in {"select", "access", "restore"} => call[p].back \in Wire

LEMMA TypeStep == TypeOK /\ InCall /\ [Next]_vars => TypeOK'
<1> SUFFICES ASSUME TypeOK, InCall, [Next]_vars PROVE TypeOK'
  OBVIOUS
<1> USE SsiAssumption
<1>0. Cleared \in [Channel -> Wiring] /\ NoOffsets \in [Channel -> [Wire -> Offset]]
  BY DEF Cleared, Wiring, NoOffsets
<1>1. CASE Reload
  BY <1>0, <1>1 DEF TypeOK, Reload, device, calls
<1>2. CASE Converted
  BY <1>2 DEF TypeOK, Converted, driver, calls, history
<1>3. ASSUME NEW p \in Process, Open(p) PROVE TypeOK'
  BY <1>0, <1>3 DEF TypeOK, Open, device, calls, history
<1>4. ASSUME NEW p \in Process, SsiInit(p) PROVE TypeOK'
  BY <1>0, <1>4 DEF TypeOK, SsiInit, Make, Idle, driver
<1>5. ASSUME NEW p \in Process, Close(p) PROVE TypeOK'
  BY <1>0, <1>5 DEF TypeOK, Close, Idle, device, calls, history
<1>6. ASSUME NEW p \in Process, NEW c \in Channel, NEW w \in Wire, SetChannel(p, c, w)
      PROVE TypeOK'
  BY <1>6 DEF TypeOK, SetChannel, SetChannelRegister, Make, Mix, Wiring
<1>7. ASSUME NEW p \in Process, NEW c \in Channel, NEW w \in Wire, NEW v \in Offset,
             \/ SetCalibrationOffset(p, c, w, v)
             \/ GetCalibrationOffset(p, c, w)
             \/ Single(p, c)
      PROVE TypeOK'
  <2> DEFINE R == [c : Channel \cup {NoChannel}, w : Wiring, v : Offset,
                   back : Wiring, set : BOOLEAN]
  <2>1. /\ [NoCall EXCEPT !.c = c, !.w = w, !.v = v, !.set = TRUE] \in R
        /\ [NoCall EXCEPT !.c = c, !.w = w] \in R
        /\ [NoCall EXCEPT !.c = c] \in R
    BY DEF NoCall, Wiring
  <2>2. PICK request \in R, l \in Pc :
          /\ Make /\ Mix(p, request.c) /\ Goto(p, l)
          /\ request.c = c
          /\ call' = [call EXCEPT ![p] = request]
          /\ UNCHANGED <<device, driver, asked, askedOff, wrong>>
    <3>1. CASE SetCalibrationOffset(p, c, w, v)
      BY <2>1, <3>1 DEF SetCalibrationOffset, Calibrate, Pc, Setting, NoCall
    <3>2. CASE GetCalibrationOffset(p, c, w)
      BY <2>1, <3>2 DEF GetCalibrationOffset, Calibrate, Pc, Setting, NoCall
    <3>3. CASE Single(p, c)
      BY <2>1, <3>3 DEF Single, Pc, Measuring, NoCall
    <3> QED
      BY <1>7, <3>1, <3>2, <3>3
  <2> QED
    BY <2>2 DEF TypeOK, Make, Mix, Goto, device, driver
<1>8. ASSUME NEW p \in Process, GetChannel(p) PROVE TypeOK'
  <2> DEFINE b == Known(wire[call[p].c])
  <2>1. b \in Wiring
    BY DEF Known, Wiring, Wire
  <2> HIDE DEF b
  <2>2. call' = [call EXCEPT ![p].back = b]
    BY <1>8 DEF GetChannel, b
  <2>3. call' \in [Process -> [c : Channel \cup {NoChannel}, w : Wiring, v : Offset,
                               back : Wiring, set : BOOLEAN]]
    BY <2>1, <2>2 DEF TypeOK
  <2> QED
    BY <1>8, <2>3 DEF TypeOK, GetChannel, Goto, Pc, Setting, device, driver, history
<1>9. ASSUME NEW p \in Process, SelectWire(p) \/ RestoreWire(p) PROVE TypeOK'
  <2>1. NoCall \in [c : Channel \cup {NoChannel}, w : Wiring, v : Offset,
                    back : Wiring, set : BOOLEAN]
    BY DEF NoCall, Wiring
  <2>2. call[p].w \in Wiring /\ call[p].back \in Wiring
    BY DEF TypeOK
  <2>3. wire' \in [Channel -> Wiring] /\ copy' \in [Channel -> Wiring]
    BY <1>9, <2>2 DEF TypeOK, SelectWire, RestoreWire, SetChannelRegister
  <2>4. CASE SelectWire(p)
    BY <2>3, <2>4 DEF TypeOK, SelectWire, Goto, Pc, Setting, history
  <2>5. CASE RestoreWire(p)
    BY <2>1, <2>3, <2>5 DEF TypeOK, RestoreWire, Goto, Pc, history
  <2> QED
    BY <1>9, <2>4, <2>5
<1>10. ASSUME NEW p \in Process, SetOffset(p) PROVE TypeOK'
  <2>1. call[p].v \in Offset
    BY DEF TypeOK
  <2>2. off' \in [Channel -> [Wire -> Offset]] /\ askedOff' \in [Channel -> [Wire -> Offset]]
    BY <1>10, <2>1 DEF TypeOK, SetOffset
  <2> QED
    BY <1>10, <2>2 DEF TypeOK, SetOffset, Goto, Pc, Setting, device
<1>11. ASSUME NEW p \in Process, GetOffset(p) PROVE TypeOK'
  BY <1>11 DEF TypeOK, GetOffset, Goto, Pc, Setting, device, driver, history
<1>12. ASSUME NEW p \in Process, Start(p) PROVE TypeOK'
  BY <1>12 DEF TypeOK, InCall, Start, Goto, Pc, Measuring, driver
<1>13. ASSUME NEW p \in Process, BusyStatus(p) PROVE TypeOK'
  BY <1>13 DEF TypeOK, BusyStatus, Goto, Pc, Measuring, device, driver, history
<1>14. ASSUME NEW p \in Process, InData(p) PROVE TypeOK'
  BY <1>14 DEF TypeOK, InCall, InData, Goto, Pc, NoCall, Wiring, device, driver
<1>15. CASE UNCHANGED vars
  BY <1>15 DEF TypeOK, vars, device, driver, calls, history
<1>16. \E w \in Wire, v \in Offset : TRUE
  BY DEF Wire
<1> QED
  BY <1>1, <1>2, <1>3, <1>4, <1>5, <1>6, <1>7, <1>8, <1>9, <1>10, <1>11, <1>12,
     <1>13, <1>14, <1>15, <1>16 DEF Next, Call


LEMMA InCallStep == TypeOK /\ InCall /\ [Next]_vars => InCall'
<1> SUFFICES ASSUME TypeOK, InCall, [Next]_vars PROVE InCall'
  OBVIOUS
<1> USE SsiAssumption DEF InCall
<1>1. CASE Reload \/ Converted
  BY <1>1 DEF Reload, Converted, device, calls, driver
<1>2. ASSUME NEW p \in Process, Open(p) \/ SsiInit(p) \/ Close(p) PROVE InCall'
  BY <1>2 DEF Open, SsiInit, Close, Idle, device, calls, driver
<1>3. ASSUME NEW p \in Process, NEW c \in Channel, NEW w \in Wire,
             SetChannel(p, c, w)
      PROVE InCall'
  BY <1>3 DEF SetChannel
<1>4. ASSUME NEW p \in Process, NEW c \in Channel, NEW w \in Wire, NEW v \in Offset,
             SetCalibrationOffset(p, c, w, v) \/ GetCalibrationOffset(p, c, w)
      PROVE InCall'
  <2>1. /\ call'[p].c = c /\ call'[p].w = w
        /\ \A q \in Process \ {p} : call'[q] = call[q]
    <3>1. CASE SetCalibrationOffset(p, c, w, v)
      BY <3>1 DEF SetCalibrationOffset, Calibrate, NoCall, TypeOK
    <3>2. CASE GetCalibrationOffset(p, c, w)
      BY <3>2 DEF GetCalibrationOffset, Calibrate, NoCall, TypeOK
    <3> QED
      BY <1>4, <3>1, <3>2
  <2>2. Idle(p) /\ Goto(p, "get") /\ UNCHANGED users
    BY <1>4 DEF SetCalibrationOffset, GetCalibrationOffset, Calibrate, driver
  <2> QED
    BY <2>1, <2>2 DEF Goto, Idle, Setting, TypeOK
<1>5. ASSUME NEW p \in Process, NEW c \in Channel, Single(p, c) PROVE InCall'
  <2>1. call'[p].c = c /\ \A q \in Process \ {p} : call'[q] = call[q]
    BY <1>5 DEF Single, NoCall, TypeOK
  <2>2. Idle(p) /\ Goto(p, "start") /\ UNCHANGED users
    BY <1>5 DEF Single, driver
  <2> QED
    BY <2>1, <2>2 DEF Goto, Idle, Setting, TypeOK
<1>6. ASSUME NEW p \in Process, GetChannel(p) PROVE InCall'
  <2> DEFINE b == Known(wire[call[p].c])
  <2>1. b \in Wire
    BY DEF Known, Wire
  <2> HIDE DEF b
  <2>2. call' = [call EXCEPT ![p].back = b]
    BY <1>6 DEF GetChannel, b
  <2>3. call'[p].back = b /\ call'[p].c = call[p].c /\ call'[p].w = call[p].w
    BY <2>2 DEF TypeOK
  <2>4. \A q \in Process \ {p} : call'[q] = call[q]
    BY <2>2 DEF TypeOK
  <2> QED
    BY <1>6, <2>1, <2>3, <2>4 DEF GetChannel, Goto, Setting, TypeOK, driver
<1>7. ASSUME NEW p \in Process, SelectWire(p) \/ SetOffset(p) \/ GetOffset(p)
      PROVE InCall'
  BY <1>7 DEF SelectWire, SetOffset, GetOffset, Goto, Setting, TypeOK, driver
<1>8. ASSUME NEW p \in Process, RestoreWire(p) \/ InData(p) PROVE InCall'
  BY <1>8 DEF RestoreWire, InData, Goto, TypeOK, driver
<1>9. ASSUME NEW p \in Process, Start(p) \/ BusyStatus(p) PROVE InCall'
  BY <1>9 DEF Start, BusyStatus, Goto, Setting, TypeOK, driver
<1>10. CASE UNCHANGED vars
  BY <1>10 DEF vars, driver, calls
<1> QED
  BY <1>1, <1>2, <1>3, <1>4, <1>5, <1>6, <1>7, <1>8, <1>9, <1>10 DEF Next, Call

LEMMA InCallInit == Init => InCall
BY DEF Init, InCall

\* Types of the device, the driver, the calls and the history.
THEOREM TypeCorrect == Spec => []TypeOK
BY TypeInit, TypeStep, InCallInit, InCallStep, PTL DEF Spec

-----------------------------------------------------------------------------
(* The channel data and the device *)

LEMMA CopyStep == TypeOK /\ InCall /\ CopyIsWiring /\ [Next]_vars => CopyIsWiring'
<1> SUFFICES ASSUME TypeOK, InCall, CopyIsWiring, [Next]_vars PROVE CopyIsWiring'
  OBVIOUS
<1> USE DEF CopyIsWiring
<1>1. CASE UNCHANGED <<wire, copy>>
  BY <1>1
<1>2. ASSUME NEW c \in Channel, NEW w \in Wiring, SetChannelRegister(c, w)
      PROVE CopyIsWiring'
  BY <1>2 DEF SetChannelRegister, TypeOK
<1>3. ASSUME NEW p \in Process, Open(p) \/ Close(p) PROVE CopyIsWiring'
  BY <1>3 DEF Open, Close, Cleared, device
<1>4. ASSUME NEW p \in Process, SsiInit(p) PROVE CopyIsWiring'
  BY <1>4 DEF SsiInit, Cleared
<1>5. ASSUME NEW p \in Process, NEW c \in Channel, NEW w \in Wire, SetChannel(p, c, w)
      PROVE CopyIsWiring'
  BY <1>2, <1>5 DEF SetChannel, Wiring
<1>6. ASSUME NEW p \in Process, SelectWire(p) \/ RestoreWire(p) PROVE CopyIsWiring'
  <2>1. call[p].c \in Channel /\ call[p].w \in Wiring /\ call[p].back \in Wiring
    BY <1>6 DEF SelectWire, RestoreWire, InCall, TypeOK
  <2> QED
    BY <1>2, <1>6, <2>1 DEF SelectWire, RestoreWire
<1>7. CASE Reload \/ Converted
  BY <1>1, <1>7 DEF Reload, Converted, device, driver
<1>8. ASSUME NEW p \in Process, NEW c \in Channel, NEW w \in Wire, NEW v \in Offset,
             \/ SetCalibrationOffset(p, c, w, v)
             \/ GetCalibrationOffset(p, c, w)
             \/ Single(p, c)
      PROVE UNCHANGED <<wire, copy>>
  BY <1>8 DEF SetCalibrationOffset, GetCalibrationOffset, Calibrate, Single, device,
              driver
<1>9. ASSUME NEW p \in Process,
             \/ GetChannel(p) \/ SetOffset(p) \/ GetOffset(p)
             \/ Start(p) \/ BusyStatus(p) \/ InData(p)
      PROVE UNCHANGED <<wire, copy>>
  BY <1>9 DEF GetChannel, SetOffset, GetOffset, Start, BusyStatus, InData, device,
              driver
<1>10. CASE UNCHANGED vars
  BY <1>1, <1>10 DEF vars, device, driver
<1>11. \E w \in Wire, v \in Offset : TRUE
  BY SsiAssumption DEF Wire
<1> QED
  BY <1>1, <1>3, <1>4, <1>5, <1>6, <1>7, <1>8, <1>9, <1>10, <1>11 DEF Next, Call

\* The channel data and the device never name two wirings.
THEOREM CopyAgrees == Spec => []CopyIsWiring
<1>1. Init => CopyIsWiring
  BY DEF Init, CopyIsWiring, Cleared
<1> QED
  BY <1>1, TypeInit, TypeStep, InCallInit, InCallStep, CopyStep, PTL DEF Spec

-----------------------------------------------------------------------------
(* Wirings and offsets are as asked for *)

\* Two calls use a channel at once only if that was noticed.
Alone ==
  \A p, q \in Process :
    /\ p # q /\ pc[p] # "idle" /\ pc[q] # "idle"
    /\ call[p].c = call[q].c
    => call[p].c \in mixed

\* What a call relies on as long as it has its channel to itself.
Relies(p) ==
  LET c == call[p].c IN
  pc[p] # "idle" /\ c \notin mixed =>
    /\ pc[p] = "access" => copy[c] = call[p].w
    /\ pc[p] \in {"select", "access", "restore"} => asked[c] \in {"none", call[p].back}
    /\ pc[p] \notin {"access", "restore"} => asked[c] \in {"none", wire[c]}
    /\ pc[p] = "wait" => converting = c \/ wiredAs[c] = wire[c]
    /\ pc[p] = "indata" => wiredAs[c] = wire[c]

\* A channel that no call uses.
Unused(c) == \A p \in Process : pc[p] = "idle" \/ call[p].c # c

AskedInv ==
  /\ Alone
  /\ \A p \in Process : Relies(p)
  /\ \A c \in Channel \ mixed :
       /\ Unused(c) => asked[c] \in {"none", wire[c]}
       /\ off[c] = askedOff[c]

LEMMA AskedIsWiring == TypeOK /\ AskedInv => WiringAsAsked /\ OffsetsAsAsked
BY DEF AskedInv, WiringAsAsked, OffsetsAsAsked, Unused, Relies, TypeOK


LEMMA AskedInit == Init => AskedInv
BY DEF Init, AskedInv, Alone, Relies, Cleared, NoOffsets

\* Steps that are no part of a call of the library.
LEMMA AskedOutside ==
  ASSUME TypeOK, InCall, AskedInv,
         \/ Reload \/ Converted \/ UNCHANGED vars
         \/ \E p \in Process : Open(p) \/ Close(p) \/ SsiInit(p)
  PROVE  AskedInv'
<1> USE SsiAssumption DEF AskedInv
<1>1. CASE Reload
  BY <1>1 DEF Reload, device, calls, InCall, Alone, Relies, Unused, TypeOK
<1>2. CASE Converted
  <2>1. \A q \in Process : Relies(q)'
    BY <1>2 DEF Converted, driver, calls, history, Relies, TypeOK
  <2> QED
    BY <1>2, <2>1 DEF Converted, driver, calls, history, Alone, Unused
<1>3. CASE UNCHANGED vars
  BY <1>3 DEF vars, device, driver, calls, history, Alone, Relies, Unused
<1>4. ASSUME NEW p \in Process, Open(p) \/ Close(p) PROVE AskedInv'
  <2>1. copy' = copy \/ \A q \in Process : pc[q] = "idle"
    BY <1>4 DEF Open, Close, Idle, InCall
  <2>2. UNCHANGED <<device, off, calls, history>>
    BY <1>4 DEF Open, Close
  <2> QED
    BY <2>1, <2>2 DEF device, calls, history, Alone, Relies, Unused
<1>5. ASSUME NEW p \in Process, SsiInit(p) PROVE AskedInv'
  <2>1. \A q \in Process : pc[q] # "idle" => call[q].c \in mixed'
    BY <1>5 DEF SsiInit, Busy, Idle, InCall
  <2>2. mixed \subseteq mixed' /\ asked' = Cleared
    BY <1>5 DEF SsiInit
  <2> QED
    BY <1>5, <2>1, <2>2 DEF SsiInit, driver, Alone, Relies, Unused, Cleared, Wiring
<1> QED
  BY <1>1, <1>2, <1>3, <1>4, <1>5

\* Steps at the beginning of a call, after which c is mixed if it was in use.
LEMMA AskedBegin ==
  ASSUME TypeOK, InCall, AskedInv, NEW p \in Process, NEW c \in Channel, Idle(p),
         Mix(p, c), off' = off, askedOff' = askedOff, wiredAs' = wiredAs,
         converting' = converting,
         \/ /\ UNCHANGED <<pc, call>>
            /\ \E w \in Wire : SetChannelRegister(c, w) /\ asked' = [asked EXCEPT ![c] = w]
         \/ /\ UNCHANGED <<wire, copy, asked>>
            /\ pc' = [pc EXCEPT ![p] = "get"] \/ pc' = [pc EXCEPT ![p] = "start"]
            /\ call'[p].c = c /\ \A q \in Process \ {p} : call'[q] = call[q]
  PROVE  AskedInv'
<1> USE DEF AskedInv
<1>1. mixed \subseteq mixed'
  BY DEF Mix
<1>2. c \notin mixed' => \A q \in Process \ {p} : pc[q] = "idle" \/ call[q].c # c
  BY DEF Mix, Busy
<1>3. pc[p] = "idle"
  BY DEF Idle
<1>4. CASE /\ UNCHANGED <<pc, call>>
           /\ \E w \in Wire : SetChannelRegister(c, w) /\ asked' = [asked EXCEPT ![c] = w]
  <2>1. PICK w \in Wire : SetChannelRegister(c, w) /\ asked' = [asked EXCEPT ![c] = w]
    BY <1>4
  <2>2. Alone'
    BY <1>1, <1>4 DEF Alone
  <2>3. ASSUME NEW q \in Process PROVE Relies(q)'
    BY <1>1, <1>2, <1>3, <1>4, <2>1 DEF Relies, SetChannelRegister, TypeOK
  <2>4. ASSUME NEW d \in Channel, d \notin mixed', Unused(d)'
        PROVE asked'[d] \in {"none", wire'[d]}
    BY <1>1, <1>4, <2>1, <2>4 DEF Unused, SetChannelRegister, TypeOK
  <2> QED
    BY <1>1, <2>2, <2>3, <2>4
<1>5. CASE /\ UNCHANGED <<wire, copy, asked>>
           /\ pc' = [pc EXCEPT ![p] = "get"] \/ pc' = [pc EXCEPT ![p] = "start"]
           /\ call'[p].c = c /\ \A q \in Process \ {p} : call'[q] = call[q]
  <2>0. /\ pc'[p] \in {"get", "start"}
        /\ \A q \in Process \ {p} : pc'[q] = pc[q] /\ call'[q] = call[q]
    BY <1>5 DEF TypeOK
  <2>1. Alone'
    BY <1>1, <1>2, <1>5, <2>0 DEF Alone
  <2>2. ASSUME NEW q \in Process PROVE Relies(q)'
    <3>1. CASE q # p
      BY <1>1, <1>5, <2>0, <3>1 DEF Relies
    <3>2. CASE q = p
      <4>1. c \notin mixed' => Unused(c)
        BY <1>2, <1>3 DEF Unused
      <4> QED
        BY <1>1, <1>5, <2>0, <3>2, <4>1 DEF Relies
    <3> QED
      BY <3>1, <3>2
  <2>3. ASSUME NEW d \in Channel, d \notin mixed', Unused(d)' PROVE Unused(d)
    BY <1>3, <2>0, <2>3 DEF Unused
  <2> QED
    BY <1>1, <1>5, <2>1, <2>2, <2>3
<1> QED
  BY <1>4, <1>5

\* Steps of a call that has begun: what they change is its channel's.
LEMMA AskedInside ==
  ASSUME TypeOK, InCall, AskedInv, NEW p \in Process,
         \/ GetChannel(p) \/ SelectWire(p) \/ SetOffset(p) \/ GetOffset(p)
         \/ RestoreWire(p) \/ Start(p) \/ BusyStatus(p) \/ InData(p)
  PROVE  AskedInv'
<1> USE SsiAssumption DEF AskedInv
<1> DEFINE c == call[p].c
<1>1. pc[p] # "idle" /\ c \in Channel /\ mixed \subseteq mixed' /\ asked' = asked
  BY DEF GetChannel, SelectWire, SetOffset, GetOffset, RestoreWire, Start, BusyStatus,
         InData, InCall, device, driver, history
<1>2. \A q \in Process \ {p} : pc'[q] = pc[q] /\ call'[q] = call[q]
  BY DEF GetChannel, SelectWire, SetOffset, GetOffset, RestoreWire, Start, BusyStatus,
         InData, Goto, TypeOK
<1>3. pc'[p] = "idle" \/ call'[p].c = c
  BY DEF GetChannel, SelectWire, SetOffset, GetOffset, RestoreWire, Start, BusyStatus,
         InData, Goto, TypeOK
<1>4. Alone'
  BY <1>1, <1>2, <1>3 DEF Alone
<1>5. /\ \A d \in Channel \ {c} :
           wire'[d] = wire[d] /\ copy'[d] = copy[d] /\ off'[d] = off[d]
           /\ askedOff'[d] = askedOff[d]
      /\ wiredAs' = wiredAs
  BY DEF GetChannel, SelectWire, SetOffset, GetOffset, RestoreWire, Start, BusyStatus,
         InData, SetChannelRegister, TypeOK, device, driver, history
<1>6. \A d \in Channel \ mixed' : converting = d => converting' = d \/ wiredAs'[d] = wire'[d]
  BY <1>1 DEF GetChannel, SelectWire, SetOffset, GetOffset, RestoreWire, Start, BusyStatus,
         InData, device
<1>7. ASSUME NEW q \in Process, q # p PROVE Relies(q)'
  <2>1. c \notin mixed => pc[q] = "idle" \/ call[q].c # c
    BY <1>1, <1>7 DEF Alone
  <2>2. pc[q] # "idle" => call[q].c \in Channel
    BY DEF InCall
  <2> HIDE DEF c
  <2> QED
    BY <1>1, <1>2, <1>5, <1>6, <1>7, <2>1, <2>2 DEF Relies

<1>8. Relies(p)'
  <2>0. pc[p] # "idle" /\ c \notin mixed => Relies(p)
    OBVIOUS
  <2>1. CASE GetChannel(p)
    <3>1. call'[p].back = Known(wire[c]) /\ call'[p].c = c /\ pc'[p] = "select"
      BY <2>1 DEF GetChannel, Goto, TypeOK
    <3>2. UNCHANGED <<device, driver, history>> /\ pc[p] = "get"
      BY <2>1 DEF GetChannel
    <3> QED
      BY <1>1, <3>1, <3>2 DEF Relies, device, driver, history, Known, TypeOK, Wiring,
                              Wire
  <2>2. CASE SelectWire(p)
    BY <1>1, <2>2 DEF SelectWire, SetChannelRegister, Goto, Relies, TypeOK, history
  <2>3. CASE SetOffset(p) \/ GetOffset(p)
    BY <1>1, <2>3 DEF SetOffset, GetOffset, Goto, Relies, TypeOK, device, driver,
                      history
  <2>4. CASE RestoreWire(p) \/ InData(p)
    BY <2>4 DEF RestoreWire, InData, Goto, Relies, TypeOK
  <2>5. CASE Start(p)
    BY <1>1, <2>5 DEF Start, Goto, Relies, TypeOK, driver
  <2>6. CASE BusyStatus(p)
    BY <1>1, <2>6 DEF BusyStatus, Goto, Relies, TypeOK, device, driver, history
  <2> QED
    BY <2>1, <2>2, <2>3, <2>4, <2>5, <2>6
<1>9. ASSUME NEW d \in Channel, d \notin mixed', Unused(d)'
      PROVE asked'[d] \in {"none", wire'[d]}
  <2>1. CASE d # c
    <3>1. Unused(d)
      BY <1>1, <1>2, <1>9, <2>1 DEF Unused
    <3> HIDE DEF c
    <3> QED
      BY <1>1, <1>5, <1>9, <2>1, <3>1
  <2>2. CASE d = c
    <3>1. pc'[p] = "idle"
      BY <1>3, <1>9, <2>2 DEF Unused
    <3>2. RestoreWire(p) \/ InData(p)
      BY <3>1 DEF GetChannel, SelectWire, SetOffset, GetOffset, Start, BusyStatus, Goto,
                  TypeOK
    <3>3. CASE RestoreWire(p)
      BY <1>1, <1>9, <2>2, <3>3 DEF RestoreWire, SetChannelRegister, Relies, TypeOK
    <3>4. CASE InData(p)
      BY <1>1, <1>9, <2>2, <3>4 DEF InData, Relies, device
    <3> QED
      BY <3>2, <3>3, <3>4
  <2> QED
    BY <2>1, <2>2
<1>10. ASSUME NEW d \in Channel, d \notin mixed' PROVE off'[d] = askedOff'[d]
  <2>1. CASE d # c
    <3> HIDE DEF c
    <3> QED
      BY <1>1, <1>5, <1>10, <2>1
  <2>2. CASE d = c
    <3>1. CASE SetOffset(p)
      <4>1. copy[c] = call[p].w /\ call[p].w \in Wire
        BY <1>1, <1>10, <2>2, <3>1 DEF SetOffset, Relies, InCall, Setting
      <4>2. Known(copy[c]) = call[p].w
        BY <4>1 DEF Known, Wire
      <4> QED
        BY <1>1, <1>10, <2>2, <3>1, <4>2 DEF SetOffset, TypeOK
    <3>2. CASE ~SetOffset(p)
      BY <1>1, <1>10, <2>2, <3>2
         DEF GetChannel, SelectWire, GetOffset, RestoreWire, Start, BusyStatus, InData,
             SetChannelRegister, driver, history
    <3> QED
      BY <3>1, <3>2
  <2> QED
    BY <2>1, <2>2
<1> QED
  BY <1>4, <1>7, <1>8, <1>9, <1>10

LEMMA AskedStep == TypeOK /\ InCall /\ AskedInv /\ [Next]_vars => AskedInv'
<1> SUFFICES ASSUME TypeOK, InCall, AskedInv, [Next]_vars PROVE AskedInv'
  OBVIOUS
<1>1. ASSUME NEW p \in Process, NEW c \in Channel, NEW w \in Wire, SetChannel(p, c, w)
      PROVE AskedInv'
  BY <1>1, AskedBegin DEF SetChannel
<1>2. ASSUME NEW p \in Process, NEW c \in Channel, NEW w \in Wire, NEW v \in Offset,
             SetCalibrationOffset(p, c, w, v)
      PROVE AskedInv'
  <2>1. call'[p].c = c /\ \A q \in Process \ {p} : call'[q] = call[q]
    BY <1>2 DEF SetCalibrationOffset, Calibrate, NoCall, TypeOK
  <2> QED
    BY <1>2, <2>1, AskedBegin
       DEF SetCalibrationOffset, Calibrate, Goto, device, driver, NoCall
<1>3. ASSUME NEW p \in Process, NEW c \in Channel, NEW w \in Wire,
             GetCalibrationOffset(p, c, w)
      PROVE AskedInv'
  <2>1. call'[p].c = c /\ \A q \in Process \ {p} : call'[q] = call[q]
    BY <1>3 DEF GetCalibrationOffset, Calibrate, NoCall, TypeOK
  <2> QED
    BY <1>3, <2>1, AskedBegin
       DEF GetCalibrationOffset, Calibrate, Goto, device, driver, NoCall
<1>4. ASSUME NEW p \in Process, NEW c \in Channel, Single(p, c) PROVE AskedInv'
  <2>1. call'[p].c = c /\ \A q \in Process \ {p} : call'[q] = call[q]
    BY <1>4 DEF Single, NoCall, TypeOK
  <2> QED
    BY <1>4, <2>1, AskedBegin DEF Single, Goto, device, driver
<1> QED
  BY <1>1, <1>2, <1>3, <1>4, AskedOutside, AskedInside DEF Next, Call

\* Wirings stay as asked for and offsets reach the wiring they are set for.
THEOREM OffsetsReachTheirWiring == Spec => [](WiringAsAsked /\ OffsetsAsAsked)
BY TypeInit, TypeStep, InCallInit, InCallStep, AskedInit, AskedStep, AskedIsWiring,
   PTL DEF Spec

-----------------------------------------------------------------------------
(* Measurements *)

LEMMA MeasureStep ==
  TypeOK /\ InCall /\ CopyIsWiring /\ AskedInv /\ MeasuresAsAsked /\ [Next]_vars
    => MeasuresAsAsked'
<1> SUFFICES ASSUME TypeOK, InCall, CopyIsWiring, AskedInv, wrong = {}, [Next]_vars
             PROVE wrong' = {}
  BY DEF MeasuresAsAsked
<1>1. ASSUME NEW p \in Process, InData(p) PROVE wrong' = {}
  <2> DEFINE c == call[p].c
  <2>1. c \in Channel /\ pc[p] = "indata"
    BY <1>1 DEF InData, InCall
  <2>2. PICK raw \in Raw :
          wrong' = IF \/ c \in mixed \/ asked[c] = "none" \/ copy[c] = "none"
                      \/ RightMeasure(c, raw, addsub(raw, off[c][Known(copy[c])]))
                   THEN wrong ELSE wrong \cup {c}
    BY <1>1 DEF InData
  <2>3. ASSUME c \notin mixed, asked[c] # "none", copy[c] # "none"
        PROVE RightMeasure(c, raw, addsub(raw, off[c][Known(copy[c])]))
    <3>1. wire[c] = asked[c] /\ wiredAs[c] = asked[c]
      BY <2>1, <2>3 DEF AskedInv, Relies
    <3>2. copy[c] = asked[c] /\ asked[c] \in Wire
      BY <2>1, <2>3, <3>1 DEF CopyIsWiring, TypeOK, Wiring
    <3>3. Known(copy[c]) = asked[c]
      BY <3>2 DEF Known, Wire
    <3>4. off[c] = askedOff[c]
      BY <2>1, <2>3 DEF AskedInv
    <3>5. askedOff[c][asked[c]] \in Byte /\ raw \in Register
      BY <2>1, <3>2, SsiAssumption DEF TypeOK
    <3> HIDE DEF c
    <3> QED
      BY <3>1, <3>3, <3>4, <3>5, CorrectedIsSum DEF RightMeasure
  <2> QED
    BY <2>2, <2>3
<1>2. CASE UNCHANGED wrong
  BY <1>2
<1> QED
  BY <1>1, <1>2
     DEF Next, Call, Reload, Converted, Open, SsiInit, Close, SetChannel,
         SetCalibrationOffset, GetCalibrationOffset, Calibrate, Single, GetChannel,
         SelectWire, SetOffset, GetOffset, RestoreWire, Start, BusyStatus, vars, history

\* Measurements on channels that one process at a time uses are made with the
\* wiring asked for and corrected by its offset.
THEOREM MeasuresAreRight == Spec => []MeasuresAsAsked
<1>1. Init => CopyIsWiring /\ MeasuresAsAsked
  BY DEF Init, CopyIsWiring, Cleared, MeasuresAsAsked
<1> QED
  BY <1>1, TypeInit, TypeStep, InCallInit, InCallStep, CopyStep, AskedInit, AskedStep,
     MeasureStep, PTL DEF Spec
=============================================================================
