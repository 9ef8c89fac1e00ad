----------------------------- MODULE Leds_proofs -----------------------------
(***************************************************************************)
(* Proofs about Leds and the bus it runs on, FpgaBus, for any LEDs and any *)
(* number of contexts of each level.                                       *)
(*                                                                         *)
(* The invariant of the bus says, for the one context in the middle of an  *)
(* access that no other access has interrupted, what it may find on the    *)
(* pins at each of its steps.  An access always ends with both pins low,   *)
(* and both pins low is something that every step can be faced with.       *)
(*                                                                         *)
(* The invariant of the LEDs says that whoever is about to write the       *)
(* register has a value of it that is right for every steady LED but the   *)
(* one it changes: the timer changes blinking LEDs only, and nobody else   *)
(* comes between a process's read and its write.                           *)
(***************************************************************************)
EXTENDS Leds, SequenceTheorems, FiniteSetTheorems, TLAPS

LEMMA Levels == \A c \in Ctx : Level(c) \in Nat
BY DEF Level

\* No access has interrupted the one of c.
Top(c) == \A d \in Ctx \ {c} : InAccess(d) => Level(d) < Level(c)

\* What c may find on the pins.
Good(c) ==
  /\ stage[c] = "setHigh" => low = (mode[c] = "low") \/ ~low
  /\ stage[c] \in {"data", "endLow"} => Is(mode[c]) \/ Is("word")
  /\ stage[c] = "endHigh" => ~low /\ (mode[c] # "high" => ~high)

\* What it does find if nothing interrupts it.
Exact(c) ==
  /\ stage[c] = "setHigh" => low = (mode[c] = "low")
  /\ stage[c] = "data" => Is(mode[c])

\* One context of a level is inside at a time, and a locking one is on top.
Nested ==
  /\ \A c, d \in Ctx : c # d /\ Inside(c) /\ Inside(d) => Level(c) # Level(d)
  /\ \A c \in Locking : Inside(c) => CanRun(c)

PinInv ==
  /\ \A c \in Ctx : InAccess(c) /\ Top(c) => Good(c)
  /\ \A c \in Ctx : InAccess(c) /\ Undisturbed(c) => Exact(c)
  /\ QuietIsWord

BusInv == BusTypeOK /\ Nested /\ PinInv

-----------------------------------------------------------------------------
(* Types and nesting. *)

LEMMA Named == \A s \in {"out", "in", "setLow", "setHigh", "data", "endLow",
                         "endHigh"} : s \in Stages
BY DEF Stages

LEMMA Moved ==
  ASSUME BusTypeOK, NEW c \in Ctx, NEW s \in Stages, Goto(c, s)
  PROVE  /\ stage' \in [Ctx -> Stages] /\ stage'[c] = s
         /\ \A d \in Ctx \ {c} : stage'[d] = stage[d]
BY DEF BusTypeOK, Goto

LEMMA DoneMoves ==
  ASSUME BusTypeOK, NEW c \in Ctx, Done(c)
  PROVE  /\ stage' \in [Ctx -> Stages] /\ stage'[c] = "in"
         /\ \A d \in Ctx \ {c} : stage'[d] = stage[d] /\ mode'[d] = mode[d]
         /\ mode' \in [Ctx -> Modes] /\ accessed'
<1>1. Goto(c, "in") /\ accessed'
  BY DEF Done
<1>2. /\ mode' \in [Ctx -> Modes]
      /\ \A d \in Ctx \ {c} : mode'[d] = mode[d]
  BY DEF Done, BusTypeOK, Modes
<1> QED BY <1>1, <1>2, Moved, Named

\* Every step but Enter is taken by a context that is inside.
LEMMA StepType ==
  ASSUME BusTypeOK, NEW c \in Ctx, BusStep(c)
  PROVE  /\ BusTypeOK' /\ CanRun(c)
         /\ \A d \in Ctx \ {c} : stage'[d] = stage[d] /\ mode'[d] = mode[d]
         /\ Inside(c) \/ \A d \in Locking : ~Inside(d)
<1>1. CASE Enter(c)
  <2>1. Goto(c, "in") /\ UNCHANGED <<low, high, mode, accessed>> /\ CanRun(c)
        /\ \A d \in Locking : ~Inside(d)
    BY <1>1 DEF Enter
  <2> QED BY <2>1, Moved, Named DEF BusTypeOK
<1>2. CASE Leave(c)
  <2>1. Goto(c, "out") /\ UNCHANGED <<low, high, mode, accessed>> /\ CanRun(c)
        /\ Inside(c)
    BY <1>2 DEF Leave, Inside
  <2> QED BY <2>1, Moved, Named DEF BusTypeOK
<1>3. ASSUME NEW m \in Modes, Begin(c, m)
      PROVE  /\ BusTypeOK' /\ CanRun(c) /\ Inside(c)
             /\ \A d \in Ctx \ {c} : stage'[d] = stage[d] /\ mode'[d] = mode[d]
  <2>1. Goto(c, "setLow") /\ UNCHANGED <<low, high, accessed>> /\ CanRun(c)
        /\ Inside(c)
    BY <1>3 DEF Begin, Inside
  <2>2. /\ mode' \in [Ctx -> Modes]
        /\ \A d \in Ctx \ {c} : mode'[d] = mode[d]
    BY <1>3 DEF Begin, BusTypeOK
  <2> QED BY <2>1, <2>2, Moved, Named DEF BusTypeOK
<1>4. CASE SetLow(c) \/ SetHigh(c) \/ EndLow(c)
  <2>1. /\ CanRun(c) /\ Inside(c) /\ UNCHANGED <<mode, accessed>>
        /\ Goto(c, "setHigh") \/ Goto(c, "data") \/ Goto(c, "endHigh")
    BY <1>4 DEF SetLow, SetHigh, EndLow, Inside
  <2>2. low' \in BOOLEAN /\ high' \in BOOLEAN
    BY <1>4, Zenon DEF SetLow, SetHigh, EndLow, BusTypeOK
  <2> QED BY <2>1, <2>2, Moved, Named DEF BusTypeOK
<1>5. CASE Transfer(c)
  <2>1. CanRun(c) /\ Inside(c) /\ UNCHANGED <<low, high>>
    BY <1>5 DEF Transfer, Inside
  <2>2. CASE Done(c)
    BY <2>1, <2>2, DoneMoves DEF BusTypeOK
  <2>3. CASE Goto(c, "endLow") /\ UNCHANGED <<mode, accessed>>
    BY <2>1, <2>3, Moved, Named DEF BusTypeOK
  <2> QED BY <1>5, <2>2, <2>3 DEF Transfer
<1>6. CASE EndHigh(c)
  <2>1. CanRun(c) /\ Inside(c) /\ Done(c) /\ UNCHANGED low /\ high' = FALSE
    BY <1>6 DEF EndHigh, Inside
  <2> QED BY <2>1, DoneMoves DEF BusTypeOK
<1> QED BY <1>1, <1>2, <1>3, <1>4, <1>5, <1>6 DEF BusStep

LEMMA StepNested ==
  ASSUME BusTypeOK, Nested, NEW c \in Ctx, BusStep(c)
  PROVE  Nested'
<1>1. /\ CanRun(c)
      /\ Inside(c) \/ \A d \in Locking : ~Inside(d)
      /\ \A d \in Ctx \ {c} : Inside(d)' = Inside(d)
  BY StepType DEF Inside
<1>2. ASSUME NEW d \in Ctx, NEW e \in Ctx, d # e, Inside(d)', Inside(e)'
      PROVE  Level(d) # Level(e)
  <2>1. CASE d # c /\ e # c
    BY <1>1, <1>2, <2>1 DEF Nested
  <2>2. CASE d = c
    <3>1. Level(e) < Level(c)
      BY <1>1, <1>2, <2>2 DEF CanRun
    <3> QED BY <2>2, <3>1, Levels
  <2>3. CASE e = c
    <3>1. Level(d) < Level(c)
      BY <1>1, <1>2, <2>3 DEF CanRun
    <3> QED BY <2>3, <3>1, Levels
  <2> QED BY <2>1, <2>2, <2>3
<1>3. ASSUME NEW d \in Locking, Inside(d)'
      PROVE  CanRun(d)'
  <2>1. d \in Ctx
    BY ContextAssumption DEF ContextAssumption
  <2>2. CASE d = c
    BY <1>1, <2>2 DEF CanRun
  <2>3. CASE d # c
    <3>1. Inside(d) /\ CanRun(d) /\ Inside(c)
      BY <1>1, <1>3, <2>1, <2>3 DEF Nested
    <3> QED BY <1>1, <2>1, <2>3, <3>1 DEF CanRun
  <2> QED BY <2>2, <2>3
<1> QED BY <1>2, <1>3 DEF Nested

-----------------------------------------------------------------------------
(* The pins. *)

\* Whoever takes a step has interrupted every other access, and none of those
\* is one that cannot be interrupted.
LEMMA Others ==
  ASSUME BusInv, NEW c \in Ctx, BusStep(c), NEW d \in Ctx \ {c}, InAccess(d)'
  PROVE  InAccess(d) /\ Level(d) < Level(c) /\ ~Undisturbed(d)
<1>1. /\ stage'[d] = stage[d] /\ CanRun(c)
      /\ Inside(c) \/ \A e \in Locking : ~Inside(e)
  BY StepType DEF BusInv
<1>2. InAccess(d) /\ Inside(d)
  BY <1>1 DEF InAccess, Inside
<1>3. Level(d) < Level(c)
  BY <1>1, <1>2 DEF CanRun
<1>4. d \notin Locking
  <2>1. SUFFICES ASSUME d \in Locking PROVE FALSE
    OBVIOUS
  <2>2. CanRun(d) /\ Inside(c)
    BY <1>1, <1>2, <2>1 DEF BusInv, Nested
  <2>3. Level(c) < Level(d)
    BY <2>2 DEF CanRun
  <2> QED BY <1>3, <2>3, Levels
<1>5. ~(Level(c) <= Level(d))
  BY <1>3, Levels
<1> QED BY <1>2, <1>3, <1>4, <1>5 DEF Undisturbed

\* A step inside an access: the pins have to suit this access only.
LEMMA InTheMiddle ==
  ASSUME BusInv, NEW c \in Ctx, BusStep(c), InAccess(c)', Good(c)',
         Undisturbed(c) => Exact(c)'
  PROVE  PinInv'
<1>1. ASSUME NEW d \in Ctx, InAccess(d)', Top(d)'
      PROVE  Good(d)'
  <2>1. CASE d = c
    BY <2>1
  <2>2. CASE d # c
    <3>1. Level(d) < Level(c)
      BY <1>1, <2>2, Others
    <3>2. Level(c) < Level(d)
      BY <1>1, <2>2 DEF Top
    <3> QED BY <3>1, <3>2, Levels
  <2> QED BY <2>1, <2>2
<1>2. ASSUME NEW d \in Ctx, InAccess(d)', Undisturbed(d)
      PROVE  Exact(d)'
  <2>1. d = c
    BY <1>2, Others
  <2> QED BY <1>2, <2>1
<1>3. QuietIsWord'
  BY DEF QuietIsWord
<1> QED BY <1>1, <1>2, <1>3 DEF PinInv, Undisturbed

\* The end of an access: both pins are low.
LEMMA AtTheEnd ==
  ASSUME BusInv, NEW c \in Ctx, BusStep(c), ~InAccess(c)', low' = FALSE,
         high' = FALSE
  PROVE  PinInv'
<1>1. ASSUME NEW d \in Ctx, InAccess(d)'
      PROVE  Good(d)'
  BY <1>1 DEF Good, Is
<1>2. ASSUME NEW d \in Ctx, InAccess(d)', Undisturbed(d)
      PROVE  Exact(d)'
  <2>1. d # c
    BY <1>2
  <2> QED BY <1>2, <2>1, Others
<1>3. QuietIsWord'
  BY DEF QuietIsWord, Is
<1> QED BY <1>1, <1>2, <1>3 DEF PinInv, Undisturbed

\* Steps between two accesses.
LEMMA Outside ==
  ASSUME BusInv, NEW c \in Ctx, BusStep(c), ~InAccess(c), ~InAccess(c)',
         UNCHANGED <<low, high, mode, accessed>>
  PROVE  PinInv'
<1>1. \A d \in Ctx \ {c} : stage'[d] = stage[d]
  BY StepType DEF BusInv
<1>2. ASSUME NEW d \in Ctx, InAccess(d)
      PROVE  d # c /\ InAccess(d)'
  BY <1>1, <1>2 DEF InAccess
<1>3. ASSUME NEW d \in Ctx, InAccess(d)'
      PROVE  d # c /\ InAccess(d)
  BY <1>1, <1>3 DEF InAccess
<1>4. ASSUME NEW d \in Ctx, InAccess(d)', Top(d)'
      PROVE  Good(d)'
  <2>1. d # c /\ InAccess(d)
    BY <1>3, <1>4
  <2>2. ASSUME NEW e \in Ctx \ {d}, InAccess(e)
        PROVE  Level(e) < Level(d)
    <3>1. InAccess(e)'
      BY <1>2, <2>2
    <3> QED BY <1>4, <2>2, <3>1 DEF Top
  <2>3. Top(d)
    BY <2>2 DEF Top
  <2> QED BY <1>1, <2>1, <2>3 DEF BusInv, PinInv, Good, Is
<1>5. ASSUME NEW d \in Ctx, InAccess(d)', Undisturbed(d)
      PROVE  Exact(d)'
  BY <1>3, <1>5, Others
<1>6. QuietIsWord'
  <2>1. SUFFICES ASSUME accessed, \A d \in Ctx : ~InAccess(d)'
                 PROVE  Is("word")
    BY DEF QuietIsWord, Is
  <2>2. \A d \in Ctx : ~InAccess(d)
    BY <1>2, <2>1
  <2> QED BY <2>1, <2>2 DEF BusInv, PinInv, QuietIsWord
<1> QED BY <1>4, <1>5, <1>6 DEF PinInv, Undisturbed

\* The context that takes a step in the middle of its access finds what the
\* invariant says.
LEMMA Found ==
  ASSUME BusInv, NEW c \in Ctx, CanRun(c), InAccess(c)
  PROVE  Good(c) /\ (Undisturbed(c) => Exact(c))
<1>1. Top(c)
  BY DEF CanRun, Top, Inside, InAccess
<1> QED BY <1>1 DEF BusInv, PinInv

LEMMA StepPins ==
  ASSUME BusInv, NEW c \in Ctx, BusStep(c)
  PROVE  PinInv'
<1> USE DEF BusInv
<1>1. CASE Enter(c) \/ Leave(c)
  <2>1. /\ stage[c] \in {"out", "in"} /\ UNCHANGED <<low, high, mode, accessed>>
        /\ Goto(c, "in") \/ Goto(c, "out")
    BY <1>1 DEF Enter, Leave
  <2>2. stage'[c] \in {"in", "out"}
    BY <2>1, Moved, Named
  <2> QED BY <2>1, <2>2, Outside DEF InAccess
<1>2. ASSUME NEW m \in Modes, Begin(c, m) PROVE PinInv'
  <2>1. stage'[c] = "setLow"
    BY <1>2, Moved, Named DEF Begin
  <2> QED BY <2>1, InTheMiddle DEF InAccess, Good, Exact
<1>3. CASE SetLow(c)
  <2>1. /\ stage'[c] = "setHigh" /\ low' = (mode[c] = "low")
        /\ UNCHANGED <<high, mode, accessed>>
    BY <1>3, Moved, Named DEF SetLow
  <2> QED BY <2>1, InTheMiddle DEF InAccess, Good, Exact
<1>4. CASE SetHigh(c)
  <2>1. /\ stage'[c] = "data" /\ high' = (mode[c] = "high")
        /\ UNCHANGED <<low, mode, accessed>>
        /\ stage[c] = "setHigh" /\ CanRun(c)
    BY <1>4, Moved, Named DEF SetHigh
  <2>2. /\ low = (mode[c] = "low") \/ ~low
        /\ Undisturbed(c) => low = (mode[c] = "low")
    BY <2>1, Found DEF InAccess, Good, Exact
  <2>3. Is(mode[c])' \/ Is("word")'
    BY <2>1, <2>2 DEF Is, BusTypeOK
  <2>4. Undisturbed(c) => Is(mode[c])'
    BY <2>1, <2>2 DEF Is
  <2> QED BY <2>1, <2>3, <2>4, InTheMiddle DEF InAccess, Good, Exact
<1>5. CASE Transfer(c)
  <2>1. stage[c] = "data" /\ CanRun(c) /\ UNCHANGED <<low, high>>
    BY <1>5 DEF Transfer
  <2>2. Is(mode[c]) \/ Is("word")
    BY <2>1, Found DEF InAccess, Good
  <2>3. CASE mode[c] = "word"
    <3>1. stage'[c] = "in"
      BY <1>5, <2>3, DoneMoves DEF Transfer
    <3>2. low' = FALSE /\ high' = FALSE
      BY <2>1, <2>2, <2>3 DEF Is
    <3> QED BY <3>1, <3>2, AtTheEnd DEF InAccess
  <2>4. CASE mode[c] # "word"
    <3>1. stage'[c] = "endLow" /\ UNCHANGED mode
      BY <1>5, <2>4, Moved, Named DEF Transfer
    <3>2. Is(mode[c])' \/ Is("word")'
      BY <2>1, <2>2, <3>1 DEF Is
    <3> QED BY <3>1, <3>2, InTheMiddle DEF InAccess, Good, Exact
  <2> QED BY <2>3, <2>4
<1>6. CASE EndLow(c)
  <2>1. /\ stage'[c] = "endHigh" /\ low' = FALSE
        /\ UNCHANGED <<high, mode, accessed>>
        /\ stage[c] = "endLow" /\ CanRun(c)
    BY <1>6, Moved, Named DEF EndLow
  <2>2. mode[c] # "high" => ~high
    BY <2>1, Found DEF InAccess, Good, Is
  <2> QED BY <2>1, <2>2, InTheMiddle DEF InAccess, Good, Exact
<1>7. CASE EndHigh(c)
  <2>1. /\ stage'[c] = "in" /\ high' = FALSE /\ UNCHANGED low
        /\ stage[c] = "endHigh" /\ CanRun(c)
    BY <1>7, DoneMoves DEF EndHigh
  <2>2. low = FALSE
    BY <2>1, Found DEF InAccess, Good, BusTypeOK
  <2> QED BY <2>1, <2>2, AtTheEnd DEF InAccess
<1> QED BY <1>1, <1>2, <1>3, <1>4, <1>5, <1>6, <1>7 DEF BusStep

-----------------------------------------------------------------------------
(* The theorems of the bus. *)

LEMMA BusInitInv == BusInit => BusInv
<1> SUFFICES ASSUME BusInit PROVE BusInv
  OBVIOUS
<1>1. \A c \in Ctx : ~Inside(c) /\ ~InAccess(c)
  BY DEF BusInit, Inside, InAccess
<1>2. Nested
  BY <1>1, ContextAssumption DEF Nested, ContextAssumption
<1>3. PinInv
  BY <1>1 DEF PinInv, QuietIsWord, BusInit
<1>4. BusTypeOK
  BY DEF BusInit, BusTypeOK, Stages, Modes
<1> QED BY <1>2, <1>3, <1>4 DEF BusInv

LEMMA BusNextInv == BusInv /\ [BusNext]_bus => BusInv'
<1>1. ASSUME BusInv, NEW c \in Ctx, BusStep(c) PROVE BusInv'
  BY <1>1, StepType, StepNested, StepPins DEF BusInv
<1>2. ASSUME BusInv, UNCHANGED bus PROVE BusInv'
  BY <1>2 DEF bus, BusInv, BusTypeOK, Nested, PinInv, QuietIsWord, Inside,
       InAccess, CanRun, Top, Good, Exact, Is, Undisturbed
<1> QED BY <1>1, <1>2 DEF BusNext

THEOREM BusInvariant == BusSpec => []BusInv
BY BusInitInv, BusNextInv, PTL DEF BusSpec

\* Types of the pins and of what the contexts do with them.
THEOREM BusTypeCorrect == BusSpec => []BusTypeOK
<1>1. BusInv => BusTypeOK
  BY DEF BusInv
<1> QED BY <1>1, BusInvariant, PTL

\* No access of any context, interrupted by whatever it may be, is made to
\* the wrong byte, and no 16 bit access is made as an 8 bit one.
THEOREM OtherByteIsSafe == BusSpec => []NeverOtherByte
<1>1. BusInv => NeverOtherByte
  <2>1. ASSUME BusInv, NEW c \in Ctx, Transferring(c)
        PROVE  Is(mode[c]) \/ Is("word")
    BY <2>1, Found DEF Transferring, InAccess, Good
  <2> QED BY <2>1 DEF NeverOtherByte
<1> QED BY <1>1, BusInvariant, PTL

\* A context that nothing interrupts, a locking driver or the context of the
\* highest level there is, gets the width it asked for.
THEOREM UndisturbedIsExact == BusSpec => []UndisturbedGetsMode
<1>1. BusInv => UndisturbedGetsMode
  <2>1. ASSUME BusInv, NEW c \in Ctx, Transferring(c), Undisturbed(c)
        PROVE  Is(mode[c])
    BY <2>1, Found DEF Transferring, InAccess, Exact
  <2> QED BY <2>1 DEF UndisturbedGetsMode
<1> QED BY <1>1, BusInvariant, PTL

\* Between accesses the pins say 16 bits.
THEOREM QuietBusIsWord == BusSpec => []QuietIsWord
<1>1. BusInv => QuietIsWord
  BY DEF BusInv, PinInv
<1> QED BY <1>1, BusInvariant, PTL
-----------------------------------------------------------------------------
(* The LED register *)

\* The accesses there are.
Script == [op : {"read"}, mode : {"low"}]
          \cup [op : {"write"}, mode : {"low"}, bit : Led, val : 0 .. 1]
          \cup [op : {"other"}, mode : Modes]

LedTypes ==
  /\ reg \in SUBSET Led /\ ledState \in SUBSET Led
  /\ ledEnable \in [Led -> 0 .. 2] /\ ledCount \in [Led -> 0 .. BlinkTicks]
  /\ todo \in [Ctx -> Seq(Script)] /\ valb \in [Ctx -> SUBSET Led]

Writes(c, i) == todo[c][i].op = "write"

\* A write of the register follows a read, the timer writes what blinks, and
\* a process what its sysfs file was given.
ScriptInv ==
  \A c \in Ctx :
    /\ ~Inside(c) => todo[c] = <<>>
    /\ stage[c] \in {"setLow", "setHigh", "data"} => todo[c] # <<>>
    /\ \A i \in 1 .. Len(todo[c]) : Writes(c, i) =>
         /\ i > 1 => todo[c][i - 1].op = "read"
         /\ IF c = Timer THEN ledEnable[todo[c][i].bit] = 2
            ELSE c \in Shell /\ ledEnable[todo[c][i].bit] = todo[c][i].val

\* What c is about to write back is what the register says of the steady LEDs.
Fresh(c) ==
  Len(todo[c]) > 0 /\ Writes(c, 1) =>
    \A l \in Led : ledEnable[l] # 2 /\ l # todo[c][1].bit =>
                     (l \in valb[c] <=> l \in reg)

Steady(l) == (ledEnable[l] # 2 /\ \A s \in Shell : ~Pending(s, l)) =>
               (l \in reg <=> ledEnable[l] = 1)

LedInv == LedTypes /\ ScriptInv /\ (\A c \in Ctx : Fresh(c))
          /\ (\A l \in Led : Steady(l))

IInv == BusInv /\ LedInv

\* Pending by places.
LEMMA PendingPlace ==
  ASSUME NEW c \in Ctx, todo \in [Ctx -> Seq(Script)], NEW l
  PROVE  Pending(c, l) <=> \E i \in 1 .. Len(todo[c]) :
                             Writes(c, i) /\ todo[c][i].bit = l
<1>1. todo[c] \in Seq(Script) /\ DOMAIN todo[c] = 1 .. Len(todo[c])
  OBVIOUS
<1>2. ToSet(todo[c]) = {todo[c][i] : i \in 1 .. Len(todo[c])}
  BY <1>1 DEF ToSet
<1> QED BY <1>2 DEF Pending, Writes

LEMMA Who ==
  /\ Timer \in Ctx /\ Shell \subseteq Ctx /\ Timer \notin Shell
  /\ \A s \in Shell : s \notin Locking /\ Level(s) = 0
BY LedAssumption, ContextAssumption
   DEF LedAssumption, ContextAssumption, Ctx, Level

\* Who runs is alone at its level and above it.
LEMMA Alone ==
  ASSUME NEW c \in Ctx, CanRun(c), NEW d \in Ctx \ {c}, Inside(d)
  PROVE  Level(d) < Level(c)
BY DEF CanRun

LEMMA ScriptFacts ==
  ASSUME NEW x \in Script
  PROVE  /\ x.op \in {"read", "write", "other"} /\ x.mode \in Modes
         /\ x.op = "write" => x.bit \in Led /\ x.val \in 0 .. 1
BY DEF Script, Modes

\* What is left to do after an access.
LEMMA Rest ==
  ASSUME todo \in [Ctx -> Seq(Script)], NEW c \in Ctx, todo[c] # <<>>,
         todo' = [todo EXCEPT ![c] = Tail(@)]
  PROVE  /\ todo' \in [Ctx -> Seq(Script)]
         /\ \A d \in Ctx \ {c} : todo'[d] = todo[d]
         /\ Len(todo[c]) \in Nat /\ Len(todo[c]) > 0
         /\ Len(todo'[c]) = Len(todo[c]) - 1
         /\ \A i \in 1 .. Len(todo'[c]) : todo'[c][i] = todo[c][i + 1]
         /\ Head(todo[c]) = todo[c][1]
<1>1. todo[c] \in Seq(Script)
  OBVIOUS
<1>2. /\ Tail(todo[c]) \in Seq(Script) /\ Len(Tail(todo[c])) = Len(todo[c]) - 1
      /\ \A i \in 1 .. Len(Tail(todo[c])) : Tail(todo[c])[i] = todo[c][i + 1]
  BY <1>1, HeadTailProperties
<1>3. Len(todo[c]) \in Nat /\ Len(todo[c]) > 0 /\ Head(todo[c]) = todo[c][1]
  BY <1>1, EmptySeq
<1>4. todo'[c] = Tail(todo[c]) /\ \A d \in Ctx \ {c} : todo'[d] = todo[d]
  OBVIOUS
<1>5. todo' \in [Ctx -> Seq(Script)]
  BY <1>2
<1> QED BY <1>2, <1>3, <1>4, <1>5

\* Steps that leave the register and the scripts alone.
LEMMA BusOnly ==
  ASSUME IInv, NEW c \in Ctx, Access(c) \/ PinStep(c) \/ Return(c)
  PROVE  IInv'
<1>1. UNCHANGED led
  BY DEF Access, PinStep, Return
<1>2. BusStep(c)
  <2>1. CASE Access(c)
    <3>1. Head(todo[c]) \in Script
      BY <2>1, HeadTailProperties DEF Access, IInv, LedInv, LedTypes
    <3> QED BY <2>1, <3>1, ScriptFacts DEF Access, BusStep
  <2> QED BY <2>1 DEF PinStep, Return, BusStep
<1>3. BusInv'
  BY <1>2, StepType, StepNested, StepPins DEF IInv, BusInv
<1>4. ScriptInv'
  <2>1. \A d \in Ctx \ {c} : stage'[d] = stage[d]
    BY <1>2, StepType DEF IInv, BusInv
  <2>2. /\ ~Inside(c)' => todo[c] = <<>>
        /\ stage'[c] \in {"setLow", "setHigh", "data"} => todo[c] # <<>>
    <3>1. CASE Access(c)
      BY <3>1, Moved, Named DEF Access, Begin, Inside, IInv, BusInv
    <3>2. CASE SetLow(c)
      <4>1. stage[c] = "setLow" /\ stage'[c] = "setHigh"
        BY <3>2, Moved, Named DEF SetLow, IInv, BusInv
      <4> QED BY <4>1 DEF Inside, IInv, LedInv, ScriptInv
    <3>3. CASE SetHigh(c)
      <4>1. stage[c] = "setHigh" /\ stage'[c] = "data"
        BY <3>3, Moved, Named DEF SetHigh, IInv, BusInv
      <4> QED BY <4>1 DEF Inside, IInv, LedInv, ScriptInv
    <3>4. CASE EndLow(c)
      BY <3>4, Moved, Named DEF EndLow, Inside, IInv, BusInv
    <3>5. CASE EndHigh(c)
      BY <3>5, DoneMoves DEF EndHigh, Inside, IInv, BusInv
    <3>6. CASE Return(c)
      BY <3>6, Moved, Named DEF Return, Leave, Inside, IInv, BusInv
    <3> QED BY <3>1, <3>2, <3>3, <3>4, <3>5, <3>6 DEF PinStep
  <2>3. \A d \in Ctx : Inside(d)' = Inside(d) \/ d = c
    BY <2>1 DEF Inside
  <2>4. UNCHANGED <<todo, ledEnable>>
    BY <1>1 DEF led
  <2> QED BY <2>1, <2>2, <2>3, <2>4 DEF IInv, LedInv, ScriptInv, Writes
<1>5. LedTypes' /\ (\A d \in Ctx : Fresh(d)') /\ (\A l \in Led : Steady(l)')
  BY <1>1 DEF led, IInv, LedInv, LedTypes, Fresh, Writes, Steady, Pending
<1> QED BY <1>3, <1>4, <1>5 DEF IInv, LedInv

\* An access of c is made, and the next one of its script is up.
LEMMA DoneScript ==
  ASSUME IInv, NEW c \in Ctx, todo[c] # <<>>, AccessDone(c),
         UNCHANGED ledEnable
  PROVE  BusInv' /\ ScriptInv' /\ todo' \in [Ctx -> Seq(Script)]
<1> USE DEF IInv, LedInv
<1>1. BusStep(c) /\ Inside(c)
  BY DEF AccessDone, BusStep, Transfer, Inside
<1>2. BusInv'
  BY <1>1, StepType, StepNested, StepPins DEF BusInv
<1>3. \A d \in Ctx \ {c} : stage'[d] = stage[d]
  BY <1>1, StepType DEF BusInv
<1>4. stage'[c] \in {"in", "endLow"}
  <2>1. CASE mode[c] = "word"
    BY <2>1, DoneMoves DEF AccessDone, Transfer, BusInv
  <2>2. CASE mode[c] # "word"
    BY <2>2, Moved, Named DEF AccessDone, Transfer, BusInv
  <2> QED BY <2>1, <2>2
<1>5. todo' = [todo EXCEPT ![c] = Tail(@)] /\ todo \in [Ctx -> Seq(Script)]
  BY DEF AccessDone, LedTypes
<1>6. /\ todo' \in [Ctx -> Seq(Script)]
      /\ \A d \in Ctx \ {c} : todo'[d] = todo[d]
      /\ Len(todo[c]) \in Nat /\ Len(todo'[c]) = Len(todo[c]) - 1
      /\ \A i \in 1 .. Len(todo'[c]) : todo'[c][i] = todo[c][i + 1]
  BY <1>5, Rest
<1>7. ASSUME NEW i \in 1 .. Len(todo'[c]), Writes(c, i)'
      PROVE  /\ i > 1 => todo'[c][i - 1].op = "read"
             /\ IF c = Timer THEN ledEnable[todo'[c][i].bit] = 2
                ELSE c \in Shell
                     /\ ledEnable[todo'[c][i].bit] = todo'[c][i].val
  <2>1. i + 1 \in 1 .. Len(todo[c]) /\ Writes(c, i + 1)
        /\ todo'[c][i] = todo[c][i + 1]
    BY <1>6, <1>7 DEF Writes
  <2>2. i > 1 => i - 1 \in 1 .. Len(todo'[c]) /\ todo'[c][i - 1] = todo[c][i]
    BY <1>6
  <2>3. i + 1 > 1 /\ (i + 1) - 1 = i
    OBVIOUS
  <2> QED BY <2>1, <2>2, <2>3 DEF ScriptInv
<1>8. ASSUME NEW d \in Ctx
      PROVE  /\ ~Inside(d)' => todo'[d] = <<>>
             /\ stage'[d] \in {"setLow", "setHigh", "data"} => todo'[d] # <<>>
             /\ \A i \in 1 .. Len(todo'[d]) : Writes(d, i)' =>
                  /\ i > 1 => todo'[d][i - 1].op = "read"
                  /\ IF d = Timer THEN ledEnable[todo'[d][i].bit] = 2
                     ELSE d \in Shell
                          /\ ledEnable[todo'[d][i].bit] = todo'[d][i].val
  <2>1. CASE d = c
    BY <1>4, <1>7, <2>1 DEF Inside
  <2>2. CASE d # c
    <3>1. stage'[d] = stage[d] /\ todo'[d] = todo[d]
      BY <1>3, <1>6, <2>2
    <3> QED BY <3>1 DEF ScriptInv, Inside, Writes
  <2> QED BY <2>1, <2>2
<1>9. ScriptInv'
  BY <1>8 DEF ScriptInv
<1> QED BY <1>2, <1>6, <1>9

\* A step that changes neither register nor settings keeps the steady LEDs
\* shown, when every process still has the writes it had.
LEMMA SteadyKept ==
  ASSUME IInv, todo' \in [Ctx -> Seq(Script)], UNCHANGED <<reg, ledEnable>>,
         \A s \in Shell, l \in Led : Pending(s, l) => Pending(s, l)'
  PROVE  \A l \in Led : Steady(l)'
BY DEF Steady, IInv, LedInv

\* What is ahead of the first step of a script is left after it.
LEMMA PendingRest ==
  ASSUME IInv, NEW c \in Ctx, todo[c] # <<>>, AccessDone(c), NEW d \in Ctx,
         NEW l, Pending(d, l)
  PROVE  Pending(d, l)' \/ (d = c /\ Writes(c, 1) /\ todo[c][1].bit = l)
<1>1. todo \in [Ctx -> Seq(Script)] /\ todo' = [todo EXCEPT ![c] = Tail(@)]
  BY DEF IInv, LedInv, LedTypes, AccessDone
<1>2. PICK i \in 1 .. Len(todo[d]) : Writes(d, i) /\ todo[d][i].bit = l
  BY <1>1, PendingPlace
<1>3. /\ todo' \in [Ctx -> Seq(Script)]
      /\ \A e \in Ctx \ {c} : todo'[e] = todo[e]
      /\ Len(todo[c]) \in Nat /\ Len(todo'[c]) = Len(todo[c]) - 1
      /\ \A k \in 1 .. Len(todo'[c]) : todo'[c][k] = todo[c][k + 1]
  BY <1>1, Rest
<1>4. ASSUME NEW k \in 1 .. Len(todo'[d]), Writes(d, k)',
             todo'[d][k].bit = l
      PROVE  Pending(d, l)'
  <2>1. DOMAIN todo'[d] = 1 .. Len(todo'[d])
    BY <1>3
  <2>2. todo'[d][k] \in ToSet(todo'[d])
    BY <2>1 DEF ToSet
  <2> QED BY <1>4, <2>2 DEF Pending, Writes
<1>5. CASE d # c
  <2>1. todo'[d] = todo[d]
    BY <1>3, <1>5
  <2> QED BY <1>2, <1>4, <2>1 DEF Writes
<1>6. CASE d = c /\ i > 1
  <2>1. i - 1 \in 1 .. Len(todo'[c]) /\ todo'[c][i - 1] = todo[c][i]
    BY <1>2, <1>3, <1>6
  <2> QED BY <1>2, <1>4, <1>6, <2>1 DEF Writes
<1>7. CASE d = c /\ i = 1
  BY <1>2, <1>7
<1>8. i \in Nat /\ i > 0
  BY <1>2
<1> QED BY <1>5, <1>6, <1>7, <1>8

\* The context that has just read knows the register.
LEMMA ReadKeeps ==
  ASSUME IInv, NEW c \in Ctx, Read(c)
  PROVE  IInv'
<1>1. /\ todo[c] # <<>> /\ todo[c][1].op = "read" /\ AccessDone(c)
      /\ UNCHANGED <<reg, ledEnable, ledState, ledCount>>
      /\ valb' = [valb EXCEPT ![c] = reg]
  <2>1. todo[c] \in Seq(Script)
    BY DEF IInv, LedInv, LedTypes
  <2>2. todo[c] # <<>> => Head(todo[c]) = todo[c][1]
    BY <2>1
  <2> QED BY <2>2 DEF Read, Doing
<1>2. BusInv' /\ ScriptInv' /\ todo' \in [Ctx -> Seq(Script)]
  BY <1>1, DoneScript
<1>3. LedTypes'
  BY <1>1, <1>2 DEF IInv, LedInv, LedTypes
<1>4. \A l \in Led : Steady(l)'
  <2>1. ASSUME NEW s \in Shell, NEW l \in Led, Pending(s, l)
        PROVE  Pending(s, l)'
    BY <1>1, <2>1, PendingRest, Who DEF Writes
  <2> QED BY <1>1, <1>2, <2>1, SteadyKept
<1>5. ASSUME NEW d \in Ctx PROVE Fresh(d)'
  <2>1. CASE d = c
    BY <1>1, <2>1 DEF Fresh, IInv, LedInv, LedTypes
  <2>2. CASE d # c
    <3>1. todo'[d] = todo[d] /\ valb'[d] = valb[d]
      BY <1>1, <2>2, Rest DEF AccessDone, IInv, LedInv, LedTypes
    <3> QED BY <1>1, <3>1 DEF Fresh, Writes, IInv, LedInv
  <2> QED BY <2>1, <2>2
<1> QED BY <1>2, <1>3, <1>4, <1>5 DEF IInv, LedInv

LEMMA OtherTransferKeeps ==
  ASSUME IInv, NEW c \in Ctx, OtherTransfer(c)
  PROVE  IInv'
<1>1. /\ todo[c] # <<>> /\ todo[c][1].op = "other" /\ AccessDone(c)
      /\ UNCHANGED <<reg, ledEnable, ledState, ledCount, valb>>
  <2>1. todo[c] \in Seq(Script)
    BY DEF IInv, LedInv, LedTypes
  <2>2. todo[c] # <<>> => Head(todo[c]) = todo[c][1]
    BY <2>1
  <2> QED BY <2>2 DEF OtherTransfer, Doing
<1>2. BusInv' /\ ScriptInv' /\ todo' \in [Ctx -> Seq(Script)]
  BY <1>1, DoneScript
<1>3. LedTypes'
  BY <1>1, <1>2 DEF IInv, LedInv, LedTypes
<1>4. \A l \in Led : Steady(l)'
  <2>1. ASSUME NEW s \in Shell, NEW l \in Led, Pending(s, l)
        PROVE  Pending(s, l)'
    BY <1>1, <2>1, PendingRest, Who DEF Writes
  <2> QED BY <1>1, <1>2, <2>1, SteadyKept
<1>5. ASSUME NEW d \in Ctx PROVE Fresh(d)'
  <2>1. /\ \A e \in Ctx \ {c} : todo'[e] = todo[e]
        /\ Len(todo[c]) \in Nat /\ Len(todo'[c]) = Len(todo[c]) - 1
        /\ \A k \in 1 .. Len(todo'[c]) : todo'[c][k] = todo[c][k + 1]
    BY <1>1, Rest DEF AccessDone, IInv, LedInv, LedTypes
  <2>2. CASE d = c
    <3>1. SUFFICES ASSUME Len(todo'[c]) > 0, Writes(c, 1)' PROVE FALSE
      BY <2>2 DEF Fresh
    <3>2. 1 \in 1 .. Len(todo'[c]) /\ 2 \in 1 .. Len(todo[c]) /\ 2 > 1
      BY <2>1, <3>1
    <3>3. Writes(c, 2)
      BY <2>1, <3>1, <3>2 DEF Writes
    <3>4. todo[c][2 - 1].op = "read"
      BY <3>2, <3>3 DEF IInv, LedInv, ScriptInv
    <3> QED BY <1>1, <3>4
  <2>3. CASE d # c
    BY <1>1, <2>1, <2>3 DEF Fresh, Writes, IInv, LedInv
  <2> QED BY <2>2, <2>3
<1> QED BY <1>2, <1>3, <1>4, <1>5 DEF IInv, LedInv

\* The write of the register: of the steady LEDs it changes at most its own,
\* to what the sysfs file was given.
LEMMA WriteKeeps ==
  ASSUME IInv, NEW c \in Ctx, Write(c)
  PROVE  IInv'
<1> DEFINE x == todo[c][1]
<1>1. /\ todo[c] # <<>> /\ Writes(c, 1) /\ AccessDone(c)
      /\ UNCHANGED <<ledEnable, ledState, ledCount>>
      /\ valb' = [valb EXCEPT ![c] = {}]
      /\ reg' = IF x.val = 1 THEN valb[c] \cup {x.bit} ELSE valb[c] \ {x.bit}
  <2>1. todo[c] \in Seq(Script)
    BY DEF IInv, LedInv, LedTypes
  <2>2. todo[c] # <<>> => Head(todo[c]) = todo[c][1]
    BY <2>1
  <2> QED BY <2>2 DEF Write, Doing, Writes
<1>2. BusInv' /\ ScriptInv' /\ todo' \in [Ctx -> Seq(Script)]
  BY <1>1, DoneScript
<1>3. /\ \A e \in Ctx \ {c} : todo'[e] = todo[e]
      /\ Len(todo[c]) \in Nat /\ Len(todo[c]) > 0
      /\ Len(todo'[c]) = Len(todo[c]) - 1
      /\ \A k \in 1 .. Len(todo'[c]) : todo'[c][k] = todo[c][k + 1]
  BY <1>1, Rest DEF AccessDone, IInv, LedInv, LedTypes
<1>4. x \in Script /\ x.bit \in Led /\ x.val \in 0 .. 1
  <2>1. todo[c] \in Seq(Script) /\ 1 \in 1 .. Len(todo[c])
    BY <1>3 DEF IInv, LedInv, LedTypes
  <2>2. x \in Script
    BY <2>1, ElementOfSeq
  <2> QED BY <1>1, <2>2, ScriptFacts DEF Writes
<1>5. IF c = Timer THEN ledEnable[x.bit] = 2
      ELSE c \in Shell /\ ledEnable[x.bit] = x.val
  BY <1>1, <1>3 DEF IInv, LedInv, ScriptInv
<1>6. \A l \in Led : ledEnable[l] # 2 /\ l # x.bit => (l \in reg' <=> l \in reg)
  BY <1>1, <1>3, <1>4 DEF IInv, LedInv, Fresh
<1>7. LedTypes'
  <2>1. valb[c] \in SUBSET Led
    BY DEF IInv, LedInv, LedTypes
  <2>2. reg' \in SUBSET Led
    BY <1>1, <1>4, <2>1
  <2>3. valb' \in [Ctx -> SUBSET Led]
    BY <1>1 DEF IInv, LedInv, LedTypes
  <2> QED BY <1>1, <1>2, <2>2, <2>3 DEF IInv, LedInv, LedTypes
<1>8. ASSUME NEW l \in Led PROVE Steady(l)'
  <2>1. SUFFICES ASSUME ledEnable[l] # 2, \A s \in Shell : ~Pending(s, l)'
                 PROVE  l \in reg' <=> ledEnable[l] = 1
    BY <1>1 DEF Steady
  <2>2. CASE l = x.bit
    <3>1. x.val = ledEnable[l]
      BY <1>5, <2>1, <2>2
    <3> QED BY <1>1, <1>4, <2>2, <3>1
  <2>3. CASE l # x.bit
    <3>1. ASSUME NEW s \in Shell PROVE ~Pending(s, l)
      BY <1>1, <2>1, <2>3, PendingRest, Who
    <3>2. l \in reg <=> ledEnable[l] = 1
      BY <2>1, <3>1 DEF IInv, LedInv, Steady
    <3> QED BY <1>6, <2>1, <2>3, <3>2
  <2> QED BY <2>2, <2>3
<1>9. ASSUME NEW d \in Ctx PROVE Fresh(d)'
  <2>1. CASE d = c
    <3>1. SUFFICES ASSUME Len(todo'[c]) > 0, Writes(c, 1)' PROVE FALSE
      BY <2>1 DEF Fresh
    <3>2. 1 \in 1 .. Len(todo'[c]) /\ 2 \in 1 .. Len(todo[c]) /\ 2 > 1
      BY <1>3, <3>1
    <3>3. Writes(c, 2)
      BY <1>3, <3>1, <3>2 DEF Writes
    <3>4. todo[c][2 - 1].op = "read"
      BY <3>2, <3>3 DEF IInv, LedInv, ScriptInv
    <3> QED BY <1>1, <3>4 DEF Writes
  <2>2. CASE d # c
    <3>1. SUFFICES ASSUME Len(todo[d]) > 0, Writes(d, 1)
                   PROVE  Fresh(d)'
      BY <1>3, <2>2 DEF Fresh, Writes
    <3>2. Inside(d)
      BY <3>1 DEF IInv, LedInv, LedTypes, ScriptInv
    <3>3. Level(d) < Level(c)
      BY <1>1, <2>2, <3>2 DEF AccessDone, Transfer, CanRun
    <3>4. c \notin Shell
      <4>1. Level(d) \in Nat
        BY Levels
      <4> QED BY <3>3, <4>1, Who
    <3>5. ledEnable[x.bit] = 2
      BY <1>5, <3>4
    <3>6. todo'[d] = todo[d] /\ valb'[d] = valb[d]
      BY <1>1, <1>3, <2>2 DEF IInv, LedInv, LedTypes
    <3>7. Fresh(d)
      BY DEF IInv, LedInv
    <3> QED BY <1>1, <1>6, <3>5, <3>6, <3>7 DEF Fresh, Writes
  <2> QED BY <2>1, <2>2
<1> QED BY <1>2, <1>7, <1>8, <1>9 DEF IInv, LedInv

-----------------------------------------------------------------------------
(* Beginning: a store of a sysfs file, another access, a tick *)

LEMMA EnterFacts ==
  ASSUME IInv, NEW c \in Ctx, Enter(c)
  PROVE  /\ BusInv' /\ stage'[c] = "in" /\ CanRun(c)
         /\ \A d \in Ctx \ {c} : stage'[d] = stage[d]
<1>1. BusStep(c)
  BY DEF BusStep
<1>2. BusInv'
  BY <1>1, StepType, StepNested, StepPins DEF IInv, BusInv
<1>3. stage'[c] = "in" /\ \A d \in Ctx \ {c} : stage'[d] = stage[d]
  BY Moved, Named DEF Enter, IInv, BusInv
<1> QED BY <1>2, <1>3 DEF Enter

\* c has got a script, the others keep theirs.
LEMMA NewScript ==
  ASSUME IInv, NEW c \in Ctx, Enter(c), NEW s \in Seq(Script),
         todo' = [todo EXCEPT ![c] = s],
         \A i \in 1 .. Len(s) : s[i].op = "write" =>
           /\ i > 1 /\ s[i - 1].op = "read"
           /\ IF c = Timer THEN ledEnable'[s[i].bit] = 2
              ELSE c \in Shell /\ ledEnable'[s[i].bit] = s[i].val,
         \A d \in Ctx \ {c} : todo[d] # <<>> => UNCHANGED ledEnable,
         UNCHANGED <<reg, valb>>
  PROVE  /\ BusInv' /\ ScriptInv' /\ todo' \in [Ctx -> Seq(Script)]
         /\ \A d \in Ctx : Fresh(d)'
<1>1. /\ todo'[c] = s /\ todo' \in [Ctx -> Seq(Script)]
      /\ \A d \in Ctx \ {c} : todo'[d] = todo[d]
  BY DEF IInv, LedInv, LedTypes
<1>2. /\ BusInv' /\ stage'[c] = "in"
      /\ \A d \in Ctx \ {c} : stage'[d] = stage[d]
  BY EnterFacts
<1>3. ASSUME NEW d \in Ctx
      PROVE  /\ ~Inside(d)' => todo'[d] = <<>>
             /\ stage'[d] \in {"setLow", "setHigh", "data"} => todo'[d] # <<>>
             /\ \A i \in 1 .. Len(todo'[d]) : Writes(d, i)' =>
                  /\ i > 1 => todo'[d][i - 1].op = "read"
                  /\ IF d = Timer THEN ledEnable'[todo'[d][i].bit] = 2
                     ELSE d \in Shell
                          /\ ledEnable'[todo'[d][i].bit] = todo'[d][i].val
  <2>1. CASE d = c
    BY <1>1, <1>2, <2>1 DEF Inside, Writes
  <2>2. CASE d # c /\ todo[d] = <<>>
    <3>1. todo'[d] = <<>> /\ stage'[d] = stage[d]
      BY <1>1, <1>2, <2>2
    <3> QED BY <2>2, <3>1 DEF IInv, LedInv, ScriptInv, Inside
  <2>3. CASE d # c /\ todo[d] # <<>>
    <3>1. todo'[d] = todo[d] /\ stage'[d] = stage[d] /\ ledEnable' = ledEnable
      BY <1>1, <1>2, <2>3
    <3> QED BY <3>1 DEF IInv, LedInv, ScriptInv, Inside, Writes
  <2> QED BY <2>1, <2>2, <2>3
<1>4. ScriptInv'
  BY <1>3 DEF ScriptInv
<1>5. ASSUME NEW d \in Ctx PROVE Fresh(d)'
  <2>1. CASE d = c
    <3>1. SUFFICES ASSUME Len(s) > 0, s[1].op = "write" PROVE FALSE
      BY <1>1, <2>1 DEF Fresh, Writes
    <3>2. Len(s) \in Nat
      OBVIOUS
    <3>3. 1 \in 1 .. Len(s)
      BY <3>1, <3>2
    <3> QED BY <3>1, <3>3
  <2>2. CASE d # c /\ todo[d] = <<>>
    <3>1. Len(todo'[d]) = 0
      BY <1>1, <2>2
    <3> QED BY <3>1 DEF Fresh
  <2>3. CASE d # c /\ todo[d] # <<>>
    <3>1. todo'[d] = todo[d] /\ ledEnable' = ledEnable
      BY <1>1, <2>3
    <3> QED BY <3>1 DEF Fresh, Writes, IInv, LedInv
  <2> QED BY <2>1, <2>2, <2>3
<1> QED BY <1>1, <1>2, <1>4, <1>5

\* A script without writes.
LEMMA OtherScript ==
  ASSUME NEW m \in Modes
  PROVE  /\ Other(m) \in Seq(Script) /\ Len(Other(m)) = 1
         /\ Other(m)[1].op = "other" /\ Other(m)[1] \in Script
BY DEF Other, Script

LEMMA SetScript ==
  ASSUME NEW l \in Led, NEW v \in 0 .. 1
  PROVE  /\ SetLed(l, v) \in Seq(Script) /\ Len(SetLed(l, v)) = 2
         /\ SetLed(l, v)[1].op = "read"
         /\ SetLed(l, v)[2].op = "write"
         /\ SetLed(l, v)[2].bit = l /\ SetLed(l, v)[2].val = v
         /\ SetLed(l, v)[1] \in Script /\ SetLed(l, v)[2] \in Script
BY DEF SetLed, Script

LEMMA ElsewhereKeeps ==
  ASSUME IInv, NEW c \in Ctx, NEW m \in Modes, Elsewhere(c, m)
  PROVE  IInv'
<1>1. /\ Enter(c) /\ todo' = [todo EXCEPT ![c] = Other(m)]
      /\ UNCHANGED <<reg, ledEnable, ledState, ledCount, valb>>
  BY DEF Elsewhere
<1>2. \A i \in 1 .. Len(Other(m)) : Other(m)[i].op # "write"
  BY OtherScript
<1>3. /\ BusInv' /\ ScriptInv' /\ todo' \in [Ctx -> Seq(Script)]
      /\ \A d \in Ctx : Fresh(d)'
  BY <1>1, <1>2, OtherScript, NewScript
<1>4. LedTypes'
  BY <1>1, <1>3 DEF IInv, LedInv, LedTypes
<1>5. ASSUME NEW s \in Shell, NEW l \in Led, Pending(s, l)
      PROVE  Pending(s, l)'
  <2>1. todo[c] = <<>>
    BY <1>1 DEF Enter, Inside, IInv, LedInv, ScriptInv
  <2>2. s # c
    BY <1>5, <2>1, PendingPlace, Who DEF IInv, LedInv, LedTypes
  <2>3. todo'[s] = todo[s]
    BY <1>1, <2>2, Who DEF IInv, LedInv, LedTypes
  <2> QED BY <1>5, <2>3 DEF Pending
<1>6. \A l \in Led : Steady(l)'
  BY <1>1, <1>3, <1>5, SteadyKept
<1> QED BY <1>3, <1>4, <1>6 DEF IInv, LedInv

LEMMA StoreLedKeeps ==
  ASSUME IInv, NEW s \in Shell, NEW l \in Led, NEW v \in 0 .. 2,
         StoreLed(s, l, v)
  PROVE  IInv'
<1> DEFINE new == IF v < 2 THEN SetLed(l, v) ELSE <<>>
<1>1. /\ Enter(s) /\ todo' = [todo EXCEPT ![s] = new]
      /\ ledEnable' = [ledEnable EXCEPT ![l] = v]
      /\ UNCHANGED <<reg, ledState, ledCount, valb>> /\ s \in Ctx
  BY Who DEF StoreLed
\* nobody else has begun anything
<1>2. ASSUME NEW d \in Ctx PROVE todo[d] = <<>>
  <2>1. CASE d = s
    BY <1>1, <2>1 DEF Enter, Inside, IInv, LedInv, ScriptInv
  <2>2. CASE d # s
    <3>1. ~(Level(d) < Level(s))
      BY Levels, Who
    <3>2. ~Inside(d)
      BY <1>1, <2>2, <3>1 DEF Enter, CanRun
    <3> QED BY <3>2 DEF IInv, LedInv, ScriptInv
  <2> QED BY <2>1, <2>2
<1>3. /\ ledEnable' \in [Led -> 0 .. 2] /\ ledEnable'[l] = v
      /\ \A m \in Led \ {l} : ledEnable'[m] = ledEnable[m]
  BY <1>1 DEF IInv, LedInv, LedTypes
<1>4. CASE v < 2
  <2>1. v \in 0 .. 1 /\ new = SetLed(l, v)
    BY <1>4
  <2>2. \A i \in 1 .. Len(new) : new[i].op = "write" =>
          i > 1 /\ new[i - 1].op = "read" /\ new[i].bit = l /\ new[i].val = v
    <3>1. /\ Len(new) = 2 /\ new[1].op = "read" /\ new[2].op = "write"
          /\ new[2].bit = l /\ new[2].val = v
      BY <2>1, SetScript
    <3> HIDE DEF new
    <3>2. ASSUME NEW i \in 1 .. Len(new), new[i].op = "write"
          PROVE  i = 2
      <4>1. i = 1 \/ i = 2
        BY <3>1
      <4> QED BY <3>1, <3>2, <4>1
    <3> QED BY <3>1, <3>2
  <2>3. new \in Seq(Script)
    BY <2>1, SetScript
  <2>4. /\ BusInv' /\ ScriptInv' /\ todo' \in [Ctx -> Seq(Script)]
        /\ \A d \in Ctx : Fresh(d)'
    <3> HIDE DEF new
    <3> QED BY <1>1, <1>2, <1>3, <2>2, <2>3, Who, NewScript
  <2>5. LedTypes'
    BY <1>1, <1>3, <2>4 DEF IInv, LedInv, LedTypes
  <2>6. Pending(s, l)'
    <3>1. todo'[s] = new
      BY <1>1 DEF IInv, LedInv, LedTypes
    <3>2. Len(todo'[s]) = 2 /\ todo'[s][2].op = "write" /\ todo'[s][2].bit = l
      <4>1. Len(new) = 2 /\ new[2].op = "write" /\ new[2].bit = l
        BY <2>1, SetScript
      <4> HIDE DEF new
      <4> QED BY <3>1, <4>1
    <3>3. DOMAIN todo'[s] = 1 .. 2
      BY <1>1, <2>4, <3>2
    <3>4. todo'[s][2] \in ToSet(todo'[s])
      BY <3>3 DEF ToSet
    <3> QED BY <3>2, <3>4 DEF Pending
  <2>7. ASSUME NEW m \in Led PROVE Steady(m)'
    <3>1. CASE m = l
      BY <2>6, <3>1 DEF Steady
    <3>2. CASE m # l
      <4>1. \A d \in Shell : ~Pending(d, m)
        BY <1>2, PendingPlace, Who DEF IInv, LedInv, LedTypes
      <4>2. Steady(m)
        BY DEF IInv, LedInv
      <4> QED BY <1>1, <1>3, <3>2, <4>1, <4>2 DEF Steady
    <3> QED BY <3>1, <3>2
  <2> QED BY <2>4, <2>5, <2>7 DEF IInv, LedInv
<1>5. CASE ~(v < 2)
  <2>1. new = <<>> /\ v = 2
    BY <1>5
  <2>2. new \in Seq(Script) /\ Len(new) = 0
    BY <2>1
  <2>3. /\ BusInv' /\ ScriptInv' /\ todo' \in [Ctx -> Seq(Script)]
        /\ \A d \in Ctx : Fresh(d)'
    <3>1. \A i \in 1 .. Len(new) : FALSE
      BY <2>2
    <3> HIDE DEF new
    <3> QED BY <1>1, <1>2, <2>2, <3>1, NewScript
  <2>4. LedTypes'
    BY <1>1, <1>3, <2>3 DEF IInv, LedInv, LedTypes
  <2>5. ASSUME NEW m \in Led PROVE Steady(m)'
    <3>1. CASE m = l
      BY <1>3, <2>1, <3>1 DEF Steady
    <3>2. CASE m # l
      <4>1. \A d \in Shell : ~Pending(d, m)
        BY <1>2, PendingPlace, Who DEF IInv, LedInv, LedTypes
      <4>2. Steady(m)
        BY DEF IInv, LedInv
      <4> QED BY <1>1, <1>3, <3>2, <4>1, <4>2 DEF Steady
    <3> QED BY <3>1, <3>2
  <2> QED BY <2>3, <2>4, <2>5 DEF IInv, LedInv
<1> QED BY <1>4, <1>5

\* The elements of a finite set can be put in a sequence.
LEMMA Listed ==
  ASSUME NEW S, IsFiniteSet(S)
  PROVE  Cardinality(S) \in Nat /\ SetToSeq(S) \in [1 .. Cardinality(S) -> S]
<1>1. ExistsBijection(1 .. Cardinality(S), S) /\ Cardinality(S) \in Nat
  BY FS_CardinalityType
<1>2. \E f \in [1 .. Cardinality(S) -> S] : IsInjective(f)
  BY <1>1 DEF ExistsBijection, Bijection, Injection
<1> QED BY <1>1, <1>2 DEF SetToSeq

\* The script of a tick changes LEDs that blink.
LEMMA TickWrites ==
  ASSUME LedTypes, NEW on
  PROVE  /\ TickScript(on) \in Seq(Script)
         /\ \A i \in 1 .. Len(TickScript(on)) :
              TickScript(on)[i].op = "write" =>
                /\ i > 1 /\ TickScript(on)[i - 1].op = "read"
                /\ ledEnable[TickScript(on)[i].bit] = 2
<1> DEFINE n   == Cardinality(Due)
           led0(k) == SetToSeq(Due)[(k + 1) \div 2]
           val0(k) == IF led0(k) \in on THEN 1 ELSE 0
           e(k) == SetLed(led0(k), val0(k))[IF k % 2 = 1 THEN 1 ELSE 2]
           s    == [k \in 1 .. 2 * n |-> e(k)]
<1>1. Due \subseteq Led /\ \A l \in Due : ledEnable[l] = 2
  BY DEF Due, Blinking
<1>2. IsFiniteSet(Due)
  BY <1>1, LedAssumption, FS_Subset DEF LedAssumption
<1>3. n \in Nat /\ SetToSeq(Due) \in [1 .. n -> Due]
  BY <1>2, Listed
<1>4. ASSUME NEW k \in 1 .. 2 * n
      PROVE  /\ (k + 1) \div 2 \in 1 .. n /\ k % 2 \in {0, 1}
             /\ k % 2 = 0 => k > 1 /\ (k - 1) % 2 = 1
  BY <1>3
<1>5. ASSUME NEW k \in 1 .. 2 * n
      PROVE  led0(k) \in Due /\ led0(k) \in Led /\ val0(k) \in 0 .. 1
  <2>1. SetToSeq(Due)[(k + 1) \div 2] \in Due
    BY <1>3, <1>4
  <2> QED BY <1>1, <2>1
<1>6. ASSUME NEW k \in 1 .. 2 * n
      PROVE  /\ e(k) \in Script
             /\ k % 2 = 1 => e(k).op = "read"
             /\ e(k).op = "write" => k % 2 = 0 /\ e(k).bit \in Due
  <2> DEFINE l == led0(k)
             v == val0(k)
  <2>1. l \in Due /\ l \in Led /\ v \in 0 .. 1
    BY <1>5
  <2>2. e(k) = IF k % 2 = 1 THEN SetLed(l, v)[1] ELSE SetLed(l, v)[2]
    BY DEF e
  <2>3. k % 2 \in {0, 1}
    BY <1>4
  <2> HIDE DEF l, v, e
  <2>4. /\ SetLed(l, v)[1] \in Script /\ SetLed(l, v)[2] \in Script
        /\ SetLed(l, v)[1].op = "read" /\ SetLed(l, v)[2].bit = l
    BY <2>1, SetScript
  <2>5. CASE k % 2 = 1
    <3>1. e(k) = SetLed(l, v)[1]
      BY <2>2, <2>5
    <3> QED BY <2>4, <2>5, <3>1
  <2>6. CASE k % 2 = 0
    <3>1. e(k) = SetLed(l, v)[2]
      BY <2>2, <2>6
    <3> QED BY <2>1, <2>4, <2>6, <3>1
  <2> QED BY <2>3, <2>5, <2>6
<1> HIDE DEF n, e
<1>7. s \in Seq(Script) /\ Len(s) = 2 * n /\ \A k \in 1 .. 2 * n : s[k] = e(k)
  BY <1>3, <1>6
<1> HIDE DEF s
<1>8. Other("high") \in Seq(Script) /\ Len(Other("high")) = 1
      /\ Other("high")[1].op = "other"
  BY OtherScript DEF Modes
<1>9. TickScript(on) = s \o Other("high")
  BY DEF TickScript, s, e, n
<1>10. /\ TickScript(on) \in Seq(Script) /\ Len(TickScript(on)) = 2 * n + 1
       /\ \A k \in 1 .. 2 * n : TickScript(on)[k] = e(k)
       /\ TickScript(on)[2 * n + 1].op = "other"
  <2> DEFINE t == Other("high")
  <2> HIDE DEF t
  <2>1. t \in Seq(Script) /\ Len(t) = 1 /\ t[1].op = "other"
    BY <1>8 DEF t
  <2>2. /\ s \o t \in Seq(Script) /\ Len(s \o t) = Len(s) + Len(t)
        /\ \A k \in 1 .. Len(s) + Len(t) :
             (s \o t)[k] = IF k <= Len(s) THEN s[k] ELSE t[k - Len(s)]
    BY <1>7, <2>1, ConcatProperties
  <2>3. 2 * n \in Nat
    BY <1>3
  <2> DEFINE m == 2 * n
  <2> HIDE DEF m
  <2>4. /\ Len(s) = m /\ m \in Nat /\ \A k \in 1 .. m : s[k] = e(k)
    BY <1>7, <2>3 DEF m
  <2>5. /\ s \o t \in Seq(Script) /\ Len(s \o t) = m + 1
        /\ \A k \in 1 .. m : (s \o t)[k] = e(k)
        /\ (s \o t)[m + 1].op = "other"
    BY <2>1, <2>2, <2>4
  <2> QED BY <1>9, <2>5 DEF m, t
<1>11. ASSUME NEW i \in 1 .. Len(TickScript(on)),
              TickScript(on)[i].op = "write"
       PROVE  /\ i > 1 /\ TickScript(on)[i - 1].op = "read"
              /\ ledEnable[TickScript(on)[i].bit] = 2
  <2>1. i \in 1 .. 2 * n
    BY <1>3, <1>10, <1>11
  <2>2. i % 2 = 0 /\ e(i).bit \in Due
    BY <1>6, <1>10, <1>11, <2>1
  <2>3. i > 1 /\ (i - 1) % 2 = 1 /\ i - 1 \in 1 .. 2 * n
    BY <1>3, <1>4, <2>1, <2>2
  <2>4. TickScript(on)[i - 1].op = "read"
    BY <1>6, <1>10, <2>3
  <2> QED BY <1>1, <1>10, <2>1, <2>2, <2>3, <2>4
<1> QED BY <1>10, <1>11

LEMMA TickKeeps ==
  ASSUME IInv, Tick
  PROVE  IInv'
<1>1. /\ Enter(Timer) /\ Timer \in Ctx
      /\ todo' = [todo EXCEPT ![Timer] = TickScript(ledState')]
      /\ UNCHANGED <<reg, ledEnable, valb>>
      /\ ledState' = (ledState \ Due) \cup (Due \ ledState)
      /\ ledCount' = [l \in Led |-> IF l \in Due THEN 0
                                    ELSE IF l \in Blinking THEN ledCount[l] + 1
                                    ELSE ledCount[l]]
  BY Who DEF Tick
<1>2. LedTypes
  BY DEF IInv, LedInv
<1>3. /\ BusInv' /\ ScriptInv' /\ todo' \in [Ctx -> Seq(Script)]
      /\ \A d \in Ctx : Fresh(d)'
  BY <1>1, <1>2, TickWrites, NewScript
<1>4. ledState' \in SUBSET Led
  BY <1>1, <1>2 DEF Due, Blinking, LedTypes
<1>5. ASSUME NEW l \in Led
      PROVE  (IF l \in Due THEN 0 ELSE IF l \in Blinking THEN ledCount[l] + 1
              ELSE ledCount[l]) \in 0 .. BlinkTicks
  <2>1. ledCount[l] \in 0 .. BlinkTicks /\ BlinkTicks \in Nat
    BY <1>2, LedAssumption DEF LedTypes, LedAssumption
  <2>2. l \in Blinking /\ l \notin Due => ~(ledCount[l] >= BlinkTicks)
    BY DEF Due
  <2> QED BY <2>1, <2>2
<1>6. LedTypes'
  BY <1>1, <1>2, <1>3, <1>4, <1>5 DEF LedTypes
<1>7. ASSUME NEW s \in Shell, NEW l \in Led, Pending(s, l)
      PROVE  Pending(s, l)'
  BY <1>1, <1>2, <1>7, Who DEF LedTypes, Pending
<1>8. \A l \in Led : Steady(l)'
  BY <1>1, <1>3, <1>7, SteadyKept
<1> QED BY <1>3, <1>6, <1>8 DEF IInv, LedInv

-----------------------------------------------------------------------------
(* The theorems of the LEDs. *)

LEMMA LedsInit == Init => IInv
<1> SUFFICES ASSUME Init PROVE IInv
  OBVIOUS
<1>1. BusInv
  BY BusInitInv DEF Init
<1>2. LedTypes
  <2>1. <<>> \in Seq(Script)
    OBVIOUS
  <2> QED BY <2>1, LedAssumption DEF Init, LedTypes, LedAssumption
<1>3. \A c \in Ctx : todo[c] = <<>> /\ stage[c] = "out" /\ Len(todo[c]) = 0
  BY DEF Init, BusInit
<1>4. ScriptInv /\ \A c \in Ctx : Fresh(c)
  BY <1>3 DEF ScriptInv, Fresh
<1>5. \A l \in Led : Steady(l)
  BY DEF Init, Steady
<1> QED BY <1>1, <1>2, <1>4, <1>5 DEF IInv, LedInv

LEMMA LedsNext == IInv /\ [Next]_vars => IInv'
<1> SUFFICES ASSUME IInv, [Next]_vars PROVE IInv'
  OBVIOUS
<1>1. ASSUME NEW c \in Ctx, Step(c) PROVE IInv'
  BY <1>1, BusOnly, ReadKeeps, WriteKeeps, OtherTransferKeeps DEF Step
<1>2. ASSUME NEW s \in Shell, NEW l \in Led, NEW v \in 0 .. 2,
             StoreLed(s, l, v)
      PROVE  IInv'
  BY <1>2, StoreLedKeeps
<1>3. ASSUME NEW c \in Ctx, NEW m \in Modes, Elsewhere(c, m) PROVE IInv'
  BY <1>3, ElsewhereKeeps
<1>4. CASE Tick
  BY <1>4, TickKeeps
<1>5. CASE UNCHANGED vars
  <2>1. UNCHANGED bus /\ UNCHANGED led
    BY <1>5 DEF vars
  <2>2. BusInv'
    BY <2>1, BusNextInv DEF IInv
  <2>3. LedInv'
    BY <2>1 DEF bus, led, IInv, LedInv, LedTypes, ScriptInv, Fresh, Writes,
                Steady, Pending, Inside
  <2> QED BY <2>2, <2>3 DEF IInv
<1> QED BY <1>1, <1>2, <1>3, <1>4, <1>5 DEF Next

THEOREM LedsInvariant == Spec => []IInv
BY LedsInit, LedsNext, PTL DEF Spec

\* What the stores and the timer do to the LEDs, and everything the drivers do
\* elsewhere, reaches the FPGA by the accesses of FpgaBus: what is proved of
\* the bus holds whatever they are about.
THEOREM LedsUseBus == Spec => BusSpec
<1>1. Init => BusInit
  BY DEF Init
<1>2. IInv /\ [Next]_vars => [BusNext]_bus
  <2> SUFFICES ASSUME IInv, [Next]_vars PROVE [BusNext]_bus
    OBVIOUS
  <2>1. ASSUME NEW c \in Ctx, Access(c) PROVE BusNext
    <3>1. Head(todo[c]) \in Script
      BY <2>1, HeadTailProperties DEF Access, IInv, LedInv, LedTypes
    <3> QED BY <2>1, <3>1, ScriptFacts DEF Access, BusStep, BusNext
  <2>2. ASSUME NEW c \in Ctx, Step(c) PROVE BusNext
    <3>1. CASE Access(c)
      BY <2>1, <3>1
    <3>2. CASE Read(c) \/ Write(c) \/ OtherTransfer(c)
      BY <3>2 DEF Read, Write, OtherTransfer, AccessDone, BusStep, BusNext
    <3>3. CASE PinStep(c) \/ Return(c)
      BY <3>3 DEF PinStep, Return, BusStep, BusNext
    <3> QED BY <2>2, <3>1, <3>2, <3>3 DEF Step
  <2>3. ASSUME NEW c \in Ctx, Enter(c) PROVE BusNext
    BY <2>3 DEF BusStep, BusNext
  <2>4. CASE Tick
    BY <2>3, <2>4, Who DEF Tick
  <2>5. ASSUME NEW s \in Shell, NEW l \in Led, NEW v \in 0 .. 2,
               StoreLed(s, l, v)
        PROVE  BusNext
    BY <2>3, <2>5, Who DEF StoreLed
  <2>6. ASSUME NEW c \in Ctx, NEW m \in Modes, Elsewhere(c, m) PROVE BusNext
    BY <2>3, <2>6 DEF Elsewhere
  <2>7. CASE UNCHANGED vars
    BY <2>7 DEF vars
  <2> QED BY <2>2, <2>4, <2>5, <2>6, <2>7 DEF Next
<1> QED BY <1>1, <1>2, LedsInvariant, PTL DEF Spec, BusSpec

\* Types of the LEDs, the scripts and the pins.
THEOREM LedsTypeCorrect == Spec => []TypeOK
<1>1. IInv => TypeOK
  BY DEF IInv, BusInv, LedInv, LedTypes, ScriptInv, TypeOK
<1> QED BY <1>1, LedsInvariant, PTL

\* However the timer and the other interrupts come between the two accesses of
\* a store, a LED that is told to be steady shows what its file says: the
\* value that is written back is stale for blinking LEDs only.
THEOREM SteadyLeds == Spec => []SteadyLedShown
<1>1. IInv => SteadyLedShown
  BY DEF IInv, LedInv, Steady, SteadyLedShown
<1> QED BY <1>1, LedsInvariant, PTL

\* So no access of a store, of the timer or of a driver goes to another byte.
THEOREM LedAccessesAreSafe == Spec => []NeverOtherByte
BY LedsUseBus, OtherByteIsSafe, PTL
=============================================================================
