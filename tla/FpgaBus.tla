------------------------------- MODULE FpgaBus -------------------------------
(***************************************************************************)
(* How the drivers reach the FPGA (include/cps_common_io.h).  Two GPIO     *)
(* pins tell the FPGA how wide the access is: both low for 16 bits, one of *)
(* them high for the low or the high byte.  cps_fpga_access sets one pin   *)
(* after the other, an 8 bit access sets them back to 16 bits afterwards,  *)
(* and no lock is held.                                                    *)
(*                                                                         *)
(* There is one core.  A context of a higher level (a softirq, a hardware  *)
(* interrupt) may come between any two steps of one of a lower level and   *)
(* is done before that one goes on.  A driver that does its accesses under *)
(* spin_lock_irqsave is not interrupted.                                   *)
(***************************************************************************)
EXTENDS Naturals

CONSTANTS
  Process,   \* processes inside a system call of a driver
  Softirq,   \* timers
  Hardirq,   \* interrupt handlers
  Locking    \* those of them that hold a lock with the interrupts disabled

Ctx == Process \cup Softirq \cup Hardirq

\* What may interrupt what.
Level(c) == IF c \in Process THEN 0 ELSE IF c \in Softirq THEN 1 ELSE 2

ASSUME ContextAssumption ==
  /\ Locking \subseteq Ctx
  /\ Process \cap Softirq = {} /\ (Process \cup Softirq) \cap Hardirq = {}

Modes  == {"word", "low", "high"}
Stages == {"out", "in", "setLow", "setHigh", "data", "endLow", "endHigh"}

VARIABLES
  low, high,  \* the two pins
  stage,      \* what each context does next; "in": between two accesses
  mode,       \* the width of its access
  accessed    \* some access has been made: the pins have been set up

bus == <<low, high, stage, mode, accessed>>

Inside(c)   == stage[c] # "out"
InAccess(c) == stage[c] \notin {"out", "in"}

\* c may run: whoever is in the kernel below it has been interrupted by it.
CanRun(c) == \A d \in Ctx \ {c} : Inside(d) => Level(d) < Level(c)

Goto(c, s) == stage' = [stage EXCEPT ![c] = s]

Enter(c) ==
  /\ stage[c] = "out" /\ CanRun(c)
  /\ \A d \in Locking : ~Inside(d)
  /\ Goto(c, "in")
  /\ UNCHANGED <<low, high, mode, accessed>>

Leave(c) ==
  /\ stage[c] = "in" /\ CanRun(c)
  /\ Goto(c, "out")
  /\ UNCHANGED <<low, high, mode, accessed>>

\* cps_common_inpb, outb, inpw, outw: the address or the width is given.
Begin(c, m) ==
  /\ stage[c] = "in" /\ CanRun(c)
  /\ mode' = [mode EXCEPT ![c] = m]
  /\ Goto(c, "setLow")
  /\ UNCHANGED <<low, high, accessed>>

(* cps_fpga_access, one pin at a time. *)

SetLow(c) ==
  /\ stage[c] = "setLow" /\ CanRun(c)
  /\ low' = (mode[c] = "low")
  /\ Goto(c, "setHigh")
  /\ UNCHANGED <<high, mode, accessed>>

\* mutant: the byte that is not accessed keeps its pin
SetHigh_OnlyOwn(c) ==
  /\ stage[c] = "setHigh" /\ CanRun(c)
  /\ high' = (mode[c] = "high" \/ high)
  /\ Goto(c, "data")
  /\ UNCHANGED <<low, mode, accessed>>

SetHigh(c) ==
  /\ stage[c] = "setHigh" /\ CanRun(c)
  /\ high' = (mode[c] = "high")
  /\ Goto(c, "data")
  /\ UNCHANGED <<low, mode, accessed>>

\* The end of an access.
Done(c) ==
  /\ Goto(c, "in")
  /\ mode' = [mode EXCEPT ![c] = "word"]
  /\ accessed' = TRUE

\* The read or the write; a 16 bit access is over with it.
Transfer(c) ==
  /\ stage[c] = "data" /\ CanRun(c)
  /\ IF mode[c] = "word" THEN Done(c)
     ELSE Goto(c, "endLow") /\ UNCHANGED <<mode, accessed>>
  /\ UNCHANGED <<low, high>>

EndLow(c) ==
  /\ stage[c] = "endLow" /\ CanRun(c)
  /\ low' = FALSE
  /\ Goto(c, "endHigh")
  /\ UNCHANGED <<high, mode, accessed>>

EndHigh(c) ==
  /\ stage[c] = "endHigh" /\ CanRun(c)
  /\ high' = FALSE
  /\ Done(c)
  /\ UNCHANGED low

\* Nobody has set the pins before the first access.
BusInit ==
  /\ low \in BOOLEAN /\ high \in BOOLEAN /\ accessed = FALSE
  /\ stage = [c \in Ctx |-> "out"] /\ mode = [c \in Ctx |-> "word"]

BusStep(c) ==
  \/ Enter(c) \/ Leave(c)
  \/ \E m \in Modes : Begin(c, m)
  \/ SetLow(c) \/ SetHigh(c) \/ Transfer(c) \/ EndLow(c) \/ EndHigh(c)

BusNext == \E c \in Ctx : BusStep(c)

BusSpec == BusInit /\ [][BusNext]_bus

-----------------------------------------------------------------------------
BusTypeOK ==
  /\ low \in BOOLEAN /\ high \in BOOLEAN /\ accessed \in BOOLEAN
  /\ stage \in [Ctx -> Stages] /\ mode \in [Ctx -> Modes]

\* What the pins say, for the context that is about to transfer.
Is(m) == low = (m = "low") /\ high = (m = "high")

\* Nothing interrupts c.
Undisturbed(c) == c \in Locking \/ \A d \in Ctx : Level(d) <= Level(c)

Transferring(c) == stage[c] = "data" /\ CanRun(c)

(***************************************************************************)
(* Properties                                                              *)
(***************************************************************************)

\* A 16 bit access is made in 16 bit mode, whatever 8 bit accesses came
\* between its pins and itself, and an 8 bit access never goes to the other
\* byte: it has its mode, or the one that an interruption left behind.
NeverOtherByte == \A c \in Ctx : Transferring(c) => Is(mode[c]) \/ Is("word")

\* What cannot be interrupted gets the mode it asked for.
UndisturbedGetsMode ==
  \A c \in Ctx : Transferring(c) /\ Undisturbed(c) => Is(mode[c])

\* Whoever starts an access finds the pins in 16 bit mode, or has interrupted
\* the one who is about to change them back.
QuietIsWord == accessed /\ (\A c \in Ctx : ~InAccess(c)) => Is("word")

=============================================================================
