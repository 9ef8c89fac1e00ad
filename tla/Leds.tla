-------------------------------- MODULE Leds --------------------------------
(***************************************************************************)
(* The LED register of the controller, reached over FpgaBus.               *)
(*                                                                         *)
(* The sysfs stores and the 20 ms timer change one LED by reading the      *)
(* register, computing, and writing it back, with no lock: the timer may   *)
(* come between the two accesses of a process.  Everything else that the   *)
(* drivers do only shares the bus with them.                               *)
(***************************************************************************)
EXTENDS FpgaBus, Sequences, SequencesExt

CONSTANTS
  Led,         \* the LEDs with a sysfs file: ST1, ST2, ERR
  Shell,       \* processes that write the sysfs files
  Timer,       \* the softirq that runs mcs341_controller_timer_function
  BlinkTicks   \* ticks between two changes of a blinking LED (50)

ASSUME LedAssumption ==
  /\ Shell \subseteq Process \ Locking /\ Timer \in Softirq \ Locking
  /\ BlinkTicks \in Nat /\ IsFiniteSet(Led)

VARIABLES
  reg,        \* the register: the LEDs that are on
  ledEnable,  \* what each LED has been told: 0 off, 1 on, 2 blink
  ledState,   \* LEDs whose ledState is 1
  ledCount,   \* led_timer_count
  todo,       \* accesses each context still has to make
  valb        \* the register value the context has read

led  == <<reg, ledEnable, ledState, ledCount, todo, valb>>
vars == <<bus, led>>

\* setLed(l, v) is a read and a write of the register, which has an even
\* address; the other accesses are told apart by their width only.
SetLed(l, v) == << [op |-> "read", mode |-> "low"],
                   [op |-> "write", mode |-> "low", bit |-> l, val |-> v] >>
Other(m) == << [op |-> "other", mode |-> m] >>

Doing(c, op) == todo[c] # <<>> /\ Head(todo[c]).op = op

-----------------------------------------------------------------------------
(* contec_mcs341_controller_setLed, and how an access is made. *)

Access(c) ==
  /\ todo[c] # <<>>
  /\ Begin(c, Head(todo[c]).mode)
  /\ UNCHANGED led

AccessDone(c) == Transfer(c) /\ todo' = [todo EXCEPT ![c] = Tail(@)]

Read(c) ==
  /\ Doing(c, "read") /\ AccessDone(c)
  /\ valb' = [valb EXCEPT ![c] = reg]
  /\ UNCHANGED <<reg, ledEnable, ledState, ledCount>>

\* The other LEDs are written as they were read.
Write(c) ==
  /\ Doing(c, "write") /\ AccessDone(c)
  /\ reg' = LET x == Head(todo[c])
            IN  IF x.val = 1 THEN valb[c] \cup {x.bit} ELSE valb[c] \ {x.bit}
  /\ valb' = [valb EXCEPT ![c] = {}]
  /\ UNCHANGED <<ledEnable, ledState, ledCount>>

OtherTransfer(c) ==
  /\ Doing(c, "other") /\ AccessDone(c)
  /\ UNCHANGED <<reg, ledEnable, ledState, ledCount, valb>>

PinStep(c) ==
  /\ SetLow(c) \/ SetHigh(c) \/ EndLow(c) \/ EndHigh(c)
  /\ UNCHANGED led

Return(c) ==
  /\ todo[c] = <<>>
  /\ Leave(c)
  /\ UNCHANGED led

-----------------------------------------------------------------------------
(* led_status1_store, led_status2_store, led_error_store *)

StoreLed(s, l, v) ==
  /\ Enter(s)
  /\ ledEnable' = [ledEnable EXCEPT ![l] = v]
  /\ todo' = [todo EXCEPT ![s] = IF v < 2 THEN SetLed(l, v) ELSE <<>>]
  /\ UNCHANGED <<reg, ledState, ledCount, valb>>

\* Any other access: of the DIO registers, which only sysfs stores change, of
\* the status registers, or of the registers of a device.
Elsewhere(c, m) ==
  /\ c # Timer
  /\ Enter(c)
  /\ todo' = [todo EXCEPT ![c] = Other(m)]
  /\ UNCHANGED <<reg, ledEnable, ledState, ledCount, valb>>

-----------------------------------------------------------------------------
(* mcs341_controller_timer_function: the LEDs, then the system status. *)

\* mutant: every LED that is on blinks
Blinking_AnyOn == {l \in Led : ledEnable[l] > 0}

Blinking == {l \in Led : ledEnable[l] = 2}
Due      == {l \in Blinking : ledCount[l] >= BlinkTicks}

\* The timer sets one due LED after the other to its state, if it is in on,
\* and then reads the system status.
TickScript(on) ==
  [k \in 1 .. 2 * Cardinality(Due) |->
     LET l == SetToSeq(Due)[(k + 1) \div 2]
     IN  SetLed(l, IF l \in on THEN 1 ELSE 0)[IF k % 2 = 1 THEN 1 ELSE 2]]
  \o Other("high")

\* mutant: the state of a due LED is set, not inverted
Tick_NoToggle ==
  /\ Enter(Timer)
  /\ ledState' = ledState \cup Due
  /\ ledCount' = [l \in Led |-> IF l \in Due THEN 0
                                ELSE IF l \in Blinking THEN ledCount[l] + 1
                                ELSE ledCount[l]]
  /\ todo' = [todo EXCEPT ![Timer] = TickScript(ledState')]
  /\ UNCHANGED <<reg, ledEnable, valb>>

Tick ==
  /\ Enter(Timer)
  /\ ledState' = (ledState \ Due) \cup (Due \ ledState)
  /\ ledCount' = [l \in Led |-> IF l \in Due THEN 0
                                ELSE IF l \in Blinking THEN ledCount[l] + 1
                                ELSE ledCount[l]]
  /\ todo' = [todo EXCEPT ![Timer] = TickScript(ledState')]
  /\ UNCHANGED <<reg, ledEnable, valb>>

Init ==
  /\ BusInit
  /\ reg = {} /\ ledEnable = [l \in Led |-> 0]
  /\ ledState = {} /\ ledCount = [l \in Led |-> 0]
  /\ todo = [c \in Ctx |-> <<>>] /\ valb = [c \in Ctx |-> {}]

\* The steps of a context that has begun.
Step(c) ==
  \/ Access(c) \/ Read(c) \/ Write(c) \/ OtherTransfer(c)
  \/ PinStep(c) \/ Return(c)

Next ==
  \/ \E c \in Ctx : Step(c)
  \/ \E s \in Shell, l \in Led, v \in 0 .. 2 : StoreLed(s, l, v)
  \/ \E c \in Ctx, m \in Modes : Elsewhere(c, m)
  \/ Tick

Spec == Init /\ [][Next]_vars

\* The timer is raised again and again, and no interrupt comes so often that
\* what it interrupts stands still.
FairSpec == Spec /\ SF_vars(Tick) /\ \A c \in Ctx : SF_vars(Step(c))

-----------------------------------------------------------------------------
TypeOK ==
  /\ BusTypeOK
  /\ reg \in SUBSET Led /\ ledState \in SUBSET Led
  /\ ledEnable \in [Led -> 0 .. 2] /\ ledCount \in [Led -> 0 .. BlinkTicks]
  /\ valb \in [Ctx -> SUBSET Led]
  /\ \A c \in Ctx : stage[c] \in {"setLow", "setHigh", "data"} =>
                     todo[c] # <<>>

\* c still has to write the bit of l.
Pending(c, l) == \E x \in ToSet(todo[c]) : x.op = "write" /\ x.bit = l

(***************************************************************************)
(* Properties                                                              *)
(***************************************************************************)

\* A LED that is told to be steady shows what its sysfs file says, however
\* the timer interrupts the stores of that LED and of the others.
SteadyLedShown ==
  \A l \in Led :
    (ledEnable[l] # 2 /\ \A s \in Shell : ~Pending(s, l)) =>
      (l \in reg <=> ledEnable[l] = 1)

\* A LED that blinks is on again and off again, although a store of another
\* LED may write back the state it had before.
LedsBlink ==
  \A l \in Led :
    /\ ledEnable[l] = 2 ~> (l \in reg \/ ledEnable[l] # 2)
    /\ ledEnable[l] = 2 ~> (l \notin reg \/ ledEnable[l] # 2)
=============================================================================
