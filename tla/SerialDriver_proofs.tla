-------------------------- MODULE SerialDriver_proofs --------------------------
(***************************************************************************)
(* The serial driver, in three parts.                                       *)
(*                                                                         *)
(* The interrupt that the ports of a device share, for any number of ports, *)
(* openings and interrupts.  The handler returns with the line released:    *)
(* LineReleased, from an invariant about where the handler is in the chain. *)
(* Ports that are opened and closed leave each other the interrupt:         *)
(* Chained, from an invariant about what each call may still rely on.       *)
(*                                                                         *)
(* The life of one port, for any products, FPGA versions and UARTs, from    *)
(* one invariant, PortInv: what a port in use is set up as, that one not in *)
(* use is silent, whose its registers are and what its UART was found to be.*)
(*                                                                         *)
(* A port in operation, for any FIFO, any number of calls and characters    *)
(* and any order of the handler's accesses with them: from one invariant,   *)
(* UartInv, that the IER is known, that CTS is followed and that characters *)
(* arrive with their errors; from another one, TxInv, that characters are   *)
(* sent in order.  Every function of the driver is shown to be a Reacts or  *)
(* a Moves of the port, and a Sends if it keeps the order; those compose.   *)
(***************************************************************************)
EXTENDS Serial, SerialIrq, SerialPorts, SequenceTheorems, TLAPS

\* Between opening and joining, and between leaving and closing, a port is
\* not in the chain.
Away == {"closed", "find", "add", "discard", "release"}

Stages == {"closed", "open", "lost"} \cup Linking \cup Unlinking

Types ==
  /\ stage \in [Port -> Stages] /\ chain \in Seq(Port) /\ pending \subseteq Port
  /\ isr \in [at : Port \cup {None}, end : Port \cup {None}, passes : Nat]
  /\ low \in BOOLEAN

\* No port is in the chain twice.
Distinct == \A i, j \in DOMAIN chain : chain[i] = chain[j] => i = j
AwayIsOut == \A p \in Port : stage[p] \in Away => p \notin Chain

\* Place k is one of those the walk from place i comes to before place j.
Ahead(i, k, j) == IF i < j THEN i <= k /\ k < j ELSE i <= k \/ k < j

\* The walk is at a port of the chain.  If it has seen quiet ports only since
\* end, and the line has not been low, then a port that raises it is ahead.
Walk ==
  isr.at # None =>
    \E i \in DOMAIN chain :
      /\ isr.at = chain[i]
      /\ isr.end # None =>
           \E j \in DOMAIN chain :
             /\ isr.end = chain[j] /\ i # j
             /\ low \/ \E k \in DOMAIN chain : chain[k] \in pending /\ Ahead(i, k, j)

IInv == Types /\ Distinct /\ AwayIsOut /\ Walk /\ LineReleased

-------------------------------------------------------------------------------
(* What the list operations do *)

\* Removing a port keeps the others and their order of places apart.
LEMMA WithoutFacts ==
  ASSUME Types, Distinct, NEW p \in Port
  PROVE  /\ Without(p) \in Seq(Port)
         /\ \A i \in DOMAIN Without(p) : Without(p)[i] \in Chain /\ Without(p)[i] # p
         /\ \A i, j \in DOMAIN Without(p) : Without(p)[i] = Without(p)[j] => i = j
<1>1. CASE p \notin Chain
  BY <1>1 DEF Without, Types, Distinct, Chain
<1>2. CASE p \in Chain
  <2> DEFINE s == Without(p)
             n == Len(chain) - 1
  <2>1. IndexOf(p) \in DOMAIN chain /\ chain[IndexOf(p)] = p
    BY <1>2 DEF IndexOf, Chain
  <2>2. chain \in [1..Len(chain) -> Port] /\ DOMAIN chain = 1..Len(chain) /\ Len(chain) \in Nat
    BY DEF Types
  <2>3. n \in Nat /\ IndexOf(p) \in 1..Len(chain)
    BY <2>1, <2>2
  <2>4. s = [i \in 1..n |-> IF i < IndexOf(p) THEN chain[i] ELSE chain[i + 1]]
    BY <1>2 DEF Without
  <2>5. \A i \in 1..n : i \in DOMAIN chain /\ i + 1 \in DOMAIN chain
    BY <2>2, <2>3
  <2>6. s \in [1..n -> Port]
    BY <2>2, <2>4, <2>5
  <2>7. s \in Seq(Port)
    BY <2>3, <2>6, IsASeq
  <2>8. DOMAIN s = 1..n
    BY <2>4
  <2>9. \A i \in 1..n : s[i] \in Chain
    BY <2>4, <2>5 DEF Chain
  \* the place in the chain that a place of the rest stands for
  <2> DEFINE From(i) == IF i < IndexOf(p) THEN i ELSE i + 1
  <2>12. \A i \in 1..n : From(i) \in 1..Len(chain) /\ From(i) # IndexOf(p)
    BY <2>2, <2>3
  <2>13. \A i \in 1..n : s[i] = chain[From(i)]
    BY <2>4
  <2>14. \A i, j \in 1..n : From(i) = From(j) => i = j
    BY <2>3
  <2>15. \A i, j \in 1..Len(chain) : chain[i] = chain[j] => i = j
    BY <2>2 DEF Distinct
  <2> HIDE DEF From, s, n
  <2>10. \A i \in 1..n : s[i] # p
    BY <2>1, <2>3, <2>12, <2>13, <2>15
  <2>11. ASSUME NEW i \in 1..n, NEW j \in 1..n, s[i] = s[j]
         PROVE  i = j
    <3>1. chain[From(i)] = chain[From(j)]
      BY <2>11, <2>13
    <3>2. From(i) = From(j)
      BY <2>12, <2>15, <3>1
    <3> QED
      BY <2>14, <3>2
  <2> QED
    BY <2>7, <2>8, <2>9, <2>10, <2>11 DEF s
<1> QED
  BY <1>1, <1>2

\* A port that joins is put after the head, the others keep their order.
LEMMA AddedFacts ==
  ASSUME Types, Distinct, NEW p \in Port, p \notin Chain, chain # <<>>,
         NEW s, s = <<Head(chain), p>> \o Tail(chain)
  PROVE  /\ s \in Seq(Port)
         /\ \A i \in DOMAIN s : s[i] \in Chain \/ s[i] = p
         /\ \A i, j \in DOMAIN s : s[i] = s[j] => i = j
<1> DEFINE n == Len(chain)
<1>1. /\ chain \in Seq(Port) /\ n \in Nat /\ n >= 1
      /\ DOMAIN chain = 1..n /\ \A i \in 1..n : chain[i] \in Port
  BY DEF Types
<1>2. /\ Head(chain) = chain[1] /\ Tail(chain) \in Seq(Port)
      /\ Len(Tail(chain)) = n - 1 /\ \A i \in 1..(n - 1) : Tail(chain)[i] = chain[i + 1]
  BY <1>1
<1>3. <<chain[1], p>> \in Seq(Port)
  BY <1>1
<1>4. /\ s \in Seq(Port) /\ Len(s) = n + 1 /\ s[1] = chain[1] /\ s[2] = p
      /\ \A i \in 3..(n + 1) : s[i] = chain[i - 1]
  BY <1>1, <1>2, <1>3, ConcatProperties
<1>5. DOMAIN s = 1..(n + 1)
  BY <1>4
<1>6. \A i \in 1..n : chain[i] \in Chain /\ chain[i] # p
  BY <1>1 DEF Chain
<1>7. \A i \in DOMAIN s : s[i] \in Chain \/ s[i] = p
  BY <1>1, <1>4, <1>5, <1>6
<1>8. \A i, j \in 1..n : chain[i] = chain[j] => i = j
  BY <1>1 DEF Distinct
\* the place in the chain of every port but the new one
<1> DEFINE From(i) == IF i = 1 THEN 1 ELSE i - 1
<1>10. \A i \in 1..(n + 1) : i # 2 => From(i) \in 1..n /\ s[i] = chain[From(i)]
  BY <1>1, <1>4
<1>11. \A i, j \in 1..(n + 1) : i # 2 /\ j # 2 /\ From(i) = From(j) => i = j
  BY <1>1
<1> HIDE DEF From, n
<1>12. \A i \in 1..(n + 1) : i # 2 => s[i] # p
  BY <1>6, <1>10
<1>13. ASSUME NEW i \in 1..(n + 1), NEW j \in 1..(n + 1), i # 2, j # 2, s[i] = s[j]
       PROVE  i = j
  <2>1. From(i) \in 1..n /\ s[i] = chain[From(i)]
    BY <1>10, <1>13
  <2>2. From(j) \in 1..n /\ s[j] = chain[From(j)]
    BY <1>10, <1>13
  <2>3. From(i) = From(j)
    BY <1>8, <1>13, <2>1, <2>2
  <2> QED
    BY <1>11, <1>13, <2>3
<1>9. ASSUME NEW i \in DOMAIN s, NEW j \in DOMAIN s, s[i] = s[j]
      PROVE  i = j
  <2>1. i \in 1..(n + 1) /\ j \in 1..(n + 1) /\ s[2] = p
    BY <1>4, <1>5
  <2>2. CASE i # 2 /\ j # 2
    BY <1>9, <1>13, <2>1, <2>2
  <2>3. CASE i = 2 \/ j = 2
    BY <1>9, <1>12, <2>1, <2>3
  <2> QED
    BY <2>2, <2>3
<1> QED
  BY <1>4, <1>7, <1>9

-------------------------------------------------------------------------------
(* The invariant *)

LEMMA InitInvariant == Init => IInv
<1> SUFFICES ASSUME Init PROVE IInv
  OBVIOUS
<1>1. Types
  <2>1. <<>> \in Seq(Port)
    OBVIOUS
  <2>2. Idle \in [at : Port \cup {None}, end : Port \cup {None}, passes : Nat]
    BY DEF Idle
  <2> QED
    BY <2>1, <2>2 DEF Init, Types, Stages
<1>2. Distinct /\ AwayIsOut
  BY DEF Init, Distinct, AwayIsOut, Chain
<1>3. Walk /\ LineReleased
  BY DEF Init, Idle, Walk, LineReleased
<1> QED
  BY <1>1, <1>2, <1>3 DEF IInv

\* A call that leaves the chain alone: only leaving it for good, or not having
\* joined it, is anything the invariant knows of.
LEMMA StageStep ==
  ASSUME IInv, NEW p \in Port, NEW l \in Stages, stage' = [stage EXCEPT ![p] = l], Call, UNCHANGED chain,
         l \in Away => stage[p] \in Away
  PROVE  IInv'
<1>1. Types'
  BY DEF IInv, Types, Call, interrupts
<1>2. AwayIsOut'
  BY DEF IInv, Types, AwayIsOut, Chain
<1>3. Distinct' /\ Walk' /\ LineReleased'
  BY DEF IInv, Distinct, Walk, LineReleased, Call, interrupts
<1> QED
  BY <1>1, <1>2, <1>3 DEF IInv

\* A call that gives the chain another value.
LEMMA ChainStep ==
  ASSUME IInv, NEW p \in Port, NEW l \in Stages, stage' = [stage EXCEPT ![p] = l], Call,
         chain' \in Seq(Port), Distinct',
         \A i \in DOMAIN chain' : chain'[i] \in Chain \/ chain'[i] = p,
         l \in Away => \A i \in DOMAIN chain' : chain'[i] # p
  PROVE  IInv'
<1>1. Types'
  BY DEF IInv, Types, Call, interrupts
<1>2. AwayIsOut'
  BY DEF IInv, Types, AwayIsOut, Chain
<1>3. Walk' /\ LineReleased'
  BY DEF IInv, Walk, LineReleased, Call, interrupts
<1> QED
  BY <1>1, <1>2, <1>3 DEF IInv

LEMMA LinkStep ==
  ASSUME IInv, NEW p \in Port, Open(p) \/ Link(p)
  PROVE  IInv'
<1>1. CASE Open(p)
  BY <1>1, StageStep DEF Go, Stages, Linking, Unlinking, Open, Away, lists
<1>2. CASE Find(p)
  BY <1>2, StageStep DEF Go, Stages, Linking, Unlinking, Find, Away
<1>3. CASE Add(p) /\ p \in stale
  BY <1>3, StageStep DEF Go, Stages, Linking, Unlinking, Add, Away
<1>4. CASE Add(p) /\ p \notin stale /\ chain = <<>>
  <2>1. chain' = <<p>> /\ Go(p, "request") /\ Call
    BY <1>4 DEF Add
  <2>2. chain' \in Seq(Port) /\ DOMAIN chain' = {1} /\ chain'[1] = p
    BY <2>1
  <2>3. Distinct'
    BY <2>2 DEF Distinct
  <2> QED
    BY <2>1, <2>2, <2>3, ChainStep DEF Go, Stages, Linking, Unlinking, Away
<1>5. CASE Add(p) /\ p \notin stale /\ chain # <<>>
  <2>1. chain' = <<Head(chain), p>> \o Tail(chain) /\ Go(p, "open") /\ Call /\ stage[p] = "add"
    BY <1>5 DEF Add
  <2>2. p \notin Chain
    BY <2>1 DEF IInv, AwayIsOut, Away
  <2>3. /\ chain' \in Seq(Port)
        /\ \A i \in DOMAIN chain' : chain'[i] \in Chain \/ chain'[i] = p
        /\ Distinct'
    BY <1>5, <2>1, <2>2, AddedFacts DEF IInv, Distinct
  <2> QED
    BY <2>1, <2>3, ChainStep DEF Go, Stages, Linking, Unlinking, Away
<1>6. CASE Request(p)
  BY <1>6, StageStep DEF Go, Stages, Linking, Unlinking, Request, Away
<1>7. CASE Fail(p)
  BY <1>7, WithoutFacts, ChainStep DEF Go, Stages, Linking, Unlinking, Fail, IInv, Distinct
<1>8. CASE Discard(p)
  BY <1>8, StageStep DEF Go, Stages, Linking, Unlinking, Discard, Away
<1> QED
  BY <1>1, <1>2, <1>3, <1>4, <1>5, <1>6, <1>7, <1>8 DEF Link, Add

LEMMA UnlinkStep ==
  ASSUME IInv, NEW p \in Port, UnlinkOf(p)
  PROVE  IInv'
<1>1. CASE Unlink(p)
  BY <1>1, StageStep DEF Go, Stages, Linking, Unlinking, Unlink, Away, lists
<1>2. CASE FreeIrq(p)
  BY <1>2, StageStep DEF Go, Stages, Linking, Unlinking, FreeIrq, Away
<1>3. CASE DoUnlink(p) /\ UNCHANGED chain /\ Go(p, "lost")
  BY <1>3, StageStep DEF Go, Stages, Linking, Unlinking, DoUnlink, Away
<1>4. CASE DoUnlink(p) /\ chain' = Without(p) /\ Go(p, "release")
  BY <1>4, WithoutFacts, ChainStep DEF Go, Stages, Linking, Unlinking, DoUnlink, IInv, Distinct
<1>5. CASE Release(p)
  BY <1>5, StageStep DEF Go, Stages, Linking, Unlinking, Release, Away
<1> QED
  BY <1>1, <1>2, <1>3, <1>4, <1>5 DEF UnlinkOf, DoUnlink

\* A closing port stops to interrupt, but no walk is on.
LEMMA CloseStep ==
  ASSUME IInv, NEW p \in Port, Close(p)
  PROVE  IInv'
<1>1. Types'
  BY DEF IInv, Types, Close, Go, lists, Stages, Unlinking
<1>2. AwayIsOut'
  BY DEF IInv, Types, AwayIsOut, Close, Go, Away, Chain, lists
<1>3. Distinct' /\ Walk' /\ LineReleased'
  BY DEF IInv, Distinct, Walk, LineReleased, Close, lists
<1> QED
  BY <1>1, <1>2, <1>3 DEF IInv

\* More pending ports only help the walk's promise.
LEMMA RaiseStep ==
  ASSUME IInv, NEW p \in Port, Raise(p)
  PROVE  IInv'
<1>1. Types'
  BY DEF IInv, Types, Raise, NotIsr, lists
<1>2. AwayIsOut' /\ Distinct' /\ LineReleased'
  BY DEF IInv, AwayIsOut, Distinct, LineReleased, Chain, Raise, NotIsr, lists
<1>3. Walk'
  BY DEF IInv, Walk, Raise, NotIsr, lists
<1> QED
  BY <1>1, <1>2, <1>3 DEF IInv

\* The walk begins at the head.
LEMMA InterruptStep ==
  ASSUME IInv, Interrupt
  PROVE  IInv'
<1>1. 1 \in DOMAIN chain /\ Head(chain) = chain[1] /\ chain[1] \in Port
  BY DEF IInv, Types, Interrupt
<1>2. /\ isr' = [at |-> chain[1], end |-> None, passes |-> 0]
      /\ low' = FALSE /\ left' = "no" /\ UNCHANGED <<stage, chain, pending>>
  BY <1>1 DEF Interrupt, NotIsr, lists
<1>3. Types'
  BY <1>1, <1>2 DEF IInv, Types
<1>4. Distinct' /\ AwayIsOut'
  BY <1>2 DEF IInv, Distinct, AwayIsOut, Chain
<1>5. Walk'
  BY <1>1, <1>2 DEF Walk
<1>6. LineReleased'
  BY <1>2 DEF LineReleased
<1> QED
  BY <1>3, <1>4, <1>5, <1>6 DEF IInv

\* The port after the one at place i is at the next place, around the ring.
LEMMA NextPlace ==
  ASSUME Types, Distinct, NEW i \in DOMAIN chain,
         NEW n, n = IF i = Len(chain) THEN 1 ELSE i + 1
  PROVE  n \in DOMAIN chain /\ NextOf(chain[i]) = chain[n]
<1>1. IndexOf(chain[i]) = i
  BY DEF IndexOf, Distinct
<1>2. DOMAIN chain = 1..Len(chain) /\ Len(chain) \in Nat
  BY DEF Types
<1>3. n \in DOMAIN chain
  BY <1>2
<1>4. Head(chain) = chain[1]
  BY <1>2 DEF Types
<1> QED
  BY <1>1, <1>3, <1>4 DEF NextOf

\* A port that is ahead, other than the one just looked at, is ahead of the
\* next place too; when the walk has come around there is none.
LEMMA AheadMoves ==
  ASSUME NEW len \in Nat, NEW i \in 1..len, NEW j \in 1..len, NEW k \in 1..len,
         i # j, k # i, Ahead(i, k, j), NEW n, n = IF i = len THEN 1 ELSE i + 1
  PROVE  n # j /\ Ahead(n, k, j)
BY DEF Ahead

\* Every place but the last one seen is ahead of a walk that has just found its
\* first quiet port.
LEMMA AllAhead ==
  ASSUME NEW len \in Nat, NEW i \in 1..len, NEW k \in 1..len,
         k # i, NEW n, n = IF i = len THEN 1 ELSE i + 1
  PROVE  n # i /\ Ahead(n, k, i)
BY DEF Ahead

\* The walk goes on from a port: what it promises about the rest of the ring.
LEMMA HandleStep ==
  ASSUME IInv, Handle
  PROVE  IInv'
<1> DEFINE len == Len(chain)
           pend == pending \ {isr.at}
<1>1. PICK i \in DOMAIN chain :
        /\ isr.at = chain[i]
        /\ isr.end # None =>
             \E j \in DOMAIN chain :
               /\ isr.end = chain[j] /\ i # j
               /\ low \/ \E k \in DOMAIN chain : chain[k] \in pending /\ Ahead(i, k, j)
  BY DEF IInv, Walk, Handle
<1> DEFINE n == IF i = len THEN 1 ELSE i + 1
           e == EndAfter(isr.at)
<1>2. len \in Nat /\ DOMAIN chain = 1..len /\ \A k \in 1..len : chain[k] \in Port
  BY DEF IInv, Types
<1>3. n \in DOMAIN chain /\ NextOf(isr.at) = chain[n]
  BY <1>1, NextPlace DEF IInv
<1>4. /\ pending' = pend /\ UNCHANGED <<stage, chain>>
      /\ low' = ((low /\ isr.at \notin pending) \/ Quiet(pend))
      /\ \/ isr' = Idle /\ left' = "limit"
         \/ isr' = Idle /\ left' = "quiet" /\ chain[n] = e
         \/ /\ left' = "no" /\ chain[n] # e
            /\ \E q \in {isr.passes, isr.passes + 1} : isr' = [at |-> chain[n], end |-> e, passes |-> q]
  BY <1>3 DEF Handle, NotIsr, lists
<1>5. /\ isr.at \in Port \cup {None} /\ isr.end \in Port \cup {None} /\ isr.passes \in Nat
      /\ chain[n] \in Port /\ None \notin Port /\ chain \in Seq(Port)
  BY <1>2, <1>3, SerialIrqAssumption DEF IInv, Types
<1>6. e \in Port \cup {None}
  BY <1>5 DEF EndAfter
<1>7. Types'
  BY <1>4, <1>5, <1>6 DEF IInv, Types, Idle
<1>8. Distinct' /\ AwayIsOut'
  BY <1>4 DEF IInv, Distinct, AwayIsOut, Chain
<1>9. Quiet(pend) \/ \E k \in DOMAIN chain : chain[k] \in pend /\ k # i
  BY <1>1 DEF Quiet, Chain
<1> HIDE DEF n, e, pend, len
<1>10. /\ left' = "quiet" => low'
       /\ isr'.at # None =>
            /\ isr'.at = chain[n] /\ isr'.end = e
            /\ e # None => \E j \in DOMAIN chain :
                 /\ e = chain[j] /\ n # j
                 /\ low' \/ \E k \in DOMAIN chain : chain[k] \in pend /\ Ahead(n, k, j)
  <2>1. isr'.at # None => isr'.at = chain[n] /\ isr'.end = e /\ chain[n] # e
    BY <1>4 DEF Idle
  <2>2. left' = "quiet" => chain[n] = e
    BY <1>4
  <2>3. CASE isr.at \in pending
    <3>1. e = None
      BY <2>3 DEF e, EndAfter
    <3> QED
      BY <1>5, <2>1, <2>2, <3>1
  <2>4. CASE isr.at \notin pending /\ isr.end = None
    <3>1. e = chain[i] /\ pend = pending
      BY <1>1, <2>4 DEF e, EndAfter, pend
    <3>2. \A k \in DOMAIN chain : k # i => n # i /\ Ahead(n, k, i)
      BY <1>1, <1>2, AllAhead DEF n
    <3>3. low' \/ \E k \in DOMAIN chain : chain[k] \in pend /\ n # i /\ Ahead(n, k, i)
      BY <1>4, <1>9, <3>2
    <3>4. chain[n] = e => n = i
      BY <1>1, <1>3, <3>1 DEF IInv, Distinct
    <3>5. left' = "quiet" => low'
      BY <2>2, <3>3, <3>4
    <3>6. chain[n] # e => n # i
      BY <3>1
    <3> QED
      BY <1>1, <2>1, <3>1, <3>3, <3>5, <3>6
  <2>5. CASE isr.at \notin pending /\ isr.end # None
    <3>1. e = isr.end /\ pend = pending
      BY <2>5 DEF e, EndAfter, pend
    <3>2. PICK j \in DOMAIN chain :
            /\ isr.end = chain[j] /\ i # j
            /\ low \/ \E k \in DOMAIN chain : chain[k] \in pending /\ Ahead(i, k, j)
      BY <1>1, <2>5
    <3>3. \A k \in DOMAIN chain : chain[k] \in pending => k # i
      BY <1>1, <2>5
    <3>4. low' \/ \E k \in DOMAIN chain : chain[k] \in pending /\ k # i /\ Ahead(i, k, j)
      BY <1>4, <2>5, <3>2, <3>3
    <3>5. low' \/ \E k \in DOMAIN chain : chain[k] \in pending /\ n # j /\ Ahead(n, k, j)
      BY <1>1, <1>2, <3>2, <3>4, AheadMoves DEF n
    <3>6. chain[n] = e => n = j
      BY <1>3, <3>1, <3>2 DEF IInv, Distinct
    <3>7. left' = "quiet" => low'
      BY <2>2, <3>5, <3>6
    <3>8. chain[n] # e => n # j
      BY <3>1, <3>2
    <3> QED
      BY <2>1, <3>1, <3>2, <3>5, <3>7, <3>8
  <2> QED
    BY <2>3, <2>4, <2>5
<1>11. LineReleased'
  BY <1>10 DEF LineReleased
<1>12. Walk'
  BY <1>3, <1>4, <1>10 DEF Walk
<1> QED
  BY <1>7, <1>8, <1>11, <1>12 DEF IInv

-------------------------------------------------------------------------------
(* The theorem *)

LEMMA StepInvariant == IInv /\ [Next]_vars => IInv'
<1> SUFFICES ASSUME IInv, [Next]_vars PROVE IInv'
  OBVIOUS
<1>1. CASE UNCHANGED vars
  BY <1>1 DEF IInv, Types, Distinct, AwayIsOut, Chain, Walk, LineReleased, vars
<1>2. ASSUME NEW p \in Port, Open(p) \/ Link(p) \/ Close(p) \/ UnlinkOf(p) \/ Raise(p)
      PROVE  IInv'
  BY <1>2, LinkStep, CloseStep, UnlinkStep, RaiseStep
<1>3. CASE Interrupt \/ Handle
  BY <1>3, InterruptStep, HandleStep
<1> QED
  BY <1>1, <1>2, <1>3 DEF Next

\* Whatever the ports raise during the walk, however many there are and
\* however they are opened and closed in between, the handler that returns
\* because it has found every port quiet returns with the line seen low since
\* it last handled a port (cpscom_interrupt, 1748-1823).
THEOREM WalkReleasesLine == FairSpec => []LineReleased
<1>1. IInv => LineReleased
  BY DEF IInv
<1> QED
  BY <1>1, InitInvariant, StepInvariant, PTL DEF FairSpec

-------------------------------------------------------------------------------
(* Who is in the chain *)

\* A port that leaves the chain leaves the others in it.
LEMMA WithoutKeeps ==
  ASSUME Types, Distinct, NEW p \in Port
  PROVE  {Without(p)[i] : i \in DOMAIN Without(p)} = Chain \ {p}
<1> DEFINE s == Without(p)
<1>1. \A i \in DOMAIN s : s[i] \in Chain /\ s[i] # p
  BY WithoutFacts
<1>2. ASSUME NEW q \in Chain, q # p PROVE \E i \in DOMAIN s : s[i] = q
  <2>1. CASE p \notin Chain
    BY <2>1 DEF Without, Chain
  <2>2. CASE p \in Chain
    <3> DEFINE m == IndexOf(p)
               n == Len(chain)
    <3>1. m \in DOMAIN chain /\ chain[m] = p
      BY <2>2 DEF IndexOf, Chain
    <3>2. PICK j \in DOMAIN chain : chain[j] = q
      BY DEF Chain
    <3>3. s = [i \in 1..(n - 1) |-> IF i < m THEN chain[i] ELSE chain[i + 1]]
      BY <2>2 DEF Without
    <3>4. DOMAIN chain = 1..n /\ n \in Nat
      BY DEF Types
    <3> HIDE DEF s, m, n
    <3>5. CASE j < m
      <4>1. j \in 1..(n - 1)
        BY <3>1, <3>2, <3>4, <3>5
      <4> QED BY <3>2, <3>3, <3>5, <4>1
    <3>6. CASE j > m
      <4>1. j - 1 \in 1..(n - 1) /\ ~(j - 1 < m) /\ (j - 1) + 1 = j
        BY <3>1, <3>2, <3>4, <3>6
      <4>2. s[j - 1] = chain[j] /\ j - 1 \in DOMAIN s
        BY <3>3, <4>1
      <4> QED BY <3>2, <4>2
    <3>7. j # m
      BY <1>2, <3>1, <3>2
    <3> QED BY <3>1, <3>2, <3>4, <3>5, <3>6, <3>7
  <2> QED BY <2>1, <2>2
<1> QED BY <1>1, <1>2

\* A port that joins leaves the others in it.
LEMMA AddedKeeps ==
  ASSUME Types, Distinct, NEW p \in Port, p \notin Chain, chain # <<>>,
         NEW s, s = <<Head(chain), p>> \o Tail(chain)
  PROVE  /\ \A i \in DOMAIN s : s[i] \in Chain \cup {p}
         /\ \A q \in Chain \cup {p} : \E i \in DOMAIN s : s[i] = q
<1> DEFINE n == Len(chain)
<1>1. /\ chain \in Seq(Port) /\ n \in Nat /\ n >= 1 /\ DOMAIN chain = 1..n
      /\ \A i \in 1..n : chain[i] \in Port
  BY DEF Types
<1>2. /\ Head(chain) = chain[1] /\ Tail(chain) \in Seq(Port)
      /\ Len(Tail(chain)) = n - 1
      /\ \A i \in 1..(n - 1) : Tail(chain)[i] = chain[i + 1]
  BY <1>1
<1>3. <<chain[1], p>> \in Seq(Port)
  BY <1>1
<1>4. /\ s \in Seq(Port) /\ Len(s) = n + 1 /\ s[1] = chain[1] /\ s[2] = p
      /\ \A i \in 3..(n + 1) : s[i] = chain[i - 1]
  BY <1>1, <1>2, <1>3, ConcatProperties
<1>5. DOMAIN s = 1..(n + 1)
  BY <1>4
<1>6. \A i \in DOMAIN s : s[i] \in Chain \/ s[i] = p
  BY AddedFacts
<1> HIDE DEF n
<1>7. ASSUME NEW j \in 1..n PROVE \E i \in DOMAIN s : s[i] = chain[j]
  <2>1. CASE j = 1
    <3>1. 1 \in DOMAIN s
      BY <1>1, <1>5
    <3> QED BY <1>4, <2>1, <3>1
  <2>2. CASE j # 1
    <3>1. j + 1 \in 3..(n + 1) /\ (j + 1) - 1 = j /\ j + 1 \in 1..(n + 1)
      BY <1>1, <2>2
    <3>2. s[j + 1] = chain[j]
      BY <1>4, <3>1
    <3> QED BY <1>5, <3>1, <3>2
  <2> QED BY <2>1, <2>2
<1>8. 2 \in DOMAIN s
  BY <1>1, <1>5
<1>9. \A q \in Chain : \E i \in DOMAIN s : s[i] = q
  BY <1>1, <1>7 DEF Chain
<1>10. \E i \in DOMAIN s : s[i] = p
  BY <1>4, <1>8
<1> QED BY <1>6, <1>9, <1>10

\* The lengths the code looks at, as sets of ports.
LEMMA ChainSizes ==
  ASSUME Types, Distinct
  PROVE  /\ chain = <<>> <=> Chain = {}
         /\ \A p \in Chain : Len(chain) = 1 <=> Chain = {p}
         /\ \A p \in Chain : chain \notin {<<q>> : q \in Port \ {p}}
<1> DEFINE n == Len(chain)
<1>1. n \in Nat /\ DOMAIN chain = 1..n /\ (chain = <<>> <=> n = 0)
  BY DEF Types
<1>2. Chain = {chain[i] : i \in 1..n}
  BY <1>1 DEF Chain
<1>3. \A i, j \in 1..n : chain[i] = chain[j] => i = j
  BY <1>1 DEF Distinct
<1> HIDE DEF n
<1>4. chain = <<>> <=> Chain = {}
  <2>1. n # 0 => 1 \in 1..n
    BY <1>1
  <2>2. n = 0 => 1..n = {}
    BY <1>1
  <2> QED BY <1>1, <1>2, <2>1, <2>2
<1>5. ASSUME NEW p \in Chain PROVE n = 1 <=> Chain = {p}
  <2>1. n # 0
    BY <1>1, <1>4, <1>5
  <2>2. CASE n = 1
    <3>1. 1..n = {1}
      BY <2>2
    <3> QED BY <1>2, <1>5, <2>2, <3>1
  <2>3. CASE n # 1
    <3>1. 1 \in 1..n /\ 2 \in 1..n
      BY <1>1, <2>1, <2>3
    <3>2. chain[1] # chain[2] /\ chain[1] \in Chain /\ chain[2] \in Chain
      BY <1>2, <1>3, <3>1
    <3> QED BY <2>3, <3>2
  <2> QED BY <2>2, <2>3
<1>6. ASSUME NEW p \in Chain, NEW q \in Port \ {p}, chain = <<q>> PROVE FALSE
  BY <1>6 DEF Chain
<1> QED BY <1>4, <1>5, <1>6 DEF n

-------------------------------------------------------------------------------
(* What the calls rely on *)

CallTypes ==
  /\ mutex \in Port \cup {None} /\ info \in BOOLEAN /\ irq \in BOOLEAN
  /\ crossed \in BOOLEAN /\ stale \subseteq Port

\* From joining to leaving, a port is in the chain: whoever unlinks another
\* port, or frees the irq_info, leaves it there.
Present == {"request", "fail", "open", "unlink", "free_irq", "remove"}
PresentIsIn == \A p \in Port : stage[p] \in Present => p \in Chain

\* From its look at the chain to the end, unlinking has the mutex.
Held == \A p \in Port : stage[p] \in {"free_irq", "remove", "release"} => mutex = p

StaleInv == \A p \in stale : stage[p] \in {"add", "lost"}

\* A chain with ports has an irq_info, and one without ports has it only while
\* a call is about to join it or to free it.
InfoInv ==
  /\ Chain # {} => info
  /\ \A p \in Port : stage[p] = "add" => info \/ p \in stale
  /\ info /\ Chain = {} =>
       \E p \in Port : stage[p] \in {"add", "discard", "release", "lost"}

\* Only the first port of a chain requests the interrupt, and a port that goes
\* without freeing it leaves another in the chain.
Requests == {"request", "fail"}
IrqInv ==
  /\ irq => Chain # {}
  /\ \A p \in Port : stage[p] \in Requests =>
       ~irq /\ \A q \in Port : stage[q] \in Requests => q = p
  /\ \A p \in Port : stage[p] = "remove" /\ irq => Chain # {p}

\* While ports are only opened, or only closed: nobody loses his irq_info, a
\* port that frees the interrupt is alone, and the interrupt is requested
\* unless somebody is about to do that or to leave the last chain.
Orderly ==
  ~crossed =>
    /\ \A p \in Port : stage[p] \in Linking => ~Busy(p, Unlinking)
    /\ \A p \in Port : stage[p] \in {"fail", "discard"} =>
         \A q \in Port \ {p} : stage[q] = "closed"
    /\ \A p \in Port : stage[p] # "lost"
    /\ stale = {}
    /\ \A p \in Port : stage[p] = "free_irq" => Chain = {p}
    /\ Chain # {} /\ ~irq =>
         \E p \in Port : \/ stage[p] \in Requests
                         \/ stage[p] = "remove" /\ Chain = {p}

CallInv == CallTypes /\ PresentIsIn /\ Held /\ StaleInv /\ InfoInv /\ IrqInv /\ Orderly

LEMMA CallInit == Init => CallInv
<1> SUFFICES ASSUME Init PROVE CallInv
  OBVIOUS
<1>1. Chain = {}
  BY DEF Init, Chain
<1> QED BY <1>1 DEF Init, CallInv, CallTypes, PresentIsIn, Present, Held,
        StaleInv, InfoInv, IrqInv, Requests, Orderly, Linking, Busy

\* The invariant says nothing of the interrupts.
LEMMA CallStill ==
  ASSUME CallInv, UNCHANGED <<stage, mutex, lists, crossed>>
  PROVE  CallInv'
BY DEF CallInv, CallTypes, PresentIsIn, Held, StaleInv, InfoInv, IrqInv, Orderly,
   Busy, Chain, lists

LEMMA OpenCalls ==
  ASSUME IInv, CallInv, NEW p \in Port, Open(p)
  PROVE  CallInv'
<1>1. /\ stage[p] = "closed" /\ stage' = [stage EXCEPT ![p] = "find"]
      /\ UNCHANGED <<mutex, info, stale, chain, irq>>
      /\ crossed' = (\/ crossed /\ \E q \in Port : stage[q] # "closed"
                     \/ Busy(p, Unlinking \cup {"fail", "discard"}))
  BY DEF Open, Go, lists
<1>2. Chain' = Chain /\ stage \in [Port -> Stages]
  BY <1>1 DEF Chain, IInv, Types
<1>3. stage'[p] = "find" /\ \A q \in Port \ {p} : stage'[q] = stage[q]
  BY <1>1, <1>2
<1>4. CallTypes' /\ PresentIsIn' /\ Held' /\ StaleInv'
  <2>1. crossed' \in BOOLEAN
    BY <1>1 DEF CallInv, CallTypes
  <2> QED BY <1>1, <1>2, <1>3, <2>1
          DEF CallInv, CallTypes, PresentIsIn, Present, Held, StaleInv
<1>5. InfoInv'
  BY <1>1, <1>2, <1>3 DEF CallInv, InfoInv
<1>6. IrqInv'
  BY <1>1, <1>2, <1>3 DEF CallInv, IrqInv, Requests
<1>7. Orderly'
  <2> SUFFICES ASSUME ~crossed' PROVE Orderly'
    BY DEF Orderly
  <2>1. ~Busy(p, Unlinking \cup {"fail", "discard"})
    BY <1>1
  <2>2. CASE ~crossed
    <3>1. ASSUME NEW q \in Port, stage'[q] \in Linking PROVE ~Busy(q, Unlinking)'
      BY <1>3, <2>1, <2>2, <3>1 DEF CallInv, Orderly, Busy, Linking, Unlinking
    <3>2. \A q \in Port : stage'[q] \notin {"fail", "discard"}
      BY <1>3, <2>1 DEF Busy
    <3>3. Chain # {} /\ ~irq =>
            \E q \in Port : \/ stage'[q] \in Requests
                            \/ stage'[q] = "remove" /\ Chain = {q}
      BY <1>1, <1>3, <2>2 DEF CallInv, Orderly, Requests
    <3>4. /\ \A q \in Port : stage'[q] # "lost"
          /\ stale = {}
          /\ \A q \in Port : stage'[q] = "free_irq" => Chain = {q}
      BY <1>3, <2>2 DEF CallInv, Orderly
    <3> QED BY <1>1, <1>2, <3>1, <3>2, <3>3, <3>4 DEF Orderly
  <2>3. CASE crossed
    <3>1. \A q \in Port : stage[q] = "closed"
      BY <1>1, <2>3
    <3>2. Chain = {}
      <4>1. Chain \subseteq Port
        BY DEF IInv, Types, Chain
      <4> QED BY <3>1, <4>1 DEF IInv, AwayIsOut, Away
    <3>3. stale = {}
      BY <3>1 DEF CallInv, CallTypes, StaleInv
    <3> QED BY <1>1, <1>2, <1>3, <3>1, <3>2, <3>3
            DEF Orderly, Busy, Linking, Unlinking
  <2> QED BY <2>2, <2>3 DEF CallInv, CallTypes
<1> QED BY <1>4, <1>5, <1>6, <1>7 DEF CallInv


\* What a call of p changes, beside its own stage.
LEMMA OwnStage ==
  ASSUME IInv, NEW p \in Port, NEW l, Go(p, l)
  PROVE  stage'[p] = l /\ \A q \in Port \ {p} : stage'[q] = stage[q]
BY DEF Go, IInv, Types

LEMMA FindCalls ==
  ASSUME IInv, CallInv, NEW p \in Port, Find(p)
  PROVE  CallInv'
<1> USE DEF CallInv
<1>1. /\ stage[p] = "find" /\ UNCHANGED <<mutex, stale, chain, irq, crossed>>
      /\ \/ info' = TRUE /\ stage'[p] = "add"
         \/ ~info /\ info' = FALSE /\ stage'[p] = "closed"
      /\ \A q \in Port \ {p} : stage'[q] = stage[q]
  BY OwnStage DEF Find
<1>2. Chain' = Chain
  BY <1>1 DEF Chain
<1>3. p \notin stale
  BY <1>1 DEF StaleInv
<1>4. CallTypes' /\ PresentIsIn' /\ Held' /\ StaleInv'
  BY <1>1, <1>2, <1>3 DEF CallTypes, PresentIsIn, Present, Held, StaleInv
<1>5. InfoInv'
  BY <1>1, <1>2 DEF InfoInv
<1>6. IrqInv'
  BY <1>1, <1>2 DEF IrqInv, Requests
<1>7. Orderly'
  <2> SUFFICES ASSUME ~crossed PROVE Orderly'
    BY <1>1 DEF Orderly
  <2>1. \A q \in Port : stage'[q] \in Linking => ~Busy(q, Unlinking)'
    BY <1>1 DEF Orderly, Busy, Linking, Unlinking
  <2>2. \A q \in Port : stage'[q] \in {"fail", "discard"} =>
          \A k \in Port \ {q} : stage'[k] = "closed"
    BY <1>1 DEF Orderly
  <2>3. Chain # {} /\ ~irq =>
          \E q \in Port : \/ stage'[q] \in Requests
                          \/ stage'[q] = "remove" /\ Chain = {q}
    BY <1>1 DEF Orderly, Requests
  <2>4. /\ \A q \in Port : stage'[q] # "lost" /\ stale = {}
        /\ \A q \in Port : stage'[q] = "free_irq" => Chain = {q}
    BY <1>1 DEF Orderly
  <2> QED BY <1>1, <1>2, <2>1, <2>2, <2>3, <2>4 DEF Orderly
<1> QED BY <1>4, <1>5, <1>6, <1>7

LEMMA AddCalls ==
  ASSUME IInv, CallInv, NEW p \in Port, Add(p)
  PROVE  CallInv'
<1> USE DEF CallInv
<1>1. stage[p] = "add" /\ UNCHANGED <<mutex, info, stale, irq, crossed>>
  BY DEF Add
<1>2. p \notin Chain /\ Chain \subseteq Port
  BY <1>1 DEF IInv, AwayIsOut, Away, Types, Chain
<1>3. CASE p \in stale
  <2>1. /\ chain' = chain /\ stage'[p] = "lost"
        /\ \A q \in Port \ {p} : stage'[q] = stage[q]
    BY <1>3, OwnStage DEF Add
  <2>2. Chain' = Chain
    BY <2>1 DEF Chain
  <2>3. crossed'
    BY <1>1, <1>3 DEF Orderly, CallTypes
  <2>4. CallTypes' /\ PresentIsIn' /\ Held' /\ StaleInv'
    BY <1>1, <2>1, <2>2 DEF CallTypes, PresentIsIn, Present, Held, StaleInv
  <2>5. InfoInv'
    BY <1>1, <2>1, <2>2 DEF InfoInv
  <2>6. IrqInv'
    BY <1>1, <2>1, <2>2 DEF IrqInv, Requests
  <2>7. Orderly'
    BY <2>3 DEF Orderly
  <2> QED BY <2>4, <2>5, <2>6, <2>7
<1>4. CASE p \notin stale
  <2>1. chain = <<>> <=> Chain = {}
    BY ChainSizes DEF IInv
  <2>2. /\ Chain = {} => stage'[p] = "request"
        /\ Chain # {} => stage'[p] = "open"
        /\ \A q \in Port \ {p} : stage'[q] = stage[q]
    BY <1>4, <2>1, OwnStage DEF Add
  <2>3. Chain' = Chain \cup {p}
    <3>1. CASE Chain = {}
      <4>1. chain' = <<p>>
        BY <1>4, <2>1, <3>1 DEF Add
      <4>2. Chain' = {p}
        BY <4>1 DEF Chain
      <4> QED BY <3>1, <4>2
    <3>2. CASE Chain # {}
      <4>1. chain' = <<Head(chain), p>> \o Tail(chain) /\ chain # <<>>
        BY <1>4, <2>1, <3>2 DEF Add
      <4>2. /\ \A i \in DOMAIN chain' : chain'[i] \in Chain \cup {p}
            /\ \A q \in Chain \cup {p} : \E i \in DOMAIN chain' : chain'[i] = q
        <5>1. Types /\ Distinct
          BY DEF IInv
        <5>2. \A s : s = <<Head(chain), p>> \o Tail(chain) =>
                 /\ \A i \in DOMAIN s : s[i] \in Chain \cup {p}
                 /\ \A q \in Chain \cup {p} : \E i \in DOMAIN s : s[i] = q
          BY <1>2, <4>1, <5>1, AddedKeeps, Zenon
        <5> QED BY <4>1, <5>2, Zenon
      <4>3. Chain' = {chain'[i] : i \in DOMAIN chain'}
        BY DEF Chain
      <4> QED BY <4>2, <4>3
    <3> QED BY <3>1, <3>2
  <2>4. info
    BY <1>1, <1>4 DEF InfoInv
  <2>5. CallTypes' /\ PresentIsIn' /\ Held' /\ StaleInv'
    BY <1>1, <1>4, <2>2, <2>3
       DEF CallTypes, PresentIsIn, Present, Held, StaleInv
  <2>6. InfoInv'
    BY <1>1, <2>2, <2>3, <2>4 DEF InfoInv
  <2>7. IrqInv'
    <3>1. irq => Chain' # {}
      BY <2>3
    <3>2. ASSUME NEW q \in Port, stage'[q] = "remove", irq PROVE Chain' # {q}
      BY <1>1, <2>2, <2>3, <3>2
    <3>3. ASSUME NEW q \in Port, stage'[q] \in Requests
          PROVE  ~irq /\ \A l \in Port : stage'[l] \in Requests => l = q
      <4>1. CASE Chain = {}
        <5>1. ~irq /\ \A l \in Port : stage[l] \notin Requests
          BY <4>1 DEF IrqInv, PresentIsIn, Present, Requests
        <5> QED BY <2>2, <3>3, <5>1
      <4>2. CASE Chain # {}
        <5>1. stage'[p] = "open"
          BY <2>2, <4>2
        <5> QED BY <2>2, <3>3, <5>1 DEF IrqInv, Requests
      <4> QED BY <4>1, <4>2
    <3> QED BY <1>1, <3>1, <3>2, <3>3 DEF IrqInv
  <2>8. Orderly'
    <3> SUFFICES ASSUME ~crossed PROVE Orderly'
      BY <1>1 DEF Orderly
    <3>1. \A q \in Port : stage[q] \notin Unlinking
      BY <1>1 DEF Orderly, Busy, Linking, Unlinking
    <3>2. \A q \in Port : stage[q] \notin {"fail", "discard"}
      BY <1>1 DEF Orderly
    <3>3. \A q \in Port : /\ stage'[q] \notin Unlinking
                          /\ stage'[q] \notin {"fail", "discard"}
      BY <2>2, <3>1, <3>2 DEF Unlinking
    <3>4. ~irq => \E q \in Port : stage'[q] \in Requests
      <4>1. CASE Chain = {}
        BY <2>2, <4>1 DEF Requests
      <4>2. CASE Chain # {}
        BY <1>1, <2>2, <3>1, <4>2 DEF Orderly, Requests, Unlinking
      <4> QED BY <4>1, <4>2
    <3>5. stale = {} /\ \A q \in Port : stage'[q] # "lost"
      BY <2>2 DEF Orderly
    <3> QED BY <1>1, <3>3, <3>4, <3>5 DEF Orderly, Busy, Unlinking
  <2> QED BY <2>5, <2>6, <2>7, <2>8
<1> QED BY <1>3, <1>4

LEMMA RequestCalls ==
  ASSUME IInv, CallInv, NEW p \in Port, Request(p)
  PROVE  CallInv'
<1> USE DEF CallInv
<1>1. /\ stage[p] = "request" /\ UNCHANGED <<mutex, info, stale, chain>>
      /\ \/ irq' = (p \notin stale) /\ stage'[p] = "open" /\ crossed' = crossed
         \/ /\ stage'[p] = "fail" /\ irq' = irq
            /\ crossed' = (crossed \/ Busy(p, Linking \cup {"open"}))
      /\ \A q \in Port \ {p} : stage'[q] = stage[q]
  BY OwnStage DEF Request
<1>2. Chain' = Chain
  BY <1>1 DEF Chain
<1>3. p \notin stale /\ p \in Chain
  BY <1>1 DEF StaleInv, PresentIsIn, Present
<1>4. CallTypes' /\ PresentIsIn' /\ Held' /\ StaleInv'
  BY <1>1, <1>2, <1>3 DEF CallTypes, PresentIsIn, Present, Held, StaleInv
<1>5. InfoInv'
  BY <1>1, <1>2 DEF InfoInv
<1>6. \A q \in Port \ {p} : stage[q] \notin Requests
  BY <1>1 DEF IrqInv, Requests
<1>7. CASE stage'[p] = "open" /\ irq' = TRUE /\ crossed' = crossed
  <2>1. \A q \in Port : stage'[q] \notin Requests
    BY <1>1, <1>6, <1>7 DEF Requests
  <2>2. \A q \in Port : stage'[q] = "remove" => Chain' # {q}
    BY <1>2, <1>3, <1>7
  <2>3. IrqInv'
    BY <1>2, <1>3, <2>1, <2>2 DEF IrqInv
  <2>4. ASSUME ~crossed PROVE Orderly'
    <3>1. \A q \in Port : stage[q] \notin Unlinking
      BY <1>1, <2>4 DEF Orderly, Busy, Linking, Unlinking
    <3>2. \A q \in Port : stage'[q] \notin Unlinking
      BY <1>1, <1>7, <3>1 DEF Unlinking
    <3>3. \A q \in Port : stage'[q] \notin {"fail", "discard"}
      BY <1>1, <1>7, <2>4 DEF Orderly
    <3>4. stale = {} /\ \A q \in Port : stage'[q] # "lost"
      BY <1>1, <1>7, <2>4 DEF Orderly
    <3> QED BY <1>1, <1>7, <3>2, <3>3, <3>4 DEF Orderly, Busy, Unlinking
  <2>5. Orderly'
    BY <1>7, <2>4 DEF Orderly
  <2> QED BY <1>4, <1>5, <2>3, <2>5
<1>8. CASE /\ stage'[p] = "fail" /\ irq' = irq
           /\ crossed' = (crossed \/ Busy(p, Linking \cup {"open"}))
  <2>1. \A q \in Port \ {p} : stage'[q] \notin Requests
    BY <1>1, <1>6
  <2>2. ~irq
    BY <1>1 DEF IrqInv, Requests
  <2>3. IrqInv'
    BY <1>8, <2>1, <2>2 DEF IrqInv
  <2>4. ASSUME ~crossed' PROVE Orderly'
    <3>1. ~crossed /\ ~Busy(p, Linking \cup {"open"})
      BY <1>8, <2>4 DEF CallTypes
    <3>2. \A q \in Port \ {p} : stage[q] \notin Unlinking /\ stage[q] # "lost"
      BY <1>1, <3>1 DEF Orderly, Busy, Linking, Unlinking
    <3>3. \A q \in Port \ {p} : stage'[q] = "closed"
      BY <1>1, <3>1, <3>2 DEF IInv, Types, Stages, Busy
    <3>4. stale = {}
      BY <3>1 DEF Orderly
    <3> QED BY <1>1, <1>8, <3>3, <3>4 DEF Orderly, Busy, Unlinking, Requests
  <2>5. Orderly'
    BY <2>4 DEF Orderly
  <2> QED BY <1>4, <1>5, <2>3, <2>5
<1> QED BY <1>1, <1>3, <1>7, <1>8

LEMMA FailCalls ==
  ASSUME IInv, CallInv, NEW p \in Port, Fail(p)
  PROVE  CallInv'
<1> USE DEF CallInv
<1>1. /\ stage[p] = "fail" /\ UNCHANGED <<mutex, info, stale, irq, crossed>>
      /\ stage'[p] = "discard" /\ chain' = Without(p)
      /\ \A q \in Port \ {p} : stage'[q] = stage[q]
  BY OwnStage DEF Fail
<1>2. Chain' = Chain \ {p}
  <2>1. Chain' = {chain'[i] : i \in DOMAIN chain'}
    BY DEF Chain
  <2> QED BY <1>1, <2>1, WithoutKeeps DEF IInv
<1>3. p \notin stale /\ ~irq
  BY <1>1 DEF StaleInv, IrqInv, Requests
<1>4. CallTypes' /\ PresentIsIn' /\ Held' /\ StaleInv'
  BY <1>1, <1>2, <1>3 DEF CallTypes, PresentIsIn, Present, Held, StaleInv
<1>5. InfoInv'
  BY <1>1, <1>2 DEF InfoInv
<1>6. IrqInv'
  BY <1>1, <1>2, <1>3 DEF IrqInv, Requests
<1>7. Orderly'
  <2> SUFFICES ASSUME ~crossed PROVE Orderly'
    BY <1>1 DEF Orderly
  <2>1. \A q \in Port \ {p} : stage[q] = "closed"
    BY <1>1 DEF Orderly
  <2>2. Chain' = {}
    <3>1. Chain \subseteq Port
      BY DEF IInv, Types, Chain
    <3> QED BY <1>2, <2>1, <3>1 DEF IInv, AwayIsOut, Away
  <2>3. stale = {}
    BY DEF Orderly
  <2> QED BY <1>1, <2>1, <2>2, <2>3 DEF Orderly, Busy, Unlinking
<1> QED BY <1>4, <1>5, <1>6, <1>7

\* The end of a call that leaves the chain: who had found the irq_info and
\* has not joined it is left with a pointer to nothing.
LEMMA FreedCalls ==
  ASSUME IInv, CallInv, NEW p \in Port, Freed(p),
         stage[p] \in {"discard", "release"}, stage'[p] = "closed",
         \A q \in Port \ {p} : stage'[q] = stage[q],
         UNCHANGED <<chain, irq, crossed>>,
         mutex' = mutex \/ (stage[p] = "release" /\ mutex' = None)
  PROVE  CallInv'
<1> USE DEF CallInv
<1>1. /\ info' = (info /\ Chain # {})
      /\ stale' = IF info' THEN stale
                  ELSE {q \in Port \ {p} : stage[q] \in {"add", "request"}}
  BY ChainSizes DEF Freed, IInv
<1>2. Chain' = Chain /\ p \notin Chain
  BY DEF Chain, IInv, AwayIsOut, Away
<1>3. ~info' => stale' = {q \in Port \ {p} : stage[q] = "add"}
  <2> SUFFICES ASSUME ~info', NEW q \in Port, stage[q] = "request" PROVE FALSE
    BY <1>1
  <2>1. Chain = {}
    BY <1>1 DEF InfoInv
  <2> QED BY <2>1 DEF PresentIsIn, Present
<1>4. CallTypes'
  BY <1>1 DEF CallTypes
<1>5. PresentIsIn'
  BY <1>2 DEF PresentIsIn, Present
<1>6. Held'
  <2>1. CASE mutex' = mutex
    BY <2>1 DEF Held
  <2>2. CASE stage[p] = "release"
    <3>1. \A q \in Port \ {p} : stage[q] \notin {"free_irq", "remove", "release"}
      BY <2>2 DEF Held
    <3> QED BY <3>1 DEF Held
  <2> QED BY <2>1, <2>2
<1>7. StaleInv'
  <2>1. CASE info'
    BY <1>1, <2>1 DEF StaleInv, CallTypes
  <2>2. CASE ~info'
    BY <1>3, <2>2 DEF StaleInv
  <2> QED BY <2>1, <2>2
<1>8. InfoInv'
  <2>1. Chain # {} => info'
    BY <1>1 DEF InfoInv
  <2>2. ASSUME NEW q \in Port, stage'[q] = "add", ~info' PROVE q \in stale'
    BY <1>3, <2>2
  <2> QED BY <1>1, <1>2, <2>1, <2>2 DEF InfoInv
<1>9. IrqInv'
  BY <1>2 DEF IrqInv, Requests
<1>10. Orderly'
  <2> SUFFICES ASSUME ~crossed PROVE Orderly'
    BY DEF Orderly
  <2>1. \A q \in Port : stage[q] # "add"
    BY DEF Orderly, Busy, Linking, Unlinking
  <2>2. stale' = {}
    BY <1>1, <1>3, <2>1 DEF Orderly
  <2>3. \A q \in Port : stage'[q] \in Linking => ~Busy(q, Unlinking)'
    BY DEF Orderly, Busy, Linking, Unlinking
  <2>4. \A q \in Port : stage'[q] \in {"fail", "discard"} =>
          \A k \in Port \ {q} : stage'[k] = "closed"
    BY DEF Orderly
  <2>5. Chain # {} /\ ~irq =>
          \E q \in Port : \/ stage'[q] \in Requests
                          \/ stage'[q] = "remove" /\ Chain = {q}
    BY DEF Orderly, Requests
  <2>6. /\ \A q \in Port : stage'[q] # "lost"
        /\ \A q \in Port : stage'[q] = "free_irq" => Chain = {q}
    BY DEF Orderly
  <2> QED BY <1>2, <2>2, <2>3, <2>4, <2>5, <2>6 DEF Orderly
<1> QED BY <1>4, <1>5, <1>6, <1>7, <1>8, <1>9, <1>10

LEMMA DiscardCalls ==
  ASSUME IInv, CallInv, NEW p \in Port, Discard(p)
  PROVE  CallInv'
<1>1. /\ stage[p] = "discard" /\ Freed(p) /\ Go(p, "closed")
      /\ UNCHANGED <<mutex, chain, irq, crossed>>
  BY DEF Discard
<1> QED BY <1>1, OwnStage, FreedCalls

LEMMA ReleaseCalls ==
  ASSUME IInv, CallInv, NEW p \in Port, Release(p)
  PROVE  CallInv'
<1>1. /\ stage[p] = "release" /\ Freed(p) /\ Go(p, "closed") /\ mutex' = None
      /\ UNCHANGED <<chain, irq, crossed>>
  BY DEF Release
<1> QED BY <1>1, OwnStage, FreedCalls

LEMMA CloseCalls ==
  ASSUME IInv, CallInv, NEW p \in Port, Close(p)
  PROVE  CallInv'
<1> USE DEF CallInv
<1>1. /\ stage[p] = "open" /\ stage'[p] = "unlink"
      /\ UNCHANGED <<mutex, info, stale, chain, irq>>
      /\ crossed' = (crossed \/ Busy(p, Linking))
      /\ \A q \in Port \ {p} : stage'[q] = stage[q]
  BY OwnStage DEF Close, lists
<1>2. Chain' = Chain
  BY <1>1 DEF Chain
<1>3. CallTypes' /\ PresentIsIn' /\ Held' /\ StaleInv'
  BY <1>1, <1>2 DEF CallTypes, PresentIsIn, Present, Held, StaleInv
<1>4. InfoInv'
  BY <1>1, <1>2 DEF InfoInv
<1>5. IrqInv'
  BY <1>1, <1>2 DEF IrqInv, Requests
<1>6. Orderly'
  <2> SUFFICES ASSUME ~crossed' PROVE Orderly'
    BY DEF Orderly
  <2>1. ~crossed /\ ~Busy(p, Linking)
    BY <1>1 DEF CallTypes
  <2>2. \A q \in Port : stage'[q] \notin Linking
    BY <1>1, <2>1 DEF Busy, Linking
  <2>3. Chain # {} /\ ~irq =>
          \E q \in Port : \/ stage'[q] \in Requests
                          \/ stage'[q] = "remove" /\ Chain = {q}
    BY <1>1, <2>1 DEF Orderly, Requests
  <2>4. /\ \A q \in Port : stage'[q] # "lost"
        /\ \A q \in Port : stage'[q] = "free_irq" => Chain = {q}
        /\ stale = {}
    BY <1>1, <2>1 DEF Orderly
  <2> QED BY <1>1, <1>2, <2>2, <2>3, <2>4 DEF Orderly, Linking
<1> QED BY <1>3, <1>4, <1>5, <1>6

LEMMA UnlinkCalls ==
  ASSUME IInv, CallInv, NEW p \in Port, Unlink(p)
  PROVE  CallInv'
<1> USE DEF CallInv
<1>1. p \in Chain
  BY DEF Unlink, PresentIsIn, Present
<1>2. info /\ chain # <<>> /\ (Len(chain) = 1 <=> Chain = {p})
  BY <1>1, ChainSizes DEF InfoInv, IInv
<1>3. /\ stage[p] = "unlink" /\ mutex = None /\ mutex' = p
      /\ UNCHANGED <<info, stale, chain, irq, crossed>>
      /\ \/ Chain = {p} /\ stage'[p] = "free_irq"
         \/ Chain # {p} /\ stage'[p] = "remove"
      /\ \A q \in Port \ {p} : stage'[q] = stage[q]
  BY <1>2, OwnStage DEF Unlink, lists
<1>4. Chain' = Chain
  BY <1>3 DEF Chain
<1>5. CallTypes' /\ PresentIsIn' /\ StaleInv'
  BY <1>3, <1>4 DEF CallTypes, PresentIsIn, Present, StaleInv
<1>6. Held'
  <2>1. \A q \in Port : stage[q] \notin {"free_irq", "remove", "release"}
    BY <1>3, SerialIrqAssumption DEF Held
  <2> QED BY <1>3, <2>1 DEF Held
<1>7. InfoInv'
  BY <1>3, <1>4 DEF InfoInv
<1>8. IrqInv'
  BY <1>3, <1>4 DEF IrqInv, Requests
<1>9. Orderly'
  <2> SUFFICES ASSUME ~crossed PROVE Orderly'
    BY <1>3 DEF Orderly
  <2>1. \A q \in Port : stage'[q] \notin Linking
    BY <1>3 DEF Orderly, Busy, Linking, Unlinking
  <2>2. Chain # {} /\ ~irq =>
          \E q \in Port : \/ stage'[q] \in Requests
                          \/ stage'[q] = "remove" /\ Chain = {q}
    BY <1>3 DEF Orderly, Requests
  <2>3. /\ \A q \in Port : stage'[q] # "lost"
        /\ \A q \in Port : stage'[q] = "free_irq" => Chain = {q}
        /\ stale = {}
    BY <1>3 DEF Orderly
  <2> QED BY <1>3, <1>4, <2>1, <2>2, <2>3 DEF Orderly, Linking
<1> QED BY <1>5, <1>6, <1>7, <1>8, <1>9

LEMMA FreeIrqCalls ==
  ASSUME IInv, CallInv, NEW p \in Port, FreeIrq(p)
  PROVE  CallInv'
<1> USE DEF CallInv
<1>1. /\ stage[p] = "free_irq" /\ stage'[p] = "remove" /\ irq' = FALSE
      /\ UNCHANGED <<mutex, info, stale, chain, crossed>>
      /\ \A q \in Port \ {p} : stage'[q] = stage[q]
  BY OwnStage DEF FreeIrq
<1>2. Chain' = Chain
  BY <1>1 DEF Chain
<1>3. CallTypes' /\ PresentIsIn' /\ Held' /\ StaleInv'
  BY <1>1, <1>2 DEF CallTypes, PresentIsIn, Present, Held, StaleInv
<1>4. InfoInv'
  BY <1>1, <1>2 DEF InfoInv
<1>5. IrqInv'
  BY <1>1, <1>2 DEF IrqInv, Requests
<1>6. Orderly'
  <2> SUFFICES ASSUME ~crossed PROVE Orderly'
    BY <1>1 DEF Orderly
  <2>1. Chain = {p}
    BY <1>1 DEF Orderly
  <2>2. \A q \in Port : stage'[q] \notin Linking
    BY <1>1 DEF Orderly, Busy, Linking, Unlinking
  <2>3. /\ \A q \in Port : stage'[q] # "lost"
        /\ \A q \in Port : stage'[q] = "free_irq" => Chain = {q}
        /\ stale = {}
    BY <1>1 DEF Orderly
  <2> QED BY <1>1, <1>2, <2>1, <2>2, <2>3 DEF Orderly, Linking
<1> QED BY <1>3, <1>4, <1>5, <1>6

LEMMA DoUnlinkCalls ==
  ASSUME IInv, CallInv, NEW p \in Port, DoUnlink(p)
  PROVE  CallInv'
<1> USE DEF CallInv
<1>1. p \in Chain /\ chain \notin {<<q>> : q \in Port \ {p}}
  <2>1. p \in Chain
    BY DEF DoUnlink, PresentIsIn, Present
  <2> QED BY <2>1, ChainSizes DEF IInv
<1>2. /\ stage[p] = "remove" /\ stage'[p] = "release" /\ chain' = Without(p)
      /\ UNCHANGED <<mutex, info, stale, irq, crossed>>
      /\ \A q \in Port \ {p} : stage'[q] = stage[q]
  BY <1>1, OwnStage DEF DoUnlink
<1>3. Chain' = Chain \ {p}
  <2>1. Chain' = {chain'[i] : i \in DOMAIN chain'}
    BY DEF Chain
  <2> QED BY <1>2, <2>1, WithoutKeeps DEF IInv
<1>4. CallTypes' /\ PresentIsIn' /\ Held' /\ StaleInv'
  BY <1>2, <1>3 DEF CallTypes, PresentIsIn, Present, Held, StaleInv
<1>5. InfoInv'
  BY <1>2, <1>3 DEF InfoInv
<1>6. \A q \in Port \ {p} : stage[q] \notin {"free_irq", "remove"}
  BY <1>2 DEF Held
<1>7. IrqInv'
  <2>1. irq => Chain' # {}
    BY <1>1, <1>2, <1>3 DEF IrqInv
  <2>2. \A q \in Port : stage'[q] # "remove"
    BY <1>2, <1>6
  <2> QED BY <1>2, <2>1, <2>2 DEF IrqInv, Requests
<1>8. Orderly'
  <2> SUFFICES ASSUME ~crossed PROVE Orderly'
    BY <1>2 DEF Orderly
  <2>1. \A q \in Port : stage'[q] \notin Linking
    BY <1>2 DEF Orderly, Busy, Linking, Unlinking
  <2>2. \A q \in Port : stage[q] \notin Requests
    BY <1>2 DEF Orderly, Busy, Linking, Unlinking, Requests
  <2>3. Chain' # {} => irq
    BY <1>1, <1>2, <1>3, <1>6, <2>2 DEF Orderly
  <2>4. /\ \A q \in Port : stage'[q] \notin {"lost", "free_irq"}
        /\ stale = {}
    BY <1>2, <1>6 DEF Orderly
  <2> QED BY <1>2, <2>1, <2>3, <2>4 DEF Orderly, Linking
<1> QED BY <1>4, <1>5, <1>7, <1>8

LEMMA CallNext == IInv /\ CallInv /\ [Next]_vars => CallInv'
<1> SUFFICES ASSUME IInv, CallInv, [Next]_vars PROVE CallInv'
  OBVIOUS
<1>1. ASSUME NEW p \in Port, Open(p) \/ Link(p) \/ Close(p) \/ UnlinkOf(p)
      PROVE  CallInv'
  BY <1>1, OpenCalls, FindCalls, AddCalls, RequestCalls, FailCalls, DiscardCalls,
     CloseCalls, UnlinkCalls, FreeIrqCalls, DoUnlinkCalls, ReleaseCalls
     DEF Link, UnlinkOf
<1>2. ASSUME NEW p \in Port, Raise(p) PROVE CallInv'
  BY <1>2, CallStill DEF Raise, NotIsr
<1>3. CASE Interrupt
  BY <1>3, CallStill DEF Interrupt, NotIsr
<1>4. CASE Handle
  BY <1>4, CallStill DEF Handle, NotIsr
<1>5. CASE UNCHANGED vars
  BY <1>5, CallStill DEF vars, lists
<1> QED BY <1>1, <1>2, <1>3, <1>4, <1>5 DEF Next

\* The ports of a device may be opened and closed as they like, as long as no
\* opening meets a closing (or a failing request_irq): an open port is in the
\* chain, no call works on an irq_info that is gone, and between the calls the
\* interrupt is requested, and the irq_info there, exactly while a port is in
\* the chain (serial_link_irq_chain, serial_unlink_irq_chain).
THEOREM PortsStayChained == FairSpec => []Chained
<1>1. IInv /\ CallInv => Chained
  <2> SUFFICES ASSUME IInv, CallInv, ~crossed PROVE Chained
    BY DEF Chained
  <2>1. \A p \in Port : /\ stage[p] = "open" => p \in Chain
                        /\ stage[p] # "lost"
    BY DEF CallInv, PresentIsIn, Present, Orderly
  <2>2. ASSUME \A p \in Port : stage[p] \in {"open", "closed"}
        PROVE  (irq = (chain # <<>>)) /\ (info = (chain # <<>>))
    <3>1. (chain # <<>>) = (Chain # {})
      BY ChainSizes DEF IInv
    <3>2. irq = (Chain # {})
      BY <2>2 DEF CallInv, CallTypes, IrqInv, Orderly, Requests
    <3>3. info = (Chain # {})
      BY <2>2 DEF CallInv, CallTypes, InfoInv
    <3> QED BY <3>1, <3>2, <3>3
  <2> QED BY <2>1, <2>2 DEF Chained
<1> QED BY <1>1, InitInvariant, StepInvariant, CallInit, CallNext, PTL DEF FairSpec

-------------------------------------------------------------------------------
(* The life of a port: the invariant                                         *)

\* The fields of the three records.
RegNames == {"banked", "DLL", "DLM", "EFR", "FCR", "FCTR", "IER", "LCR", "MCR", "RXTRG", "TXTRG"}
PortNames == {"caps", "ier", "ignoreMask", "lcr", "mapped", "mcr", "mctrl", "open", "readMask",
              "stage", "type"}
UserNames == {"break", "crossed", "gate", "got", "overwritten", "rs485", "startups", "termios"}

\* x is a record of these fields; y is one that differs from x in some of them.
HasFields(names, x) == x = [n \in names |-> x[n]]
Keeps(y, x, names, changed) == HasFields(names, y) /\ \A n \in names \ changed : y[n] = x[n]

\* The type the probe finds, whenever it finds one.
TheType == autoconfig(board.answers, board.product, board.version, "unknown")

\* Record shapes, the settings that can have been asked, and a type that is
\* unknown or the one the probe finds.
Shapes ==
  /\ HasFields(RegNames, r) /\ HasFields(PortNames, port) /\ HasFields(UserNames, user)
  /\ oops \in BOOLEAN /\ port.open \in BOOLEAN /\ user.termios \in Settings
  /\ user.startups \in 0..2
  /\ port.type \in {"unknown", TheType} /\ port.mcr \subseteq {"AFE"}

\* The bank of FCTR is there in the UARTs that answer as a B.
Board ==
  /\ board.answers \in {AnswersOf(k) : k \in Kinds}
  /\ r.banked <=> board.answers.efr = "B"

\* The trigger levels outlive closing: the first start selects the level for
\* sending in FCTR, the second writes it; a divisor that misses undoes both.
HasTriggers ==
  TheType = "CPS16550A" =>
    /\ user.startups >= 1 => UART_FCTR_TX \in r.FCTR
    /\ user.startups = 2 => r.TXTRG = Level

\* A port p with the registers x is set up as the user u asked.
SetUp(p, x, who) ==
    /\ p.caps = uart_config[p.type].caps
    /\ p.lcr = x.LCR
    /\ x.LCR \ {"SBC"} = LcrOf(who.termios)
    /\ "SBC" \in x.LCR => who.break
    /\ x.FCR = FcrOf(p.type, who.termios.baud)
    /\ p.type = "CPS16550A" /\ who.startups >= 1 => x.RXTRG = Level
    /\ ~who.crossed /\ ~Misses(x, who.termios) =>
         LET q == cpscom_get_divisor(who.termios.baud)
         IN x.DLL = Byte(q % 256) /\ x.DLM = Byte(q \div 256)
    /\ p.readMask = ReadMask(who.termios) /\ p.ignoreMask = IgnoreMask(who.termios)
    /\ x.MCR = cpscom_set_mctrl(p.mctrl) \cup p.mcr
    /\ who.gate => "OUT2" \in p.mctrl

\* The registers x raise no interrupt and send no break.
Silent(x) == "OUT2" \notin x.MCR /\ x.IER \subseteq {"UUE", "SLEEP"} /\ "SBC" \notin x.LCR

\* Whose the registers are, by where the port is in its life.
Claims ==
  /\ port.stage \in {"absent", "registered", "abandoned"}
  /\ port.open => port.stage = "registered" /\ port.type # "unknown" /\ ~oops
  /\ port.stage = "absent" => region # "us" /\ port.type = "unknown"
  /\ ~HasLine => port.type = "unknown"
  /\ ~oops /\ port.stage = "registered" =>
    /\ port.type # "unknown" <=> region = "us"
    /\ port.mapped <=> region = "us"

\* What holds between two calls.
PortInv ==
  /\ Shapes /\ Board /\ HasTriggers /\ Claims /\ Rs485Kept
  /\ port.open => SetUp(port, r, user)
  /\ ~port.open /\ ~oops => Silent(r)

-------------------------------------------------------------------------------
(* The register file and what the calls are made of                          *)

\* Writing through an offset changes the one register behind it.
LEMMA OutIsOne ==
  ASSUME NEW x, HasFields(RegNames, x), NEW n \in RegNames, NEW v
  PROVE  Keeps([x EXCEPT ![n] = v], x, RegNames, {n}) /\ [x EXCEPT ![n] = v][n] = v
BY DEF HasFields, Keeps, RegNames

\* The offset of FCR reaches EFR in mode B where there is that bank.
LEMMA OutFCR ==
  ASSUME NEW x, HasFields(RegNames, x), NEW v
  PROVE  LET y == Out(x, "FCR", v)
             n == IF x.banked /\ x.LCR = ModeB THEN "EFR" ELSE "FCR"
         IN  Keeps(y, x, RegNames, {n}) /\ y[n] = v
<1>1. Behind(x, "FCR") = IF x.banked /\ x.LCR = ModeB THEN "EFR" ELSE "FCR"
  BY DEF Behind
<1>2. Out(x, "FCR", v) = [x EXCEPT ![Behind(x, "FCR")] = v]
  BY <1>1 DEF Out
<1> QED BY <1>1, <1>2, OutIsOne DEF RegNames

\* The offset of IER reaches FCTR in mode B, and else the divisor with DLAB.
LEMMA OutIER ==
  ASSUME NEW x, HasFields(RegNames, x), NEW v
  PROVE  LET y == Out(x, "IER", v)
             n == IF x.banked /\ x.LCR = ModeB THEN "FCTR"
                  ELSE IF "DLAB" \in x.LCR THEN "DLM" ELSE "IER"
         IN  Keeps(y, x, RegNames, {n}) /\ y[n] = v
<1>1. Behind(x, "IER") = IF x.banked /\ x.LCR = ModeB THEN "FCTR"
                         ELSE IF "DLAB" \in x.LCR THEN "DLM" ELSE "IER"
  BY DEF Behind
<1>2. Out(x, "IER", v) = [x EXCEPT ![Behind(x, "IER")] = v]
  BY <1>1 DEF Out
<1> QED BY <1>1, <1>2, OutIsOne DEF RegNames

\* In mode B the offset of TX reaches the trigger level FCTR selects.
LEMMA OutTrigger ==
  ASSUME NEW x, HasFields(RegNames, x), x.banked, x.LCR = ModeB, NEW v
  PROVE  LET y == Out(x, "TX", v)
             n == IF UART_FCTR_TX \in x.FCTR THEN "TXTRG" ELSE "RXTRG"
         IN  Keeps(y, x, RegNames, {n}) /\ y[n] = v
<1>1. Behind(x, "TX") = "TRG"
  BY DEF Behind
<1>2. Out(x, "TX", v) = [x EXCEPT ![IF UART_FCTR_TX \in x.FCTR THEN "TXTRG" ELSE "RXTRG"] = v]
  BY <1>1 DEF Out
<1> QED BY <1>2, OutIsOne DEF RegNames

\* With DLAB, outside the bank of mode B, the offset of TX reaches the divisor.
LEMMA OutDivisor ==
  ASSUME NEW x, HasFields(RegNames, x), ~(x.banked /\ x.LCR = ModeB), "DLAB" \in x.LCR, NEW v
  PROVE  Keeps(Out(x, "TX", v), x, RegNames, {"DLL"}) /\ Out(x, "TX", v).DLL = v
<1>1. Behind(x, "TX") = "DLL"
  BY DEF Behind
<1>2. Out(x, "TX", v) = [x EXCEPT !["DLL"] = v]
  BY <1>1 DEF Out
<1> QED BY <1>2, OutIsOne DEF RegNames

\* Clearing the FIFOs writes FCR or, in mode B, EFR.
LEMMA FifosCleared ==
  ASSUME NEW x, HasFields(RegNames, x), NEW caps
  PROVE  Keeps(cpscom_clear_fifos(caps, x), x, RegNames, {"FCR", "EFR"})
<1>1. Keeps(Out(x, "FCR", {}), x, RegNames, {"FCR", "EFR"})
  BY OutFCR DEF Keeps
<1>2. Keeps(x, x, RegNames, {"FCR", "EFR"})
  BY DEF Keeps
<1> QED BY <1>1, <1>2 DEF cpscom_clear_fifos

\* Falling asleep and waking up.
LEMMA Sleeps ==
  ASSUME NEW x, HasFields(RegNames, x), NEW caps, NEW asleep
  PROVE  LET y == cpscom_set_sleep(caps, x, asleep)
         IN  /\ Keeps(y, x, RegNames, {"FCR", "EFR", "IER", "LCR"})
             /\ y.IER \in {x.IER, Bits("SLEEP", asleep)} /\ y.LCR \in {x.LCR, {}}
<1> DEFINE b == [x EXCEPT !.LCR = ModeB]
           z == IF "EFR" \in caps THEN Out(b, "FCR", {}) ELSE x
           y == cpscom_set_sleep(caps, x, asleep)
           v == Bits("SLEEP", asleep)
<1>1. Keeps(b, x, RegNames, {"LCR"})
  BY DEF Keeps, HasFields, RegNames
<1>2. Keeps(z, x, RegNames, {"FCR", "EFR", "LCR"}) /\ ("EFR" \notin caps => z.LCR = x.LCR)
  <2>1. Keeps(Out(b, "FCR", {}), b, RegNames, {"FCR", "EFR"})
    BY <1>1, OutFCR DEF Keeps
  <2> HIDE DEF b
  <2>2. Keeps(Out(b, "FCR", {}), x, RegNames, {"FCR", "EFR", "LCR"})
    BY <1>1, <2>1 DEF Keeps
  <2> QED BY <2>2 DEF Keeps
<1>3. CASE "SLEEP" \notin caps
  <2>1. y = x
    BY <1>3 DEF cpscom_set_sleep
  <2> QED BY <2>1 DEF Keeps
<1>4. CASE "SLEEP" \in caps
  <2>1. y = [z EXCEPT !.IER = v, !.LCR = IF "EFR" \in caps THEN {} ELSE z.LCR]
    BY <1>4 DEF cpscom_set_sleep
  <2> HIDE DEF y, z, v
  <2>2. Keeps(y, z, RegNames, {"IER", "LCR"}) /\ y.IER = v
        /\ y.LCR = IF "EFR" \in caps THEN {} ELSE z.LCR
    BY <2>1, <1>2 DEF Keeps, HasFields, RegNames
  <2>3. Keeps(y, x, RegNames, {"FCR", "EFR", "IER", "LCR"})
    BY <2>2, <1>2 DEF Keeps
  <2> QED BY <2>2, <2>3, <1>2 DEF v, y
<1> QED BY <1>3, <1>4

\* The trigger levels of a UART with the bank of FCTR.
LEMMA TriggersSet ==
  ASSUME NEW x, HasFields(RegNames, x), NEW type, type = "CPS16550A" => x.banked
  PROVE  LET y == Triggers(type, x)
         IN  /\ Keeps(y, x, RegNames, {"FCTR", "LCR", "RXTRG", "TXTRG"})
             /\ UART_FCTR_RS485 \in y.FCTR <=> UART_FCTR_RS485 \in x.FCTR
             /\ "SBC" \in y.LCR => "SBC" \in x.LCR
             /\ type = "CPS16550A" => UART_FCTR_TX \in y.FCTR /\ y.RXTRG = Level
             /\ UART_FCTR_TX \in x.FCTR =>
                  UART_FCTR_TX \in y.FCTR /\ (x.TXTRG = Level \/ type = "CPS16550A" => y.TXTRG = Level)
<1> DEFINE y == Triggers(type, x)
           b == [x EXCEPT !.LCR = ModeB]
           fctr == In(b, "IER") \ {UART_FCTR_TX}
           b1 == Out(b, "TX", Level)
           b2 == Out(b1, "IER", fctr)
           b3 == Out(b2, "TX", Level)
           b4 == Out(b3, "IER", fctr \cup {UART_FCTR_TX})
<1>1. CASE type # "CPS16550A"
  <2>1. y = x
    BY <1>1 DEF Triggers
  <2> QED BY <2>1, <1>1 DEF Keeps
<1>2. CASE type = "CPS16550A"
  <2>1. Keeps(b, x, RegNames, {"LCR"}) /\ b.LCR = ModeB /\ b.banked
    BY <1>2 DEF Keeps, HasFields, RegNames
  <2>2. fctr = x.FCTR \ {UART_FCTR_TX}
    <3>1. Behind(b, "IER") = "FCTR"
      BY <2>1 DEF Behind
    <3>2. b.FCTR = x.FCTR
      BY <2>1 DEF Keeps, RegNames
    <3> QED BY <3>1, <3>2 DEF In
  <2> HIDE DEF b, fctr
  <2>3. LET n == IF UART_FCTR_TX \in b.FCTR THEN "TXTRG" ELSE "RXTRG"
        IN  Keeps(b1, b, RegNames, {n}) /\ b1[n] = Level
    BY <2>1, OutTrigger DEF Keeps
  <2> HIDE DEF b1
  <2>4. b1.banked /\ b1.LCR = ModeB /\ HasFields(RegNames, b1)
    BY <2>1, <2>3 DEF Keeps, RegNames
  <2>5. Keeps(b2, b1, RegNames, {"FCTR"}) /\ b2.FCTR = fctr
    BY <2>4, OutIER
  <2> HIDE DEF b2
  <2>6. b2.banked /\ b2.LCR = ModeB /\ HasFields(RegNames, b2) /\ UART_FCTR_TX \notin b2.FCTR
    BY <2>4, <2>5, <2>2 DEF Keeps, RegNames
  <2>7. Keeps(b3, b2, RegNames, {"RXTRG"}) /\ b3.RXTRG = Level
    BY <2>6, OutTrigger
  <2> HIDE DEF b3
  <2>8. b3.banked /\ b3.LCR = ModeB /\ HasFields(RegNames, b3)
    BY <2>6, <2>7 DEF Keeps, RegNames
  <2>9. Keeps(b4, b3, RegNames, {"FCTR"}) /\ b4.FCTR = fctr \cup {UART_FCTR_TX}
    BY <2>8, OutIER
  <2>10. y = [b4 EXCEPT !.LCR = {}]
    BY <1>2 DEF Triggers, b, fctr, b1, b2, b3
  <2> HIDE DEF b4, y
  <2>11. Keeps(y, b4, RegNames, {"LCR"}) /\ y.LCR = {}
    BY <2>9, <2>10 DEF Keeps, HasFields, RegNames
  <2>12. y.FCTR = (x.FCTR \ {UART_FCTR_TX}) \cup {UART_FCTR_TX}
    BY <2>11, <2>9, <2>2 DEF Keeps, RegNames
  <2>13. y.RXTRG = Level
    BY <2>11, <2>9, <2>7 DEF Keeps, RegNames
  <2>14. UART_FCTR_TX \in x.FCTR => y.TXTRG = Level
    <3>1. b.FCTR = x.FCTR
      BY <2>1 DEF Keeps, RegNames
    <3>2. UART_FCTR_TX \in x.FCTR => b1.TXTRG = Level
      BY <3>1, <2>3
    <3>3. y.TXTRG = b1.TXTRG
      BY <2>11, <2>9, <2>7, <2>5 DEF Keeps, RegNames
    <3> QED BY <3>2, <3>3
  <2>15. Keeps(y, x, RegNames, {"FCTR", "LCR", "RXTRG", "TXTRG"})
    <3>1. Keeps(b4, b, RegNames, {"FCTR", "RXTRG", "TXTRG"})
      BY <2>3, <2>5, <2>7, <2>9 DEF Keeps
    <3> QED BY <3>1, <2>1, <2>11 DEF Keeps
  <2>16. UART_FCTR_RS485 # UART_FCTR_TX
    BY DEF UART_FCTR_RS485, UART_FCTR_TX
  <2> QED BY <2>11, <2>12, <2>13, <2>14, <2>15, <2>16 DEF y
<1> QED BY <1>1, <1>2

\* What startup does before it may be refused.
LEMMA PreparedKeeps ==
  ASSUME NEW x, HasFields(RegNames, x), NEW p, HasFields(PortNames, p)
  PROVE  LET s == Prepared(p, x)
         IN  /\ Keeps(s.r, x, RegNames, {"FCR", "EFR"})
             /\ Keeps(s.p, p, PortNames, {"caps", "mcr"})
             /\ s.p.caps = uart_config[p.type].caps /\ s.p.mcr = {}
<1> DEFINE caps == uart_config[p.type].caps
<1>1. Prepared(p, x).r = cpscom_clear_fifos(caps, x)
      /\ Prepared(p, x).p = [p EXCEPT !.caps = caps, !.mcr = {}]
  BY DEF Prepared
<1> HIDE DEF caps
<1>2. Keeps([p EXCEPT !.caps = caps, !.mcr = {}], p, PortNames, {"caps", "mcr"})
      /\ [p EXCEPT !.caps = caps, !.mcr = {}].caps = caps
      /\ [p EXCEPT !.caps = caps, !.mcr = {}].mcr = {}
  BY DEF Keeps, HasFields, PortNames
<1> QED BY <1>1, <1>2, FifosCleared DEF caps

\* Setting the modem lines writes MCR from them and from the bits of the port.
LEMMA MctrlSet ==
  ASSUME NEW x, HasFields(RegNames, x), NEW p, HasFields(PortNames, p), NEW mctrl
  PROVE  LET m == SetMctrl(p, x, mctrl)
         IN  /\ Keeps(m.r, x, RegNames, {"MCR"}) /\ Keeps(m.p, p, PortNames, {"mctrl"})
             /\ m.p.mctrl = mctrl /\ m.r.MCR = cpscom_set_mctrl(mctrl) \cup p.mcr
<1> DEFINE v == cpscom_set_mctrl(mctrl) \cup p.mcr
<1>1. SetMctrl(p, x, mctrl).r = [x EXCEPT !.MCR = v]
      /\ SetMctrl(p, x, mctrl).p = [p EXCEPT !.mctrl = mctrl]
  BY DEF SetMctrl
<1> HIDE DEF v
<1>2. Keeps([x EXCEPT !.MCR = v], x, RegNames, {"MCR"}) /\ [x EXCEPT !.MCR = v].MCR = v
  BY DEF Keeps, HasFields, RegNames
<1>3. Keeps([p EXCEPT !.mctrl = mctrl], p, PortNames, {"mctrl"})
      /\ [p EXCEPT !.mctrl = mctrl].mctrl = mctrl
  BY DEF Keeps, HasFields, PortNames
<1> QED BY <1>1, <1>2, <1>3 DEF v

-------------------------------------------------------------------------------
(* Setting up                                                                *)

\* The speeds that may be asked for.
LEMMA SpeedsAsked ==
  ASSUME NEW t \in Settings
  PROVE  t.baud \in {50, 9600, 921600}
BY DEF Settings, Standard, ErrorSettings, DeafSettings, SpeedSettings, SpaceSettings, Terminal

\* The divisor of every speed fits its two bytes.
LEMMA DivisorFits ==
  ASSUME NEW t \in Settings
  PROVE  LET q == cpscom_get_divisor(t.baud) IN (q \div 256) % 256 = q \div 256
<1>1. t.baud \in {50, 9600, 921600}
  BY SpeedsAsked
<1>2. CASE t.baud = 50
  <2>1. cpscom_get_divisor(50) = 18432
    BY DEF cpscom_get_divisor, uartclk
  <2> QED BY <1>2, <2>1
<1>3. CASE t.baud = 9600
  <2>1. cpscom_get_divisor(9600) = 96
    BY DEF cpscom_get_divisor, uartclk
  <2> QED BY <1>3, <2>1
<1>4. CASE t.baud = 921600
  <2>1. cpscom_get_divisor(921600) = 1
    BY DEF cpscom_get_divisor, uartclk
  <2> QED BY <1>4, <2>1
<1> QED BY <1>1, <1>2, <1>3, <1>4

\* What LCR is for a setting: neither a break nor the access to the divisor.
LEMMA LcrBits ==
  ASSUME NEW t
  PROVE  {"SBC", "DLAB"} \cap LcrOf(t) = {}
BY DEF LcrOf, WordLength, Bits

\* Writing a divisor sets its two bytes and nothing else, or it misses and
\* reaches the bank of FCTR.
LEMMA DivisorWritten ==
  ASSUME NEW x, HasFields(RegNames, x), "DLAB" \in x.LCR, NEW q
  PROVE  LET y == _serial_dl_write(x, q)
         IN  /\ Keeps(y, x, RegNames, {"DLL", "DLM", "FCTR", "RXTRG", "TXTRG"})
             /\ ~(x.banked /\ x.LCR = ModeB) =>
                  /\ y.FCTR = x.FCTR /\ y.RXTRG = x.RXTRG /\ y.TXTRG = x.TXTRG
                  /\ y.DLL = Byte(q % 256) /\ y.DLM = Byte((q \div 256) % 256)
<1> DEFINE l == Byte(q % 256)
           h == Byte((q \div 256) % 256)
           z == Out(x, "TX", l)
           y == Out(z, "IER", h)
<1>0. _serial_dl_write(x, q) = y
  BY DEF _serial_dl_write
<1> HIDE DEF l, h
<1>1. CASE x.banked /\ x.LCR = ModeB
  <2>1. Keeps(z, x, RegNames, {"RXTRG", "TXTRG"})
    BY <1>1, OutTrigger DEF Keeps
  <2> HIDE DEF z
  <2>2. HasFields(RegNames, z) /\ z.banked /\ z.LCR = ModeB
    BY <1>1, <2>1 DEF Keeps, RegNames
  <2>3. Keeps(y, z, RegNames, {"FCTR"})
    BY <2>2, OutIER
  <2> HIDE DEF y
  <2>4. Keeps(y, x, RegNames, {"DLL", "DLM", "FCTR", "RXTRG", "TXTRG"})
    BY <2>1, <2>3 DEF Keeps
  <2> QED BY <1>0, <1>1, <2>4
<1>2. CASE ~(x.banked /\ x.LCR = ModeB)
  <2>1. Keeps(z, x, RegNames, {"DLL"}) /\ z.DLL = l
    BY <1>2, OutDivisor
  <2> HIDE DEF z
  <2>2. HasFields(RegNames, z) /\ ~(z.banked /\ z.LCR = ModeB) /\ "DLAB" \in z.LCR
    BY <1>2, <2>1 DEF Keeps, RegNames
  <2>3. Keeps(y, z, RegNames, {"DLM"}) /\ y.DLM = h
    BY <2>2, OutIER
  <2> HIDE DEF y
  <2>4. /\ Keeps(y, x, RegNames, {"DLL", "DLM", "FCTR", "RXTRG", "TXTRG"}) /\ y.DLL = l
        /\ y.FCTR = x.FCTR /\ y.RXTRG = x.RXTRG /\ y.TXTRG = x.TXTRG
    BY <2>1, <2>3 DEF Keeps, RegNames
  <2> QED BY <1>0, <2>3, <2>4 DEF l, h
<1> QED BY <1>1, <1>2

\* The registers set_termios writes, three of them only if the divisor misses.
SetRegs == {"DLL", "DLM", "EFR", "FCR", "FCTR", "IER", "LCR", "MCR", "RXTRG", "TXTRG"}

\* What set_termios leaves behind.
LEMMA TermiosSet ==
  ASSUME NEW x, HasFields(RegNames, x), NEW p, HasFields(PortNames, p), p.mcr \subseteq {"AFE"},
         NEW t \in Settings
  PROVE  LET s == cpscom_do_set_termios(p, x, t)
             q == cpscom_get_divisor(t.baud)
         IN  /\ Keeps(s.r, x, RegNames, SetRegs)
             /\ Keeps(s.p, p, PortNames, {"ier", "ignoreMask", "lcr", "mcr", "readMask"})
             /\ s.r.LCR = LcrOf(t) /\ s.p.lcr = LcrOf(t)
             /\ s.r.FCR = IF "FIFO" \in p.caps THEN FcrOf(p.type, t.baud) ELSE {}
             /\ ~Misses(x, t) =>
                  /\ s.r.FCTR = x.FCTR /\ s.r.RXTRG = x.RXTRG /\ s.r.TXTRG = x.TXTRG
                  /\ s.r.DLL = Byte(q % 256) /\ s.r.DLM = Byte(q \div 256)
             /\ s.r.MCR = cpscom_set_mctrl(p.mctrl) \cup s.p.mcr /\ s.p.mcr \subseteq {"AFE"}
             /\ s.p.readMask = ReadMask(t) /\ s.p.ignoreMask = IgnoreMask(t)
<1> DEFINE cval == LcrOf(t)
           fcr == IF "FIFO" \in p.caps THEN FcrOf(p.type, t.baud) ELSE {}
           mcr == IF "AFE" \in p.caps THEN Bits("AFE", t.crtscts) ELSE p.mcr
           ier == (p.ier \ {"MSI"}) \cup Bits("MSI", t.crtscts) \cup (p.caps \cap {"UUE", "RTOIE"})
           b == [x EXCEPT !.LCR = ModeB]
           efr == IF "EFR" \in p.caps THEN Out(b, "FCR", Bits("CTS", t.crtscts)) ELSE x
           d == [efr EXCEPT !.IER = ier, !.LCR = cval \cup {"DLAB"}]
           n == cpscom_get_divisor(t.baud)
           dl == _serial_dl_write(d, n)
           ign == IgnoreMask(t)
           read == ReadMask(t)
           q == [p EXCEPT !.ier = ier, !.ignoreMask = ign, !.lcr = cval, !.mcr = mcr,
                          !.readMask = read]
           e == [dl EXCEPT !.FCR = fcr, !.LCR = cval]
           s == cpscom_do_set_termios(p, x, t)
<1>0. s = SetMctrl(q, e, p.mctrl)
  BY DEF cpscom_do_set_termios
<1>1. mcr \subseteq {"AFE"}
  BY DEF Bits
<1>2. Misses(x, t) <=> x.banked /\ cval \cup {"DLAB"} = ModeB
  BY DEF Misses
<1>3. (n \div 256) % 256 = n \div 256
  BY DivisorFits
<1>4. Keeps(efr, x, RegNames, {"EFR", "FCR", "LCR"})
  <2>1. Keeps(b, x, RegNames, {"LCR"})
    BY DEF Keeps, HasFields, RegNames
  <2> HIDE DEF b
  <2>2. Keeps(Out(b, "FCR", Bits("CTS", t.crtscts)), b, RegNames, {"EFR", "FCR"})
    BY <2>1, OutFCR DEF Keeps
  <2> QED BY <2>1, <2>2 DEF Keeps
<1> HIDE DEF efr, ier, cval, mcr, fcr, n, ign, read
<1>5. Keeps(d, x, RegNames, {"EFR", "FCR", "LCR", "IER"}) /\ d.LCR = cval \cup {"DLAB"}
  <2>1. Keeps(d, efr, RegNames, {"LCR", "IER"}) /\ d.LCR = cval \cup {"DLAB"}
    BY <1>4 DEF Keeps, HasFields, RegNames
  <2> HIDE DEF d
  <2> QED BY <2>1, <1>4 DEF Keeps
<1> HIDE DEF d
<1>6. /\ Keeps(dl, d, RegNames, {"DLL", "DLM", "FCTR", "RXTRG", "TXTRG"})
      /\ ~Misses(x, t) =>
           /\ dl.FCTR = x.FCTR /\ dl.RXTRG = x.RXTRG /\ dl.TXTRG = x.TXTRG
           /\ dl.DLL = Byte(n % 256) /\ dl.DLM = Byte((n \div 256) % 256)
  <2>1. HasFields(RegNames, d) /\ "DLAB" \in d.LCR
    BY <1>5 DEF Keeps
  <2>2. /\ d.banked = x.banked /\ d.FCTR = x.FCTR /\ d.RXTRG = x.RXTRG /\ d.TXTRG = x.TXTRG
    BY <1>5 DEF Keeps, RegNames
  <2>3. ~Misses(x, t) => ~(d.banked /\ d.LCR = ModeB)
    BY <1>2, <1>5, <2>2
  <2> QED BY <2>1, <2>2, <2>3, DivisorWritten
<1> HIDE DEF dl
<1>7. Keeps(e, dl, RegNames, {"FCR", "LCR"}) /\ e.FCR = fcr /\ e.LCR = cval
  BY <1>6 DEF Keeps, HasFields, RegNames
<1>8. /\ Keeps(q, p, PortNames, {"ier", "ignoreMask", "lcr", "mcr", "readMask"})
      /\ q.lcr = cval /\ q.mcr = mcr /\ q.ignoreMask = ign /\ q.readMask = read
  BY DEF Keeps, HasFields, PortNames
<1> HIDE DEF e, q
<1>9. /\ Keeps(s.r, e, RegNames, {"MCR"}) /\ Keeps(s.p, q, PortNames, {"mctrl"})
      /\ s.p.mctrl = p.mctrl /\ s.r.MCR = cpscom_set_mctrl(p.mctrl) \cup q.mcr
  <2>1. HasFields(RegNames, e) /\ HasFields(PortNames, q)
    BY <1>7, <1>8 DEF Keeps
  <2> DEFINE m == SetMctrl(q, e, p.mctrl)
  <2>2. /\ Keeps(m.r, e, RegNames, {"MCR"}) /\ Keeps(m.p, q, PortNames, {"mctrl"})
        /\ m.p.mctrl = p.mctrl /\ m.r.MCR = cpscom_set_mctrl(p.mctrl) \cup q.mcr
    BY <2>1, MctrlSet
  <2>3. s = m
    BY <1>0
  <2> HIDE DEF m, s
  <2> QED BY <2>2, <2>3
<1> HIDE DEF s
<1>10. /\ e.DLL = dl.DLL /\ e.DLM = dl.DLM /\ e.FCTR = dl.FCTR
       /\ e.RXTRG = dl.RXTRG /\ e.TXTRG = dl.TXTRG
  BY <1>7 DEF Keeps, RegNames
<1>11. /\ s.r.LCR = cval /\ s.r.FCR = fcr /\ s.r.DLL = dl.DLL /\ s.r.DLM = dl.DLM
       /\ s.r.FCTR = dl.FCTR /\ s.r.RXTRG = dl.RXTRG /\ s.r.TXTRG = dl.TXTRG
  BY <1>7, <1>9, <1>10 DEF Keeps, RegNames
<1>12. /\ s.p.lcr = cval /\ s.p.mcr = mcr /\ s.p.ignoreMask = ign /\ s.p.readMask = read
  BY <1>8, <1>9 DEF Keeps, PortNames
<1>13. Keeps(s.r, x, RegNames, SetRegs)
  <2>1. Keeps(e, x, RegNames, SetRegs)
    BY <1>5, <1>6, <1>7 DEF Keeps, SetRegs
  <2> QED BY <2>1, <1>9 DEF Keeps, SetRegs
<1>14. Keeps(s.p, p, PortNames, {"ier", "ignoreMask", "lcr", "mcr", "readMask"})
  <2>1. q.mctrl = p.mctrl
    BY <1>8 DEF Keeps, PortNames
  <2> QED BY <2>1, <1>8, <1>9 DEF Keeps
<1>15. s.r.MCR = cpscom_set_mctrl(p.mctrl) \cup s.p.mcr
  BY <1>9, <1>8, <1>12
<1> QED BY <1>1, <1>3, <1>6, <1>11, <1>12, <1>13, <1>14, <1>15 DEF s, cval, fcr, n, ign, read

\* What cpscom_startup does to the port, and to the bank behind FCTR.
PortStarts == {"caps", "mcr", "mctrl", "ier"}
RegsStart == {"EFR", "FCR", "FCTR", "IER", "LCR", "MCR", "RXTRG", "TXTRG"}

\* The bank of y is that of x after a start of a port of this type.
Triggered(y, x, type) ==
  /\ UART_FCTR_RS485 \in y.FCTR <=> UART_FCTR_RS485 \in x.FCTR
  /\ type = "CPS16550A" => UART_FCTR_TX \in y.FCTR /\ y.RXTRG = Level
  /\ UART_FCTR_TX \in x.FCTR =>
       UART_FCTR_TX \in y.FCTR /\ (x.TXTRG = Level \/ type = "CPS16550A" => y.TXTRG = Level)

\* What startup leaves behind: the trigger levels set, OUT2 up.
LEMMA Starts ==
  ASSUME NEW x, HasFields(RegNames, x), NEW p, HasFields(PortNames, p),
         p.type = "CPS16550A" => x.banked
  PROVE  LET s == cpscom_startup(p, x)
         IN  /\ Keeps(s.r, x, RegNames, RegsStart) /\ Triggered(s.r, x, p.type)
             /\ Keeps(s.p, p, PortNames, PortStarts)
             /\ s.p.caps = uart_config[p.type].caps /\ s.p.mcr = {} /\ "OUT2" \in s.p.mctrl
<1> DEFINE a == Prepared(p, x)
           tr == Triggers(p.type, a.r)
           lines == (p.mctrl \cup {"OUT2"}) \ {"OUT1"}
           m == SetMctrl(a.p, tr, lines)
           off == IF p.type = "CPS16550A" THEN [m.r EXCEPT !.LCR = {"WLEN0", "WLEN1"}]
                  ELSE [m.r EXCEPT !.FCR = {"R_TRIG_10"}, !.LCR = {}]
           ier == {"RLSI", "RDI"}
           s == cpscom_startup(p, x)
<1>0. s.p = [m.p EXCEPT !.ier = ier] /\ s.r = [off EXCEPT !.IER = ier]
  BY DEF cpscom_startup
<1>1. /\ Keeps(a.r, x, RegNames, {"FCR", "EFR"}) /\ Keeps(a.p, p, PortNames, {"caps", "mcr"})
      /\ a.p.caps = uart_config[p.type].caps /\ a.p.mcr = {}
  BY PreparedKeeps
<1> HIDE DEF a
<1>2. /\ Keeps(tr, a.r, RegNames, {"FCTR", "LCR", "RXTRG", "TXTRG"})
      /\ Triggered(tr, a.r, p.type)
  <2>1. HasFields(RegNames, a.r) /\ (p.type = "CPS16550A" => a.r.banked)
    BY <1>1 DEF Keeps, RegNames
  <2> QED BY <2>1, TriggersSet DEF Triggered
<1> HIDE DEF tr
<1>3. "OUT2" \in lines
  OBVIOUS
<1> HIDE DEF lines
<1>4. /\ Keeps(m.r, tr, RegNames, {"MCR"}) /\ Keeps(m.p, a.p, PortNames, {"mctrl"})
      /\ m.p.mctrl = lines
  <2>1. HasFields(RegNames, tr) /\ HasFields(PortNames, a.p)
    BY <1>1, <1>2 DEF Keeps
  <2> QED BY <2>1, MctrlSet
<1> HIDE DEF m
<1>5. Keeps(off, m.r, RegNames, {"FCR", "LCR"})
  BY <1>4 DEF Keeps, HasFields, RegNames
<1> HIDE DEF off
<1>6. Keeps(s.r, off, RegNames, {"IER"})
  <2>1. Keeps([off EXCEPT !.IER = ier], off, RegNames, {"IER"})
    BY <1>5 DEF Keeps, HasFields, RegNames
  <2> QED BY <2>1, <1>0
<1>7. Keeps(s.p, m.p, PortNames, {"ier"})
  <2>1. Keeps([m.p EXCEPT !.ier = ier], m.p, PortNames, {"ier"})
    BY <1>4 DEF Keeps, HasFields, PortNames
  <2> QED BY <2>1, <1>0
<1> HIDE DEF s
<1>8. Keeps(s.r, x, RegNames, RegsStart)
  BY <1>1, <1>2, <1>4, <1>5, <1>6 DEF Keeps, RegsStart
<1>9. Keeps(s.p, p, PortNames, PortStarts)
  BY <1>1, <1>4, <1>7 DEF Keeps, PortStarts
<1>10. /\ s.r.FCTR = tr.FCTR /\ s.r.RXTRG = tr.RXTRG /\ s.r.TXTRG = tr.TXTRG
       /\ a.r.FCTR = x.FCTR /\ a.r.TXTRG = x.TXTRG
  BY <1>1, <1>4, <1>5, <1>6 DEF Keeps, RegNames
<1>11. s.p.caps = a.p.caps /\ s.p.mcr = a.p.mcr /\ s.p.mctrl = lines
  BY <1>4, <1>7 DEF Keeps, PortNames
<1>12. Triggered(s.r, x, p.type)
  BY <1>2, <1>10 DEF Triggered
<1> QED BY <1>1, <1>3, <1>8, <1>9, <1>11, <1>12 DEF s

\* A port that has been started is set up as the terminal was last.
LEMMA CoreStarts ==
  ASSUME NEW s, HasFields(RegNames, s.r), HasFields(PortNames, s.p),
         s.p.type = "CPS16550A" => s.r.banked, user.termios \in Settings
  PROVE  LET up == uart_startup(s)
         IN  /\ up.region = s.region /\ up.bad = s.bad
             /\ HasFields(RegNames, up.r) /\ up.r.banked = s.r.banked
             /\ ~Misses(s.r, user.termios) => Triggered(up.r, s.r, s.p.type)
             /\ Keeps(up.p, s.p, PortNames, PortStarts \cup {"ignoreMask", "lcr", "readMask", "open"})
             /\ up.p.open = TRUE /\ up.p.mcr \subseteq {"AFE"}
             /\ \A w : w.termios = user.termios /\ (Misses(s.r, user.termios) => w.startups = 0)
                         => SetUp(up.p, up.r, w)
<1> DEFINE cps == cpscom_startup(s.p, s.r)
           set == user.termios
           t == cpscom_do_set_termios(cps.p, cps.r, set)
           lines == t.p.mctrl \cup {"DTR", "RTS"}
           m == SetMctrl(t.p, t.r, lines)
           p == [m.p EXCEPT !.open = TRUE]
           up == uart_startup(s)
           n == cpscom_get_divisor(set.baud)
<1>0. up.region = s.region /\ up.bad = s.bad /\ up.r = m.r /\ up.p = p
  BY DEF uart_startup, State
<1>1. /\ Keeps(cps.r, s.r, RegNames, RegsStart) /\ Triggered(cps.r, s.r, s.p.type)
      /\ Keeps(cps.p, s.p, PortNames, PortStarts)
      /\ cps.p.caps = uart_config[s.p.type].caps /\ cps.p.mcr = {} /\ "OUT2" \in cps.p.mctrl
  BY Starts
<1> HIDE DEF cps
<1>2. HasFields(RegNames, cps.r) /\ HasFields(PortNames, cps.p) /\ cps.p.mcr \subseteq {"AFE"}
      /\ set \in Settings
  BY <1>1 DEF Keeps
<1>3. /\ Keeps(t.r, cps.r, RegNames, SetRegs)
      /\ Keeps(t.p, cps.p, PortNames, {"ier", "ignoreMask", "lcr", "mcr", "readMask"})
      /\ t.r.LCR = LcrOf(set) /\ t.p.lcr = LcrOf(set)
      /\ t.r.FCR = IF "FIFO" \in cps.p.caps THEN FcrOf(cps.p.type, set.baud) ELSE {}
      /\ ~Misses(cps.r, set) =>
           /\ t.r.FCTR = cps.r.FCTR /\ t.r.RXTRG = cps.r.RXTRG /\ t.r.TXTRG = cps.r.TXTRG
           /\ t.r.DLL = Byte(n % 256) /\ t.r.DLM = Byte(n \div 256)
      /\ t.p.mcr \subseteq {"AFE"}
      /\ t.p.readMask = ReadMask(set) /\ t.p.ignoreMask = IgnoreMask(set)
  <2> HIDE DEF set
  <2> QED BY <1>2, TermiosSet
<1> HIDE DEF t, n
<1>4. /\ Keeps(m.r, t.r, RegNames, {"MCR"}) /\ Keeps(m.p, t.p, PortNames, {"mctrl"})
      /\ m.p.mctrl = lines /\ m.r.MCR = cpscom_set_mctrl(lines) \cup t.p.mcr
  <2>1. HasFields(RegNames, t.r) /\ HasFields(PortNames, t.p)
    BY <1>3 DEF Keeps
  <2> HIDE DEF lines
  <2> QED BY <2>1, MctrlSet
<1>5. "OUT2" \in lines
  BY <1>1, <1>3 DEF Keeps, PortNames
<1> HIDE DEF m, lines
<1>6. Keeps(p, m.p, PortNames, {"open"}) /\ p.open = TRUE
  BY <1>4 DEF Keeps, HasFields, PortNames
<1> HIDE DEF p
<1>7. /\ HasFields(RegNames, m.r) /\ m.r.banked = s.r.banked /\ cps.r.banked = s.r.banked
  BY <1>1, <1>3, <1>4 DEF Keeps, RegNames, RegsStart, SetRegs
<1>8. ~Misses(s.r, set) =>
        /\ Triggered(m.r, s.r, s.p.type) /\ m.r.RXTRG = cps.r.RXTRG
        /\ t.r.DLL = Byte(n % 256) /\ t.r.DLM = Byte(n \div 256)
  <2>1. SUFFICES ASSUME ~Misses(s.r, set)
                 PROVE  /\ Triggered(m.r, s.r, s.p.type) /\ m.r.RXTRG = cps.r.RXTRG
                        /\ t.r.DLL = Byte(n % 256) /\ t.r.DLM = Byte(n \div 256)
    OBVIOUS
  <2>2. ~Misses(cps.r, set)
    BY <1>7, <2>1 DEF Misses
  <2>3. m.r.FCTR = t.r.FCTR /\ m.r.RXTRG = t.r.RXTRG /\ m.r.TXTRG = t.r.TXTRG
    BY <1>4 DEF Keeps, RegNames
  <2>4. m.r.FCTR = cps.r.FCTR /\ m.r.RXTRG = cps.r.RXTRG /\ m.r.TXTRG = cps.r.TXTRG
    BY <1>3, <2>2, <2>3
  <2>5. Triggered(m.r, s.r, s.p.type)
    BY <1>1, <2>4 DEF Triggered
  <2> HIDE DEF set
  <2> QED BY <1>3, <2>2, <2>4, <2>5
<1>9. Keeps(p, s.p, PortNames, PortStarts \cup {"ignoreMask", "lcr", "readMask", "open"})
  BY <1>1, <1>3, <1>4, <1>6 DEF Keeps, PortStarts
<1>10. /\ p.type = s.p.type /\ cps.p.type = s.p.type
  BY <1>1, <1>9 DEF Keeps, PortNames, PortStarts
<1>11. /\ p.caps = cps.p.caps /\ p.lcr = t.p.lcr /\ p.mcr = t.p.mcr /\ p.mctrl = lines
       /\ p.readMask = t.p.readMask /\ p.ignoreMask = t.p.ignoreMask
  BY <1>3, <1>4, <1>6 DEF Keeps, PortNames
<1>12. m.r.LCR = t.r.LCR /\ m.r.FCR = t.r.FCR /\ m.r.DLL = t.r.DLL /\ m.r.DLM = t.r.DLM
  BY <1>4 DEF Keeps, RegNames
<1>13. m.r.FCR = FcrOf(p.type, set.baud)
  <2>1. "FIFO" \notin uart_config[s.p.type].caps => FcrOf(s.p.type, set.baud) = {}
    BY DEF FcrOf
  <2> QED BY <2>1, <1>1, <1>3, <1>10, <1>12
<1>14. ASSUME NEW w, w.termios = set, Misses(s.r, set) => w.startups = 0
       PROVE  SetUp(p, m.r, w)
  <2> HIDE DEF set
  <2>1. p.caps = uart_config[p.type].caps /\ p.lcr = m.r.LCR
    BY <1>1, <1>3, <1>10, <1>11, <1>12
  <2>2. m.r.LCR \ {"SBC"} = LcrOf(w.termios) /\ "SBC" \notin m.r.LCR
    BY <1>3, <1>12, <1>14, LcrBits
  <2>3. m.r.FCR = FcrOf(p.type, w.termios.baud)
    BY <1>13, <1>14
  <2>4. p.type = "CPS16550A" /\ w.startups >= 1 => m.r.RXTRG = Level
    BY <1>8, <1>10, <1>14 DEF Triggered
  <2>5. ~Misses(m.r, w.termios) =>
          LET q == cpscom_get_divisor(w.termios.baud)
          IN m.r.DLL = Byte(q % 256) /\ m.r.DLM = Byte(q \div 256)
    <3>1. Misses(m.r, w.termios) <=> Misses(s.r, set)
      BY <1>7, <1>14 DEF Misses
    <3> QED BY <3>1, <1>8, <1>12, <1>14 DEF n
  <2>6. p.readMask = ReadMask(w.termios) /\ p.ignoreMask = IgnoreMask(w.termios)
    BY <1>3, <1>11, <1>14
  <2>7. m.r.MCR = cpscom_set_mctrl(p.mctrl) \cup p.mcr /\ "OUT2" \in p.mctrl
    BY <1>4, <1>5, <1>11
  <2> QED BY <2>1, <2>2, <2>3, <2>4, <2>5, <2>6, <2>7 DEF SetUp
<1>15. p.mcr \subseteq {"AFE"}
  BY <1>3, <1>11
<1> HIDE DEF up
<1> QED BY <1>0, <1>6, <1>7, <1>8, <1>9, <1>14, <1>15 DEF up

-------------------------------------------------------------------------------
(* Shutting down and probing                                                 *)

\* What shutdown leaves behind: no interrupt, no break, OUT2 down.
LEMMA Shuts ==
  ASSUME NEW x, HasFields(RegNames, x), NEW p, HasFields(PortNames, p), p.mcr \subseteq {"AFE"}
  PROVE  LET s == cpscom_shutdown(p, x)
         IN  /\ Keeps(s.r, x, RegNames, {"EFR", "FCR", "IER", "LCR", "MCR"})
             /\ s.r.IER = {} /\ "SBC" \notin s.r.LCR /\ "OUT2" \notin s.r.MCR
             /\ Keeps(s.p, p, PortNames, {"ier", "mctrl", "open"}) /\ s.p.open = FALSE
<1> DEFINE q == [p EXCEPT !.ier = {}, !.open = FALSE]
           y == [x EXCEPT !.IER = {}]
           lines == (p.mctrl \cup {"OUT1"}) \ {"OUT2", "DTR", "RTS"}
           m == SetMctrl(q, y, lines)
           z == [m.r EXCEPT !.LCR = @ \ {"SBC"}]
           s == cpscom_shutdown(p, x)
<1>0. s.p = m.p /\ s.r = cpscom_clear_fifos(m.p.caps, z)
  BY DEF cpscom_shutdown
<1>1. Keeps(q, p, PortNames, {"ier", "open"}) /\ q.open = FALSE /\ q.mcr = p.mcr
  BY DEF Keeps, HasFields, PortNames
<1>2. Keeps(y, x, RegNames, {"IER"}) /\ y.IER = {}
  BY DEF Keeps, HasFields, RegNames
<1>3. "OUT2" \notin cpscom_set_mctrl(lines) \cup p.mcr
  BY DEF cpscom_set_mctrl
<1> HIDE DEF q, y, lines
<1>4. /\ Keeps(m.r, y, RegNames, {"MCR"}) /\ Keeps(m.p, q, PortNames, {"mctrl"})
      /\ m.r.MCR = cpscom_set_mctrl(lines) \cup q.mcr
  <2>1. HasFields(RegNames, y) /\ HasFields(PortNames, q)
    BY <1>1, <1>2 DEF Keeps
  <2> QED BY <2>1, MctrlSet
<1> HIDE DEF m
<1>5. Keeps(z, m.r, RegNames, {"LCR"}) /\ "SBC" \notin z.LCR
  BY <1>4 DEF Keeps, HasFields, RegNames
<1> HIDE DEF z
<1>6. Keeps(s.r, z, RegNames, {"FCR", "EFR"})
  BY <1>0, <1>5, FifosCleared DEF Keeps
<1> HIDE DEF s
<1>7. s.r.IER = {} /\ s.r.LCR = z.LCR /\ s.r.MCR = m.r.MCR
  BY <1>2, <1>4, <1>5, <1>6 DEF Keeps, RegNames
<1>8. Keeps(s.r, x, RegNames, {"EFR", "FCR", "IER", "LCR", "MCR"})
  BY <1>2, <1>4, <1>5, <1>6 DEF Keeps
<1>9. Keeps(s.p, p, PortNames, {"ier", "mctrl", "open"}) /\ s.p.open = FALSE
  BY <1>0, <1>1, <1>4 DEF Keeps, PortNames
<1> QED BY <1>1, <1>3, <1>4, <1>5, <1>7, <1>8, <1>9 DEF s

\* A probe finds the type of the UART or none.
LEMMA Probes ==
  ASSUME NEW x, HasFields(RegNames, x), NEW p, HasFields(PortNames, p),
         p.type \in {"unknown", TheType}, board.answers.iir \in 0..3
  PROVE  LET f == Autoconfig(p, x)
         IN  /\ Keeps(f.r, x, RegNames, {"EFR", "FCR", "IER"})
             /\ f.r.IER \subseteq x.IER \cup {"UUE"}
             /\ Keeps(f.p, p, PortNames, {"caps", "type"}) /\ f.p.type \in {"unknown", TheType}
<1> DEFINE type == autoconfig(board.answers, board.product, board.version, p.type)
           caps == uart_config[type].caps
           idle == [x EXCEPT !.EFR = {}, !.FCR = {"ENABLE"}]
           ier == Bits("UUE", "UUE" \in caps)
           fcr == IF "FIFO" \in caps THEN {} ELSE idle.FCR
           y == [idle EXCEPT !.IER = ier, !.FCR = fcr]
           f == Autoconfig(p, x)
<1>1. type \in {"unknown", TheType}
  <2>1. CASE ~board.answers.ier
    BY <2>1 DEF autoconfig
  <2>2. CASE board.answers.ier
    BY <2>2 DEF autoconfig, TheType
  <2> QED BY <2>1, <2>2
<1>2. Keeps(idle, x, RegNames, {"EFR", "FCR"})
  BY DEF Keeps, HasFields, RegNames
<1>3. ier \subseteq {"UUE"}
  BY DEF Bits
<1>4. \/ f.p = [p EXCEPT !.caps = {}] /\ f.r = x
      \/ f.p = [p EXCEPT !.caps = {}, !.type = type] /\ f.r = idle
      \/ f.p = [p EXCEPT !.caps = caps, !.type = type] /\ f.r = y
  BY DEF Autoconfig
<1> HIDE DEF type, caps, idle, ier, fcr
<1>5. Keeps(y, idle, RegNames, {"IER", "FCR"}) /\ y.IER = ier
  BY <1>2 DEF Keeps, HasFields, RegNames
<1> HIDE DEF y, f
<1>6. idle.IER = x.IER
  BY <1>2 DEF Keeps, RegNames
<1>7. Keeps(f.r, x, RegNames, {"EFR", "FCR", "IER"}) /\ f.r.IER \subseteq x.IER \cup {"UUE"}
  <2>1. Keeps(x, x, RegNames, {"EFR", "FCR", "IER"})
    BY DEF Keeps
  <2>2. Keeps(idle, x, RegNames, {"EFR", "FCR", "IER"})
    BY <1>2 DEF Keeps
  <2>3. Keeps(y, x, RegNames, {"EFR", "FCR", "IER"})
    BY <1>2, <1>5 DEF Keeps
  <2> QED BY <1>3, <1>4, <1>5, <1>6, <2>1, <2>2, <2>3
<1>8. Keeps(f.p, p, PortNames, {"caps", "type"}) /\ f.p.type \in {"unknown", TheType}
  <2>1. ASSUME NEW q, q = [p EXCEPT !.caps = {}]
        PROVE  Keeps(q, p, PortNames, {"caps", "type"}) /\ q.type = p.type
    BY <2>1 DEF Keeps, HasFields, PortNames
  <2>2. ASSUME NEW q, NEW c, q = [p EXCEPT !.caps = c, !.type = type]
        PROVE  Keeps(q, p, PortNames, {"caps", "type"}) /\ q.type = type
    BY <2>2 DEF Keeps, HasFields, PortNames
  <2>3. CASE f.p = [p EXCEPT !.caps = {}]
    BY <2>1, <2>3
  <2>4. CASE \E c : f.p = [p EXCEPT !.caps = c, !.type = type]
    BY <2>2, <2>4, <1>1
  <2> QED BY <1>4, <2>3, <2>4
<1> QED BY <1>7, <1>8 DEF f

StateNames == {"bad", "p", "r", "region"}
StateOf == {"p", "r"}

\* What probing a port makes of its claim: it keeps the registers where it
\* found a UART, and without them it does nothing.
LEMMA Configures ==
  ASSUME NEW s, HasFields(StateNames, s), HasFields(RegNames, s.r), HasFields(PortNames, s.p),
         s.p.type \in {"unknown", TheType}, board.answers.iir \in 0..3, NEW memory \in Memory
  PROVE  LET t == cpscom_config_port(s, memory)
         IN  /\ ~Granted(s, memory) => t = s
             /\ Keeps(t.r, s.r, RegNames, {"EFR", "FCR", "IER"})
             /\ t.r.IER \subseteq s.r.IER \cup {"UUE"}
             /\ Keeps(t.p, s.p, PortNames, {"caps", "mapped", "type"})
             /\ t.p.type \in {"unknown", TheType} /\ (t.bad \in BOOLEAN \/ t = s)
             /\ t.bad => t.p.type = s.p.type
             /\ Granted(s, memory) /\ ~t.bad =>
                  /\ t.region = IF t.p.type = "unknown" THEN "none" ELSE "us"
                  /\ t.p.mapped <=> t.p.type # "unknown"
<1> DEFINE c == cpscom_ivr_settings(cpscom_request_std_resource(s), memory)
           f == Autoconfig(c.p, c.r)
           b == [c EXCEPT !.p = f.p, !.r = f.r]
           t == cpscom_config_port(s, memory)
<1>1. CASE ~Granted(s, memory)
  <2>1. t = s
    BY <1>1 DEF cpscom_config_port
  <2> HIDE DEF t
  <2> QED BY <2>1, <1>1 DEF Keeps, t
<1>2. CASE Granted(s, memory)
  <2>1. /\ HasFields(StateNames, c) /\ c.bad = (memory = "no IVR") /\ c.region = "us" /\ c.r = s.r
        /\ c.p = [s.p EXCEPT !.mapped = TRUE]
    BY DEF cpscom_ivr_settings, cpscom_request_std_resource, HasFields, StateNames
  <2>2. t = IF c.bad THEN c
            ELSE IF f.p.type = "unknown" THEN cpscom_release_std_resource(b) ELSE b
    BY <1>2 DEF cpscom_config_port
  <2> HIDE DEF c
  <2>3. Keeps(c.p, s.p, PortNames, {"mapped"}) /\ c.p.mapped = TRUE /\ c.p.type = s.p.type
    BY <2>1 DEF Keeps, HasFields, PortNames
  <2>4. /\ Keeps(f.r, s.r, RegNames, {"EFR", "FCR", "IER"})
        /\ f.r.IER \subseteq s.r.IER \cup {"UUE"}
        /\ Keeps(f.p, c.p, PortNames, {"caps", "type"}) /\ f.p.type \in {"unknown", TheType}
    <3>1. HasFields(RegNames, c.r) /\ HasFields(PortNames, c.p) /\ c.p.type \in {"unknown", TheType}
      BY <2>1, <2>3 DEF Keeps
    <3>2. /\ Keeps(f.r, c.r, RegNames, {"EFR", "FCR", "IER"})
          /\ f.r.IER \subseteq c.r.IER \cup {"UUE"}
          /\ Keeps(f.p, c.p, PortNames, {"caps", "type"}) /\ f.p.type \in {"unknown", TheType}
      BY <3>1, Probes
    <3> QED BY <3>2, <2>1
  <2> HIDE DEF f
  <2>5. /\ HasFields(StateNames, b) /\ b.bad = c.bad /\ b.region = "us" /\ b.p = f.p /\ b.r = f.r
    BY <2>1 DEF HasFields, StateNames
  <2> HIDE DEF b
  <2>6. Keeps(f.p, s.p, PortNames, {"caps", "mapped", "type"}) /\ f.p.mapped = TRUE
    BY <2>3, <2>4 DEF Keeps, PortNames
  <2>7. CASE c.bad
    <3>1. t = c
      BY <2>2, <2>7
    <3> HIDE DEF t
    <3> QED BY <3>1, <1>2, <2>1, <2>3, <2>7 DEF Keeps, t
  <2>8. CASE ~c.bad /\ f.p.type # "unknown"
    <3>1. t = b
      BY <2>2, <2>8
    <3> HIDE DEF t
    <3> QED BY <3>1, <1>2, <2>1, <2>4, <2>5, <2>6, <2>8 DEF t
  <2>9. CASE ~c.bad /\ f.p.type = "unknown"
    <3>1. t = cpscom_release_std_resource(b)
      BY <2>2, <2>9
    <3> HIDE DEF t
    <3>2. t.bad = b.bad /\ t.r = b.r /\ t.region = "none" /\ t.p = [f.p EXCEPT !.mapped = FALSE]
      BY <3>1, <2>5 DEF cpscom_release_std_resource, HasFields, StateNames
    <3>3. Keeps(t.p, f.p, PortNames, {"mapped"}) /\ t.p.mapped = FALSE /\ t.p.type = f.p.type
      BY <3>2, <2>6 DEF Keeps, HasFields, PortNames
    <3>4. Keeps(t.p, s.p, PortNames, {"caps", "mapped", "type"})
      BY <3>3, <2>6 DEF Keeps
    <3> QED BY <3>2, <3>3, <3>4, <1>2, <2>1, <2>4, <2>5, <2>9 DEF t
  <2> QED BY <2>7, <2>8, <2>9
<1> QED BY <1>1, <1>2

\* Probing keeps the shape of the state it works on.
LEMMA ConfiguresShape ==
  ASSUME NEW s, HasFields(StateNames, s), NEW memory
  PROVE  HasFields(StateNames, cpscom_config_port(s, memory))
<1> DEFINE c == cpscom_ivr_settings(cpscom_request_std_resource(s), memory)
           f == Autoconfig(c.p, c.r)
           b == [c EXCEPT !.p = f.p, !.r = f.r]
           t == cpscom_config_port(s, memory)
<1>1. HasFields(StateNames, c)
  BY DEF cpscom_ivr_settings, cpscom_request_std_resource, HasFields, StateNames
<1>2. t \in {s, c, b, cpscom_release_std_resource(b)}
  BY DEF cpscom_config_port
<1> HIDE DEF c, f, t
<1>3. HasFields(StateNames, b)
  BY <1>1 DEF HasFields, StateNames
<1> HIDE DEF b
<1>4. HasFields(StateNames, cpscom_release_std_resource(b))
  BY <1>3 DEF cpscom_release_std_resource, HasFields, StateNames
<1> QED BY <1>1, <1>2, <1>3, <1>4 DEF t

-------------------------------------------------------------------------------
(* Every call preserves the invariant                                        *)

\* The UARTs identify themselves by two bits, none as the one of the boards.
LEMMA AnswersKnown ==
  ASSUME NEW k
  PROVE  /\ AnswersOf(k).iir \in 0..3 /\ AnswersOf(k).kind # "CPS16550A"
         /\ AnswersOf(k).kind \in {"NS16550A", "i16750", "XScale", "U6_16550A", "i16550A"}
<1>1. AnswersOf(k).kind \in {"NS16550A", "i16750", "XScale", "U6_16550A", "i16550A"}
  <2>1. AnswersOf(k).kind = IF k \in {"NS16550A", "i16750", "XScale", "U6_16550A"}
                            THEN k ELSE "i16550A"
    BY DEF AnswersOf
  <2> QED BY <2>1
<1>2. AnswersOf(k).iir \in 0..3
  BY DEF AnswersOf
<1> QED BY <1>1, <1>2

\* What was asked of RS-485, and whether it is still there, is as it was.
SameRs485(v) ==
  v.rs485 = user.rs485 /\ v.got = user.got /\ v.overwritten = user.overwritten

\* The bank of FCTR is left alone.
LEMMA BankKept ==
  ASSUME PortInv, board' = board, r'.banked = r.banked, r'.FCTR = r.FCTR, r'.TXTRG = r.TXTRG,
         user'.startups = user.startups, SameRs485(user')
  PROVE  Board' /\ HasTriggers' /\ Rs485Kept'
<1>1. TheType' = TheType
  BY DEF TheType
<1> QED BY <1>1 DEF PortInv, Board, HasTriggers, Rs485Kept, SameRs485

\* The bank of FCTR after a start: RS-485 is kept, the levels are set.
LEMMA BankTriggered ==
  ASSUME PortInv, board' = board, r'.banked = r.banked,
         Triggered(r', r, TheType), user'.startups = Started(user).startups, SameRs485(user')
  PROVE  Board' /\ HasTriggers' /\ Rs485Kept' /\ user'.startups \in 1..2
<1>1. TheType' = TheType
  BY DEF TheType
<1>2. user.startups \in 0..2 /\ user'.startups = IF user.startups = 2 THEN 2 ELSE user.startups + 1
  BY DEF PortInv, Shapes, Started, HasFields, UserNames
<1>3. HasTriggers'
  <2>1. CASE TheType # "CPS16550A"
    BY <2>1, <1>1 DEF HasTriggers
  <2>2. CASE TheType = "CPS16550A"
    <3>1. UART_FCTR_TX \in r'.FCTR
      BY <2>2, <1>1 DEF Triggered
    <3>2. ASSUME user'.startups = 2
          PROVE  r'.TXTRG = Level
      <4>1. user.startups >= 1
        BY <3>2, <1>2
      <4>2. UART_FCTR_TX \in r.FCTR
        BY <4>1, <2>2 DEF PortInv, HasTriggers
      <4> QED BY <4>2, <2>2, <1>1 DEF Triggered
    <3> QED BY <3>1, <3>2 DEF HasTriggers
  <2> QED BY <2>1, <2>2
<1>4. Board' /\ Rs485Kept'
  BY DEF PortInv, Board, Rs485Kept, Triggered, SameRs485
<1> QED BY <1>2, <1>3, <1>4

\* The bank of FCTR after a divisor that missed.
LEMMA BankMissed ==
  ASSUME PortInv, board' = board, r'.banked = r.banked, user'.startups = 0,
         user'.overwritten = TRUE
  PROVE  Board' /\ HasTriggers' /\ Rs485Kept'
BY DEF PortInv, Board, HasTriggers, Rs485Kept

\* A UART with trigger levels in the bank of FCTR has that bank.
LEMMA TriggersAreBanked ==
  ASSUME PortInv
  PROVE  \A type \in {TheType, port.type} : type = "CPS16550A" => r.banked
<1>1. SUFFICES ASSUME TheType = "CPS16550A" PROVE board.answers.efr = "B"
  BY DEF PortInv, Shapes, Board
<1>2. TheType = "CPS16550A"
  BY <1>1
<1>3. board.answers.iir \in 0..3 /\ board.answers.kind # "CPS16550A"
  BY AnswersKnown DEF PortInv, Board
<1>4. CASE board.answers.ier /\ board.answers.iir = 3
  <2>1. autoconfig_16550a(board.answers, board.product, board.version) = "CPS16550A"
    BY <1>2, <1>4 DEF TheType, autoconfig
  <2> QED BY <2>1, <1>3 DEF autoconfig_16550a
<1>5. CASE ~board.answers.ier
  BY <1>2, <1>5 DEF TheType, autoconfig
<1>6. CASE board.answers.ier /\ board.answers.iir \in 0..2
  <2>1. TheType \in {"i16450", "i8250", "unknown", "i16550"}
    BY <1>6 DEF TheType, autoconfig, autoconfig_8250
  <2> QED BY <2>1, <1>2
<1> QED BY <1>3, <1>4, <1>5, <1>6

\* Before the driver is loaded.
LEMMA PortBegins == PortInit => PortInv
<1> SUFFICES ASSUME PortInit PROVE PortInv
  OBVIOUS
<1>1. user.termios \in Settings /\ user.startups = 0 /\ user.rs485 = FALSE
      /\ user.got = FALSE /\ HasFields(UserNames, user)
  <2>1. Standard \in Settings
    BY DEF Settings
  <2>2. user = [break |-> FALSE, crossed |-> FALSE, gate |-> TRUE, got |-> FALSE,
                overwritten |-> FALSE, rs485 |-> FALSE, startups |-> 0, termios |-> Standard]
    BY DEF PortInit
  <2> QED BY <2>1, <2>2 DEF HasFields, UserNames
<1>2. /\ HasFields(PortNames, port) /\ port.open = FALSE /\ port.type = "unknown"
      /\ port.mcr = {} /\ port.stage = "absent"
  BY DEF PortInit, Blank, HasFields, PortNames
<1>3. /\ HasFields(RegNames, r) /\ (r.banked <=> board.answers.efr = "B") /\ r.FCTR = {}
      /\ r.MCR = {} /\ r.LCR = {} /\ r.IER = {}
  BY DEF PortInit, HasFields, RegNames
<1>4. board.answers \in {AnswersOf(k) : k \in Kinds}
  BY DEF PortInit
<1>5. region = "none" /\ oops = FALSE
  BY DEF PortInit
<1>6. Shapes
  <2>1. oops \in BOOLEAN /\ port.open \in BOOLEAN
    BY <1>2, <1>5
  <2> QED BY <1>1, <1>2, <1>3, <2>1 DEF Shapes
<1>7. Board /\ HasTriggers /\ Rs485Kept
  BY <1>1, <1>3, <1>4 DEF Board, HasTriggers, Rs485Kept
<1>8. Claims
  BY <1>2, <1>5 DEF Claims
<1>9. Silent(r)
  BY <1>3 DEF Silent
<1> QED BY <1>2, <1>6, <1>7, <1>8, <1>9 DEF PortInv

\* A call that leaves the port shut needs to leave it quiet.
LEMMA StaysShut ==
  ASSUME PortInv, Shapes', Claims', Board', HasTriggers', Rs485Kept', ~port'.open, ~oops' => Silent(r')
  PROVE  PortInv'
BY DEF PortInv

\* A call that leaves the port open needs to leave it set up.
LEMMA StaysOpen ==
  ASSUME PortInv, Shapes', Claims', Board', HasTriggers', Rs485Kept', port'.open,
         SetUp(port', r', user')
  PROVE  PortInv'
BY DEF PortInv

\* Loading the driver: with or without a line, a claim, memory, a UART.
LEMMA LoadKeeps ==
  ASSUME PortInv, cpscom_init
  PROVE  PortInv'
<1> PICK how \in {"registered", "abandoned"}, memory \in Memory :
      Become(cpscom_register_ports(State([Blank EXCEPT !.stage = how], r, region, FALSE), memory))
  BY DEF cpscom_init
<1> DEFINE blank == [Blank EXCEPT !.stage = how]
           fresh == State(blank, r, region, FALSE)
           t == cpscom_config_port(fresh, memory)
           x == [t.r EXCEPT !.MCR = {}]
           v == cpscom_register_ports(fresh, memory)
<1>0. ~oops /\ port.stage = "absent" /\ board' = board /\ user' = user
      /\ port' = v.p /\ r' = v.r /\ region' = v.region /\ oops' = v.bad
  BY DEF cpscom_init, Become
<1>1. /\ HasFields(PortNames, blank) /\ blank.type = "unknown" /\ blank.mcr = {} /\ ~blank.open
      /\ ~blank.mapped /\ blank.open \in BOOLEAN /\ blank.stage = how
  BY DEF Blank, HasFields, PortNames
<1> HIDE DEF blank
<1>2. /\ HasFields(StateNames, fresh) /\ fresh.p = blank /\ fresh.r = r /\ fresh.region = region
      /\ fresh.bad = FALSE
  BY DEF State, HasFields, StateNames
<1> HIDE DEF fresh
<1>3. HasFields(RegNames, r) /\ Silent(r) /\ region # "us" /\ board.answers.iir \in 0..3
  BY <1>0, AnswersKnown DEF PortInv, Shapes, Claims, Board
<1>4. /\ ~Granted(fresh, memory) => t = fresh
      /\ Keeps(t.r, r, RegNames, {"EFR", "FCR", "IER"}) /\ t.r.IER \subseteq r.IER \cup {"UUE"}
      /\ Keeps(t.p, blank, PortNames, {"caps", "mapped", "type"})
      /\ t.p.type \in {"unknown", TheType} /\ (t.bad \in BOOLEAN \/ t = fresh)
      /\ t.bad => t.p.type = blank.type
      /\ Granted(fresh, memory) /\ ~t.bad =>
           /\ t.region = IF t.p.type = "unknown" THEN "none" ELSE "us"
           /\ t.p.mapped <=> t.p.type # "unknown"
  <2>1. HasFields(RegNames, fresh.r) /\ HasFields(PortNames, fresh.p)
        /\ fresh.p.type \in {"unknown", TheType}
    BY <1>1, <1>2, <1>3
  <2> QED BY <2>1, <1>2, <1>3, Configures
<1> HIDE DEF t
<1>5. CASE ~HasLine
  <2>1. v = fresh
    BY <1>5 DEF cpscom_register_ports
  <2> HIDE DEF v
  <2>2. port' = blank /\ r' = r /\ region' = region /\ oops' = FALSE
    BY <1>0, <1>2, <2>1
  <2>3. Shapes'
    <3>1. TheType' = TheType
      BY <1>0 DEF TheType
    <3>2. oops' \in BOOLEAN /\ port'.open \in BOOLEAN
      BY <1>1, <2>2
    <3> QED BY <1>0, <1>1, <2>2, <3>1, <3>2 DEF PortInv, Shapes
  <2>4. Claims'
    BY <1>1, <1>3, <2>2 DEF Claims
  <2>5. Board' /\ HasTriggers' /\ Rs485Kept'
    BY <1>0, <2>2, BankKept DEF SameRs485
  <2> QED BY <1>1, <1>3, <2>2, <2>3, <2>4, <2>5, StaysShut
<1>6. CASE HasLine
  <2>1. v = uart_add_one_port(t)
    BY <1>6 DEF cpscom_register_ports, t
  <2> HIDE DEF v
  <2>2. t.p.open = FALSE /\ t.p.mcr = {} /\ t.p.stage = how /\ HasFields(PortNames, t.p)
        /\ HasFields(RegNames, t.r)
    BY <1>1, <1>4 DEF Keeps, PortNames
  <2>3. Silent(t.r)
    BY <1>3, <1>4 DEF Keeps, RegNames, Silent
  <2>4. /\ v.p = t.p /\ v.region = t.region /\ v.bad = t.bad /\ Silent(v.r)
        /\ Keeps(v.r, t.r, RegNames, {"MCR", "EFR", "FCR", "IER", "LCR"})
    <3>1. CASE t.p.type = "unknown"
      <4>1. v = t
        BY <2>1, <3>1 DEF uart_add_one_port
      <4> QED BY <4>1, <2>2, <2>3 DEF Keeps
    <3>2. CASE t.p.type # "unknown"
      <4> DEFINE y == cpscom_set_sleep(t.p.caps, x, TRUE)
      <4>1. HasFields(StateNames, t)
        <5>1. Granted(fresh, memory) => HasFields(StateNames, t)
          BY ConfiguresShape, <1>2 DEF t
        <5> QED BY <5>1, <1>2, <1>4
      <4>2. v = [t EXCEPT !.r = y]
        BY <2>1, <3>2, <4>1 DEF uart_add_one_port, HasFields, StateNames
      <4>3. Keeps(x, t.r, RegNames, {"MCR"}) /\ x.MCR = {}
        BY <2>2 DEF Keeps, HasFields, RegNames
      <4> HIDE DEF x
      <4>4. /\ Keeps(y, x, RegNames, {"FCR", "EFR", "IER", "LCR"})
            /\ y.IER \in {x.IER, Bits("SLEEP", TRUE)} /\ y.LCR \in {x.LCR, {}}
        BY <4>3, Sleeps DEF Keeps
      <4> HIDE DEF y
      <4>5. v.p = t.p /\ v.region = t.region /\ v.bad = t.bad /\ v.r = y
        BY <4>1, <4>2 DEF HasFields, StateNames
      <4>6. x.IER = t.r.IER /\ x.LCR = t.r.LCR /\ y.MCR = {}
        BY <4>3, <4>4 DEF Keeps, RegNames
      <4>7. Silent(y)
        BY <4>4, <4>6, <2>3 DEF Silent, Bits
      <4>8. Keeps(y, t.r, RegNames, {"MCR", "EFR", "FCR", "IER", "LCR"})
        BY <4>3, <4>4 DEF Keeps
      <4> QED BY <4>5, <4>7, <4>8
    <3> QED BY <3>1, <3>2
  <2>5. r'.banked = r.banked /\ r'.FCTR = r.FCTR /\ r'.TXTRG = r.TXTRG
    BY <1>0, <1>4, <2>4 DEF Keeps, RegNames
  <2>6. Board' /\ HasTriggers' /\ Rs485Kept'
    BY <1>0, <2>5, BankKept DEF SameRs485
  <2>7. Shapes'
    <3>1. TheType' = TheType
      BY <1>0 DEF TheType
    <3>2. HasFields(RegNames, r') /\ port' = t.p /\ oops' \in BOOLEAN
      BY <1>0, <1>2, <1>4, <2>4 DEF Keeps
    <3> QED BY <3>1, <3>2, <2>2, <1>0, <1>4 DEF PortInv, Shapes
  <2>8. Claims'
    <3>0. HasLine'
      BY <1>0, <1>6 DEF HasLine
    <3>1. CASE ~Granted(fresh, memory)
      BY <3>0, <3>1, <1>0, <1>1, <1>2, <1>3, <1>4, <2>4 DEF Claims
    <3>2. CASE Granted(fresh, memory)
      BY <3>0, <3>2, <1>0, <1>4, <2>2, <2>4 DEF Claims
    <3> QED BY <3>1, <3>2
  <2> QED BY <1>0, <2>2, <2>4, <2>6, <2>7, <2>8, StaysShut
<1> QED BY <1>5, <1>6

\* A call on a port whose claim and type it leaves alone.
LEMMA ShapesKept ==
  ASSUME PortInv, board' = board, oops' = oops, HasFields(RegNames, r'), HasFields(UserNames, user'),
         Keeps(port', port, PortNames, PortNames \ {"type", "stage", "mapped"}),
         port'.open \in BOOLEAN, port'.mcr \subseteq {"AFE"},
         user'.termios \in Settings, user'.startups \in 0..2
  PROVE  Shapes'
<1>1. TheType' = TheType
  BY DEF TheType
<1>2. port'.type = port.type
  BY DEF Keeps, PortNames
<1> QED BY <1>1, <1>2 DEF PortInv, Shapes, Keeps

\* Such a call leaves the claim as it was.
LEMMA ClaimsKept ==
  ASSUME PortInv, board' = board, oops' = oops, region' = region,
         Keeps(port', port, PortNames, PortNames \ {"type", "stage", "mapped"}),
         port'.open => port.stage = "registered" /\ port.type # "unknown" /\ ~oops
  PROVE  Claims'
<1>1. port'.type = port.type /\ port'.stage = port.stage /\ port'.mapped = port.mapped
  BY DEF Keeps, PortNames
<1>2. HasLine' <=> HasLine
  BY DEF HasLine
<1> QED BY <1>1, <1>2 DEF PortInv, Claims

\* Waking the UART up changes neither the port nor its claim.
LEMMA AwakeState ==
  ASSUME PortInv
  PROVE  /\ Awake.p = port /\ Awake.region = region /\ Awake.bad = oops
         /\ Keeps(Awake.r, r, RegNames, {"FCR", "EFR", "IER", "LCR"})
         /\ Awake.r.IER \subseteq r.IER /\ Awake.r.LCR \in {r.LCR, {}}
<1> DEFINE y == cpscom_set_sleep(port.caps, r, FALSE)
<1>1. Awake.p = port /\ Awake.region = region /\ Awake.bad = oops /\ Awake.r = y
  BY DEF Awake, State
<1>2. /\ Keeps(y, r, RegNames, {"FCR", "EFR", "IER", "LCR"})
      /\ y.IER \in {r.IER, Bits("SLEEP", FALSE)} /\ y.LCR \in {r.LCR, {}}
  BY Sleeps DEF PortInv, Shapes
<1> HIDE DEF y
<1> QED BY <1>1, <1>2 DEF Bits

\* A start is counted up to two.
LEMMA StartedUser ==
  ASSUME NEW who, HasFields(UserNames, who), who.startups \in 0..2
  PROVE  /\ Keeps(Started(who), who, UserNames, {"startups"})
         /\ Started(who).startups = (IF who.startups = 2 THEN 2 ELSE who.startups + 1)
BY DEF Started, Keeps, HasFields, UserNames

\* A divisor that misses is noted, and the levels with it.
LEMMA DoneUser ==
  ASSUME NEW who, HasFields(UserNames, who)
  PROVE  /\ Keeps(TermiosDone(who), who, UserNames, {"overwritten", "startups"})
         /\ IF Misses(r, who.termios)
              THEN TermiosDone(who).overwritten = TRUE /\ TermiosDone(who).startups = 0
              ELSE TermiosDone(who) = who
<1>1. CASE Misses(r, who.termios)
  BY <1>1 DEF TermiosDone, Keeps, HasFields, UserNames
<1>2. CASE ~Misses(r, who.termios)
  BY <1>2 DEF TermiosDone, Keeps
<1> QED BY <1>1, <1>2

\* The bank of FCTR and what is noted of it, after a start with the settings
\* of the terminal.
LEMMA BankStarted ==
  ASSUME PortInv, NEW w, HasFields(UserNames, w), w.startups = user.startups,
         w.termios = user.termios, SameRs485(w), user' = TermiosDone(Started(w)),
         board' = board, r'.banked = r.banked,
         ~Misses(r, user.termios) => Triggered(r', r, TheType)
  PROVE  /\ HasFields(UserNames, user') /\ user'.termios = user.termios
         /\ user'.startups \in 0..2 /\ (Misses(r, user.termios) => user'.startups = 0)
         /\ Board' /\ HasTriggers' /\ Rs485Kept'
<1> DEFINE v == Started(w)
<1>1. /\ Keeps(v, w, UserNames, {"startups"})
      /\ v.startups = (IF user.startups = 2 THEN 2 ELSE user.startups + 1)
  BY StartedUser DEF PortInv, Shapes
<1>2. v.startups = Started(user).startups
  BY <1>1, StartedUser DEF PortInv, Shapes
<1> HIDE DEF v
<1>3. HasFields(UserNames, v) /\ v.termios = user.termios /\ SameRs485(v)
  BY <1>1 DEF Keeps, UserNames, SameRs485
<1>4. /\ Keeps(user', v, UserNames, {"overwritten", "startups"})
      /\ IF Misses(r, user.termios) THEN user'.overwritten = TRUE /\ user'.startups = 0
         ELSE user' = v
  <2>1. user' = TermiosDone(v)
    BY DEF v
  <2> QED BY <2>1, <1>3, DoneUser
<1>5. HasFields(UserNames, user') /\ user'.termios = user.termios
  BY <1>3, <1>4 DEF Keeps, UserNames
<1>6. CASE Misses(r, user.termios)
  <2>1. user'.startups = 0 /\ user'.overwritten = TRUE
    BY <1>4, <1>6
  <2>2. Board' /\ HasTriggers' /\ Rs485Kept'
    BY <2>1, BankMissed
  <2> QED BY <1>5, <2>1, <2>2
<1>7. CASE ~Misses(r, user.termios)
  <2>1. user'.startups = Started(user).startups /\ SameRs485(user')
    BY <1>2, <1>3, <1>4, <1>7
  <2>2. Board' /\ HasTriggers' /\ Rs485Kept' /\ user'.startups \in 1..2
    BY <2>1, <1>7, BankTriggered
  <2> QED BY <2>2, <1>5, <1>7
<1> QED BY <1>6, <1>7

\* Opening sets the port up as the terminal was last.
LEMMA OpenKeeps ==
  ASSUME PortInv, OpenPort
  PROVE  PortInv'
<1> DEFINE up == uart_startup(Awake)
           w == [user EXCEPT !.crossed = FALSE, !.gate = TRUE]
<1>0. /\ Registered /\ ~port.open /\ port.type # "unknown" /\ board' = board
      /\ user' = TermiosDone(Started(w))
      /\ port' = up.p /\ r' = up.r /\ region' = up.region /\ oops' = up.bad
  BY DEF OpenPort, Become
<1>1. /\ HasFields(UserNames, w) /\ w.startups = user.startups /\ SameRs485(w)
      /\ w.termios = user.termios
  BY DEF PortInv, Shapes, HasFields, UserNames, SameRs485
<1> HIDE DEF w
<1>5. /\ HasFields(RegNames, Awake.r) /\ Awake.r.banked = r.banked /\ Awake.r.FCTR = r.FCTR
      /\ Awake.r.TXTRG = r.TXTRG
  BY AwakeState DEF Keeps, RegNames
<1>6. HasFields(PortNames, Awake.p) /\ (Awake.p.type = "CPS16550A" => Awake.r.banked)
      /\ user.termios \in Settings
  BY AwakeState, TriggersAreBanked, <1>5 DEF PortInv, Shapes
<1>7. /\ up.region = Awake.region /\ up.bad = Awake.bad
      /\ HasFields(RegNames, up.r) /\ up.r.banked = Awake.r.banked
      /\ ~Misses(Awake.r, user.termios) => Triggered(up.r, Awake.r, Awake.p.type)
      /\ Keeps(up.p, Awake.p, PortNames, PortStarts \cup {"ignoreMask", "lcr", "readMask", "open"})
      /\ up.p.open = TRUE /\ up.p.mcr \subseteq {"AFE"}
      /\ \A v : v.termios = user.termios /\ (Misses(Awake.r, user.termios) => v.startups = 0)
                  => SetUp(up.p, up.r, v)
  BY <1>5, <1>6, CoreStarts
<1> HIDE DEF up
<1>8. region' = region /\ oops' = oops /\ HasFields(RegNames, r') /\ r'.banked = r.banked
      /\ port'.open = TRUE /\ port'.mcr \subseteq {"AFE"}
  BY <1>0, <1>5, <1>7, AwakeState
<1>9. Keeps(port', port, PortNames, PortNames \ {"type", "stage", "mapped"})
  BY <1>0, <1>7, AwakeState DEF Keeps, PortNames, PortStarts
<1>10. (Misses(Awake.r, user.termios) <=> Misses(r, user.termios))
       /\ (~Misses(r, user.termios) => Triggered(r', r, TheType))
  <2>1. port.type = TheType
    BY <1>0 DEF PortInv, Shapes
  <2>2. Misses(Awake.r, user.termios) <=> Misses(r, user.termios)
    BY <1>5 DEF Misses
  <2> QED BY <2>1, <2>2, <1>0, <1>5, <1>7, AwakeState DEF Triggered
<1>11. /\ HasFields(UserNames, user') /\ user'.termios = user.termios
       /\ user'.startups \in 0..2 /\ (Misses(r, user.termios) => user'.startups = 0)
       /\ Board' /\ HasTriggers' /\ Rs485Kept'
  BY <1>0, <1>1, <1>8, <1>10, BankStarted
<1>12. Shapes'
  <2>1. port'.open \in BOOLEAN
    BY <1>8
  <2>2. user'.termios \in Settings
    BY <1>6, <1>11
  <2> QED BY <1>0, <1>8, <1>9, <1>11, <2>1, <2>2, ShapesKept
<1>13. Claims'
  <2>1. port.stage = "registered" /\ ~oops
    BY <1>0 DEF Registered
  <2> QED BY <1>0, <1>8, <1>9, <2>1, ClaimsKept
<1>14. SetUp(port', r', user')
  BY <1>0, <1>7, <1>10, <1>11
<1> QED BY <1>8, <1>11, <1>12, <1>13, <1>14, StaysOpen

\* A refused open leaves the port shut and silent, its bank triggered if it came so far.
LEMMA RefusedKeeps ==
  ASSUME PortInv, OpenRefused
  PROVE  PortInv'
<1> PICK granted \in BOOLEAN :
      LET s == Refused(port, Awake.r, granted)
      IN /\ port' = s.p /\ r' = cpscom_set_sleep(s.p.caps, s.r, TRUE)
         /\ user' = IF granted THEN user ELSE Started(user)
  BY DEF OpenRefused
<1> DEFINE a == Prepared(port, Awake.r)
           tr == IF granted THEN a.r ELSE Triggers(port.type, a.r)
           y == cpscom_set_sleep(a.p.caps, tr, TRUE)
<1>0. /\ Registered /\ ~port.open /\ port.type # "unknown"
      /\ board' = board /\ region' = region /\ oops' = oops
  BY DEF OpenRefused
<1>1. /\ Keeps(Awake.r, r, RegNames, {"FCR", "EFR", "IER", "LCR"})
      /\ Awake.r.IER \subseteq r.IER /\ Awake.r.LCR \in {r.LCR, {}}
  BY AwakeState
<1>2. /\ Keeps(a.r, Awake.r, RegNames, {"FCR", "EFR"}) /\ Keeps(a.p, port, PortNames, {"caps", "mcr"})
      /\ a.p.mcr = {}
  <2>1. HasFields(RegNames, Awake.r) /\ HasFields(PortNames, port)
    BY <1>1 DEF Keeps, PortInv, Shapes
  <2> QED BY <2>1, PreparedKeeps
<1>3. port' = a.p /\ r' = y
  <2>1. HasFields(StateOf, a)
    BY DEF Prepared, HasFields, StateOf
  <2>2. CASE granted
    BY <2>2 DEF Refused
  <2>3. CASE ~granted
    <3>1. Refused(port, Awake.r, granted) = [a EXCEPT !.r = Triggers(port.type, a.r)]
      BY <2>3 DEF Refused
    <3> DEFINE tt == Triggers(port.type, a.r)
    <3> HIDE DEF a, tt
    <3>2. [a EXCEPT !.r = tt].p = a.p /\ [a EXCEPT !.r = tt].r = tt
      BY <2>1 DEF HasFields, StateOf
    <3> QED BY <2>3, <3>1, <3>2 DEF tt
  <2> QED BY <2>2, <2>3
<1> HIDE DEF a
<1>4. /\ Keeps(tr, a.r, RegNames, {"FCTR", "LCR", "RXTRG", "TXTRG"})
      /\ (UART_FCTR_RS485 \in tr.FCTR <=> UART_FCTR_RS485 \in a.r.FCTR)
      /\ ("SBC" \in tr.LCR => "SBC" \in a.r.LCR)
      /\ IF granted THEN tr.FCTR = a.r.FCTR /\ tr.TXTRG = a.r.TXTRG
         ELSE Triggered(tr, a.r, port.type)
  <2>1. HasFields(RegNames, a.r) /\ (port.type = "CPS16550A" => a.r.banked)
    BY <1>1, <1>2, TriggersAreBanked DEF Keeps, RegNames
  <2>2. CASE granted
    BY <2>1, <2>2 DEF Keeps
  <2>3. CASE ~granted
    <3>1. tr = Triggers(port.type, a.r)
      BY <2>3
    <3> HIDE DEF tr
    <3> QED BY <2>1, <2>3, <3>1, TriggersSet DEF Triggered
  <2> QED BY <2>2, <2>3
<1> HIDE DEF tr
<1>5. /\ Keeps(y, tr, RegNames, {"FCR", "EFR", "IER", "LCR"})
      /\ y.IER \in {tr.IER, Bits("SLEEP", TRUE)} /\ y.LCR \in {tr.LCR, {}}
  BY <1>4, Sleeps DEF Keeps
<1> HIDE DEF y
<1>6. /\ r'.banked = r.banked /\ HasFields(RegNames, r')
      /\ r'.FCTR = tr.FCTR /\ r'.TXTRG = tr.TXTRG /\ r'.RXTRG = tr.RXTRG
      /\ a.r.FCTR = r.FCTR /\ a.r.TXTRG = r.TXTRG /\ a.r.LCR = Awake.r.LCR
      /\ r'.MCR = r.MCR /\ tr.IER = Awake.r.IER
  <2>1. /\ r'.banked = tr.banked /\ r'.MCR = tr.MCR /\ HasFields(RegNames, r')
        /\ r'.FCTR = tr.FCTR /\ r'.TXTRG = tr.TXTRG /\ r'.RXTRG = tr.RXTRG
    BY <1>3, <1>5 DEF Keeps, RegNames
  <2>2. tr.banked = a.r.banked /\ tr.MCR = a.r.MCR /\ tr.IER = a.r.IER
    BY <1>4 DEF Keeps, RegNames
  <2>3. /\ a.r.banked = Awake.r.banked /\ a.r.MCR = Awake.r.MCR /\ a.r.IER = Awake.r.IER
        /\ a.r.FCTR = Awake.r.FCTR /\ a.r.TXTRG = Awake.r.TXTRG /\ a.r.LCR = Awake.r.LCR
    BY <1>2 DEF Keeps, RegNames
  <2>4. /\ Awake.r.banked = r.banked /\ Awake.r.MCR = r.MCR
        /\ Awake.r.FCTR = r.FCTR /\ Awake.r.TXTRG = r.TXTRG
    BY <1>1 DEF Keeps, RegNames
  <2> QED BY <2>1, <2>2, <2>3, <2>4
<1>7. Silent(r)
  BY <1>0 DEF PortInv, Registered
<1>8. Silent(r')
  <2>1. r'.IER \subseteq {"UUE", "SLEEP"}
    BY <1>1, <1>3, <1>5, <1>6, <1>7 DEF Silent, Bits
  <2>2. "SBC" \notin r'.LCR
    BY <1>1, <1>3, <1>4, <1>5, <1>6, <1>7 DEF Silent
  <2> QED BY <2>1, <2>2, <1>6, <1>7 DEF Silent
<1>9. /\ HasFields(UserNames, user') /\ SameRs485(user') /\ user'.termios = user.termios
      /\ user'.startups \in 0..2
  <2>1. HasFields(UserNames, user) /\ user.startups \in 0..2
    BY DEF PortInv, Shapes
  <2>2. Keeps(Started(user), user, UserNames, {"startups"}) /\ Started(user).startups \in 0..2
    BY <2>1, StartedUser
  <2> QED BY <2>1, <2>2 DEF Keeps, UserNames, SameRs485
<1>10. Board' /\ HasTriggers' /\ Rs485Kept'
  <2>1. CASE granted
    BY <2>1, <1>0, <1>4, <1>6, <1>9, BankKept
  <2>2. CASE ~granted
    <3>0. port.type = TheType
      BY <1>0 DEF PortInv, Shapes
    <3>1. Triggered(r', r, TheType)
      BY <3>0, <2>2, <1>4, <1>6 DEF Triggered
    <3> QED BY <3>1, <2>2, <1>0, <1>6, <1>9, BankTriggered
  <2> QED BY <2>1, <2>2
<1>11. Keeps(port', port, PortNames, {"caps", "mcr"}) /\ port'.open = port.open /\ port'.mcr = {}
  BY <1>2, <1>3 DEF Keeps, PortNames
<1>12. Shapes'
  <2>1. Keeps(port', port, PortNames, PortNames \ {"type", "stage", "mapped"})
    BY <1>11 DEF Keeps
  <2>2. port'.open \in BOOLEAN /\ user'.termios \in Settings /\ port'.mcr \subseteq {"AFE"}
    BY <1>9, <1>11 DEF PortInv, Shapes
  <2> QED BY <1>0, <1>6, <1>9, <2>1, <2>2, ShapesKept
<1>13. Claims'
  <2>1. Keeps(port', port, PortNames, PortNames \ {"type", "stage", "mapped"})
    BY <1>11 DEF Keeps
  <2> QED BY <1>0, <1>11, <2>1, ClaimsKept
<1> QED BY <1>0, <1>8, <1>10, <1>11, <1>12, <1>13, StaysShut

\* What holds of a port in use, and what a call on it that leaves it open keeps.
LEMMA UsedPort ==
  ASSUME PortInv, InUse
  PROVE  /\ port.open /\ ~oops /\ port.stage = "registered" /\ port.type # "unknown"
         /\ SetUp(port, r, user)
         /\ HasFields(RegNames, r) /\ HasFields(PortNames, port) /\ HasFields(UserNames, user)
         /\ port.mcr \subseteq {"AFE"} /\ user.termios \in Settings /\ user.startups \in 0..2
BY DEF InUse, Registered, PortInv, Shapes, Claims

\* A call on a port in use that leaves it set up keeps the invariant.
LEMMA UseKept ==
  ASSUME PortInv, InUse, board' = board, oops' = oops, region' = region, HasFields(RegNames, r'),
         Keeps(port', port, PortNames, PortNames \ {"type", "stage", "mapped", "open"}),
         port'.mcr \subseteq {"AFE"}, HasFields(UserNames, user'), user'.termios \in Settings,
         user'.startups \in 0..2, Board' /\ HasTriggers' /\ Rs485Kept',
         SetUp(port', r', user')
  PROVE  PortInv'
<1>1. port'.open = port.open
  BY DEF Keeps, PortNames
<1>2. Keeps(port', port, PortNames, PortNames \ {"type", "stage", "mapped"})
  BY DEF Keeps
<1>3. Shapes'
  <2>1. port'.open \in BOOLEAN
    BY <1>1 DEF PortInv, Shapes
  <2> QED BY <1>2, <2>1, ShapesKept
<1>4. Claims'
  BY <1>2, UsedPort, ClaimsKept
<1> QED BY <1>1, <1>3, <1>4, UsedPort, StaysOpen

\* New settings replace the old in every register they decide.
LEMMA TermiosKeeps ==
  ASSUME PortInv, SetTermios
  PROVE  PortInv'
<1> PICK t \in Settings :
      /\ LET s == cpscom_do_set_termios(port, r, t) IN port' = s.p /\ r' = s.r
      /\ user' = TermiosDone([user EXCEPT !.crossed = FALSE, !.termios = t])
  BY DEF SetTermios
<1> DEFINE q == cpscom_get_divisor(t.baud)
           w == [user EXCEPT !.crossed = FALSE, !.termios = t]
<1>0. InUse /\ board' = board /\ region' = region /\ oops' = oops
  BY DEF SetTermios
<1>1. /\ Keeps(r', r, RegNames, SetRegs)
      /\ Keeps(port', port, PortNames, {"ier", "ignoreMask", "lcr", "mcr", "readMask"})
      /\ r'.LCR = LcrOf(t) /\ port'.lcr = LcrOf(t)
      /\ r'.FCR = IF "FIFO" \in port.caps THEN FcrOf(port.type, t.baud) ELSE {}
      /\ ~Misses(r, t) =>
           /\ r'.FCTR = r.FCTR /\ r'.RXTRG = r.RXTRG /\ r'.TXTRG = r.TXTRG
           /\ r'.DLL = Byte(q % 256) /\ r'.DLM = Byte(q \div 256)
      /\ r'.MCR = cpscom_set_mctrl(port.mctrl) \cup port'.mcr /\ port'.mcr \subseteq {"AFE"}
      /\ port'.readMask = ReadMask(t) /\ port'.ignoreMask = IgnoreMask(t)
  BY <1>0, UsedPort, TermiosSet
<1>2. /\ HasFields(UserNames, w) /\ w.crossed = FALSE /\ w.termios = t
      /\ w.startups = user.startups /\ SameRs485(w) /\ w.gate = user.gate
  BY <1>0, UsedPort DEF HasFields, UserNames, SameRs485
<1>3. /\ Keeps(user', w, UserNames, {"overwritten", "startups"})
      /\ IF Misses(r, t) THEN user'.overwritten = TRUE /\ user'.startups = 0 ELSE user' = w
  <2>1. user' = TermiosDone(w)
    OBVIOUS
  <2> HIDE DEF w
  <2> QED BY <2>1, <1>2, DoneUser
<1> HIDE DEF w
<1>4. /\ HasFields(UserNames, user') /\ user'.termios = t /\ user'.gate = user.gate
      /\ user'.startups \in 0..2 /\ (~Misses(r, t) => user'.startups = user.startups)
      /\ (Misses(r, t) => user'.startups = 0)
  <2>1. HasFields(UserNames, user') /\ user'.termios = t /\ user'.gate = user.gate
    BY <1>2, <1>3 DEF Keeps, UserNames
  <2>2. user.startups \in 0..2
    BY <1>0, UsedPort
  <2> QED BY <2>1, <2>2, <1>2, <1>3
<1>5. r'.banked = r.banked /\ HasFields(RegNames, r')
  BY <1>1 DEF Keeps, RegNames, SetRegs
<1>6. port'.caps = port.caps /\ port'.type = port.type /\ port'.mctrl = port.mctrl
  BY <1>1 DEF Keeps, PortNames
<1>7. Board' /\ HasTriggers' /\ Rs485Kept'
  <2>1. CASE Misses(r, t)
    BY <2>1, <1>0, <1>3, <1>5, BankMissed
  <2>2. CASE ~Misses(r, t)
    BY <2>2, <1>0, <1>1, <1>2, <1>3, <1>5, BankKept
  <2> QED BY <2>1, <2>2
<1>8. SetUp(port', r', user')
  <2>1. "FIFO" \notin uart_config[port.type].caps => FcrOf(port.type, t.baud) = {}
    BY DEF FcrOf
  <2>2. port.caps = uart_config[port.type].caps
        /\ (port.type = "CPS16550A" /\ user.startups >= 1 => r.RXTRG = Level)
        /\ (user.gate => "OUT2" \in port.mctrl)
    BY <1>0, UsedPort DEF SetUp
  <2>3. r'.FCR = FcrOf(port'.type, user'.termios.baud)
    BY <1>1, <1>4, <1>6, <2>1, <2>2
  <2>4. r'.LCR \ {"SBC"} = LcrOf(user'.termios) /\ "SBC" \notin r'.LCR
    BY <1>1, <1>4, LcrBits
  <2>5. Misses(r', user'.termios) <=> Misses(r, t)
    BY <1>4, <1>5 DEF Misses
  <2>6. ~Misses(r', user'.termios) =>
          LET n == cpscom_get_divisor(user'.termios.baud)
          IN r'.DLL = Byte(n % 256) /\ r'.DLM = Byte(n \div 256)
    BY <1>1, <1>4, <2>5
  <2>7. port'.type = "CPS16550A" /\ user'.startups >= 1 => r'.RXTRG = Level
    BY <1>1, <1>4, <1>6, <2>2
  <2>8. port'.readMask = ReadMask(user'.termios) /\ port'.ignoreMask = IgnoreMask(user'.termios)
    BY <1>1, <1>4
  <2> QED BY <1>1, <1>4, <1>6, <2>2, <2>3, <2>4, <2>6, <2>7, <2>8 DEF SetUp
<1>9. Keeps(port', port, PortNames, PortNames \ {"type", "stage", "mapped", "open"})
  BY <1>1 DEF Keeps, PortNames
<1> QED BY <1>0, <1>1, <1>4, <1>5, <1>7, <1>8, <1>9, UseKept

\* A break changes one bit of LCR.
LEMMA BreakKeeps ==
  ASSUME PortInv, NEW on \in BOOLEAN, cpscom_break_ctl(on)
  PROVE  PortInv'
<1> DEFINE lcr == (port.lcr \ {"SBC"}) \cup Bits("SBC", on)
<1>0. /\ InUse /\ board' = board /\ region' = region /\ oops' = oops
      /\ port' = [port EXCEPT !.lcr = lcr] /\ r' = [r EXCEPT !.LCR = lcr]
      /\ user' = [user EXCEPT !.break = on]
  BY DEF cpscom_break_ctl
<1>1. lcr \ {"SBC"} = port.lcr \ {"SBC"} /\ ("SBC" \in lcr => on)
  BY DEF Bits
<1> HIDE DEF lcr
<1>2. Keeps(r', r, RegNames, {"LCR"}) /\ r'.LCR = lcr
  BY <1>0, UsedPort DEF Keeps, HasFields, RegNames
<1>3. Keeps(port', port, PortNames, {"lcr"}) /\ port'.lcr = lcr
  BY <1>0, UsedPort DEF Keeps, HasFields, PortNames
<1>4. Keeps(user', user, UserNames, {"break"}) /\ user'.break = on
  BY <1>0, UsedPort DEF Keeps, HasFields, UserNames
<1>5. /\ HasFields(UserNames, user') /\ user'.termios = user.termios /\ user'.crossed = user.crossed
      /\ user'.startups = user.startups /\ SameRs485(user') /\ user'.gate = user.gate
  BY <1>4 DEF Keeps, UserNames, SameRs485
<1>6. /\ r'.banked = r.banked /\ r'.FCTR = r.FCTR /\ r'.TXTRG = r.TXTRG /\ r'.RXTRG = r.RXTRG
      /\ HasFields(RegNames, r') /\ r'.FCR = r.FCR /\ r'.MCR = r.MCR
      /\ r'.DLL = r.DLL /\ r'.DLM = r.DLM
  BY <1>2 DEF Keeps, RegNames
<1>7. /\ port'.caps = port.caps /\ port'.type = port.type /\ port'.mctrl = port.mctrl
      /\ port'.mcr = port.mcr /\ port'.readMask = port.readMask
      /\ port'.ignoreMask = port.ignoreMask
  BY <1>3 DEF Keeps, PortNames
<1>8. Board' /\ HasTriggers' /\ Rs485Kept'
  BY <1>0, <1>5, <1>6, BankKept
<1>9. SetUp(port', r', user')
  BY <1>0, <1>1, <1>2, <1>3, <1>4, <1>5, <1>6, <1>7, UsedPort DEF SetUp, Misses
<1>10. Keeps(port', port, PortNames, PortNames \ {"type", "stage", "mapped", "open"})
  BY <1>3 DEF Keeps, PortNames
<1> QED BY <1>0, <1>5, <1>6, <1>7, <1>8, <1>9, <1>10, UsedPort, UseKept

\* The modem lines change MCR; OUT2 goes with the gate.
LEMMA ModemKeeps ==
  ASSUME PortInv, NEW lines \in {"RTS", "OUT2"}, NEW on \in BOOLEAN, SetModem(lines, on)
  PROVE  PortInv'
<1> DEFINE mctrl == (port.mctrl \ {lines}) \cup Bits(lines, on)
           s == SetMctrl(port, r, mctrl)
           gate == IF lines = "OUT2" THEN on ELSE user.gate
<1>0. /\ InUse /\ board' = board /\ region' = region /\ oops' = oops
      /\ port' = s.p /\ r' = s.r /\ user' = [user EXCEPT !.gate = gate]
  <2>1. user' = [user EXCEPT !.gate = gate]
    BY UsedPort DEF SetModem, HasFields, UserNames
  <2> QED BY <2>1 DEF SetModem
<1>1. gate /\ (user.gate => "OUT2" \in port.mctrl) => "OUT2" \in mctrl
  BY DEF Bits
<1> HIDE DEF mctrl, gate
<1>2. /\ Keeps(s.r, r, RegNames, {"MCR"}) /\ Keeps(s.p, port, PortNames, {"mctrl"})
      /\ s.p.mctrl = mctrl /\ s.r.MCR = cpscom_set_mctrl(mctrl) \cup port.mcr
  BY <1>0, UsedPort, MctrlSet
<1> HIDE DEF s
<1>3. Keeps(user', user, UserNames, {"gate"}) /\ user'.gate = gate
  BY <1>0, UsedPort DEF Keeps, HasFields, UserNames
<1>4. /\ HasFields(UserNames, user') /\ user'.termios = user.termios /\ user'.crossed = user.crossed
      /\ user'.startups = user.startups /\ SameRs485(user') /\ user'.break = user.break
  BY <1>3 DEF Keeps, UserNames, SameRs485
<1>5. /\ r'.banked = r.banked /\ r'.FCTR = r.FCTR /\ r'.TXTRG = r.TXTRG /\ r'.RXTRG = r.RXTRG
      /\ HasFields(RegNames, r') /\ r'.FCR = r.FCR /\ r'.LCR = r.LCR
      /\ r'.DLL = r.DLL /\ r'.DLM = r.DLM
  BY <1>0, <1>2 DEF Keeps, RegNames
<1>6. /\ port'.caps = port.caps /\ port'.type = port.type /\ port'.lcr = port.lcr
      /\ port'.mcr = port.mcr /\ port'.readMask = port.readMask
      /\ port'.ignoreMask = port.ignoreMask
  BY <1>0, <1>2 DEF Keeps, PortNames
<1>7. Board' /\ HasTriggers' /\ Rs485Kept'
  BY <1>0, <1>4, <1>5, BankKept
<1>8. SetUp(port', r', user')
  BY <1>0, <1>1, <1>2, <1>3, <1>4, <1>5, <1>6, UsedPort DEF SetUp, Misses
<1>9. Keeps(port', port, PortNames, PortNames \ {"type", "stage", "mapped", "open"})
  BY <1>0, <1>2 DEF Keeps, PortNames
<1> QED BY <1>0, <1>4, <1>5, <1>6, <1>7, <1>8, <1>9, UsedPort, UseKept

\* With the bank of FCTR, FCTR is what the two calls read.
LEMMA FctrRead ==
  ASSUME HasFields(RegNames, r), r.banked
  PROVE  In(Fctr, "IER") = r.FCTR
<1>1. Keeps(Fctr, r, RegNames, {"LCR"}) /\ Fctr.LCR = ModeB
  BY DEF Fctr, Keeps, HasFields, RegNames
<1>2. Fctr.banked /\ Fctr.FCTR = r.FCTR
  BY <1>1 DEF Keeps, RegNames
<1>3. Behind(Fctr, "IER") = "FCTR"
  BY <1>1, <1>2 DEF Behind
<1> QED BY <1>2, <1>3 DEF In

\* Asking for RS-485 changes no register, and tells what is in FCTR.
LEMMA AskKeeps ==
  ASSUME PortInv, TIOCGRS485
  PROVE  PortInv'
<1> DEFINE got == UART_FCTR_RS485 \in In(Fctr, "IER")
<1>0. /\ InUse /\ board' = board /\ region' = region /\ oops' = oops
      /\ port' = port /\ r' = r /\ user' = [user EXCEPT !.got = got]
  BY DEF TIOCGRS485
<1>1. r.banked => (got <=> UART_FCTR_RS485 \in r.FCTR)
  BY <1>0, UsedPort, FctrRead
<1> HIDE DEF got
<1>2. Keeps(user', user, UserNames, {"got"}) /\ user'.got = got
  BY <1>0, UsedPort DEF Keeps, HasFields, UserNames
<1>3. /\ HasFields(UserNames, user') /\ user'.termios = user.termios /\ user'.crossed = user.crossed
      /\ user'.startups = user.startups /\ user'.rs485 = user.rs485 /\ user'.break = user.break
      /\ user'.gate = user.gate /\ user'.overwritten = user.overwritten
  BY <1>2 DEF Keeps, UserNames
<1>4. Board' /\ HasTriggers' /\ Rs485Kept'
  <2>1. TheType' = TheType
    BY <1>0 DEF TheType
  <2>2. Rs485Kept'
    BY <1>0, <1>1, <1>2, <1>3 DEF PortInv, Rs485Kept
  <2> QED BY <2>1, <2>2, <1>0, <1>3 DEF PortInv, Board, HasTriggers
<1>5. SetUp(port', r', user')
  BY <1>0, <1>3, UsedPort DEF SetUp
<1>6. Keeps(port', port, PortNames, PortNames \ {"type", "stage", "mapped", "open"})
  BY <1>0, UsedPort DEF Keeps
<1> QED BY <1>0, <1>3, <1>4, <1>5, <1>6, UsedPort, UseKept

\* Switching RS-485 leaves LCR, and the level for sending selected.
LEMMA Rs485Keeps ==
  ASSUME PortInv, NEW on \in BOOLEAN, TIOCSRS485(on)
  PROVE  PortInv'
<1> DEFINE now == IF on THEN {UART_FCTR_RS485} ELSE {}
           fctr == (In(Fctr, "IER") \ {UART_FCTR_RS485}) \cup now
           y == Out(Fctr, "IER", fctr)
           cross == user.crossed \/ ~r.banked
<1>0. /\ InUse /\ board' = board /\ region' = region /\ oops' = oops /\ port' = port
      /\ r' = [y EXCEPT !.IER = port.ier, !.LCR = r.LCR]
      /\ user' = [user EXCEPT !.crossed = cross, !.got = on, !.overwritten = FALSE, !.rs485 = on]
  <2>1. [user EXCEPT !.crossed = @ \/ ~r.banked, !.got = on, !.overwritten = FALSE, !.rs485 = on]
          = [user EXCEPT !.crossed = cross, !.got = on, !.overwritten = FALSE, !.rs485 = on]
    BY UsedPort DEF TIOCSRS485
  <2> QED BY <2>1 DEF TIOCSRS485
<1>1. (cross => user.crossed \/ ~r.banked) /\ (~cross => r.banked /\ ~user.crossed)
  OBVIOUS
<1> HIDE DEF cross
<1>2. /\ Keeps(user', user, UserNames, {"crossed", "got", "overwritten", "rs485"})
      /\ user'.crossed = cross /\ user'.rs485 = on /\ user'.got = on
  BY <1>0, UsedPort DEF Keeps, HasFields, UserNames
<1>3. /\ HasFields(UserNames, user') /\ user'.termios = user.termios /\ user'.gate = user.gate
      /\ user'.startups = user.startups /\ user'.break = user.break
  BY <1>2 DEF Keeps, UserNames
<1>4. Keeps(Fctr, r, RegNames, {"LCR"}) /\ Fctr.LCR = ModeB
  BY <1>0, UsedPort DEF Fctr, Keeps, HasFields, RegNames
<1>5. "DLAB" \in ModeB /\ UART_FCTR_RS485 # UART_FCTR_TX
  BY DEF ModeB, UART_FCTR_RS485, UART_FCTR_TX
<1>6. (UART_FCTR_RS485 \in fctr <=> on)
      /\ (UART_FCTR_TX \in In(Fctr, "IER") => UART_FCTR_TX \in fctr)
  BY <1>5
<1>7. /\ Keeps(y, Fctr, RegNames, {IF r.banked THEN "FCTR" ELSE "DLM"})
      /\ y[IF r.banked THEN "FCTR" ELSE "DLM"] = fctr
  <2>1. HasFields(RegNames, Fctr) /\ Fctr.banked = r.banked
    BY <1>4 DEF Keeps, RegNames
  <2> HIDE DEF fctr
  <2> QED BY <1>4, <1>5, <2>1, OutIER
<1>8. r.banked => In(Fctr, "IER") = r.FCTR
  BY <1>0, UsedPort, FctrRead
<1> HIDE DEF fctr, y
<1>9. Keeps(r', y, RegNames, {"IER", "LCR"}) /\ r'.LCR = r.LCR
  BY <1>0, <1>7 DEF Keeps, HasFields, RegNames
<1>10. Keeps(r', r, RegNames, {"IER", "FCTR", "DLM"})
  <2>1. Keeps(y, r, RegNames, {"LCR", "FCTR", "DLM"})
    BY <1>4, <1>7 DEF Keeps
  <2> QED BY <2>1, <1>9 DEF Keeps
<1>11. /\ r'.banked = r.banked /\ r'.TXTRG = r.TXTRG /\ r'.RXTRG = r.RXTRG
       /\ HasFields(RegNames, r') /\ r'.FCR = r.FCR /\ r'.MCR = r.MCR /\ r'.DLL = r.DLL
  BY <1>10 DEF Keeps, RegNames
<1>12. IF r.banked THEN r'.FCTR = fctr /\ r'.DLM = r.DLM ELSE r'.FCTR = r.FCTR
  <2>1. r'.FCTR = y.FCTR /\ r'.DLM = y.DLM /\ Fctr.FCTR = r.FCTR /\ Fctr.DLM = r.DLM
    BY <1>4, <1>9 DEF Keeps, RegNames
  <2>2. CASE r.banked
    BY <2>1, <2>2, <1>7 DEF Keeps, RegNames
  <2>3. CASE ~r.banked
    BY <2>1, <2>3, <1>7 DEF Keeps, RegNames
  <2> QED BY <2>2, <2>3
<1>13. Board' /\ HasTriggers' /\ Rs485Kept'
  <2>1. TheType' = TheType
    BY <1>0 DEF TheType
  <2>2. Rs485Kept'
    BY <1>2, <1>6, <1>11, <1>12 DEF Rs485Kept
  <2>3. UART_FCTR_TX \in r.FCTR => UART_FCTR_TX \in r'.FCTR
    BY <1>6, <1>8, <1>12
  <2>4. HasTriggers'
    BY <2>1, <2>3, <1>3, <1>11 DEF PortInv, HasTriggers
  <2> QED BY <2>2, <2>4, <1>0, <1>11 DEF PortInv, Board
<1>14. SetUp(port', r', user')
  <2>1. ~user'.crossed => ~user.crossed /\ r'.DLM = r.DLM
    BY <1>1, <1>2, <1>12
  <2> QED BY <2>1, <1>0, <1>3, <1>9, <1>11, UsedPort DEF SetUp, Misses
<1>15. Keeps(port', port, PortNames, PortNames \ {"type", "stage", "mapped", "open"})
  BY <1>0, UsedPort DEF Keeps
<1> QED BY <1>0, <1>3, <1>11, <1>13, <1>14, <1>15, UsedPort, UseKept

\* Closing leaves the port silent and its bank alone.
LEMMA CloseKeeps ==
  ASSUME PortInv, ClosePort
  PROVE  PortInv'
<1> DEFINE s == cpscom_shutdown(port, r)
           y == cpscom_set_sleep(s.p.caps, s.r, TRUE)
<1>0. /\ InUse /\ board' = board /\ region' = region /\ oops' = oops /\ port' = s.p /\ r' = y
      /\ user' = [user EXCEPT !.break = FALSE]
  BY DEF ClosePort
<1>1. /\ Keeps(s.r, r, RegNames, {"EFR", "FCR", "IER", "LCR", "MCR"})
      /\ s.r.IER = {} /\ "SBC" \notin s.r.LCR /\ "OUT2" \notin s.r.MCR
      /\ Keeps(s.p, port, PortNames, {"ier", "mctrl", "open"}) /\ s.p.open = FALSE
  BY <1>0, UsedPort, Shuts
<1> HIDE DEF s
<1>2. /\ Keeps(y, s.r, RegNames, {"FCR", "EFR", "IER", "LCR"})
      /\ y.IER \in {s.r.IER, Bits("SLEEP", TRUE)} /\ y.LCR \in {s.r.LCR, {}}
  BY <1>1, Sleeps DEF Keeps
<1> HIDE DEF y
<1>3. /\ r'.banked = r.banked /\ r'.FCTR = r.FCTR /\ r'.TXTRG = r.TXTRG /\ HasFields(RegNames, r')
      /\ y.MCR = s.r.MCR
  BY <1>0, <1>1, <1>2 DEF Keeps, RegNames
<1>4. Silent(r')
  BY <1>0, <1>1, <1>2, <1>3 DEF Silent, Bits
<1>5. /\ HasFields(UserNames, user') /\ user'.termios = user.termios
      /\ user'.startups = user.startups /\ SameRs485(user')
  BY <1>0, UsedPort DEF HasFields, UserNames, SameRs485
<1>6. Board' /\ HasTriggers' /\ Rs485Kept'
  BY <1>0, <1>3, <1>5, BankKept
<1>7. Keeps(port', port, PortNames, PortNames \ {"type", "stage", "mapped"})
      /\ port'.open = FALSE /\ port'.mcr = port.mcr
  BY <1>0, <1>1 DEF Keeps, PortNames
<1>8. Shapes'
  <2>1. port'.open \in BOOLEAN
    BY <1>7
  <2> QED BY <1>0, <1>3, <1>5, <1>7, <2>1, UsedPort, ShapesKept
<1>9. Claims'
  BY <1>0, <1>7, ClaimsKept
<1> QED BY <1>4, <1>6, <1>7, <1>8, <1>9, StaysShut

\* Unloading lets the registers go and leaves what is in them.
LEMMA RemoveKeeps ==
  ASSUME PortInv, cpscom_remove
  PROVE  PortInv'
<1>0. /\ ~oops /\ port.stage = "registered" /\ ~port.open
      /\ region' = (IF HasLine THEN "none" ELSE region) /\ port' = Blank
      /\ board' = board /\ r' = r /\ user' = user /\ oops' = oops
  BY DEF cpscom_remove
<1>1. /\ HasFields(PortNames, Blank) /\ Blank.type = "unknown" /\ Blank.mcr = {}
      /\ Blank.open = FALSE /\ Blank.stage = "absent"
  BY DEF Blank, HasFields, PortNames
<1>2. Board' /\ HasTriggers' /\ Rs485Kept'
  BY <1>0, BankKept DEF SameRs485
<1>3. Shapes'
  <2>1. TheType' = TheType /\ port'.open \in BOOLEAN
    BY <1>0, <1>1 DEF TheType
  <2> QED BY <1>0, <1>1, <2>1 DEF PortInv, Shapes
<1>4. Claims'
  <2>1. ~HasLine => region # "us"
    BY <1>0 DEF PortInv, Claims
  <2> QED BY <1>0, <1>1, <2>1 DEF Claims
<1> QED BY <1>0, <1>1, <1>2, <1>3, <1>4, StaysShut DEF PortInv

\* Other drivers claim only what is free.
LEMMA OthersKeep ==
  ASSUME PortInv, OtherClaims \/ OtherReleases
  PROVE  PortInv'
<1>0. /\ board' = board /\ r' = r /\ user' = user /\ oops' = oops /\ port' = port
      /\ region \in {"none", "other"} /\ region' \in {"none", "other"}
  BY DEF OtherClaims, OtherReleases
<1>1. Board' /\ HasTriggers' /\ Rs485Kept'
  BY <1>0, BankKept DEF SameRs485
<1>2. Shapes'
  <2>1. TheType' = TheType
    BY <1>0 DEF TheType
  <2> QED BY <1>0, <2>1 DEF PortInv, Shapes
<1>3. Claims'
  <2>1. HasLine' <=> HasLine
    BY <1>0 DEF HasLine
  <2> QED BY <1>0, <2>1 DEF PortInv, Claims
<1> QED BY <1>0, <1>1, <1>2, <1>3 DEF PortInv

\* A port that is probed again has been shut and let go: no register of it is
\* mapped, and its lines are quiet.
LetGo ==
  LET shut == IF port.open THEN cpscom_shutdown(port, r) ELSE [p |-> port, r |-> r]
      s    == State(shut.p, shut.r, region, FALSE)
  IN IF port.type = "unknown" THEN s ELSE cpscom_release_std_resource(s)

\* Such a port is closed and silent and its bank is as it was.
LEMMA IsLetGo ==
  ASSUME PortInv, Registered, port.open \/ port.type = "unknown"
  PROVE  /\ HasFields(StateNames, LetGo) /\ HasFields(RegNames, LetGo.r)
         /\ Keeps(LetGo.p, port, PortNames, {"ier", "mctrl", "open", "mapped"})
         /\ LetGo.p.open = FALSE /\ ~LetGo.p.mapped /\ LetGo.bad = FALSE /\ LetGo.region # "us"
         /\ Silent(LetGo.r) /\ LetGo.r.banked = r.banked /\ LetGo.r.FCTR = r.FCTR
         /\ LetGo.r.TXTRG = r.TXTRG
<1> DEFINE d == cpscom_shutdown(port, r)
           shut == IF port.open THEN d ELSE [p |-> port, r |-> r]
           s == State(shut.p, shut.r, region, FALSE)
<1>1. /\ HasFields(RegNames, r) /\ HasFields(PortNames, port) /\ port.mcr \subseteq {"AFE"}
      /\ ~oops /\ port.stage = "registered"
  BY DEF PortInv, Shapes, Registered
<1>2. /\ Keeps(d.r, r, RegNames, {"EFR", "FCR", "IER", "LCR", "MCR"})
      /\ d.r.IER = {} /\ "SBC" \notin d.r.LCR /\ "OUT2" \notin d.r.MCR
      /\ Keeps(d.p, port, PortNames, {"ier", "mctrl", "open"}) /\ d.p.open = FALSE
  BY <1>1, Shuts
<1> HIDE DEF d
<1>3. /\ HasFields(RegNames, shut.r) /\ Silent(shut.r) /\ shut.r.banked = r.banked
      /\ shut.r.FCTR = r.FCTR /\ shut.r.TXTRG = r.TXTRG
      /\ Keeps(shut.p, port, PortNames, {"ier", "mctrl", "open"}) /\ shut.p.open = FALSE
  <2>1. CASE port.open
    <3>1. shut = d
      BY <2>1
    <3> HIDE DEF shut
    <3> QED BY <3>1, <1>2 DEF Keeps, RegNames, Silent
  <2>2. CASE ~port.open
    <3>1. shut.p = port /\ shut.r = r
      BY <2>2
    <3>2. port.open = FALSE /\ Silent(r)
      BY <2>2, <1>1 DEF PortInv, Shapes
    <3> HIDE DEF shut
    <3> QED BY <3>1, <3>2, <1>1 DEF Keeps
  <2> QED BY <2>1, <2>2
<1> HIDE DEF shut
<1>4. /\ HasFields(StateNames, s) /\ s.p = shut.p /\ s.r = shut.r /\ s.region = region
      /\ s.bad = FALSE
  BY DEF State, HasFields, StateNames
<1>5. LetGo = IF port.type = "unknown" THEN s ELSE cpscom_release_std_resource(s)
  BY DEF LetGo, shut, d
<1> HIDE DEF s
<1>6. CASE port.type = "unknown"
  <2>1. region # "us" /\ ~port.mapped
    BY <1>1, <1>6 DEF PortInv, Claims
  <2>2. ~shut.p.mapped
    BY <2>1, <1>3 DEF Keeps, PortNames
  <2> QED BY <2>1, <2>2, <1>3, <1>4, <1>5, <1>6 DEF Keeps
<1>7. CASE port.type # "unknown"
  <2> DEFINE l == cpscom_release_std_resource(s)
  <2>1. /\ HasFields(StateNames, l) /\ l.r = shut.r /\ l.region = "none" /\ l.bad = FALSE
        /\ l.p = [shut.p EXCEPT !.mapped = FALSE]
    BY <1>4 DEF cpscom_release_std_resource, HasFields, StateNames
  <2>2. LetGo = l
    BY <1>5, <1>7
  <2> HIDE DEF l
  <2>3. Keeps(l.p, shut.p, PortNames, {"mapped"}) /\ l.p.mapped = FALSE
    BY <2>1, <1>3 DEF Keeps, HasFields, PortNames
  <2>4. Keeps(l.p, port, PortNames, {"ier", "mctrl", "open", "mapped"}) /\ l.p.open = FALSE
    BY <2>3, <1>3 DEF Keeps, PortNames
  <2> QED BY <2>1, <2>2, <2>3, <2>4, <1>3
<1> QED BY <1>6, <1>7

\* Probed again, the port is left without its registers or set up anew.
LEMMA ReprobeKeeps ==
  ASSUME PortInv, Reprobe
  PROVE  PortInv'
<1> DEFINE w == [user EXCEPT !.break = FALSE, !.crossed = FALSE, !.gate = TRUE]
<1> PICK memory \in Memory :
      LET t == cpscom_config_port(LetGo, memory)
      IN Become(IF t.bad \/ t.p.type = "unknown" THEN t
                ELSE IF ~t.p.mapped THEN [t EXCEPT !.bad = TRUE]
                ELSE uart_startup(t))
  BY DEF Reprobe, LetGo
<1> DEFINE t == cpscom_config_port(LetGo, memory)
           up == uart_startup(t)
<1>0. /\ Registered /\ (port.open \/ port.type = "unknown") /\ board' = board
      /\ user' = IF port'.open THEN TermiosDone(Started(w)) ELSE w
  BY DEF Reprobe
<1>1. /\ HasFields(StateNames, LetGo) /\ HasFields(RegNames, LetGo.r)
      /\ Keeps(LetGo.p, port, PortNames, {"ier", "mctrl", "open", "mapped"})
      /\ LetGo.p.open = FALSE /\ ~LetGo.p.mapped /\ LetGo.bad = FALSE /\ LetGo.region # "us"
      /\ Silent(LetGo.r) /\ LetGo.r.banked = r.banked /\ LetGo.r.FCTR = r.FCTR
      /\ LetGo.r.TXTRG = r.TXTRG
  BY <1>0, IsLetGo
<1>2. /\ HasFields(UserNames, w) /\ w.startups = user.startups /\ SameRs485(w)
      /\ w.termios = user.termios
  BY DEF PortInv, Shapes, HasFields, UserNames, SameRs485
<1> HIDE DEF w
<1>3. /\ HasFields(PortNames, LetGo.p) /\ LetGo.p.type = port.type /\ LetGo.p.mcr = port.mcr
      /\ LetGo.p.stage = port.stage
  BY <1>1 DEF Keeps, PortNames
<1>4. /\ port.type \in {"unknown", TheType} /\ port.mcr \subseteq {"AFE"}
      /\ user.termios \in Settings /\ user.startups \in 0..2 /\ ~oops /\ HasLine
      /\ port.stage = "registered" /\ board.answers.iir \in 0..3
  BY <1>0, AnswersKnown DEF PortInv, Shapes, Board, Registered
<1>5. /\ ~Granted(LetGo, memory) => t = LetGo
      /\ Keeps(t.r, LetGo.r, RegNames, {"EFR", "FCR", "IER"})
      /\ t.r.IER \subseteq LetGo.r.IER \cup {"UUE"}
      /\ Keeps(t.p, LetGo.p, PortNames, {"caps", "mapped", "type"})
      /\ t.p.type \in {"unknown", TheType} /\ (t.bad \in BOOLEAN \/ t = LetGo)
      /\ t.bad => t.p.type = LetGo.p.type
      /\ Granted(LetGo, memory) /\ ~t.bad =>
           /\ t.region = IF t.p.type = "unknown" THEN "none" ELSE "us"
           /\ t.p.mapped <=> t.p.type # "unknown"
  <2>1. LetGo.p.type \in {"unknown", TheType}
    BY <1>3, <1>4
  <2> QED BY <1>1, <1>3, <1>4, <2>1, Configures
<1>6. HasFields(StateNames, t)
  BY <1>1, ConfiguresShape
<1> HIDE DEF t
<1>7. /\ HasFields(PortNames, t.p) /\ HasFields(RegNames, t.r) /\ t.p.open = FALSE
      /\ t.p.mcr \subseteq {"AFE"} /\ t.p.stage = "registered" /\ Silent(t.r)
      /\ t.r.banked = r.banked /\ t.r.FCTR = r.FCTR /\ t.r.TXTRG = r.TXTRG /\ t.bad \in BOOLEAN
  <2>1. t.bad \in BOOLEAN
    BY <1>1, <1>5
  <2>2. t.p.open = FALSE /\ t.p.mcr \subseteq {"AFE"} /\ t.p.stage = "registered"
    BY <1>1, <1>3, <1>4, <1>5 DEF Keeps, PortNames
  <2>3. Silent(t.r)
    BY <1>1, <1>5 DEF Keeps, RegNames, Silent
  <2>4. t.r.banked = r.banked /\ t.r.FCTR = r.FCTR /\ t.r.TXTRG = r.TXTRG
    BY <1>1, <1>5 DEF Keeps, RegNames
  <2> QED BY <2>1, <2>2, <2>3, <2>4, <1>5 DEF Keeps
<1>8. TheType' = TheType /\ (HasLine' <=> HasLine)
  BY <1>0 DEF TheType, HasLine
<1>9. CASE t.bad \/ t.p.type = "unknown" \/ ~t.p.mapped
  <2>1. /\ port' = t.p /\ r' = t.r /\ region' = t.region
        /\ oops' = (t.bad \/ (t.p.type # "unknown" /\ ~t.p.mapped))
    <3>1. [t EXCEPT !.bad = TRUE].p = t.p /\ [t EXCEPT !.bad = TRUE].r = t.r
          /\ [t EXCEPT !.bad = TRUE].region = t.region /\ [t EXCEPT !.bad = TRUE].bad = TRUE
      BY <1>6 DEF HasFields, StateNames
    <3>2. t.bad \in BOOLEAN
      BY <1>7
    <3>3. CASE t.bad \/ t.p.type = "unknown"
      <4>1. Become(t)
        BY <3>3 DEF t
      <4> QED BY <4>1, <3>2, <3>3 DEF Become
    <3>4. CASE ~t.bad /\ t.p.type # "unknown"
      <4>1. Become([t EXCEPT !.bad = TRUE])
        BY <1>9, <3>4 DEF t
      <4> QED BY <4>1, <3>1, <3>4, <1>9 DEF Become
    <3> QED BY <3>3, <3>4
  <2>2. user' = w /\ port'.open = FALSE
    BY <2>1, <1>0, <1>7
  <2>3. Board' /\ HasTriggers' /\ Rs485Kept'
    BY <2>1, <2>2, <1>0, <1>2, <1>7, BankKept
  <2>4. Shapes'
    <3>1. oops' \in BOOLEAN /\ port'.open \in BOOLEAN
      BY <2>1, <2>2
    <3> QED BY <3>1, <2>1, <2>2, <1>2, <1>4, <1>5, <1>7, <1>8 DEF Shapes
  <2>5. Claims'
    <3>1. CASE ~Granted(LetGo, memory)
      <4>1. t.region # "us" /\ ~t.p.mapped /\ port'.stage = "registered"
        BY <3>1, <1>1, <1>5, <1>7, <2>1
      <4> QED BY <4>1, <2>1, <2>2, <1>4, <1>8 DEF Claims
    <3>2. CASE Granted(LetGo, memory)
      <4>1. port'.stage = "registered"
        BY <2>1, <1>7
      <4> QED BY <3>2, <4>1, <2>1, <2>2, <1>4, <1>5, <1>8, <1>9 DEF Claims
    <3> QED BY <3>1, <3>2
  <2> QED BY <2>1, <2>2, <2>3, <2>4, <2>5, <1>7, StaysShut
<1>10. CASE ~t.bad /\ t.p.type # "unknown" /\ t.p.mapped
  <2>1. port' = up.p /\ r' = up.r /\ region' = up.region /\ oops' = up.bad
    <3>1. Become(up)
      BY <1>10 DEF t
    <3> QED BY <3>1 DEF Become
  <2>2. t.p.type = TheType /\ t.region = "us" /\ t.bad = FALSE
    <3>1. Granted(LetGo, memory)
      BY <1>1, <1>5, <1>10
    <3> QED BY <3>1, <1>5, <1>7, <1>10
  <2>3. t.p.type = "CPS16550A" => t.r.banked
    BY <2>2, <1>7, TriggersAreBanked
  <2>4. /\ up.region = t.region /\ up.bad = t.bad
        /\ HasFields(RegNames, up.r) /\ up.r.banked = t.r.banked
        /\ ~Misses(t.r, user.termios) => Triggered(up.r, t.r, t.p.type)
        /\ Keeps(up.p, t.p, PortNames, PortStarts \cup {"ignoreMask", "lcr", "readMask", "open"})
        /\ up.p.open = TRUE /\ up.p.mcr \subseteq {"AFE"}
        /\ \A v : v.termios = user.termios /\ (Misses(t.r, user.termios) => v.startups = 0)
                    => SetUp(up.p, up.r, v)
    BY <2>3, <1>4, <1>7, CoreStarts
  <2> HIDE DEF up
  <2>5. /\ r'.banked = r.banked /\ (Misses(t.r, user.termios) <=> Misses(r, user.termios))
        /\ ~Misses(r, user.termios) => Triggered(r', r, TheType)
    <3>1. r'.banked = r.banked /\ (Misses(t.r, user.termios) <=> Misses(r, user.termios))
      BY <2>1, <2>4, <1>7 DEF Misses
    <3> QED BY <3>1, <2>1, <2>2, <2>4, <1>7 DEF Triggered
  <2>6. user' = TermiosDone(Started(w))
    BY <2>1, <2>4, <1>0
  <2>7. /\ HasFields(UserNames, user') /\ user'.termios = user.termios
        /\ user'.startups \in 0..2 /\ (Misses(r, user.termios) => user'.startups = 0)
        /\ Board' /\ HasTriggers' /\ Rs485Kept'
    BY <2>5, <2>6, <1>0, <1>2, BankStarted
  <2>8. port'.open = TRUE /\ port'.type = TheType /\ port'.mapped = t.p.mapped
        /\ port'.stage = "registered" /\ HasFields(PortNames, port')
    BY <2>1, <2>2, <2>4, <1>7 DEF Keeps, PortNames, PortStarts
  <2>9. Shapes'
    <3>1. oops' \in BOOLEAN /\ port'.open \in BOOLEAN
      BY <2>1, <2>2, <2>4, <2>8
    <3> QED BY <3>1, <2>1, <2>4, <2>7, <2>8, <1>4, <1>8 DEF Shapes
  <2>10. Claims'
    <3>1. region' = "us" /\ oops' = FALSE /\ port'.type # "unknown" /\ port'.mapped
      BY <2>1, <2>2, <2>4, <2>8, <1>10
    <3> QED BY <3>1, <2>8, <1>4, <1>8 DEF Claims
  <2>11. SetUp(port', r', user')
    BY <2>1, <2>4, <2>5, <2>7
  <2> QED BY <2>7, <2>8, <2>9, <2>10, <2>11, StaysOpen
<1> QED BY <1>9, <1>10

\* PortInv is inductive: every call of the core, of a program and of whoever
\* else claims the registers preserves it.
LEMMA PortStep == PortInv /\ [PortNext]_portVars => PortInv'
<1> SUFFICES ASSUME PortInv, [PortNext]_portVars PROVE PortInv'
  OBVIOUS
<1>1. CASE cpscom_init
  BY <1>1, LoadKeeps
<1>2. CASE OpenPort
  BY <1>2, OpenKeeps
<1>3. CASE OpenRefused
  BY <1>3, RefusedKeeps
<1>4. CASE SetTermios
  BY <1>4, TermiosKeeps
<1>5. CASE TIOCGRS485
  BY <1>5, AskKeeps
<1>6. ASSUME NEW on \in BOOLEAN, cpscom_break_ctl(on) PROVE PortInv'
  BY <1>6, BreakKeeps
<1>7. ASSUME NEW on \in BOOLEAN, TIOCSRS485(on) PROVE PortInv'
  BY <1>7, Rs485Keeps
<1>8. ASSUME NEW on \in BOOLEAN, NEW lines \in {"RTS", "OUT2"}, SetModem(lines, on) PROVE PortInv'
  BY <1>8, ModemKeeps
<1>9. CASE ClosePort
  BY <1>9, CloseKeeps
<1>10. CASE Reprobe
  BY <1>10, ReprobeKeeps
<1>11. CASE cpscom_remove
  BY <1>11, RemoveKeeps
<1>12. CASE OtherClaims \/ OtherReleases
  BY <1>12, OthersKeep
<1>13. CASE UNCHANGED portVars
  <2>1. /\ board' = board /\ region' = region /\ port' = port /\ r' = r /\ user' = user
        /\ oops' = oops
    BY <1>13 DEF portVars
  <2>2. (TheType' = TheType) /\ (HasLine' <=> HasLine)
    BY <2>1 DEF TheType, HasLine
  <2>3. Shapes' /\ Claims'
    BY <2>1, <2>2 DEF PortInv, Shapes, Claims
  <2>4. Board' /\ HasTriggers' /\ Rs485Kept'
    BY <2>1, BankKept DEF SameRs485
  <2> QED BY <2>1, <2>3, <2>4 DEF PortInv
<1> QED
  BY <1>1, <1>2, <1>3, <1>4, <1>5, <1>6, <1>7, <1>8, <1>9, <1>10, <1>11, <1>12, <1>13
  DEF PortNext

\* In every reachable state a port is as PortInv says, whatever the products,
\* the FPGA versions and the UARTs.
THEOREM PortInvariant == PortSpec => []PortInv
<1> QED BY PortBegins, PortStep, PTL DEF PortSpec

-------------------------------------------------------------------------------
(* What the invariant means                                                  *)

\* Whatever the probe finds is a type the driver knows.
LEMMA TypeKnown ==
  ASSUME PortInv
  PROVE  TheType \in Type
<1>1. PICK k : board.answers = AnswersOf(k)
  BY DEF PortInv, Board
<1>2. board.answers.kind \in {"NS16550A", "i16750", "XScale", "U6_16550A", "i16550A"}
  BY <1>1, AnswersKnown
<1>3. board.answers.iir \in 0..3
  BY <1>1, AnswersKnown
<1>4. TheType \in {"unknown", "i16450", "i8250", "i16550"}
        \cup {autoconfig_16550a(board.answers, board.product, board.version)}
  BY <1>3 DEF TheType, autoconfig, autoconfig_8250
<1>5. autoconfig_16550a(board.answers, board.product, board.version)
        \in {"i16650", "i16550A", "CPS16550", "CPS16550A"} \cup {board.answers.kind}
  BY DEF autoconfig_16550a
<1> QED BY <1>2, <1>4, <1>5 DEF Type, uart_config

\* The FIFO of every type, at every speed: on where more than one character is
\* loaded at a time, but for a 16550A.
LEMMA FifoAsLoaded ==
  ASSUME NEW type \in Type, NEW baud \in Nat
  PROVE  LET fcr == FcrOf(type, baud)
         IN  /\ "ENABLE" \in fcr <=> uart_config[type].load > 1 /\ type # "i16550A"
             /\ "64BYTE" \in fcr <=> type = "i16750" /\ baud >= 2400
             /\ baud < 2400 => "R_TRIG_1" \notin fcr
<1> DEFINE c == uart_config[type]
<1>1. FcrOf(type, baud) = IF "FIFO" \in c.caps /\ c.fifo > 1
                            THEN IF baud < 2400 THEN {"ENABLE"} ELSE c.fcr
                            ELSE {}
  BY DEF FcrOf
<1>2. /\ "FIFO" \in c.caps /\ c.fifo > 1 <=> c.load > 1 /\ type # "i16550A"
      /\ c.load > 1 => "ENABLE" \in c.fcr
      /\ "64BYTE" \in c.fcr <=> type = "i16750"
      /\ type = "i16750" => "FIFO" \in c.caps /\ c.fifo > 1
  BY DEF Type, uart_config, Config
<1> HIDE DEF c
<1>3. CASE "FIFO" \in c.caps /\ c.fifo > 1 /\ baud < 2400
  BY <1>1, <1>2, <1>3 DEF c
<1>4. CASE "FIFO" \in c.caps /\ c.fifo > 1 /\ ~(baud < 2400)
  BY <1>1, <1>2, <1>4 DEF c
<1>5. CASE ~("FIFO" \in c.caps /\ c.fifo > 1)
  BY <1>1, <1>2, <1>5 DEF c
<1> QED BY <1>3, <1>4, <1>5

\* A port in use has the word, the FIFO, the trigger levels and the speed last
\* asked for, whatever was done since (SettingsHold).
THEOREM PortIsSetUp == PortSpec => []SettingsHold
<1>1. PortInv => SettingsHold
  <2> SUFFICES ASSUME PortInv, port.open, ~oops PROVE SettingsHold
    BY DEF SettingsHold
  <2>1. SetUp(port, r, user)
    BY DEF PortInv
  <2>2. port.type = TheType /\ user.startups \in 0..2
    BY DEF PortInv, Shapes, Claims
  <2>3. port.type = "CPS16550A" =>
          (user.startups >= 1 => r.RXTRG = Level) /\ (user.startups = 2 => r.TXTRG = Level)
    BY <2>1, <2>2 DEF PortInv, HasTriggers, SetUp
  <2>4. user.termios.baud \in Nat
    BY SpeedsAsked DEF PortInv, Shapes
  <2>5. /\ "ENABLE" \in r.FCR <=> uart_config[port.type].load > 1 /\ port.type # "i16550A"
        /\ "64BYTE" \in r.FCR <=> port.type = "i16750" /\ user.termios.baud >= 2400
        /\ user.termios.baud < 2400 => "R_TRIG_1" \notin r.FCR
    <3>1. r.FCR = FcrOf(port.type, user.termios.baud) /\ port.type \in Type
      BY <2>1, <2>2, TypeKnown DEF SetUp
    <3> QED BY <3>1, <2>4, FifoAsLoaded
  <2> QED BY <2>1, <2>3, <2>5 DEF SetUp, SettingsHold
<1> QED BY <1>1, PortInvariant, PTL

\* RS-485 stays as last asked through closing, opening, another probe and a
\* reload of the driver (Rs485Kept).
THEOREM Rs485Stays == PortSpec => []Rs485Kept
<1>1. PortInv => Rs485Kept
  BY DEF PortInv
<1> QED BY <1>1, PortInvariant, PTL

\* A port interrupts only while it is open, and then unless a program took OUT2
\* down (InterruptGate).
THEOREM GateFollowsUse == PortSpec => []InterruptGate
<1>1. PortInv => InterruptGate
  <2> SUFFICES ASSUME PortInv, ~oops PROVE InterruptGate
    BY DEF InterruptGate
  <2>1. ~port.open => Silent(r)
    BY DEF PortInv
  <2>2. port.open /\ user.gate => "OUT2" \in r.MCR
    <3>1. SUFFICES ASSUME port.open, user.gate PROVE "OUT2" \in r.MCR
      OBVIOUS
    <3>2. "OUT2" \in port.mctrl /\ r.MCR = cpscom_set_mctrl(port.mctrl) \cup port.mcr
      BY <3>1 DEF PortInv, SetUp
    <3> QED BY <3>2 DEF cpscom_set_mctrl
  <2> QED BY <2>1, <2>2 DEF Silent, InterruptGate
<1> QED BY <1>1, PortInvariant, PTL

\* A registered port has its registers, claimed and mapped, exactly when a UART
\* was found there (ResourcesFollowType).
THEOREM ClaimFollowsType == PortSpec => []ResourcesFollowType
<1>1. PortInv => ResourcesFollowType
  BY DEF PortInv, Claims, ResourcesFollowType
<1> QED BY <1>1, PortInvariant, PTL

\* For every setting and every combination of line errors, the masks computed
\* from the setting make of a character what the setting asks.
ToldAsAsked(lsr, got, t) ==
  /\ got.overrun = Asked(lsr, t).overrun
  /\ \/ got.char = Asked(lsr, t).char
     \/ "BI" \in lsr /\ t.cread /\ t.ignbrk /\ ~t.brkint

LEMMA MasksDoAsAsked ==
  ASSUME NEW t \in Settings, NEW lsr \in SUBSET {"OE", "PE", "FE", "BI"}
  PROVE  ToldAsAsked(lsr, Flag(lsr, ReadMask(t), IgnoreMask(t)), t)
<1> DEFINE bare == (IF "BI" \in lsr THEN lsr \ {"FE", "PE"} ELSE lsr) \cup {"DR"}
           seen == bare \cap ReadMask(t)
           drop == (seen \cap IgnoreMask(t)) \ {"OE"}
           got == Flag(lsr, ReadMask(t), IgnoreMask(t))
<1>1. /\ got.char = IF drop # {} THEN "dropped"
                    ELSE IF "BI" \in seen THEN "TTY_BREAK"
                    ELSE IF "PE" \in seen THEN "TTY_PARITY"
                    ELSE IF "FE" \in seen THEN "TTY_FRAME" ELSE "TTY_NORMAL"
      /\ got.overrun = ("OE" \in seen \ IgnoreMask(t))
  BY DEF Flag
<1>2. /\ "BI" \in seen <=> "BI" \in lsr /\ t.brkint
      /\ "PE" \in seen <=> "PE" \in lsr /\ "BI" \notin lsr /\ t.inpck
      /\ "FE" \in seen <=> "FE" \in lsr /\ "BI" \notin lsr /\ t.inpck
      /\ "OE" \in seen <=> "OE" \in lsr
      /\ "DR" \in seen
  BY DEF ReadMask, Bits
<1>3. /\ "BI" \in IgnoreMask(t) <=> t.ignbrk
      /\ "PE" \in IgnoreMask(t) <=> t.ignpar
      /\ "FE" \in IgnoreMask(t) <=> t.ignpar
      /\ "OE" \in IgnoreMask(t) <=> t.ignbrk /\ t.ignpar
      /\ "DR" \in IgnoreMask(t) <=> ~t.cread
  BY DEF IgnoreMask, Bits
<1>4. drop \subseteq {"PE", "FE", "BI", "DR"}
  OBVIOUS
<1>5. drop # {} <=> \/ ~t.cread
                    \/ "BI" \in lsr /\ t.brkint /\ t.ignbrk
                    \/ ("PE" \in lsr \/ "FE" \in lsr) /\ "BI" \notin lsr /\ t.inpck /\ t.ignpar
  BY <1>2, <1>3, <1>4
<1>6. lsr \cap {"PE", "FE"} = {} <=> "PE" \notin lsr /\ "FE" \notin lsr
  OBVIOUS
<1>7. got.overrun = ("OE" \in lsr /\ ~(t.ignbrk /\ t.ignpar))
  BY <1>1, <1>2, <1>3
<1>8. Asked(lsr, t).overrun = ("OE" \in lsr /\ ~(t.ignbrk /\ t.ignpar))
  BY DEF Asked
<1>9. Asked(lsr, t).char =
        IF ~t.cread THEN "dropped"
        ELSE IF "BI" \in lsr
          THEN IF t.ignbrk THEN "dropped" ELSE IF t.brkint THEN "TTY_BREAK" ELSE "TTY_NORMAL"
        ELSE IF lsr \cap {"PE", "FE"} = {} \/ ~t.inpck THEN "TTY_NORMAL"
        ELSE IF t.ignpar THEN "dropped"
        ELSE IF "PE" \in lsr THEN "TTY_PARITY" ELSE "TTY_FRAME"
  BY DEF Asked
<1> HIDE DEF seen, drop, got
<1>10. got.char = Asked(lsr, t).char \/ ("BI" \in lsr /\ t.cread /\ t.ignbrk /\ ~t.brkint)
  BY <1>1, <1>2, <1>5, <1>6, <1>9
<1> QED BY <1>7, <1>8, <1>10 DEF ToldAsAsked, got

\* Every combination of line errors is reported, dropped or passed as the
\* terminal asked last (ErrorsAsAsked).
THEOREM ErrorsFollowSettings == PortSpec => []ErrorsAsAsked
<1>1. PortInv => ErrorsAsAsked
  <2> SUFFICES ASSUME PortInv, port.open, NEW lsr \in SUBSET {"OE", "PE", "FE", "BI"}
               PROVE  ToldAsAsked(lsr, Flag(lsr, port.readMask, port.ignoreMask), user.termios)
    BY DEF ErrorsAsAsked, ToldAsAsked
  <2>1. user.termios \in Settings /\ port.readMask = ReadMask(user.termios)
        /\ port.ignoreMask = IgnoreMask(user.termios)
    BY DEF PortInv, Shapes, SetUp
  <2> QED BY <2>1, MasksDoAsAsked
<1> QED BY <1>1, PortInvariant, PTL

-------------------------------------------------------------------------------
(* A port in operation: what the functions of the driver do to it            *)

UartNames == {"cts", "delta", "fifo", "hw", "hwstop", "ier", "latch", "lost", "rx", "saved",
              "shift", "stop", "x", "xmit"}
Received == [char : Nat, err : BOOLEAN]

UartTypes(p) ==
  /\ HasFields(UartNames, p) /\ p.rx \in Seq(Received)
  /\ p.cts \in BOOLEAN /\ p.delta \in BOOLEAN /\ p.hwstop \in BOOLEAN /\ p.saved \in BOOLEAN

\* The same characters wait in q as in p, and what is known of an error of the
\* first of them, in the LSR or saved, is still known.
SameRx(q, p) ==
  /\ q.rx \in Seq(Received) /\ q.saved \in BOOLEAN /\ Len(q.rx) = Len(p.rx)
  /\ \A j \in 1..Len(p.rx) : q.rx[j].char = p.rx[j].char /\ (j > 1 => q.rx[j].err = p.rx[j].err)
  /\ Len(p.rx) > 0 =>
       /\ q.rx[1].err \/ q.saved <=> p.rx[1].err \/ p.saved
       /\ q.rx[1].err => p.rx[1].err
  /\ Len(p.rx) = 0 => q.saved = p.saved

\* The IER of the UART and the driver's copy of it are both written or both left.
SameIer(q, p) == q.hw = q.ier \/ (q.hw = p.hw /\ q.ier = p.ier)

\* What the driver's reactions may do to a port, and what sending may do: the
\* handling of CTS stays.
Reacts(q, p) ==
  /\ UartTypes(q) /\ SameRx(q, p) /\ SameIer(q, p) /\ q.cts = p.cts /\ q.shift = p.shift
  /\ "MSI" \in p.ier => "MSI" \in q.ier
Moves(q, p) == Reacts(q, p) /\ q.delta = p.delta /\ q.hwstop = p.hwstop

\* Two things done one after the other are one of the same kind.
LEMMA ReactsOn ==
  ASSUME NEW p, NEW q, NEW s, Reacts(q, p), Reacts(s, q)
  PROVE  Reacts(s, p)
<1>1. SameRx(s, p)
  <2>1. Len(q.rx) = Len(p.rx) /\ Len(s.rx) = Len(p.rx) /\ s.rx \in Seq(Received)
        /\ s.saved \in BOOLEAN
    BY DEF Reacts, SameRx
  <2>2. ASSUME NEW j \in 1..Len(p.rx)
        PROVE  s.rx[j].char = p.rx[j].char /\ (j > 1 => s.rx[j].err = p.rx[j].err)
    BY <2>1 DEF Reacts, SameRx
  <2>3. ASSUME Len(p.rx) > 0
        PROVE  /\ s.rx[1].err \/ s.saved <=> p.rx[1].err \/ p.saved
               /\ s.rx[1].err => p.rx[1].err
    BY <2>1, <2>3 DEF Reacts, SameRx
  <2>4. Len(p.rx) = 0 => s.saved = p.saved
    BY <2>1 DEF Reacts, SameRx
  <2> QED BY <2>1, <2>2, <2>3, <2>4 DEF SameRx
<1>2. SameIer(s, p)
  BY DEF Reacts, SameIer
<1> QED BY <1>1, <1>2 DEF Reacts

\* The same of sending.
LEMMA MovesOn ==
  ASSUME NEW p, NEW q, NEW s, Moves(q, p), Moves(s, q)
  PROVE  Moves(s, p)
BY ReactsOn DEF Moves

\* A change of the fields of the transmitter only.
LEMMA SendingMoves ==
  ASSUME NEW p, UartTypes(p), NEW q,
         Keeps(q, p, UartNames, {"fifo", "latch", "lost", "stop", "x", "xmit"})
  PROVE  Moves(q, p) /\ q.ier = p.ier /\ q.hw = p.hw
<1>1. /\ q.cts = p.cts /\ q.delta = p.delta /\ q.hwstop = p.hwstop /\ q.ier = p.ier /\ q.hw = p.hw
      /\ q.rx = p.rx /\ q.saved = p.saved /\ q.shift = p.shift /\ HasFields(UartNames, q)
  BY DEF Keeps, UartNames
<1>2. UartTypes(q) /\ SameIer(q, p)
  BY <1>1 DEF UartTypes, SameIer
<1>3. SameRx(q, p)
  <2>1. p.rx \in Seq(Received) /\ p.saved \in BOOLEAN
    BY DEF UartTypes
  <2> QED BY <1>1, <2>1 DEF SameRx
<1> QED BY <1>1, <1>2, <1>3 DEF Moves, Reacts

\* Writing the register touches nothing else but the transmit interrupt.
LEMMA IerWritten ==
  ASSUME NEW p, UartTypes(p), NEW set
  PROVE  Keeps(WriteIer(p, set), p, UartNames, {"hw", "latch"}) /\ WriteIer(p, set).hw = set
<1> DEFINE latch == p.latch \/ (kind = "good" /\ "THRI" \in set \ p.hw /\ p.fifo = <<>>)
           q == [p EXCEPT !.hw = set, !.latch = latch]
<1>1. WriteIer(p, set) = q
  BY DEF WriteIer, UartTypes, HasFields, UartNames
<1> HIDE DEF latch
<1>2. Keeps(q, p, UartNames, {"hw", "latch"}) /\ q.hw = set
  BY DEF Keeps, UartTypes, HasFields, UartNames
<1> QED BY <1>1, <1>2

\* Writing the copy and the register.
LEMMA BothWritten ==
  ASSUME NEW p, UartTypes(p), NEW set
  PROVE  LET q == WriteIer([p EXCEPT !.ier = set], set)
         IN  /\ q.hw = set /\ q.ier = set
             /\ ("MSI" \in p.ier => "MSI" \in set) => Moves(q, p)
             /\ UartTypes(q) /\ SameRx(q, p) /\ q.rx = p.rx /\ q.saved = p.saved
             /\ q.cts = p.cts /\ q.delta = p.delta /\ q.hwstop = p.hwstop
             /\ Keeps(q, p, UartNames, {"hw", "ier", "latch"})
<1> DEFINE o == [p EXCEPT !.ier = set]
           q == WriteIer(o, set)
<1>1. Keeps(o, p, UartNames, {"ier"}) /\ o.ier = set
  BY DEF Keeps, UartTypes, HasFields, UartNames
<1> HIDE DEF o
<1>2. UartTypes(o)
  BY <1>1 DEF Keeps, UartTypes, UartNames
<1>3. Keeps(q, o, UartNames, {"hw", "latch"}) /\ q.hw = set
  BY <1>2, IerWritten
<1> HIDE DEF q
<1>4. Keeps(q, p, UartNames, {"hw", "ier", "latch"}) /\ q.ier = set
  BY <1>1, <1>3 DEF Keeps, UartNames
<1>5. /\ q.cts = p.cts /\ q.delta = p.delta /\ q.hwstop = p.hwstop
      /\ q.rx = p.rx /\ q.saved = p.saved /\ q.shift = p.shift /\ HasFields(UartNames, q)
  BY <1>4 DEF Keeps, UartNames
<1>6. UartTypes(q) /\ SameIer(q, p)
  BY <1>3, <1>4, <1>5 DEF UartTypes, SameIer
<1>7. SameRx(q, p)
  <2>1. p.rx \in Seq(Received) /\ p.saved \in BOOLEAN
    BY DEF UartTypes
  <2> QED BY <1>5, <2>1 DEF SameRx
<1>8. ("MSI" \in p.ier => "MSI" \in set) => Moves(q, p)
  BY <1>4, <1>5, <1>6, <1>7 DEF Moves, Reacts
<1> QED BY <1>3, <1>4, <1>5, <1>6, <1>7, <1>8 DEF q, o

\* Doing nothing is allowed.
LEMMA StaysPut ==
  ASSUME NEW p, UartTypes(p)
  PROVE  Moves(p, p)
<1>1. SameRx(p, p)
  BY DEF UartTypes, SameRx
<1> QED BY <1>1 DEF Moves, Reacts, SameIer

\* Reading the LSR clears what is known of the first character there.
LEMMA LsrRead ==
  ASSUME NEW p, UartTypes(p)
  PROVE  /\ Keeps(ReadLsr(p), p, UartNames, {"rx"}) /\ ReadLsr(p).rx \in Seq(Received)
         /\ Len(ReadLsr(p).rx) = Len(p.rx)
         /\ \A j \in 1..Len(p.rx) :
              /\ ReadLsr(p).rx[j].char = p.rx[j].char
              /\ ReadLsr(p).rx[j].err = IF j = 1 THEN FALSE ELSE p.rx[j].err
         /\ LineError(p) \in BOOLEAN
         /\ Len(p.rx) > 0 => LineError(p) = p.rx[1].err
         /\ Len(p.rx) = 0 => LineError(p) = FALSE
<1>0. p.rx \in Seq(Received) /\ HasFields(UartNames, p)
  BY DEF UartTypes
<1>1. \A j \in 1..Len(p.rx) : p.rx[j] \in Received
  BY <1>0
<1>2. /\ Len(p.rx) > 0 => LineError(p) = p.rx[1].err
      /\ Len(p.rx) = 0 => LineError(p) = FALSE
  BY <1>0, <1>1 DEF LineError, Received
<1>3. LineError(p) \in BOOLEAN
  BY DEF LineError, UartTypes, Received
<1>4. CASE ~LineError(p)
  <2>1. ReadLsr(p) = p
    BY <1>4 DEF ReadLsr
  <2>2. Len(p.rx) > 0 => p.rx[1].err = FALSE
    BY <1>1, <1>2, <1>4 DEF Received
  <2>3. ASSUME NEW j \in 1..Len(p.rx)
        PROVE  p.rx[j].err = IF j = 1 THEN FALSE ELSE p.rx[j].err
    <3>1. CASE j = 1
      <4>1. Len(p.rx) > 0
        BY <1>0
      <4> QED BY <4>1, <2>2, <3>1
    <3>2. CASE j # 1
      BY <3>2
    <3> QED BY <3>1, <3>2
  <2> QED BY <1>0, <1>2, <1>3, <2>1, <2>3 DEF Keeps
<1>5. CASE LineError(p)
  <2> DEFINE rx == [p.rx EXCEPT ![1] = [p.rx[1] EXCEPT !.err = FALSE]]
             q == [p EXCEPT !.rx = rx]
  <2>0. Len(p.rx) > 0 /\ Len(p.rx) \in Nat
    BY <1>0, <1>2, <1>5
  <2>1. ReadLsr(p) = q
    BY <1>0, <1>5 DEF ReadLsr, HasFields, UartNames
  <2>2. [p.rx[1] EXCEPT !.err = FALSE] \in Received
        /\ [p.rx[1] EXCEPT !.err = FALSE].char = p.rx[1].char
        /\ [p.rx[1] EXCEPT !.err = FALSE].err = FALSE
    <3>1. p.rx[1] \in Received
      BY <1>1, <2>0
    <3>2. ASSUME NEW c \in Received
          PROVE  [c EXCEPT !.err = FALSE] \in Received /\ [c EXCEPT !.err = FALSE].char = c.char
                 /\ [c EXCEPT !.err = FALSE].err = FALSE
      BY DEF Received
    <3> QED BY <3>1, <3>2
  <2>3. rx \in Seq(Received) /\ Len(rx) = Len(p.rx)
        /\ \A j \in 1..Len(p.rx) : rx[j] = IF j = 1 THEN [p.rx[1] EXCEPT !.err = FALSE] ELSE p.rx[j]
    BY <1>0, <2>0, <2>2
  <2> HIDE DEF rx
  <2>4. Keeps(q, p, UartNames, {"rx"}) /\ q.rx = rx
    BY <1>0 DEF Keeps, HasFields, UartNames
  <2> QED BY <1>2, <1>3, <2>1, <2>2, <2>3, <2>4
<1> QED BY <1>3, <1>4, <1>5

\* Who saves the error loses nothing.
LEMMA LsrSaved ==
  ASSUME NEW p, UartTypes(p)
  PROVE  /\ Moves(SaveLsr(p), p) /\ SaveLsr(p).ier = p.ier /\ SaveLsr(p).hw = p.hw
         /\ Keeps(SaveLsr(p), p, UartNames, {"rx", "saved"})
<1> DEFINE o == ReadLsr(p)
           saved == p.saved \/ LineError(p)
           q == [o EXCEPT !.saved = saved]
<1>1. /\ Keeps(o, p, UartNames, {"rx"}) /\ o.rx \in Seq(Received)
      /\ Len(o.rx) = Len(p.rx)
      /\ \A j \in 1..Len(p.rx) :
           /\ o.rx[j].char = p.rx[j].char
           /\ o.rx[j].err = IF j = 1 THEN FALSE ELSE p.rx[j].err
      /\ LineError(p) \in BOOLEAN
      /\ Len(p.rx) > 0 => LineError(p) = p.rx[1].err
      /\ Len(p.rx) = 0 => LineError(p) = FALSE
  BY LsrRead
<1>2. SaveLsr(p) = q
  <2>1. o.saved = p.saved
    BY <1>1 DEF Keeps, UartNames
  <2> HIDE DEF o
  <2>2. HasFields(UartNames, o)
    BY <1>1 DEF Keeps
  <2>3. SaveLsr(p) = [o EXCEPT !.saved = @ \/ LineError(p)]
    BY DEF SaveLsr, o
  <2> QED BY <2>1, <2>2, <2>3 DEF HasFields, UartNames
<1>3. saved \in BOOLEAN
  OBVIOUS
<1> HIDE DEF o
<1>4. Keeps(q, o, UartNames, {"saved"}) /\ q.saved = saved
  BY <1>1 DEF Keeps, HasFields, UartNames
<1> HIDE DEF q
<1>5. Keeps(q, p, UartNames, {"rx", "saved"}) /\ q.rx = o.rx
  BY <1>1, <1>4 DEF Keeps, UartNames
<1>6. /\ q.cts = p.cts /\ q.delta = p.delta /\ q.hwstop = p.hwstop /\ q.ier = p.ier /\ q.hw = p.hw
      /\ q.shift = p.shift /\ HasFields(UartNames, q)
  BY <1>5 DEF Keeps, UartNames
<1>7. UartTypes(q)
  <2>1. q.rx \in Seq(Received) /\ q.saved \in BOOLEAN
    BY <1>1, <1>3, <1>4, <1>5
  <2> QED BY <1>6, <2>1 DEF UartTypes
<1>8. SameRx(q, p)
  <2>0. Len(p.rx) \in Nat /\ q.saved = (p.saved \/ LineError(p)) /\ p.saved \in BOOLEAN
    BY <1>4 DEF UartTypes
  <2>1. ASSUME Len(p.rx) > 0
        PROVE  /\ q.rx[1].err \/ q.saved <=> p.rx[1].err \/ p.saved
               /\ q.rx[1].err => p.rx[1].err
    <3>0. 1 \in 1..Len(p.rx)
      BY <2>0, <2>1
    <3>1. q.rx[1].err = FALSE /\ LineError(p) = p.rx[1].err
      BY <3>0, <1>1, <1>5, <2>1
    <3> QED BY <3>1, <2>0
  <2>2. Len(p.rx) = 0 => q.saved = p.saved
    BY <1>1, <2>0
  <2>3. ASSUME NEW j \in 1..Len(p.rx)
        PROVE  q.rx[j].char = p.rx[j].char /\ (j > 1 => q.rx[j].err = p.rx[j].err)
    <3>1. o.rx[j].char = p.rx[j].char /\ (j # 1 => o.rx[j].err = p.rx[j].err)
      BY <1>1
    <3> QED BY <3>1, <1>5, <2>0
  <2>4. q.rx \in Seq(Received) /\ q.saved \in BOOLEAN /\ Len(q.rx) = Len(p.rx)
    BY <1>1, <1>5, <1>7 DEF UartTypes
  <2> QED BY <2>1, <2>2, <2>3, <2>4 DEF SameRx
<1> QED BY <1>2, <1>5, <1>6, <1>7, <1>8 DEF Moves, Reacts, SameIer

\* Disabling the transmit interrupt.
LEMMA TxStops ==
  ASSUME NEW p, UartTypes(p)
  PROVE  Moves(StopTx(p), p) /\ StopTx(p).ier \in {p.ier, p.ier \ {"THRI"}}
<1>1. CASE "THRI" \in p.ier
  <2> DEFINE set == p.ier \ {"THRI"}
             q == WriteIer([p EXCEPT !.ier = set], set)
  <2>1. StopTx(p) = q
    BY <1>1 DEF StopTx, UartTypes, HasFields, UartNames
  <2>2. "MSI" \in p.ier => "MSI" \in set
    OBVIOUS
  <2> HIDE DEF set
  <2>3. Moves(q, p) /\ q.ier = set
    BY <2>2, BothWritten
  <2> HIDE DEF q
  <2> QED BY <2>1, <2>3 DEF set
<1>2. CASE "THRI" \notin p.ier
  BY <1>2, StaysPut DEF StopTx
<1> QED BY <1>1, <1>2

\* Writing characters to the transmit FIFO.
LEMMA TxWritten ==
  ASSUME NEW p, UartTypes(p), NEW cs
  PROVE  Keeps(WriteTx(p, cs), p, UartNames, {"fifo", "latch", "lost"})
<1> DEFINE fifo == SubSeq(p.fifo \o cs, 1, Least(FifoSize, Len(p.fifo \o cs)))
           lost == p.lost \/ Len(p.fifo \o cs) > FifoSize
           q == [p EXCEPT !.fifo = fifo, !.latch = FALSE, !.lost = lost]
<1>1. WriteTx(p, cs) = q
  BY DEF WriteTx, UartTypes, HasFields, UartNames
<1> HIDE DEF fifo, lost
<1> QED BY <1>1 DEF Keeps, UartTypes, HasFields, UartNames

\* Filling the FIFO from the buffer.
LEMMA Loads ==
  ASSUME NEW p, UartTypes(p)
  PROVE  Moves(Load(p), p) /\ Load(p).ier \in {p.ier, p.ier \ {"THRI"}}
<1> DEFINE n == Least(FifoSize, Len(p.xmit))
           w == WriteTx(p, SubSeq(p.xmit, 1, n))
           xmit == SubSeq(w.xmit, n + 1, Len(w.xmit))
           q == [w EXCEPT !.xmit = xmit]
<1>1. Keeps(w, p, UartNames, {"fifo", "latch", "lost"})
  BY TxWritten
<1>2. Load(p) = IF q.xmit = <<>> THEN StopTx(q) ELSE q
  <2>1. q = [w EXCEPT !.xmit = SubSeq(@, n + 1, Len(@))]
    BY <1>1 DEF Keeps, HasFields, UartNames
  <2> QED BY <2>1 DEF Load
<1> HIDE DEF w, xmit
<1>3. Keeps(q, w, UartNames, {"xmit"})
  BY <1>1 DEF Keeps, HasFields, UartNames
<1> HIDE DEF q
<1>4. Keeps(q, p, UartNames, {"fifo", "latch", "lost", "xmit"})
  BY <1>1, <1>3 DEF Keeps
<1>5. Keeps(q, p, UartNames, {"fifo", "latch", "lost", "stop", "x", "xmit"})
  BY <1>4 DEF Keeps
<1>6. Moves(q, p) /\ q.ier = p.ier
  BY <1>5, SendingMoves
<1>7. UartTypes(q)
  BY <1>6 DEF Moves, Reacts
<1> QED BY <1>2, <1>6, <1>7, TxStops, MovesOn

\* The transmitter's part of the handler may disable the transmit interrupt.
LEMMA Transmits ==
  ASSUME NEW p, UartTypes(p)
  PROVE  Moves(transmit_chars(p), p) /\ transmit_chars(p).ier \in {p.ier, p.ier \ {"THRI"}}
<1>1. CASE p.x
  <2> DEFINE w == WriteTx(p, <<XChar>>)
             q == [w EXCEPT !.x = FALSE]
  <2>1. transmit_chars(p) = q
    BY <1>1 DEF transmit_chars
  <2>2. Keeps(w, p, UartNames, {"fifo", "latch", "lost"})
    BY TxWritten
  <2> HIDE DEF w
  <2>3. Keeps(q, w, UartNames, {"x"})
    BY <2>2 DEF Keeps, HasFields, UartNames
  <2> HIDE DEF q
  <2>4. Keeps(q, p, UartNames, {"fifo", "latch", "lost", "stop", "x", "xmit"})
    BY <2>2, <2>3 DEF Keeps
  <2> QED BY <2>1, <2>4, SendingMoves
<1>2. CASE ~p.x /\ (p.stop \/ p.hwstop \/ p.xmit = <<>>)
  BY <1>2, TxStops DEF transmit_chars
<1>3. CASE ~p.x /\ ~(p.stop \/ p.hwstop \/ p.xmit = <<>>)
  BY <1>3, Loads DEF transmit_chars
<1> QED BY <1>1, <1>2, <1>3

\* Starting to send may read the LSR, and then saves its errors.
LEMMA TxStarts ==
  ASSUME NEW p, UartTypes(p)
  PROVE  Moves(StartTx(p), p)
<1> DEFINE set == p.ier \cup {"THRI"}
           on == WriteIer([p EXCEPT !.ier = set], set)
           q == SaveLsr(on)
           t == transmit_chars(q)
<1>1. StartTx(p) \in {p, on, t, q}
  <2>1. WriteIer([p EXCEPT !.ier = @ \cup {"THRI"}], p.ier \cup {"THRI"}) = on
    BY DEF UartTypes, HasFields, UartNames
  <2> HIDE DEF on
  <2>2. StartTx(p) = IF "THRI" \in p.ier THEN p ELSE IF "TXEN" \notin bugs THEN on
                     ELSE IF TEMT(on) THEN t ELSE q
    BY <2>1 DEF StartTx
  <2> QED BY <2>2
<1>2. "MSI" \in p.ier => "MSI" \in set
  OBVIOUS
<1> HIDE DEF set
<1>3. Moves(on, p)
  BY <1>2, BothWritten
<1> HIDE DEF on
<1>4. Moves(q, on) /\ UartTypes(on)
  BY <1>3, LsrSaved DEF Moves, Reacts
<1> HIDE DEF q
<1>5. Moves(q, p) /\ UartTypes(q)
  BY <1>3, <1>4, MovesOn DEF Moves, Reacts
<1>6. Moves(t, p)
  BY <1>5, Transmits, MovesOn
<1> HIDE DEF t
<1> QED BY <1>1, <1>3, <1>5, <1>6, StaysPut

\* The core starts sending, or does nothing.
LEMMA CoreStartMoves ==
  ASSUME NEW p, UartTypes(p)
  PROVE  Moves(CoreStart(p), p)
BY TxStarts, StaysPut DEF CoreStart

\* A change of the handling of CTS, or of what is remembered of it.
LEMMA CtsReacts ==
  ASSUME NEW p, UartTypes(p), NEW q, Keeps(q, p, UartNames, {"delta", "hwstop"}),
         q.delta \in BOOLEAN, q.hwstop \in BOOLEAN
  PROVE  Reacts(q, p) /\ q.ier = p.ier
<1>1. /\ q.cts = p.cts /\ q.ier = p.ier /\ q.hw = p.hw
      /\ q.rx = p.rx /\ q.saved = p.saved /\ q.shift = p.shift /\ HasFields(UartNames, q)
  BY DEF Keeps, UartNames
<1>2. UartTypes(q) /\ SameIer(q, p)
  BY <1>1 DEF UartTypes, SameIer
<1>3. SameRx(q, p)
  <2>1. p.rx \in Seq(Received) /\ p.saved \in BOOLEAN
    BY DEF UartTypes
  <2> QED BY <1>1, <2>1 DEF SameRx
<1> QED BY <1>1, <1>2, <1>3 DEF Reacts

\* A CTS that is handled decides whether sending is stopped.
LEMMA CtsHandled ==
  ASSUME NEW p, UartTypes(p)
  PROVE  LET q == HandleCts(p)
         IN  Reacts(q, p) /\ q.delta = p.delta /\ q.hwstop = ~p.cts
<1> DEFINE go == [p EXCEPT !.hwstop = FALSE]
           halt == [p EXCEPT !.hwstop = TRUE]
           q == HandleCts(p)
<1>0. p.hwstop \in BOOLEAN /\ p.cts \in BOOLEAN /\ p.delta \in BOOLEAN
  BY DEF UartTypes
<1>1. /\ Keeps(go, p, UartNames, {"delta", "hwstop"}) /\ go.hwstop = FALSE /\ go.delta = p.delta
      /\ Keeps(halt, p, UartNames, {"delta", "hwstop"}) /\ halt.hwstop = TRUE
      /\ halt.delta = p.delta
  BY DEF Keeps, UartTypes, HasFields, UartNames
<1>2. q = IF p.hwstop /\ p.cts THEN StartTx(go) ELSE IF ~p.hwstop /\ ~p.cts THEN StopTx(halt) ELSE p
  BY DEF HandleCts
<1> HIDE DEF go, halt, q
<1>3. Reacts(go, p) /\ UartTypes(go) /\ Reacts(halt, p) /\ UartTypes(halt)
  <2>1. go.hwstop \in BOOLEAN /\ go.delta \in BOOLEAN /\ halt.hwstop \in BOOLEAN
        /\ halt.delta \in BOOLEAN
    BY <1>0, <1>1
  <2> QED BY <1>1, <2>1, CtsReacts DEF Reacts
<1>4. CASE p.hwstop /\ p.cts
  <2>1. q = StartTx(go)
    BY <1>2, <1>4
  <2>2. Moves(q, go)
    BY <2>1, <1>3, TxStarts
  <2>3. Reacts(q, p)
    BY <2>2, <1>3, ReactsOn DEF Moves
  <2>4. q.delta = p.delta /\ q.hwstop = FALSE
    BY <2>2, <1>1 DEF Moves
  <2> QED BY <2>3, <2>4, <1>0, <1>4 DEF q
<1>5. CASE ~p.hwstop /\ ~p.cts
  <2>1. q = StopTx(halt)
    BY <1>2, <1>5
  <2>2. Moves(q, halt)
    BY <2>1, <1>3, TxStops
  <2>3. Reacts(q, p)
    BY <2>2, <1>3, ReactsOn DEF Moves
  <2>4. q.delta = p.delta /\ q.hwstop = TRUE
    BY <2>2, <1>1 DEF Moves
  <2> QED BY <2>3, <2>4, <1>0, <1>5 DEF q
<1>6. CASE p.hwstop = ~p.cts
  <2>1. q = p
    BY <1>0, <1>2, <1>6
  <2> QED BY <2>1, <1>6, StaysPut DEF q, Moves
<1> QED BY <1>0, <1>4, <1>5, <1>6

\* The delta bit is read, and CTS is handled if the driver asked for it.
LEMMA ModemChecked ==
  ASSUME NEW p, UartTypes(p), NEW crtscts \in BOOLEAN
  PROVE  LET q == check_modem_status(p, crtscts)
         IN  /\ Reacts(q, p) /\ q.delta = FALSE
             /\ q.hwstop = IF p.delta /\ "MSI" \in p.ier /\ crtscts THEN ~p.cts ELSE p.hwstop
<1> DEFINE o == [p EXCEPT !.delta = FALSE]
           q == check_modem_status(p, crtscts)
           due == p.delta /\ "MSI" \in p.ier /\ crtscts
<1>1. Keeps(o, p, UartNames, {"delta", "hwstop"}) /\ o.delta = FALSE /\ o.hwstop = p.hwstop
      /\ o.cts = p.cts
  BY DEF Keeps, UartTypes, HasFields, UartNames
<1>2. q = IF due THEN HandleCts(o) ELSE o
  BY DEF check_modem_status
<1> HIDE DEF o, q, due
<1>3. Reacts(o, p) /\ UartTypes(o)
  <2>1. o.delta \in BOOLEAN /\ o.hwstop \in BOOLEAN
    BY <1>1 DEF UartTypes
  <2> QED BY <1>1, <2>1, CtsReacts DEF Reacts
<1>4. CASE due
  <2>1. q = HandleCts(o)
    BY <1>2, <1>4
  <2>2. Reacts(q, o) /\ q.delta = o.delta /\ q.hwstop = ~o.cts
    BY <2>1, <1>3, CtsHandled
  <2> QED BY <2>2, <1>1, <1>3, <1>4, ReactsOn DEF q, due
<1>5. CASE ~due
  <2>1. q = o
    BY <1>2, <1>5
  <2> QED BY <2>1, <1>1, <1>3, <1>5 DEF q, due
<1> QED BY <1>4, <1>5

\* get_mctrl: sending is stopped as CTS is, if CTS was followed before.
LEMMA CtsAsked ==
  ASSUME NEW p, UartTypes(p), "MSI" \in p.ier, ~p.delta => ~p.hwstop
  PROVE  LET q == StopUnlessCts(p)
         IN  Reacts(q, p) /\ q.delta = FALSE /\ q.hwstop = ~p.cts
<1> DEFINE o == check_modem_status(p, TRUE)
           halt == [o EXCEPT !.hwstop = TRUE]
           q == StopUnlessCts(p)
<1>0. p.hwstop \in BOOLEAN /\ p.cts \in BOOLEAN /\ p.delta \in BOOLEAN
  BY DEF UartTypes
<1>1. /\ Reacts(o, p) /\ o.delta = FALSE
      /\ o.hwstop = IF p.delta /\ "MSI" \in p.ier /\ TRUE THEN ~p.cts ELSE p.hwstop
  BY ModemChecked
<1>2. q = IF o.cts THEN o ELSE StopTx(halt)
  BY DEF StopUnlessCts
<1> HIDE DEF o, q
<1>3. UartTypes(o) /\ o.cts = p.cts
  BY <1>1 DEF Reacts
<1>4. CASE p.cts
  <2>1. q = o
    BY <1>2, <1>3, <1>4
  <2>2. o.hwstop = FALSE
    BY <1>0, <1>1, <1>4
  <2> QED BY <2>1, <2>2, <1>0, <1>1, <1>4 DEF q
<1>5. CASE ~p.cts
  <2>1. q = StopTx(halt)
    BY <1>2, <1>3, <1>5
  <2>2. Keeps(halt, o, UartNames, {"delta", "hwstop"}) /\ halt.hwstop = TRUE
        /\ halt.delta = FALSE
    BY <1>1, <1>3 DEF Keeps, UartTypes, HasFields, UartNames
  <2> HIDE DEF halt
  <2>3. Reacts(halt, o) /\ UartTypes(halt)
    <3>1. halt.delta \in BOOLEAN /\ halt.hwstop \in BOOLEAN
      BY <2>2
    <3> QED BY <2>2, <3>1, <1>3, CtsReacts DEF Reacts
  <2>4. Moves(q, halt)
    BY <2>1, <2>3, TxStops
  <2>5. Reacts(q, p)
    BY <2>3, <2>4, <1>1, ReactsOn DEF Moves
  <2>6. q.delta = FALSE /\ q.hwstop = TRUE
    BY <2>2, <2>4 DEF Moves
  <2> QED BY <2>5, <2>6, <1>0, <1>5 DEF q
<1> QED BY <1>0, <1>4, <1>5

-------------------------------------------------------------------------------
(* A port in operation: the invariant                                        *)

\* Outside of the backup timer the IER and its copy agree, in the handler too.
IerInv == phase # "closed" => u.hw = u.ier \/ ("THRE" \in bugs /\ u.hw = u.ier \cup {"THRI"})

\* Only with flow control sending is stopped for CTS, and then changes of CTS
\* are asked for.
FlowInv ==
  /\ flow \in BOOLEAN /\ (phase = "closed" => ~flow) /\ (~flow => ~u.hwstop)
  /\ phase # "closed" /\ flow => "MSI" \in u.ier /\ (~u.delta => u.hwstop = ~u.cts)

\* The characters delivered and those that wait are those that came; an error
\* of the first that waits is in the LSR, saved, or in the status just read.
RxInv ==
  /\ came \in Seq(BOOLEAN) /\ delivered \in Seq(Received) /\ status.err \in BOOLEAN
  /\ Len(came) = Len(delivered) + Len(u.rx)
  /\ \A j \in 1..Len(u.rx) :
       /\ u.rx[j].char = Len(delivered) + j
       /\ j > 1 => u.rx[j].err = came[Len(delivered) + j]
  /\ Len(u.rx) > 0 =>
       \/ Len(delivered) + 1 \in cuts
       \/ came[Len(delivered) + 1] <=> u.rx[1].err \/ u.saved \/ (pc = "receive" /\ status.err)
  /\ Len(u.rx) = 0 => ~u.saved
  /\ pc = "receive" => Len(u.rx) > 0 /\ ~u.rx[1].err
  /\ FlagsArrive

UartInv == UartTypes(u) /\ IerInv /\ FlowInv /\ RxInv

\* Sending and waiting leave what is known of errors.
LEMMA RxKept ==
  ASSUME UartInv, SameRx(u', u), pc' = "receive" <=> pc = "receive",
         status' = status \/ (pc # "receive" /\ status' = NoStatus),
         UNCHANGED <<came, delivered, cuts>>
  PROVE  RxInv'
<1>0. /\ came \in Seq(BOOLEAN) /\ delivered \in Seq(Received) /\ u.rx \in Seq(Received)
      /\ u'.rx \in Seq(Received) /\ Len(u'.rx) = Len(u.rx) /\ Len(u.rx) \in Nat
      /\ Len(came) = Len(delivered) + Len(u.rx)
  BY DEF UartInv, RxInv, UartTypes, SameRx
<1>1. came' = came /\ delivered' = delivered /\ cuts' = cuts
  OBVIOUS
<1>2. status'.err \in BOOLEAN /\ (pc = "receive" => status' = status)
  <2>1. NoStatus.err = FALSE
    BY DEF NoStatus
  <2>2. status.err \in BOOLEAN
    BY DEF UartInv, RxInv
  <2>3. CASE status' = status
    BY <2>2, <2>3
  <2>4. CASE pc # "receive" /\ status' = NoStatus
    <3>1. status'.err = FALSE
      BY <2>1, <2>4
    <3> QED BY <3>1, <2>4
  <2> QED BY <2>3, <2>4
<1>3. ASSUME NEW j \in 1..Len(u'.rx)
      PROVE  /\ u'.rx[j].char = Len(delivered') + j
             /\ j > 1 => u'.rx[j].err = came'[Len(delivered') + j]
  BY <1>0, <1>1 DEF UartInv, RxInv, SameRx
<1>4. ASSUME Len(u'.rx) > 0
      PROVE  \/ Len(delivered') + 1 \in cuts'
             \/ came'[Len(delivered') + 1] <=>
                  u'.rx[1].err \/ u'.saved \/ (pc' = "receive" /\ status'.err)
  <2>1. (u'.rx[1].err \/ u'.saved) <=> (u.rx[1].err \/ u.saved)
    BY <1>0, <1>4 DEF SameRx
  <2>2. (pc' = "receive" /\ status'.err) <=> (pc = "receive" /\ status.err)
    BY <1>2
  <2>3. \/ Len(delivered) + 1 \in cuts
        \/ came[Len(delivered) + 1] <=> u.rx[1].err \/ u.saved \/ (pc = "receive" /\ status.err)
    BY <1>0, <1>4 DEF UartInv, RxInv
  <2> QED BY <2>1, <2>2, <2>3, <1>1
<1>5. Len(u'.rx) = 0 => ~u'.saved
  BY <1>0 DEF UartInv, RxInv, SameRx
<1>6. pc' = "receive" => Len(u'.rx) > 0 /\ ~u'.rx[1].err
  BY <1>0 DEF UartInv, RxInv, SameRx
<1>7. FlagsArrive'
  BY DEF UartInv, RxInv, FlagsArrive
<1>8. /\ came' \in Seq(BOOLEAN) /\ delivered' \in Seq(Received)
      /\ Len(came') = Len(delivered') + Len(u'.rx)
  BY <1>0, <1>1
<1> QED BY <1>2, <1>3, <1>4, <1>5, <1>6, <1>7, <1>8 DEF RxInv

\* A step that reacts and does not start or end the port's use.
LEMMA ReactionKeeps ==
  ASSUME UartInv, Reacts(u', u), phase' = phase \/ (phase # "closed" /\ phase' # "closed"),
         flow' = flow, bugs' = bugs,
         \/ u'.delta = u.delta /\ u'.hwstop = u.hwstop
         \/ /\ u'.delta = FALSE
            /\ u'.hwstop = IF u.delta /\ "MSI" \in u.ier /\ flow THEN ~u.cts ELSE u.hwstop,
         pc' = "receive" <=> pc = "receive",
         status' = status \/ (pc # "receive" /\ status' = NoStatus),
         UNCHANGED <<came, delivered, cuts>>
  PROVE  UartInv'
<1>1. UartTypes(u') /\ SameRx(u', u) /\ SameIer(u', u) /\ u'.cts = u.cts
      /\ ("MSI" \in u.ier => "MSI" \in u'.ier)
  BY DEF Reacts
<1>2. IerInv'
  BY <1>1 DEF UartInv, IerInv, SameIer
<1>3. FlowInv'
  <2>1. u.cts \in BOOLEAN /\ u.delta \in BOOLEAN /\ u.hwstop \in BOOLEAN
    BY DEF UartInv, UartTypes
  <2>2. CASE u'.delta = u.delta /\ u'.hwstop = u.hwstop
    BY <2>2, <1>1 DEF UartInv, FlowInv
  <2>3. CASE u'.delta = FALSE
             /\ u'.hwstop = IF u.delta /\ "MSI" \in u.ier /\ flow THEN ~u.cts ELSE u.hwstop
    BY <2>1, <2>3, <1>1 DEF UartInv, FlowInv
  <2> QED BY <2>2, <2>3
<1>4. RxInv'
  BY <1>1, RxKept
<1> QED BY <1>1, <1>2, <1>3, <1>4 DEF UartInv

\* The same of a step that only sends.
LEMMA MoveKeeps ==
  ASSUME UartInv, Moves(u', u), phase' = phase \/ (phase # "closed" /\ phase' # "closed"),
         flow' = flow, bugs' = bugs, pc' = "receive" <=> pc = "receive",
         status' = status \/ (pc # "receive" /\ status' = NoStatus),
         UNCHANGED <<came, delivered, cuts>>
  PROVE  UartInv'
BY ReactionKeeps DEF Moves

\* Before and after its use a port has received nothing.
LEMMA NothingReceived ==
  ASSUME came' = <<>>, delivered' = <<>>, cuts' = {}, u'.rx = <<>>, u'.saved = FALSE,
         pc' # "receive", status'.err \in BOOLEAN
  PROVE  RxInv'
BY DEF RxInv, FlagsArrive

\* The port begins closed.
LEMMA UartBegins == UartInit => UartInv
<1> SUFFICES ASSUME UartInit PROVE UartInv
  OBVIOUS
<1>1. HasFields(UartNames, u) /\ u.rx = <<>> /\ u.cts = TRUE /\ u.delta = FALSE
      /\ u.hwstop = FALSE /\ u.saved = FALSE
  BY DEF UartInit, HasFields, UartNames
<1>2. UartTypes(u)
  <2>1. u.rx \in Seq(Received)
    BY <1>1
  <2> QED BY <1>1, <2>1 DEF UartTypes
<1>3. IerInv /\ FlowInv
  BY <1>1 DEF UartInit, IerInv, FlowInv
<1>4. RxInv
  BY <1>1 DEF UartInit, NoStatus, RxInv, FlagsArrive
<1> QED BY <1>2, <1>3, <1>4 DEF UartInv

-------------------------------------------------------------------------------
(* A port in operation: it is opened                                         *)

\* A port that differs in fields without a type of their own.
LEMMA TypesKept ==
  ASSUME NEW p, UartTypes(p), NEW q, Keeps(q, p, UartNames, {"fifo", "hw", "ier", "latch"})
  PROVE  UartTypes(q)
<1>1. /\ q.cts = p.cts /\ q.delta = p.delta /\ q.hwstop = p.hwstop
      /\ q.rx = p.rx /\ q.saved = p.saved /\ HasFields(UartNames, q)
  BY DEF Keeps, UartNames
<1> QED BY <1>1 DEF UartTypes

\* One test of the transmit interrupt.
LEMMA TestRuns ==
  ASSUME NEW p, UartTypes(p)
  PROVE  LET q == EnableTest(p).p IN Keeps(q, p, UartNames, {"hw", "latch"}) /\ UartTypes(q)
<1> DEFINE on == WriteIer(p, {"THRI"})
           acked == ReadIir(on)
           q == WriteIer(acked, {})
<1>1. Keeps(on, p, UartNames, {"hw", "latch"})
  BY IerWritten
<1>2. EnableTest(p).p = q
  BY DEF EnableTest
<1> HIDE DEF on
<1>3. UartTypes(on)
  <2>1. Keeps(on, p, UartNames, {"fifo", "hw", "ier", "latch"})
    BY <1>1 DEF Keeps
  <2> QED BY <2>1, TypesKept
<1>4. Keeps(acked, on, UartNames, {"hw", "latch"})
  BY <1>3 DEF ReadIir, Keeps, UartTypes, HasFields, UartNames
<1> HIDE DEF acked
<1>5. UartTypes(acked)
  <2>1. Keeps(acked, on, UartNames, {"fifo", "hw", "ier", "latch"})
    BY <1>4 DEF Keeps
  <2> QED BY <1>3, <2>1, TypesKept
<1>6. Keeps(q, acked, UartNames, {"hw", "latch"})
  BY <1>5, IerWritten
<1> HIDE DEF q
<1>7. Keeps(q, p, UartNames, {"hw", "latch"})
  BY <1>1, <1>4, <1>6 DEF Keeps
<1>8. UartTypes(q)
  <2>1. Keeps(q, p, UartNames, {"fifo", "hw", "ier", "latch"})
    BY <1>7 DEF Keeps
  <2> QED BY <2>1, TypesKept
<1> QED BY <1>2, <1>7, <1>8

\* Clearing the FIFOs and the registers that a read clears.
LEMMA ClearedPort ==
  ASSUME NEW p, UartTypes(p)
  PROVE  LET q == Cleared(p)
         IN  /\ Keeps(q, p, UartNames, {"delta", "fifo", "rx", "saved"}) /\ UartTypes(q)
             /\ q.rx = <<>> /\ q.saved = FALSE /\ q.delta = FALSE /\ q.fifo = <<>>
<1> DEFINE q == Cleared(p)
<1>1. /\ Keeps(q, p, UartNames, {"delta", "fifo", "rx", "saved"})
      /\ q.rx = <<>> /\ q.saved = FALSE /\ q.delta = FALSE /\ q.fifo = <<>>
  BY DEF Cleared, Keeps, UartTypes, HasFields, UartNames
<1> HIDE DEF q
<1>2. q.cts = p.cts /\ q.hwstop = p.hwstop /\ HasFields(UartNames, q)
  BY <1>1 DEF Keeps, UartNames
<1>3. UartTypes(q)
  <2>1. q.rx \in Seq(Received)
    BY <1>1
  <2>2. q.saved \in BOOLEAN /\ q.delta \in BOOLEAN
    BY <1>1
  <2>3. p.cts \in BOOLEAN /\ p.hwstop \in BOOLEAN
    BY DEF UartTypes
  <2> QED BY <1>2, <2>1, <2>2, <2>3 DEF UartTypes
<1> QED BY <1>1, <1>3 DEF q

\* The tests leave CTS as it is, nothing to send or received, and the receive interrupts on.
LEMMA TestsRun ==
  ASSUME NEW p, UartTypes(p)
  PROVE  LET q == AfterTests(p)
         IN  /\ UartTypes(q) /\ q.cts = p.cts /\ q.rx = <<>> /\ q.saved = FALSE /\ q.delta = FALSE
             /\ q.hw = {"RDI", "RLSI"} /\ q.ier = {"RDI", "RLSI"}
             /\ q.fifo = <<>> /\ q.shift = p.shift
<1> DEFINE begun == WriteIer(Cleared(p), {})
           first == EnableTest(begun).p
           second == EnableTest(first).p
           third == EnableTest(second).p
           tested == IF SkipTxenTest THEN second ELSE third
           clean == Cleared(tested)
           q == WriteIer([clean EXCEPT !.ier = {"RDI", "RLSI"}], {"RDI", "RLSI"})
<1>1. AfterTests(p) = q
  BY DEF AfterTests, SecondTest, FirstTest
<1>2. UartTypes(begun) /\ begun.cts = p.cts /\ begun.shift = p.shift
  <2> DEFINE c == Cleared(p)
  <2>1. Keeps(c, p, UartNames, {"delta", "fifo", "rx", "saved"}) /\ UartTypes(c)
    BY ClearedPort
  <2> HIDE DEF c
  <2>2. Keeps(WriteIer(c, {}), c, UartNames, {"hw", "latch"})
    BY <2>1, IerWritten
  <2>3. Keeps(WriteIer(c, {}), c, UartNames, {"fifo", "hw", "ier", "latch"})
    BY <2>2 DEF Keeps
  <2>4. UartTypes(WriteIer(c, {}))
    BY <2>1, <2>3, TypesKept
  <2>5. WriteIer(c, {}).cts = p.cts /\ WriteIer(c, {}).shift = p.shift
    BY <2>1, <2>2 DEF Keeps, UartNames
  <2> QED BY <2>4, <2>5 DEF c
<1> HIDE DEF begun
<1>3. UartTypes(first) /\ first.cts = begun.cts /\ first.shift = begun.shift
  <2>1. Keeps(first, begun, UartNames, {"hw", "latch"}) /\ UartTypes(first)
    BY <1>2, TestRuns
  <2> QED BY <2>1 DEF Keeps, UartNames
<1> HIDE DEF first
<1>4. UartTypes(second) /\ second.cts = first.cts /\ second.shift = first.shift
  <2>1. Keeps(second, first, UartNames, {"hw", "latch"}) /\ UartTypes(second)
    BY <1>3, TestRuns
  <2> QED BY <2>1 DEF Keeps, UartNames
<1> HIDE DEF second
<1>5. UartTypes(third) /\ third.cts = second.cts /\ third.shift = second.shift
  <2>1. Keeps(third, second, UartNames, {"hw", "latch"}) /\ UartTypes(third)
    BY <1>4, TestRuns
  <2> QED BY <2>1 DEF Keeps, UartNames
<1> HIDE DEF third
<1>6. UartTypes(tested) /\ tested.cts = p.cts /\ tested.shift = p.shift
  BY <1>2, <1>3, <1>4, <1>5
<1> HIDE DEF tested
<1>7. /\ Keeps(clean, tested, UartNames, {"delta", "fifo", "rx", "saved"}) /\ UartTypes(clean)
      /\ clean.rx = <<>> /\ clean.saved = FALSE /\ clean.delta = FALSE /\ clean.fifo = <<>>
  BY <1>6, ClearedPort
<1>8. clean.cts = p.cts /\ clean.shift = p.shift
  BY <1>6, <1>7 DEF Keeps, UartNames
<1> HIDE DEF clean
<1>9. /\ q.hw = {"RDI", "RLSI"} /\ q.ier = {"RDI", "RLSI"}
      /\ UartTypes(q) /\ q.rx = clean.rx /\ q.saved = clean.saved
      /\ q.cts = clean.cts /\ q.delta = clean.delta
      /\ q.fifo = clean.fifo /\ q.shift = clean.shift
  <2> DEFINE set == {"RDI", "RLSI"}
  <2> HIDE DEF set
  <2>1. LET new == WriteIer([clean EXCEPT !.ier = set], set)
        IN  /\ new.hw = set /\ new.ier = set
            /\ UartTypes(new) /\ new.rx = clean.rx /\ new.saved = clean.saved
            /\ new.cts = clean.cts /\ new.delta = clean.delta
            /\ Keeps(new, clean, UartNames, {"hw", "ier", "latch"})
    BY <1>7, BothWritten
  <2>2. LET new == WriteIer([clean EXCEPT !.ier = set], set)
        IN  new.fifo = clean.fifo /\ new.shift = clean.shift
    BY <2>1 DEF Keeps, UartNames
  <2> QED BY <2>1, <2>2 DEF set
<1> HIDE DEF q
<1> QED BY <1>1, <1>7, <1>8, <1>9

\* The interrupt for changes of CTS is set as flow control is.
LEMMA TermiosIerSet ==
  ASSUME NEW p, UartTypes(p), NEW crtscts \in BOOLEAN
  PROVE  LET q == TermiosIer(p, crtscts)
         IN  /\ UartTypes(q) /\ SameRx(q, p) /\ q.rx = p.rx /\ q.saved = p.saved
             /\ q.hw = q.ier /\ (crtscts => "MSI" \in q.ier)
             /\ q.cts = p.cts /\ q.delta = p.delta /\ q.hwstop = p.hwstop
             /\ Keeps(q, p, UartNames, {"hw", "ier", "latch"})
<1> DEFINE set == IF crtscts THEN p.ier \cup {"MSI"} ELSE p.ier \ {"MSI"}
           q == WriteIer([p EXCEPT !.ier = set], set)
<1>1. TermiosIer(p, crtscts) = q
  BY DEF TermiosIer
<1>2. crtscts => "MSI" \in set
  OBVIOUS
<1> HIDE DEF set
<1>3. /\ q.hw = set /\ q.ier = set /\ UartTypes(q) /\ SameRx(q, p) /\ q.rx = p.rx
      /\ q.saved = p.saved /\ q.cts = p.cts /\ q.delta = p.delta /\ q.hwstop = p.hwstop
      /\ Keeps(q, p, UartNames, {"hw", "ier", "latch"})
  BY BothWritten
<1> HIDE DEF q
<1> QED BY <1>1, <1>2, <1>3

\* Flow control is turned on on a port that was not stopped for CTS.
LEMMA FlowTurnsOn ==
  ASSUME NEW p, UartTypes(p), p.hwstop = FALSE
  PROVE  LET q == FlowOn(p)
         IN  /\ UartTypes(q) /\ SameRx(q, p) /\ q.hw = q.ier /\ "MSI" \in q.ier
             /\ q.delta = FALSE /\ q.hwstop = ~q.cts
<1> DEFINE o == TermiosIer(p, TRUE)
           q == StopUnlessCts(o)
<1>1. FlowOn(p) = q
  BY DEF FlowOn
<1>2. /\ UartTypes(o) /\ SameRx(o, p) /\ o.rx = p.rx /\ o.saved = p.saved
      /\ o.hw = o.ier /\ "MSI" \in o.ier
      /\ o.cts = p.cts /\ o.delta = p.delta /\ o.hwstop = p.hwstop
  BY TermiosIerSet
<1> HIDE DEF o
<1>3. Reacts(q, o) /\ q.delta = FALSE /\ q.hwstop = ~o.cts
  BY <1>2, CtsAsked
<1> HIDE DEF q
<1>4. /\ UartTypes(q) /\ SameRx(q, o) /\ q.hw = q.ier /\ "MSI" \in q.ier /\ q.cts = o.cts
  BY <1>2, <1>3 DEF Reacts, SameIer
<1>5. SameRx(q, p)
  BY <1>2, <1>4 DEF SameRx
<1> QED BY <1>1, <1>3, <1>4, <1>5

\* A port that is set up anew has received nothing and follows CTS.
LEMMA UartStarts ==
  ASSUME NEW p, UartTypes(p), NEW old, NEW crtscts \in BOOLEAN, Startup(p, old, crtscts),
         pc' # "receive", status'.err \in BOOLEAN
  PROVE  UartInv'
<1> DEFINE o == AfterTests(p)
           shift == [i \in DOMAIN o.shift |-> XChar]
           q == [o EXCEPT !.hwstop = FALSE, !.lost = FALSE, !.stop = FALSE, !.shift = shift,
                          !.x = FALSE, !.xmit = <<>>]
<1>1. /\ UartTypes(o) /\ o.cts = p.cts /\ o.rx = <<>> /\ o.saved = FALSE /\ o.delta = FALSE
      /\ o.hw = {"RDI", "RLSI"} /\ o.ier = {"RDI", "RLSI"}
  BY TestsRun
<1>2. u' = IF crtscts THEN FlowOn(q) ELSE TermiosIer(q, FALSE)
  <2>1. q = [o EXCEPT !.hwstop = FALSE, !.lost = FALSE, !.stop = FALSE,
                      !.shift = [i \in DOMAIN @ |-> XChar], !.x = FALSE, !.xmit = <<>>]
    OBVIOUS
  <2>2. u' = LET new == [o EXCEPT !.hwstop = FALSE, !.lost = FALSE, !.stop = FALSE,
                      !.shift = [i \in DOMAIN @ |-> XChar], !.x = FALSE, !.xmit = <<>>]
             IN IF crtscts THEN FlowOn(new) ELSE TermiosIer(new, FALSE)
    BY DEF Startup
  <2> HIDE DEF q
  <2> QED BY <2>1, <2>2
<1> HIDE DEF shift, o
<1>3. /\ Keeps(q, o, UartNames, {"hwstop", "lost", "stop", "shift", "x", "xmit"})
      /\ q.hwstop = FALSE
  BY <1>1 DEF Keeps, UartTypes, HasFields, UartNames
<1> HIDE DEF q
<1>4. HasFields(UartNames, q) /\ q.cts = o.cts /\ q.delta = FALSE /\ q.rx = <<>> /\ q.saved = FALSE
      /\ q.hw = o.hw /\ q.ier = o.ier
  BY <1>1, <1>3 DEF Keeps, UartNames
<1>5. UartTypes(q)
  <2>1. q.rx \in Seq(Received)
    BY <1>4
  <2>2. q.saved \in BOOLEAN /\ q.delta \in BOOLEAN /\ q.hwstop \in BOOLEAN
    BY <1>3, <1>4
  <2>3. o.cts \in BOOLEAN
    BY <1>1 DEF UartTypes
  <2> QED BY <1>4, <2>1, <2>2, <2>3 DEF UartTypes
<1>6. /\ UartTypes(u') /\ SameRx(u', q) /\ u'.hw = u'.ier
      /\ crtscts => "MSI" \in u'.ier /\ u'.hwstop = ~u'.cts
      /\ ~crtscts => u'.hwstop = FALSE
  <2>1. CASE crtscts
    <3>1. u' = FlowOn(q)
      BY <1>2, <2>1
    <3>2. /\ UartTypes(u') /\ SameRx(u', q) /\ u'.hw = u'.ier /\ "MSI" \in u'.ier
          /\ u'.delta = FALSE /\ u'.hwstop = ~u'.cts
      BY <1>3, <1>5, <3>1, FlowTurnsOn
    <3> QED BY <3>2, <2>1
  <2>2. CASE ~crtscts
    <3>1. u' = TermiosIer(q, FALSE)
      BY <1>2, <2>2
    <3>2. /\ UartTypes(u') /\ SameRx(u', q) /\ u'.hw = u'.ier /\ u'.hwstop = q.hwstop
      BY <1>5, <3>1, TermiosIerSet
    <3> QED BY <3>2, <1>3, <2>2
  <2> QED BY <2>1, <2>2
<1>7. u'.rx = <<>> /\ u'.saved = FALSE
  <2>1. u'.rx \in Seq(Received) /\ Len(u'.rx) = 0 /\ u'.saved = FALSE
    BY <1>4, <1>6 DEF SameRx
  <2> QED BY <2>1
<1>8. phase' = "open" /\ flow' = crtscts /\ came' = <<>> /\ delivered' = <<>> /\ cuts' = {}
  BY DEF Startup, NewLine
<1>9. IerInv' /\ FlowInv'
  BY <1>6, <1>8 DEF IerInv, FlowInv
<1>10. RxInv'
  BY <1>7, <1>8, NothingReceived
<1> QED BY <1>6, <1>9, <1>10 DEF UartInv

-------------------------------------------------------------------------------
(* A port in operation: every step keeps the invariant                       *)

\* What a call on an open port leaves as it is.
LEMMA CallsMove ==
  ASSUME UartInv, OpenCall, KeepsSettings, UNCHANGED <<came, delivered, cuts>>, Moves(u', u)
  PROVE  UartInv'
BY MoveKeeps DEF OpenCall, CoreCall, KeepsSettings, handler

\* A port of which neither the received characters nor lsr_saved_flags change.
LEMMA SameReceived ==
  ASSUME NEW p, UartTypes(p), NEW q, q.rx = p.rx, q.saved = p.saved
  PROVE  SameRx(q, p)
<1>1. p.rx \in Seq(Received) /\ p.saved \in BOOLEAN
  BY DEF UartTypes
<1> QED BY <1>1 DEF SameRx

LEMMA OpenSets == UartInv /\ OpenUart => UartInv'
<1> SUFFICES ASSUME UartInv, OpenUart PROVE UartInv'
  OBVIOUS
<1>1. PICK crtscts \in BOOLEAN : Startup(u, bugs, crtscts)
  BY DEF OpenUart
<1>2. pc' # "receive" /\ status'.err \in BOOLEAN
  BY DEF OpenUart, CoreCall, handler, UartInv, RxInv
<1>3. UartTypes(u)
  BY DEF UartInv
<1> QED BY <1>1, <1>2, <1>3, UartStarts

LEMMA ReconfigureSets == UartInv /\ Reconfigure => UartInv'
<1> SUFFICES ASSUME UartInv, Reconfigure PROVE UartInv'
  OBVIOUS
<1> DEFINE o == WriteIer(u, {})
<1>1. Startup(o, {}, flow)
  BY DEF Reconfigure
<1>2. pc' # "receive" /\ status'.err \in BOOLEAN
  BY DEF Reconfigure, CoreCall, handler, UartInv, RxInv
<1>3. UartTypes(u) /\ flow \in BOOLEAN
  BY DEF UartInv, FlowInv
<1>4. UartTypes(o)
  <2>1. Keeps(o, u, UartNames, {"hw", "latch"})
    BY <1>3, IerWritten
  <2>2. Keeps(o, u, UartNames, {"fifo", "hw", "ier", "latch"})
    BY <2>1 DEF Keeps
  <2> QED BY <1>3, <2>2, TypesKept
<1> HIDE DEF o
<1> QED BY <1>1, <1>2, <1>3, <1>4, UartStarts

LEMMA WriteMoves == UartInv /\ Write => UartInv'
<1> SUFFICES ASSUME UartInv, Write PROVE UartInv'
  OBVIOUS
<1> DEFINE xmit == Append(u.xmit, written + 1)
           q == [u EXCEPT !.xmit = xmit]
<1>1. UartTypes(u)
  BY DEF UartInv
<1>2. u' = CoreStart(q)
  <2>1. q = [u EXCEPT !.xmit = Append(@, written + 1)]
    OBVIOUS
  <2> HIDE DEF q
  <2> QED BY <2>1 DEF Write
<1> HIDE DEF xmit
<1>3. Keeps(q, u, UartNames, {"fifo", "latch", "lost", "stop", "x", "xmit"})
  BY <1>1 DEF Keeps, UartTypes, HasFields, UartNames
<1> HIDE DEF q
<1>4. Moves(q, u) /\ UartTypes(q)
  BY <1>1, <1>3, SendingMoves DEF Moves, Reacts
<1>5. Moves(u', u)
  BY <1>2, <1>4, CoreStartMoves, MovesOn
<1> QED BY <1>5, CallsMove DEF Write

LEMMA XCharMoves == UartInv /\ SendXChar => UartInv'
<1> SUFFICES ASSUME UartInv, SendXChar PROVE UartInv'
  OBVIOUS
<1> DEFINE q == [u EXCEPT !.x = TRUE]
<1>1. UartTypes(u)
  BY DEF UartInv
<1>2. u' = StartTx(q)
  BY DEF SendXChar
<1>3. Keeps(q, u, UartNames, {"fifo", "latch", "lost", "stop", "x", "xmit"})
  BY <1>1 DEF Keeps, UartTypes, HasFields, UartNames
<1> HIDE DEF q
<1>4. Moves(q, u) /\ UartTypes(q)
  BY <1>1, <1>3, SendingMoves DEF Moves, Reacts
<1>5. Moves(u', u)
  BY <1>2, <1>4, TxStarts, MovesOn
<1> QED BY <1>5, CallsMove DEF SendXChar, KeepsLine, line

LEMMA StopMoves == UartInv /\ Stop => UartInv'
<1> SUFFICES ASSUME UartInv, Stop PROVE UartInv'
  OBVIOUS
<1> DEFINE q == [u EXCEPT !.stop = TRUE]
<1>1. UartTypes(u)
  BY DEF UartInv
<1>2. u' = StopTx(q)
  BY DEF Stop
<1>3. Keeps(q, u, UartNames, {"fifo", "latch", "lost", "stop", "x", "xmit"})
  BY <1>1 DEF Keeps, UartTypes, HasFields, UartNames
<1> HIDE DEF q
<1>4. Moves(q, u) /\ UartTypes(q)
  BY <1>1, <1>3, SendingMoves DEF Moves, Reacts
<1>5. Moves(u', u)
  BY <1>2, <1>4, TxStops, MovesOn
<1> QED BY <1>5, CallsMove DEF Stop, KeepsLine, line

LEMMA StartMoves == UartInv /\ Start => UartInv'
<1> SUFFICES ASSUME UartInv, Start PROVE UartInv'
  OBVIOUS
<1> DEFINE q == [u EXCEPT !.stop = FALSE]
<1>1. UartTypes(u)
  BY DEF UartInv
<1>2. u' = CoreStart(q)
  BY DEF Start
<1>3. Keeps(q, u, UartNames, {"fifo", "latch", "lost", "stop", "x", "xmit"})
  BY <1>1 DEF Keeps, UartTypes, HasFields, UartNames
<1> HIDE DEF q
<1>4. Moves(q, u) /\ UartTypes(q)
  BY <1>1, <1>3, SendingMoves DEF Moves, Reacts
<1>5. Moves(u', u)
  BY <1>2, <1>4, CoreStartMoves, MovesOn
<1> QED BY <1>5, CallsMove DEF Start, KeepsLine, line

LEMMA TxEmptyMoves == UartInv /\ TxEmpty => UartInv'
<1> SUFFICES ASSUME UartInv, TxEmpty PROVE UartInv'
  OBVIOUS
<1>1. UartTypes(u) /\ u' = SaveLsr(u)
  BY DEF UartInv, TxEmpty
<1>2. Moves(u', u)
  BY <1>1, LsrSaved
<1> QED BY <1>2, CallsMove DEF TxEmpty, KeepsLine, line

\* The IER is switched off and on again: then it is the driver's copy.
LEMMA Rs485Rewrites == UartInv /\ Rs485 => UartInv'
<1> SUFFICES ASSUME UartInv, Rs485 PROVE UartInv'
  OBVIOUS
<1> DEFINE q == WriteIer(u, {})
<1>1. UartTypes(u)
  BY DEF UartInv
<1>2. u' = WriteIer(q, u.ier)
  BY DEF Rs485
<1>3. Keeps(q, u, UartNames, {"hw", "latch"})
  BY <1>1, IerWritten
<1> HIDE DEF q
<1>4. UartTypes(q)
  <2>1. Keeps(q, u, UartNames, {"fifo", "hw", "ier", "latch"})
    BY <1>3 DEF Keeps
  <2> QED BY <1>1, <2>1, TypesKept
<1>5. Keeps(u', q, UartNames, {"hw", "latch"}) /\ u'.hw = u.ier
  BY <1>2, <1>4, IerWritten
<1>6. /\ u'.ier = u.ier /\ u'.cts = u.cts /\ u'.delta = u.delta /\ u'.hwstop = u.hwstop
      /\ u'.rx = u.rx /\ u'.saved = u.saved /\ u'.shift = u.shift
  BY <1>3, <1>5 DEF Keeps, UartNames
<1>7. UartTypes(u')
  <2>1. Keeps(u', q, UartNames, {"fifo", "hw", "ier", "latch"})
    BY <1>5 DEF Keeps
  <2> QED BY <1>4, <2>1, TypesKept
<1>8. Moves(u', u)
  BY <1>1, <1>5, <1>6, <1>7, SameReceived DEF Moves, Reacts, SameIer
<1> QED BY <1>8, CallsMove DEF Rs485, KeepsLine, line

LEMMA StopRxMoves == UartInv /\ StopRx => UartInv'
<1> SUFFICES ASSUME UartInv, StopRx PROVE UartInv'
  OBVIOUS
<1> DEFINE set == u.ier \ {"RLSI"}
<1>1. UartTypes(u)
  BY DEF UartInv
<1>2. u' = WriteIer([u EXCEPT !.ier = set], set)
  <2>1. [u EXCEPT !.ier = set] = [u EXCEPT !.ier = @ \ {"RLSI"}]
    OBVIOUS
  <2>2. u' = WriteIer([u EXCEPT !.ier = @ \ {"RLSI"}], set)
    BY DEF StopRx
  <2> HIDE DEF set
  <2> QED BY <2>1, <2>2
<1>3. "MSI" \in u.ier => "MSI" \in set
  OBVIOUS
<1> HIDE DEF set
<1>4. Moves(u', u)
  BY <1>1, <1>2, <1>3, BothWritten
<1> QED BY <1>4, MoveKeeps DEF StopRx, CoreCall, KeepsSettings, KeepsLine, line, handler

LEMMA TurnFlowSets == UartInv /\ TurnFlow => UartInv'
<1> SUFFICES ASSUME UartInv, TurnFlow PROVE UartInv'
  OBVIOUS
<1>1. UartTypes(u) /\ flow \in BOOLEAN /\ (~flow => u.hwstop = FALSE)
  BY DEF UartInv, UartTypes, FlowInv
<1>2. /\ phase = "open" /\ phase' = phase /\ flow' = ~flow /\ UNCHANGED <<came, delivered, cuts>>
      /\ pc' = pc /\ status' = status
      /\ u' = IF flow THEN FlowOff(u) ELSE FlowOn(u)
  BY DEF TurnFlow, CoreCall, KeepsLine, line, handler
<1>3. /\ UartTypes(u') /\ SameRx(u', u) /\ u'.hw = u'.ier
      /\ flow' => "MSI" \in u'.ier /\ u'.hwstop = ~u'.cts
      /\ ~flow' => u'.hwstop = FALSE
  <2>1. CASE ~flow
    <3>1. u' = FlowOn(u)
      BY <1>2, <2>1
    <3>2. /\ UartTypes(u') /\ SameRx(u', u) /\ u'.hw = u'.ier /\ "MSI" \in u'.ier
          /\ u'.delta = FALSE /\ u'.hwstop = ~u'.cts
      BY <1>1, <2>1, <3>1, FlowTurnsOn
    <3> QED BY <3>2, <1>2, <2>1
  <2>2. CASE flow
    <3> DEFINE o == TermiosIer(u, FALSE)
               q == [o EXCEPT !.hwstop = FALSE]
    <3>1. u' = CoreStart(q)
      BY <1>2, <2>2 DEF FlowOff
    <3>2. /\ UartTypes(o) /\ o.rx = u.rx /\ o.saved = u.saved /\ o.hw = o.ier /\ o.delta = u.delta
      BY <1>1, TermiosIerSet
    <3> HIDE DEF o
    <3>3. /\ Keeps(q, o, UartNames, {"delta", "hwstop"}) /\ q.hwstop = FALSE /\ q.delta = o.delta
          /\ q.rx = u.rx /\ q.saved = u.saved /\ q.hw = q.ier
      BY <3>2 DEF Keeps, UartTypes, HasFields, UartNames
    <3> HIDE DEF q
    <3>4. UartTypes(q)
      <4>1. q.delta \in BOOLEAN /\ q.hwstop \in BOOLEAN
        BY <3>2, <3>3 DEF UartTypes
      <4> QED BY <3>2, <3>3, <4>1, CtsReacts DEF Reacts
    <3>5. Moves(u', q)
      BY <3>1, <3>4, CoreStartMoves
    <3>6. SameRx(u', u)
      BY <3>3, <3>5 DEF Moves, Reacts, SameRx
    <3>7. UartTypes(u') /\ u'.hw = u'.ier /\ u'.hwstop = FALSE
      BY <3>3, <3>5 DEF Moves, Reacts, SameIer
    <3> QED BY <3>6, <3>7, <1>2, <2>2
  <2> QED BY <1>1, <2>1, <2>2
<1>4. IerInv' /\ FlowInv'
  BY <1>1, <1>2, <1>3 DEF IerInv, FlowInv
<1>5. RxInv'
  BY <1>2, <1>3, RxKept
<1> QED BY <1>3, <1>4, <1>5 DEF UartInv

\* The port is closed: nothing is received and nothing stopped.
LEMMA ShutdownClears == UartInv /\ Shutdown => UartInv'
<1> SUFFICES ASSUME UartInv, Shutdown PROVE UartInv'
  OBVIOUS
<1> DEFINE o == Cleared(u)
           shift == [i \in DOMAIN o.shift |-> XChar]
           q == [o EXCEPT !.hwstop = FALSE, !.ier = {}, !.lost = FALSE, !.stop = FALSE,
                          !.shift = shift, !.x = FALSE, !.xmit = <<>>]
<1>1. UartTypes(u) /\ status.err \in BOOLEAN
  BY DEF UartInv, RxInv
<1>2. u' = WriteIer(q, {})
  <2>1. q = [o EXCEPT !.hwstop = FALSE, !.ier = {}, !.lost = FALSE, !.stop = FALSE,
                      !.shift = [i \in DOMAIN @ |-> XChar], !.x = FALSE, !.xmit = <<>>]
    OBVIOUS
  <2> HIDE DEF q
  <2> QED BY <2>1 DEF Shutdown
<1>3. /\ Keeps(o, u, UartNames, {"delta", "fifo", "rx", "saved"}) /\ UartTypes(o)
      /\ o.rx = <<>> /\ o.saved = FALSE /\ o.delta = FALSE
  BY <1>1, ClearedPort
<1> HIDE DEF shift, o
<1>4. /\ Keeps(q, o, UartNames, {"hwstop", "ier", "lost", "stop", "shift", "x", "xmit"})
      /\ q.hwstop = FALSE
  BY <1>3 DEF Keeps, UartTypes, HasFields, UartNames
<1> HIDE DEF q
<1>5. /\ HasFields(UartNames, q) /\ q.cts = o.cts /\ q.delta = o.delta /\ q.rx = o.rx
      /\ q.saved = o.saved
  BY <1>4 DEF Keeps, UartNames
<1>6. UartTypes(q)
  <2>1. q.hwstop \in BOOLEAN
    BY <1>4
  <2> QED BY <1>3, <1>5, <2>1 DEF UartTypes
<1>7. Keeps(u', q, UartNames, {"hw", "latch"})
  BY <1>2, <1>6, IerWritten
<1>8. UartTypes(u')
  <2>1. Keeps(u', q, UartNames, {"fifo", "hw", "ier", "latch"})
    BY <1>7 DEF Keeps
  <2> QED BY <1>6, <2>1, TypesKept
<1>9. u'.rx = <<>> /\ u'.saved = FALSE /\ u'.hwstop = FALSE
  BY <1>3, <1>4, <1>5, <1>7 DEF Keeps, UartNames
<1>10. /\ phase' = "closed" /\ flow' = FALSE /\ came' = <<>> /\ delivered' = <<>> /\ cuts' = {}
       /\ pc' # "receive" /\ status'.err \in BOOLEAN
  BY <1>1 DEF Shutdown, NewLine, handler
<1>11. IerInv' /\ FlowInv'
  BY <1>9, <1>10 DEF IerInv, FlowInv
<1>12. RxInv'
  BY <1>9, <1>10, NothingReceived
<1> QED BY <1>8, <1>11, <1>12 DEF UartInv

\* Reading IIR acknowledges the transmit interrupt only.
LEMMA TakenMoves == UartInv /\ TakeInterrupt => UartInv'
<1> SUFFICES ASSUME UartInv, TakeInterrupt PROVE UartInv'
  OBVIOUS
<1>1. UartTypes(u)
  BY DEF UartInv
<1>2. Keeps(u', u, UartNames, {"fifo", "latch", "lost", "stop", "x", "xmit"})
  BY <1>1 DEF TakeInterrupt, ReadIir, Keeps, UartTypes, HasFields, UartNames
<1>3. Moves(u', u)
  BY <1>1, <1>2, SendingMoves
<1> QED BY <1>3, MoveKeeps DEF TakeInterrupt, HandlerStep

\* The error that reading the LSR clears is in the status then.
LEMMA HandledKeeps == UartInv /\ HandlePort => UartInv'
<1> SUFFICES ASSUME UartInv, HandlePort PROVE UartInv'
  OBVIOUS
<1>1. UartTypes(u) /\ RxInv
  BY DEF UartInv
<1>2. /\ u' = ReadLsr(u) /\ status' = ReadStatus(u) /\ pc = "status"
      /\ pc' = IF status'.some THEN "receive" ELSE "modem"
      /\ delivered' = delivered /\ cuts' = cuts /\ came' = came
      /\ phase' = phase /\ flow' = flow /\ bugs' = bugs
  BY DEF HandlePort, HandlerStep, AfterRx
<1>3. /\ Keeps(u', u, UartNames, {"rx"}) /\ u'.rx \in Seq(Received)
      /\ Len(u'.rx) = Len(u.rx)
      /\ \A j \in 1..Len(u.rx) :
           /\ u'.rx[j].char = u.rx[j].char
           /\ u'.rx[j].err = IF j = 1 THEN FALSE ELSE u.rx[j].err
      /\ LineError(u) \in BOOLEAN
      /\ Len(u.rx) > 0 => LineError(u) = u.rx[1].err
      /\ Len(u.rx) = 0 => LineError(u) = FALSE
  BY <1>1, <1>2, LsrRead
<1>4. /\ u'.cts = u.cts /\ u'.delta = u.delta /\ u'.hwstop = u.hwstop /\ u'.ier = u.ier
      /\ u'.hw = u.hw /\ u'.saved = u.saved /\ HasFields(UartNames, u')
  BY <1>3 DEF Keeps, UartNames
<1>5. UartTypes(u') /\ IerInv' /\ FlowInv'
  BY <1>2, <1>3, <1>4 DEF UartInv, UartTypes, IerInv, FlowInv
<1>6. status'.err = LineError(u) /\ status'.some = (u.rx # <<>>)
  BY <1>2 DEF ReadStatus
<1>7. u.rx \in Seq(Received) /\ Len(u.rx) \in Nat /\ (u.rx # <<>> <=> Len(u.rx) > 0)
  BY <1>1 DEF UartTypes
<1>8. pc' = "receive" <=> Len(u.rx) > 0
  BY <1>2, <1>6, <1>7
<1>9. RxInv'
  <2>1. /\ came' \in Seq(BOOLEAN) /\ delivered' \in Seq(Received) /\ status'.err \in BOOLEAN
        /\ Len(came') = Len(delivered') + Len(u'.rx) /\ FlagsArrive'
    BY <1>1, <1>2, <1>3, <1>6 DEF RxInv, FlagsArrive
  <2>2. ASSUME NEW j \in 1..Len(u'.rx)
        PROVE  /\ u'.rx[j].char = Len(delivered') + j
               /\ j > 1 => u'.rx[j].err = came'[Len(delivered') + j]
    <3>1. /\ u.rx[j].char = Len(delivered) + j
          /\ j > 1 => u.rx[j].err = came[Len(delivered) + j]
      BY <1>1, <1>3 DEF RxInv
    <3>2. u'.rx[j].char = u.rx[j].char /\ (j > 1 => u'.rx[j].err = u.rx[j].err)
      <4>1. j \in 1..Len(u.rx) /\ (j > 1 => j # 1)
        BY <1>3, <1>7
      <4>2. /\ u'.rx[j].char = u.rx[j].char
            /\ u'.rx[j].err = IF j = 1 THEN FALSE ELSE u.rx[j].err
        BY <1>3, <4>1
      <4> QED BY <4>1, <4>2
    <3> QED BY <1>2, <3>1, <3>2
  <2>3. ASSUME Len(u'.rx) > 0
        PROVE  /\ u'.rx[1].err = FALSE
               /\ \/ Len(delivered') + 1 \in cuts'
                  \/ came'[Len(delivered') + 1] <=>
                       u'.rx[1].err \/ u'.saved \/ (pc' = "receive" /\ status'.err)
    <3>0. Len(u.rx) > 0 /\ 1 \in 1..Len(u.rx)
      BY <1>3, <1>7, <2>3
    <3>1. u'.rx[1].err = FALSE /\ status'.err = u.rx[1].err /\ pc' = "receive"
      BY <1>3, <1>6, <1>8, <3>0
    <3>2. \/ Len(delivered) + 1 \in cuts
          \/ came[Len(delivered) + 1] <=> u.rx[1].err \/ u.saved
      BY <1>1, <1>2, <3>0 DEF RxInv
    <3> QED BY <1>2, <1>4, <3>1, <3>2
  <2>4. Len(u'.rx) = 0 => ~u'.saved
    BY <1>1, <1>3, <1>4 DEF RxInv
  <2>5. pc' = "receive" => Len(u'.rx) > 0 /\ ~u'.rx[1].err
    BY <1>3, <1>8, <2>3
  <2> QED BY <2>1, <2>2, <2>3, <2>4, <2>5 DEF RxInv
<1> QED BY <1>5, <1>9 DEF UartInv

\* A character is delivered with its error, and the LSR is read of the next.
LEMMA ReceivedKeeps == UartInv /\ receive_chars => UartInv'
<1> SUFFICES ASSUME UartInv, receive_chars PROVE UartInv'
  OBVIOUS
<1> DEFINE d == [char |-> Head(u.rx).char, err |-> (status.err \/ u.saved)]
           rest == Tail(u.rx)
           q == [u EXCEPT !.rx = rest, !.saved = FALSE]
           n == Len(delivered)
<1>1. UartTypes(u) /\ RxInv /\ HasFields(UartNames, u)
  BY DEF UartInv, UartTypes
<1>2. /\ pc = "receive" /\ delivered' = Append(delivered, d) /\ came' = came
      /\ phase' = phase /\ flow' = flow /\ bugs' = bugs
  BY DEF receive_chars, HandlerStep
<1>3. /\ u' = ReadLsr(q) /\ status' = ReadStatus(q)
      /\ \/ pc' = "receive" /\ q.rx # <<>> /\ cuts' = cuts
         \/ pc' = "modem" /\ cuts' = cuts \cup {Head(q.rx).char : c \in {1} \cap DOMAIN q.rx}
  <2>1. q = [u EXCEPT !.rx = Tail(@), !.saved = FALSE]
    BY <1>1 DEF HasFields, UartNames
  <2> HIDE DEF q
  <2> QED BY <2>1 DEF receive_chars
<1>4. /\ u.rx \in Seq(Received) /\ Len(u.rx) \in Nat /\ Len(u.rx) > 0 /\ u.rx # <<>>
      /\ delivered \in Seq(Received) /\ n \in Nat /\ u.rx[1].err = FALSE
      /\ came \in Seq(BOOLEAN) /\ Len(came) = n + Len(u.rx)
  <2>1. \A j \in 1..Len(u.rx) : u.rx[j] \in Received
    BY <1>1 DEF UartTypes
  <2>2. u.rx[1].err \in BOOLEAN
    BY <1>1, <1>2, <2>1 DEF UartTypes, RxInv, Received
  <2> QED BY <1>1, <1>2, <2>2 DEF UartTypes, RxInv
<1>5. /\ rest \in Seq(Received) /\ Len(rest) = Len(u.rx) - 1
      /\ \A j \in 1..Len(rest) : rest[j] = u.rx[j + 1]
      /\ Head(u.rx) = u.rx[1]
  BY <1>4
<1> HIDE DEF rest
<1>6. /\ Keeps(q, u, UartNames, {"rx", "saved"}) /\ q.rx = rest /\ q.saved = FALSE
  BY <1>1 DEF Keeps, HasFields, UartNames
<1> HIDE DEF q
<1>7. HasFields(UartNames, q) /\ q.cts = u.cts /\ q.delta = u.delta /\ q.hwstop = u.hwstop
      /\ q.ier = u.ier /\ q.hw = u.hw
  BY <1>6 DEF Keeps, UartNames
<1>8. UartTypes(q)
  <2>1. q.saved \in BOOLEAN
    BY <1>6
  <2> QED BY <1>1, <1>5, <1>6, <1>7, <2>1 DEF UartTypes
<1>9. /\ Keeps(u', q, UartNames, {"rx"}) /\ u'.rx \in Seq(Received)
      /\ Len(u'.rx) = Len(q.rx)
      /\ \A j \in 1..Len(q.rx) :
           /\ u'.rx[j].char = q.rx[j].char
           /\ u'.rx[j].err = IF j = 1 THEN FALSE ELSE q.rx[j].err
      /\ LineError(q) \in BOOLEAN
      /\ Len(q.rx) > 0 => LineError(q) = q.rx[1].err
      /\ Len(q.rx) = 0 => LineError(q) = FALSE
  BY <1>3, <1>8, LsrRead
<1>10. /\ u'.cts = u.cts /\ u'.delta = u.delta /\ u'.hwstop = u.hwstop /\ u'.ier = u.ier
       /\ u'.hw = u.hw /\ u'.saved = FALSE /\ HasFields(UartNames, u')
  BY <1>6, <1>7, <1>9 DEF Keeps, UartNames
<1>11. UartTypes(u')
  <2>1. u'.saved \in BOOLEAN
    BY <1>10
  <2> QED BY <1>1, <1>9, <1>10, <2>1 DEF UartTypes
<1>12. IerInv' /\ FlowInv'
  BY <1>2, <1>10 DEF UartInv, IerInv, FlowInv
<1>13. d \in Received /\ d.char = n + 1 /\ d.err = (status.err \/ u.saved)
  <2>1. u.rx[1].char = n + 1
    BY <1>1, <1>4 DEF RxInv
  <2>2. status.err \in BOOLEAN /\ u.saved \in BOOLEAN
    BY <1>1 DEF RxInv, UartTypes
  <2> QED BY <1>4, <1>5, <2>1, <2>2 DEF Received
<1> HIDE DEF d
<1>14. /\ delivered' \in Seq(Received) /\ Len(delivered') = n + 1
       /\ delivered'[n + 1] = d
       /\ \A j \in 1..n : delivered'[j] = delivered[j]
       /\ DOMAIN delivered' = 1..(n + 1) /\ DOMAIN delivered = 1..n
  BY <1>2, <1>4, <1>13
<1>15. cuts \subseteq cuts'
  BY <1>3
<1>16. FlagsArrive'
  <2>1. \/ n + 1 \in cuts
        \/ came[n + 1] <=> (status.err \/ u.saved)
    BY <1>1, <1>2, <1>4 DEF RxInv
  <2>2. ASSUME NEW i \in DOMAIN delivered'
        PROVE  delivered'[i].char = i /\ ((delivered'[i].err # came'[i]) => i \in cuts')
    <3>1. CASE i = n + 1
      <4>1. came[n + 1] \in BOOLEAN /\ d.err \in BOOLEAN
        BY <1>4, <1>13 DEF Received
      <4> QED BY <1>2, <1>13, <1>14, <1>15, <2>1, <3>1, <4>1
    <3>2. CASE i # n + 1
      <4>1. i \in DOMAIN delivered /\ delivered'[i] = delivered[i]
        BY <1>4, <1>14, <3>2
      <4> QED BY <1>1, <1>2, <1>15, <4>1 DEF RxInv, FlagsArrive
    <3> QED BY <3>1, <3>2
  <2> QED BY <2>2 DEF FlagsArrive
<1>17. status'.err \in BOOLEAN /\ status'.err = LineError(q)
  BY <1>3, <1>9 DEF ReadStatus
<1>18. ASSUME NEW j \in 1..Len(u'.rx)
       PROVE  /\ u'.rx[j].char = Len(delivered') + j
              /\ j > 1 => u'.rx[j].err = came'[Len(delivered') + j]
              /\ q.rx[j].char = Len(delivered') + j
              /\ q.rx[j].err = came'[Len(delivered') + j]
  <2>1. j \in Nat /\ j >= 1 /\ j + 1 \in 1..Len(u.rx) /\ q.rx[j] = u.rx[j + 1] /\ j + 1 > 1
    BY <1>4, <1>5, <1>6, <1>9
  <2>2. u.rx[j + 1].char = n + (j + 1) /\ u.rx[j + 1].err = came[n + (j + 1)]
    BY <1>1, <2>1 DEF RxInv
  <2>3. u'.rx[j].char = q.rx[j].char /\ (j > 1 => u'.rx[j].err = q.rx[j].err)
    <3>1. j \in 1..Len(q.rx) /\ (j > 1 => j # 1)
      BY <1>9, <2>1
    <3>2. /\ u'.rx[j].char = q.rx[j].char
          /\ u'.rx[j].err = IF j = 1 THEN FALSE ELSE q.rx[j].err
      BY <1>9, <3>1
    <3> QED BY <3>1, <3>2
  <2>4. n + (j + 1) = Len(delivered') + j
    BY <1>4, <1>14, <2>1
  <2> HIDE DEF n
  <2> QED BY <1>2, <2>1, <2>2, <2>3, <2>4
<1>19. ASSUME Len(u'.rx) > 0
       PROVE  /\ u'.rx[1].err = FALSE
              /\ \/ Len(delivered') + 1 \in cuts'
                 \/ came'[Len(delivered') + 1] <=>
                      u'.rx[1].err \/ u'.saved \/ (pc' = "receive" /\ status'.err)
  <2>0. Len(q.rx) > 0 /\ 1 \in 1..Len(q.rx) /\ 1 \in 1..Len(u'.rx)
    BY <1>5, <1>6, <1>9, <1>19, <1>4
  <2>1. u'.rx[1].err = FALSE /\ LineError(q) = q.rx[1].err
    BY <1>9, <2>0
  <2>2. q.rx[1].char = Len(delivered') + 1 /\ q.rx[1].err = came'[Len(delivered') + 1]
    BY <1>18, <2>0
  <2>3. CASE pc' = "receive"
    BY <1>10, <1>17, <2>1, <2>2, <2>3
  <2>4. CASE pc' = "modem"
    <3>1. cuts' = cuts \cup {Head(q.rx).char : c \in {1} \cap DOMAIN q.rx}
      BY <1>3, <2>4
    <3>2. 1 \in {1} \cap DOMAIN q.rx /\ Head(q.rx) = q.rx[1]
      BY <1>5, <1>6, <2>0
    <3> QED BY <2>1, <2>2, <3>1, <3>2
  <2> QED BY <1>3, <2>3, <2>4
<1>20. pc' = "receive" => Len(u'.rx) > 0
  BY <1>3, <1>5, <1>6, <1>9
<1>21. Len(came') = Len(delivered') + Len(u'.rx)
  <2>1. Len(u'.rx) = Len(u.rx) - 1
    BY <1>5, <1>6, <1>9
  <2>2. Len(came') = n + Len(u.rx) /\ Len(delivered') = n + 1
    BY <1>2, <1>4, <1>14
  <2>3. n \in Nat /\ Len(u.rx) \in Nat
    BY <1>4
  <2> HIDE DEF n
  <2>4. \A a, b \in Nat : a + b = (a + 1) + (b - 1)
    OBVIOUS
  <2>5. n + Len(u.rx) = (n + 1) + (Len(u.rx) - 1)
    BY <2>3, <2>4
  <2> QED BY <2>1, <2>2, <2>5
<1>22. RxInv'
  <2>1. came' \in Seq(BOOLEAN)
    BY <1>2, <1>4
  <2> HIDE DEF n
  <2> QED BY <2>1, <1>10, <1>14, <1>16, <1>17, <1>18, <1>19, <1>20, <1>21 DEF RxInv
<1> QED BY <1>11, <1>12, <1>22 DEF UartInv

LEMMA ModemStatusKeeps == UartInv /\ ModemStatus => UartInv'
<1> SUFFICES ASSUME UartInv, ModemStatus PROVE UartInv'
  OBVIOUS
<1>1. UartTypes(u) /\ flow \in BOOLEAN
  BY DEF UartInv, FlowInv
<1>2. /\ u' = check_modem_status(u, flow) /\ pc = "modem" /\ pc' # "receive"
      /\ status' = NoStatus /\ phase' = phase /\ flow' = flow /\ bugs' = bugs
      /\ UNCHANGED <<came, delivered, cuts>>
  BY DEF ModemStatus, HandlerStep
<1>3. /\ Reacts(u', u) /\ u'.delta = FALSE
      /\ u'.hwstop = IF u.delta /\ "MSI" \in u.ier /\ flow THEN ~u.cts ELSE u.hwstop
  BY <1>1, <1>2, ModemChecked
<1> QED BY <1>2, <1>3, ReactionKeeps

LEMMA TransmitMoves == UartInv /\ TransmitChars => UartInv'
<1> SUFFICES ASSUME UartInv, TransmitChars PROVE UartInv'
  OBVIOUS
<1>1. UartTypes(u) /\ u' = transmit_chars(u)
  BY DEF UartInv, TransmitChars
<1>2. Moves(u', u)
  BY <1>1, Transmits
<1> QED BY <1>2, MoveKeeps DEF TransmitChars, HandlerStep

\* The timer writes back the IER it found, and the copy may have lost THRI.
LEMMA TimeoutKeeps == UartInv /\ BackupTimeout => UartInv'
<1> SUFFICES ASSUME UartInv, BackupTimeout PROVE UartInv'
  OBVIOUS
<1> DEFINE none == WriteIer(u, {})
           off == SaveLsr(none)
           kick == "THRI" \in u.ier /\ (u.xmit # <<>> \/ u.x) /\ THRE(u)
           q == IF kick THEN transmit_chars(off) ELSE off
<1>1. UartTypes(u) /\ flow \in BOOLEAN /\ u.cts \in BOOLEAN /\ u.hwstop \in BOOLEAN
  BY DEF UartInv, UartTypes, FlowInv
<1>2. u' = WriteIer(q, u.hw) /\ "THRE" \in bugs
  BY DEF BackupTimeout
<1>3. /\ pc = "idle" /\ phase # "closed"
      /\ UNCHANGED <<pc, status, phase, flow, bugs, came, delivered, cuts>>
  BY DEF BackupTimeout, HandlerStep, handler
<1>4. Keeps(none, u, UartNames, {"hw", "latch"})
  BY <1>1, IerWritten
<1> HIDE DEF none
<1>5. UartTypes(none)
  <2>1. Keeps(none, u, UartNames, {"fifo", "hw", "ier", "latch"})
    BY <1>4 DEF Keeps
  <2> QED BY <1>1, <2>1, TypesKept
<1>6. Moves(off, none) /\ off.ier = none.ier
  BY <1>5, LsrSaved
<1> HIDE DEF off, kick
<1>7. UartTypes(off)
  BY <1>6 DEF Moves, Reacts
<1>8. Moves(q, off) /\ q.ier \in {off.ier, off.ier \ {"THRI"}}
  BY <1>7, Transmits, StaysPut
<1> HIDE DEF q
<1>9. Moves(q, none)
  BY <1>6, <1>8, MovesOn
<1>10. UartTypes(q)
  BY <1>8 DEF Moves, Reacts
<1>11. Keeps(u', q, UartNames, {"hw", "latch"}) /\ u'.hw = u.hw
  BY <1>2, <1>10, IerWritten
<1>12. UartTypes(u')
  <2>1. Keeps(u', q, UartNames, {"fifo", "hw", "ier", "latch"})
    BY <1>11 DEF Keeps
  <2> QED BY <1>10, <2>1, TypesKept
<1>13. /\ none.ier = u.ier /\ none.rx = u.rx /\ none.saved = u.saved /\ none.cts = u.cts
       /\ none.delta = u.delta /\ none.hwstop = u.hwstop
  BY <1>4 DEF Keeps, UartNames
<1>14. /\ u'.ier = q.ier /\ u'.rx = q.rx /\ u'.saved = q.saved /\ u'.cts = q.cts
       /\ u'.delta = q.delta /\ u'.hwstop = q.hwstop
  BY <1>11 DEF Keeps, UartNames
<1>15. SameRx(u', u)
  BY <1>9, <1>13, <1>14 DEF Moves, Reacts, SameRx
<1>16. IerInv'
  <2>1. u'.ier \in {u.ier, u.ier \ {"THRI"}}
    BY <1>6, <1>8, <1>13, <1>14
  <2>2. u.hw = u.ier \/ u.hw = u.ier \cup {"THRI"}
    BY <1>3 DEF UartInv, IerInv
  <2>3. u.hw = u'.ier \/ u.hw = u'.ier \cup {"THRI"}
    BY <2>1, <2>2
  <2> QED BY <1>2, <1>3, <1>11, <2>3 DEF IerInv
<1>17. FlowInv'
  <2>1. /\ u'.cts = u.cts /\ u'.delta = u.delta /\ u'.hwstop = u.hwstop
        /\ "MSI" \in u.ier => "MSI" \in u'.ier
    BY <1>9, <1>13, <1>14 DEF Moves, Reacts
  <2> QED BY <1>3, <2>1 DEF UartInv, FlowInv
<1>18. RxInv'
  BY <1>3, <1>15, RxKept
<1> QED BY <1>12, <1>16, <1>17, <1>18 DEF UartInv

\* The UART's transmitter is nothing to what is received and asked for.
LEMMA OnTheLine ==
  ASSUME UartInv, Keeps(u', u, UartNames, {"fifo", "latch", "shift"}),
         UNCHANGED <<phase, flow, bugs, pc, status, came, delivered, cuts>>
  PROVE  UartInv'
<1>1. /\ u'.cts = u.cts /\ u'.delta = u.delta /\ u'.hwstop = u.hwstop /\ u'.ier = u.ier
      /\ u'.hw = u.hw /\ u'.rx = u.rx /\ u'.saved = u.saved /\ HasFields(UartNames, u')
  BY DEF Keeps, UartNames
<1>2. UartTypes(u') /\ IerInv' /\ FlowInv'
  BY <1>1 DEF UartInv, UartTypes, IerInv, FlowInv
<1>3. SameRx(u', u)
  BY <1>1, SameReceived DEF UartInv
<1>4. RxInv'
  BY <1>3, RxKept
<1> QED BY <1>2, <1>4 DEF UartInv

LEMMA ShiftMoves == UartInv /\ Shift => UartInv'
<1> SUFFICES ASSUME UartInv, Shift PROVE UartInv'
  OBVIOUS
<1> DEFINE fifo == Tail(u.fifo)
           shift == <<Head(u.fifo)>>
           latch == u.latch \/ Len(u.fifo) = 1
<1>1. UartTypes(u)
  BY DEF UartInv
<1>2. u' = [u EXCEPT !.fifo = fifo, !.shift = shift, !.latch = latch]
  BY <1>1 DEF Shift, UartTypes, HasFields, UartNames
<1> HIDE DEF fifo, shift, latch
<1>3. Keeps(u', u, UartNames, {"fifo", "latch", "shift"})
  BY <1>1, <1>2 DEF Keeps, UartTypes, HasFields, UartNames
<1> QED BY <1>3, OnTheLine DEF Shift, Hardware, handler

LEMMA SendMoves == UartInv /\ Send => UartInv'
<1> SUFFICES ASSUME UartInv, Send PROVE UartInv'
  OBVIOUS
<1>1. UartTypes(u)
  BY DEF UartInv
<1>2. u' = [u EXCEPT !.shift = <<>>]
  BY DEF Send
<1>3. Keeps(u', u, UartNames, {"fifo", "latch", "shift"})
  BY <1>1, <1>2 DEF Keeps, UartTypes, HasFields, UartNames
<1> QED BY <1>3, OnTheLine DEF Send, Hardware, handler

\* A character that arrives waits behind those that came before it.
LEMMA ArriveKeeps == UartInv /\ Arrive => UartInv'
<1> SUFFICES ASSUME UartInv, Arrive PROVE UartInv'
  OBVIOUS
<1> DEFINE n == Len(delivered)
           m == Len(u.rx)
<1>1. PICK err \in BOOLEAN :
        /\ came' = Append(came, err)
        /\ u' = [u EXCEPT !.rx = Append(@, [char |-> Len(came) + 1, err |-> err])]
  BY DEF Arrive
<1> DEFINE c == [char |-> Len(came) + 1, err |-> err]
           rx == Append(u.rx, c)
<1>2. UartTypes(u) /\ RxInv /\ HasFields(UartNames, u)
  BY DEF UartInv, UartTypes
<1>3. /\ phase' = phase /\ flow' = flow /\ bugs' = bugs /\ pc' = pc /\ status' = status
      /\ delivered' = delivered /\ cuts' = cuts
  BY DEF Arrive, Hardware, handler
<1>4. u.rx \in Seq(Received) /\ m \in Nat /\ n \in Nat /\ came \in Seq(BOOLEAN) /\ Len(came) = n + m
      /\ delivered \in Seq(Received)
  BY <1>2 DEF UartTypes, RxInv
<1>5. c \in Received /\ c.char = n + (m + 1) /\ c.err = err
  <2>1. Len(came) + 1 \in Nat /\ Len(came) + 1 = n + (m + 1)
    BY <1>4
  <2> QED BY <2>1 DEF Received
<1> HIDE DEF c
<1>6. rx \in Seq(Received) /\ Len(rx) = m + 1 /\ rx[m + 1] = c /\ \A j \in 1..m : rx[j] = u.rx[j]
  BY <1>4, <1>5
<1>7. u' = [u EXCEPT !.rx = rx]
  BY <1>1 DEF c
<1> HIDE DEF rx
<1>8. Keeps(u', u, UartNames, {"rx"}) /\ u'.rx = rx
  BY <1>2, <1>7 DEF Keeps, HasFields, UartNames
<1>9. /\ u'.cts = u.cts /\ u'.delta = u.delta /\ u'.hwstop = u.hwstop /\ u'.ier = u.ier
      /\ u'.hw = u.hw /\ u'.saved = u.saved /\ HasFields(UartNames, u')
  BY <1>8 DEF Keeps, UartNames
<1>10. UartTypes(u')
  BY <1>2, <1>6, <1>8, <1>9 DEF UartTypes
<1>11. IerInv' /\ FlowInv'
  BY <1>3, <1>9 DEF UartInv, IerInv, FlowInv
<1>12. /\ came' \in Seq(BOOLEAN) /\ Len(came') = Len(came) + 1 /\ came'[Len(came) + 1] = err
       /\ \A i \in 1..Len(came) : came'[i] = came[i]
  <2>1. \A s \in Seq(BOOLEAN), b \in BOOLEAN :
          LET t == Append(s, b)
          IN  /\ t \in Seq(BOOLEAN) /\ Len(t) = Len(s) + 1 /\ t[Len(s) + 1] = b
              /\ \A i \in 1..Len(s) : t[i] = s[i]
    OBVIOUS
  <2> QED BY <1>1, <1>4, <2>1
<1>13. came'[n + (m + 1)] = err /\ Len(came') = n + (m + 1) /\ \A i \in 1..(n + m) : came'[i] = came[i]
  <2>1. Len(came) + 1 = n + (m + 1)
    BY <1>4
  <2> QED BY <1>4, <1>12, <2>1
<1>14. FlagsArrive'
  <2>1. ASSUME NEW i \in DOMAIN delivered
        PROVE  delivered[i].char = i /\ ((delivered[i].err # came'[i]) => i \in cuts)
    <3>1. i \in 1..(n + m)
      BY <1>4
    <3> QED BY <1>2, <1>13, <3>1 DEF RxInv, FlagsArrive
  <2> QED BY <1>3, <2>1 DEF FlagsArrive
<1>15. ASSUME NEW j \in 1..(m + 1)
       PROVE  /\ rx[j].char = n + j
              /\ j > 1 => rx[j].err = came'[n + j]
  <2>1. CASE j = m + 1
    BY <1>5, <1>6, <1>13, <2>1
  <2>2. CASE j # m + 1
    <3>1. j \in 1..m /\ n + j \in 1..(n + m) /\ rx[j] = u.rx[j]
      <4>1. m \in Nat /\ n \in Nat
        BY <1>4
      <4> HIDE DEF n, m
      <4>2. j \in 1..m /\ n + j \in 1..(n + m)
        BY <2>2, <4>1
      <4> QED BY <1>6, <4>2
    <3>2. u.rx[j].char = n + j /\ (j > 1 => u.rx[j].err = came[n + j])
      BY <1>2, <3>1 DEF RxInv
    <3> QED BY <1>13, <3>1, <3>2
  <2> QED BY <2>1, <2>2
<1>16. \/ n + 1 \in cuts
       \/ came'[n + 1] <=> rx[1].err \/ u.saved \/ (pc = "receive" /\ status.err)
  <2>1. CASE m = 0
    <3>1. rx[1] = c /\ came'[n + 1] = err
      BY <1>4, <1>6, <1>13, <2>1
    <3>2. ~u.saved /\ pc # "receive"
      BY <1>2, <2>1 DEF RxInv
    <3> QED BY <1>5, <3>1, <3>2
  <2>2. CASE m # 0
    <3>1. m > 0 /\ 1 \in 1..m /\ n + 1 \in 1..(n + m)
      BY <1>4, <2>2
    <3>2. rx[1] = u.rx[1] /\ came'[n + 1] = came[n + 1]
      BY <1>6, <1>13, <3>1
    <3> QED BY <1>2, <3>1, <3>2 DEF RxInv
  <2> QED BY <2>1, <2>2
<1>17. pc = "receive" => ~rx[1].err
  <2>1. ASSUME pc = "receive" PROVE m > 0 /\ ~u.rx[1].err
    BY <1>2, <2>1 DEF RxInv
  <2>2. ASSUME m > 0 PROVE rx[1] = u.rx[1]
    BY <1>4, <1>6, <2>2
  <2> QED BY <2>1, <2>2
<1>18. RxInv'
  <2>1. Len(u'.rx) = m + 1 /\ Len(u'.rx) > 0 /\ Len(u'.rx) # 0 /\ Len(delivered') = n
        /\ Len(came') = n + (m + 1)
    BY <1>3, <1>4, <1>6, <1>8, <1>13
  <2>2. status'.err \in BOOLEAN /\ delivered' \in Seq(Received)
    BY <1>2, <1>3, <1>4 DEF RxInv
  <2> HIDE DEF n, m
  <2> QED BY <2>1, <2>2, <1>3, <1>8, <1>9, <1>12, <1>14, <1>15, <1>16, <1>17 DEF RxInv
<1> QED BY <1>10, <1>11, <1>18 DEF UartInv

\* A change of CTS is remembered in the delta bit.
LEMMA CtsChangeKeeps == UartInv /\ CtsChange => UartInv'
<1> SUFFICES ASSUME UartInv, CtsChange PROVE UartInv'
  OBVIOUS
<1>1. UartTypes(u) /\ u.cts \in BOOLEAN
  BY DEF UartInv, UartTypes
<1>2. /\ phase' = phase /\ flow' = flow /\ bugs' = bugs /\ pc' = pc /\ status' = status
      /\ UNCHANGED <<came, delivered, cuts>>
  BY DEF CtsChange, Hardware, handler
<1>3. Keeps(u', u, UartNames, {"cts", "delta"}) /\ u'.cts = ~u.cts /\ u'.delta = TRUE
  BY <1>1 DEF CtsChange, Keeps, UartTypes, HasFields, UartNames
<1>4. /\ u'.hwstop = u.hwstop /\ u'.ier = u.ier /\ u'.hw = u.hw /\ u'.rx = u.rx
      /\ u'.saved = u.saved /\ HasFields(UartNames, u')
  BY <1>3 DEF Keeps, UartNames
<1>5. UartTypes(u')
  <2>1. u'.cts \in BOOLEAN /\ u'.delta \in BOOLEAN
    BY <1>1, <1>3
  <2> QED BY <1>1, <1>4, <2>1 DEF UartTypes
<1>6. IerInv' /\ FlowInv'
  BY <1>2, <1>3, <1>4 DEF UartInv, IerInv, FlowInv
<1>7. SameRx(u', u)
  BY <1>1, <1>4, SameReceived
<1>8. RxInv'
  BY <1>2, <1>7, RxKept
<1> QED BY <1>5, <1>6, <1>8 DEF UartInv

-------------------------------------------------------------------------------
(* A port in operation: the theorems                                         *)

\* Every step of the core, the handler, the timer and the line keeps it.
LEMMA UartStep == UartInv /\ [UartNext]_uartVars => UartInv'
<1> SUFFICES ASSUME UartInv, [UartNext]_uartVars PROVE UartInv'
  OBVIOUS
<1>1. CASE CoreNext
  BY <1>1, OpenSets, ReconfigureSets, WriteMoves, XCharMoves, StopMoves, StartMoves,
     TxEmptyMoves, TurnFlowSets, Rs485Rewrites, StopRxMoves, ShutdownClears DEF CoreNext
<1>2. CASE IsrNext
  BY <1>2, TakenMoves, HandledKeeps, ReceivedKeeps, ModemStatusKeeps, TransmitMoves DEF IsrNext
<1>3. CASE BackupTimeout
  BY <1>3, TimeoutKeeps
<1>4. CASE LineNext
  BY <1>4, ShiftMoves, SendMoves, ArriveKeeps, CtsChangeKeeps DEF LineNext
<1>5. CASE UNCHANGED uartVars
  BY <1>5 DEF uartVars, UartInv, UartTypes, IerInv, FlowInv, RxInv, FlagsArrive
<1> QED BY <1>1, <1>2, <1>3, <1>4, <1>5 DEF UartNext

\* What holds of a port between any two of its steps.
THEOREM UartInvariant == UartSpec => []UartInv
<1>1. UartInit => UartInv
  BY UartBegins
<1>2. UartInv /\ [UartNext]_uartVars => UartInv'
  BY UartStep
<1> QED BY <1>1, <1>2, PTL DEF UartSpec

\* The IER of the UART is the driver's copy of it outside of the handler, but
\* for the transmit interrupt that the backup timer leaves on (1942-1987).
THEOREM IerIsKnown == UartSpec => []IerAgrees
<1>1. UartInv => IerAgrees
  BY DEF UartInv, IerInv, IerAgrees
<1> QED BY <1>1, UartInvariant, PTL

\* No change of CTS is lost, whichever of the handler, get_mctrl and
\* set_termios reads the MSR that tells of it (1693-1714, 2004-2024).
THEOREM FlowIsFollowed == UartSpec => []FlowFollowsCts
<1>1. UartInv => FlowFollowsCts
  BY DEF UartInv, FlowInv, FlowFollowsCts
<1> QED BY <1>1, UartInvariant, PTL

\* Every character is delivered once, in order and with its own line error,
\* for any number of characters and any bound of receive_chars (1571-1652).
THEOREM FlagsAreOwn == UartSpec => []FlagsArrive
<1>1. UartInv => FlagsArrive
  BY DEF UartInv, RxInv
<1> QED BY <1>1, UartInvariant, PTL

-------------------------------------------------------------------------------
(* A port in operation: the characters that are sent                         *)

\* The characters from m + 1 to n.
Run(m, n) == [i \in 1..(n - m) |-> m + i]

\* The data in s are these.
Carries(s, m, n) ==
  /\ s \in Seq(Nat)
  /\ \A i \in DOMAIN s : s[i] # XChar => s[i] \in (m + 1)..n
  /\ \A v \in (m + 1)..n : \E i \in DOMAIN s : s[i] = v
  /\ \A i, j \in DOMAIN s : i < j /\ s[i] # XChar /\ s[j] # XChar => s[i] < s[j]

\* Of n characters the first a are out, the next one may be being sent, those
\* up to c are in the FIFO and the others in the buffer; in the place of some
\* there may be an x_char.
Order(p, out, n) ==
  \E a, b, c \in 0..n :
    /\ a <= b /\ b <= c /\ out = Run(0, a) /\ p.xmit = Run(c, n)
    /\ \/ p.shift \in {<<>>, <<XChar>>} /\ b = a
       \/ p.shift = <<b>> /\ b = a + 1
    /\ p.fifo = Run(b, c) \/ (p.fifo = <<XChar>> /\ b = c)

\* While the handler goes by an empty FIFO it has seen, the FIFO is empty.
SeenEmpty ==
  /\ pc \in {"receive", "modem"} /\ status.thre => u.fifo = <<>>
  /\ pc = "transmit" => u.fifo = <<>>

\* Where the driver keeps the order.
Ordered == phase # "closed" /\ ~("TXEN" \in bugs /\ flowUsed)

TxInv ==
  /\ written \in Nat /\ (flow => flowUsed) /\ (u.shift = <<>> \/ u.shift = <<u.shift[1]>>)
  /\ Ordered => u.lost = FALSE /\ Order(u, sent, written) /\ SeenEmpty

LEMMA RunFacts ==
  ASSUME NEW m \in Nat, NEW n \in Nat, m <= n
  PROVE  /\ Run(m, n) \in Seq(Nat) /\ Len(Run(m, n)) = n - m
         /\ \A i \in 1..(n - m) : Run(m, n)[i] = m + i
         /\ Run(m, n) = <<>> <=> m = n
<1>1. n - m \in Nat
  OBVIOUS
<1>2. Run(m, n) \in Seq(Nat) /\ Len(Run(m, n)) = n - m
      /\ \A i \in 1..(n - m) : Run(m, n)[i] = m + i
  <2>1. \A i \in 1..(n - m) : m + i \in Nat
    OBVIOUS
  <2> QED BY <1>1, <2>1 DEF Run
<1>3. Run(m, n) = <<>> <=> m = n
  <2>1. Run(m, n) = <<>> <=> Len(Run(m, n)) = 0
    BY <1>2
  <2>2. n - m = 0 <=> m = n
    OBVIOUS
  <2> QED BY <1>2, <2>1, <2>2
<1> QED BY <1>2, <1>3

\* A run is cut in two, and one character longer.
LEMMA RunCut ==
  ASSUME NEW m \in Nat, NEW n \in Nat, NEW k \in Nat, m <= n, k <= n - m
  PROVE  /\ SubSeq(Run(m, n), 1, k) = Run(m, m + k)
         /\ SubSeq(Run(m, n), k + 1, n - m) = Run(m + k, n)
<1>1. /\ Run(m, n) \in Seq(Nat) /\ Len(Run(m, n)) = n - m
      /\ \A i \in 1..(n - m) : Run(m, n)[i] = m + i
  BY RunFacts
<1>2. m + k \in Nat /\ m <= m + k /\ m + k <= n /\ (m + k) - m = k /\ n - (m + k) = (n - m) - k
  OBVIOUS
<1>3. /\ Run(m, m + k) \in Seq(Nat) /\ Len(Run(m, m + k)) = (m + k) - m
      /\ \A i \in 1..((m + k) - m) : Run(m, m + k)[i] = m + i
  BY <1>2, RunFacts
<1>4. /\ Run(m + k, n) \in Seq(Nat) /\ Len(Run(m + k, n)) = n - (m + k)
      /\ \A i \in 1..(n - (m + k)) : Run(m + k, n)[i] = (m + k) + i
  BY <1>2, RunFacts
<1>5. SubSeq(Run(m, n), 1, k) = Run(m, m + k)
  <2> DEFINE s == SubSeq(Run(m, n), 1, k)
  <2>1. s \in Seq(Nat) /\ Len(s) = k /\ \A i \in 1..k : s[i] = Run(m, n)[i]
    BY <1>1
  <2>2. \A i \in 1..k : s[i] = Run(m, m + k)[i]
    BY <1>1, <1>2, <1>3, <2>1
  <2>3. Len(Run(m, m + k)) = k
    BY <1>2, <1>3
  <2> HIDE DEF s
  <2> QED BY <1>3, <2>1, <2>2, <2>3, SeqEqual DEF s
<1>6. SubSeq(Run(m, n), k + 1, n - m) = Run(m + k, n)
  <2> DEFINE s == SubSeq(Run(m, n), k + 1, n - m)
  <2>1. s \in Seq(Nat) /\ Len(s) = (n - m) - k
        /\ \A i \in 1..((n - m) - k) : s[i] = Run(m, n)[k + i]
    BY <1>1
  <2>2. \A i \in 1..((n - m) - k) : s[i] = Run(m + k, n)[i]
    <3> SUFFICES ASSUME NEW i \in 1..((n - m) - k) PROVE s[i] = Run(m + k, n)[i]
      OBVIOUS
    <3>1. k + i \in 1..(n - m) /\ i \in 1..(n - (m + k)) /\ m + (k + i) = (m + k) + i
      OBVIOUS
    <3> QED BY <1>1, <1>4, <2>1, <3>1
  <2>3. Len(Run(m + k, n)) = (n - m) - k
    BY <1>2, <1>4
  <2> HIDE DEF s
  <2> QED BY <1>4, <2>1, <2>2, <2>3, SeqEqual DEF s
<1> QED BY <1>5, <1>6

LEMMA RunGrows ==
  ASSUME NEW m \in Nat, NEW n \in Nat, m <= n
  PROVE  Append(Run(m, n), n + 1) = Run(m, n + 1) /\ Run(m, n) \o <<n + 1>> = Run(m, n + 1)
<1> DEFINE s == Append(Run(m, n), n + 1)
<1>1. /\ Run(m, n) \in Seq(Nat) /\ Len(Run(m, n)) = n - m
      /\ \A i \in 1..(n - m) : Run(m, n)[i] = m + i
  BY RunFacts
<1>2. n + 1 \in Nat /\ m <= n + 1 /\ (n + 1) - m = (n - m) + 1 /\ n - m \in Nat
  OBVIOUS
<1>3. /\ Run(m, n + 1) \in Seq(Nat) /\ Len(Run(m, n + 1)) = (n + 1) - m
      /\ \A i \in 1..((n + 1) - m) : Run(m, n + 1)[i] = m + i
  BY <1>2, RunFacts
<1>4. s \in Seq(Nat) /\ Len(s) = (n - m) + 1 /\ s[(n - m) + 1] = n + 1
      /\ \A i \in 1..(n - m) : s[i] = Run(m, n)[i]
  <2>1. \A q \in Seq(Nat), c \in Nat :
          LET t == Append(q, c)
          IN  /\ t \in Seq(Nat) /\ Len(t) = Len(q) + 1 /\ t[Len(q) + 1] = c
              /\ \A i \in 1..Len(q) : t[i] = q[i]
    OBVIOUS
  <2>2. LET q == Run(m, n)
        IN  /\ s \in Seq(Nat) /\ Len(s) = Len(q) + 1 /\ s[Len(q) + 1] = n + 1
            /\ \A i \in 1..Len(q) : s[i] = q[i]
    BY <1>1, <1>2, <2>1
  <2> HIDE DEF s
  <2> QED BY <1>1, <2>2
<1>5. \A i \in 1..((n - m) + 1) : s[i] = Run(m, n + 1)[i]
  <2> SUFFICES ASSUME NEW i \in 1..((n - m) + 1) PROVE s[i] = Run(m, n + 1)[i]
    OBVIOUS
  <2>1. CASE i = (n - m) + 1
    BY <1>2, <1>3, <1>4, <2>1
  <2>2. CASE i # (n - m) + 1
    BY <1>1, <1>2, <1>3, <1>4, <2>2
  <2> QED BY <2>1, <2>2
<1>6. Run(m, n) \o <<n + 1>> = s
  BY <1>1, <1>2
<1> HIDE DEF s
<1>7. s = Run(m, n + 1)
  BY <1>2, <1>3, <1>4, <1>5, SeqEqual
<1> QED BY <1>6, <1>7 DEF s

LEMMA RunShrinks ==
  ASSUME NEW m \in Nat, NEW n \in Nat, m < n
  PROVE  Head(Run(m, n)) = m + 1 /\ Tail(Run(m, n)) = Run(m + 1, n)
<1>1. /\ Run(m, n) \in Seq(Nat) /\ Len(Run(m, n)) = n - m
      /\ \A i \in 1..(n - m) : Run(m, n)[i] = m + i
  BY RunFacts
<1>2. 1 <= n - m /\ 1 \in 1..(n - m) /\ Run(m, n) # <<>>
  BY <1>1
<1>3. Head(Run(m, n)) = m + 1
  BY <1>1, <1>2
<1>4. Tail(Run(m, n)) = SubSeq(Run(m, n), 2, Len(Run(m, n)))
  BY <1>1, <1>2, TailIsSubSeq
<1>5. SubSeq(Run(m, n), 1 + 1, n - m) = Run(m + 1, n)
  BY <1>2, RunCut
<1>6. Tail(Run(m, n)) = SubSeq(Run(m, n), 1 + 1, n - m)
  <2>1. 2 = 1 + 1
    OBVIOUS
  <2> QED BY <1>1, <1>4, <2>1
<1> QED BY <1>3, <1>5, <1>6

\* What two sequences carry one after the other.
LEMMA CarriesOn ==
  ASSUME NEW l \in Nat, NEW m \in Nat, NEW n \in Nat, l <= m, m <= n,
         NEW s, NEW t, Carries(s, l, m), Carries(t, m, n)
  PROVE  Carries(s \o t, l, n)
<1> DEFINE k == Len(s)
           h == Len(t)
           q == s \o t
<1>1. s \in Seq(Nat) /\ t \in Seq(Nat) /\ k \in Nat /\ h \in Nat /\ DOMAIN s = 1..k /\ DOMAIN t = 1..h
  BY DEF Carries
<1>2. q \in Seq(Nat) /\ DOMAIN q = 1..(k + h)
      /\ \A i \in 1..(k + h) : q[i] = IF i <= k THEN s[i] ELSE t[i - k]
  BY <1>1
<1> HIDE DEF q, k, h
<1>3. ASSUME NEW i \in 1..k
      PROVE  i \in 1..(k + h) /\ q[i] = s[i]
  BY <1>1, <1>2
<1>4. ASSUME NEW i \in 1..h
      PROVE  k + i \in 1..(k + h) /\ q[k + i] = t[i]
  BY <1>1, <1>2
<1>5. ASSUME NEW i \in 1..(k + h)
      PROVE  \/ i \in 1..k /\ q[i] = s[i]
             \/ i - k \in 1..h /\ q[i] = t[i - k] /\ i > k
  BY <1>1, <1>2
<1>6. ASSUME NEW i \in DOMAIN q, q[i] # XChar
      PROVE  q[i] \in (l + 1)..n
  <2>1. CASE i \in 1..k /\ q[i] = s[i]
    <3>1. q[i] \in (l + 1)..m
      BY <1>1, <1>6, <2>1 DEF Carries
    <3> QED BY <3>1
  <2>2. CASE i - k \in 1..h /\ q[i] = t[i - k]
    <3>1. q[i] \in (m + 1)..n
      BY <1>1, <1>6, <2>2 DEF Carries
    <3> QED BY <3>1
  <2> QED BY <1>2, <1>5, <2>1, <2>2
<1>7. ASSUME NEW v \in (l + 1)..n
      PROVE  \E i \in DOMAIN q : q[i] = v
  <2>1. CASE v <= m
    <3>1. v \in (l + 1)..m
      BY <2>1
    <3>2. PICK i \in 1..k : s[i] = v
      BY <1>1, <3>1 DEF Carries
    <3> QED BY <1>2, <1>3, <3>2
  <2>2. CASE v > m
    <3>1. v \in (m + 1)..n
      BY <2>2
    <3>2. PICK i \in 1..h : t[i] = v
      BY <1>1, <3>1 DEF Carries
    <3> QED BY <1>2, <1>4, <3>2
  <2> QED BY <2>1, <2>2
<1>8. ASSUME NEW i \in DOMAIN q, NEW j \in DOMAIN q, i < j, q[i] # XChar, q[j] # XChar
      PROVE  q[i] < q[j]
  <2>0. i \in 1..(k + h) /\ j \in 1..(k + h)
    BY <1>2
  <2>1. CASE j \in 1..k /\ q[j] = s[j]
    <3>1. i \in 1..k /\ q[i] = s[i]
      BY <1>1, <1>5, <1>8, <2>0, <2>1
    <3> QED BY <1>1, <1>8, <2>1, <3>1 DEF Carries
  <2>2. CASE j - k \in 1..h /\ q[j] = t[j - k]
    <3>1. q[j] \in (m + 1)..n
      BY <1>1, <1>8, <2>2 DEF Carries
    <3>2. CASE i \in 1..k /\ q[i] = s[i]
      <4>1. q[i] \in (l + 1)..m
        BY <1>1, <1>8, <3>2 DEF Carries
      <4> QED BY <3>1, <4>1
    <3>3. CASE i - k \in 1..h /\ q[i] = t[i - k]
      <4>1. i - k < j - k
        BY <1>1, <1>8, <2>0
      <4> QED BY <1>1, <1>8, <2>2, <3>3, <4>1 DEF Carries
    <3> QED BY <1>5, <2>0, <3>2, <3>3
  <2> QED BY <1>5, <2>0, <2>1, <2>2
<1> QED BY <1>2, <1>6, <1>7, <1>8 DEF Carries, q

LEMMA RunCarries ==
  ASSUME NEW m \in Nat, NEW n \in Nat, m <= n
  PROVE  Carries(Run(m, n), m, n)
<1>1. /\ Run(m, n) \in Seq(Nat) /\ Len(Run(m, n)) = n - m
      /\ \A i \in 1..(n - m) : Run(m, n)[i] = m + i
  BY RunFacts
<1>2. DOMAIN Run(m, n) = 1..(n - m)
  BY DEF Run
<1>3. \A v \in (m + 1)..n : v - m \in 1..(n - m) /\ m + (v - m) = v
  OBVIOUS
<1>4. \A i \in 1..(n - m) : m + i \in (m + 1)..n
  OBVIOUS
<1>5. \A i, j \in 1..(n - m) : i < j => m + i < m + j
  OBVIOUS
<1> DEFINE s == Run(m, n)
<1> HIDE DEF s
<1>6. s \in Seq(Nat) /\ DOMAIN s = 1..(n - m) /\ \A i \in 1..(n - m) : s[i] = m + i
  BY <1>1, <1>2 DEF s
<1>7. \A v \in (m + 1)..n : \E i \in DOMAIN s : s[i] = v
  <2> SUFFICES ASSUME NEW v \in (m + 1)..n PROVE \E i \in DOMAIN s : s[i] = v
    OBVIOUS
  <2>1. v - m \in DOMAIN s /\ s[v - m] = v
    BY <1>3, <1>6
  <2> QED BY <2>1
<1>8. \A i \in DOMAIN s : s[i] \in (m + 1)..n
  BY <1>4, <1>6
<1>9. \A i, j \in DOMAIN s : i < j => s[i] < s[j]
  BY <1>5, <1>6
<1>10. Carries(s, m, n)
  BY <1>6, <1>7, <1>8, <1>9 DEF Carries
<1> QED BY <1>10 DEF s

LEMMA XCharCarries ==
  ASSUME NEW m \in Nat
  PROVE  Carries(<<XChar>>, m, m) /\ Carries(<<>>, m, m) /\ Carries(<<m + 1>>, m, m + 1)
<1>1. (m + 1)..m = {} /\ (m + 1)..(m + 1) = {m + 1} /\ m + 1 \in Nat
  OBVIOUS
<1>2. Carries(<<XChar>>, m, m)
  BY <1>1 DEF Carries, XChar
<1>3. Carries(<<>>, m, m)
  BY <1>1 DEF Carries
<1>4. Carries(<<m + 1>>, m, m + 1)
  BY <1>1 DEF Carries
<1> QED BY <1>2, <1>3, <1>4

\* What Order says is what the property asks for.
LEMMA OrderIsInOrder ==
  ASSUME NEW p, NEW out, NEW n \in Nat, Order(p, out, n)
  PROVE  InOrder(out \o p.shift \o p.fifo \o p.xmit, n)
<1>1. PICK a, b, c \in 0..n :
        /\ a <= b /\ b <= c /\ out = Run(0, a) /\ p.xmit = Run(c, n)
        /\ \/ p.shift \in {<<>>, <<XChar>>} /\ b = a
           \/ p.shift = <<b>> /\ b = a + 1
        /\ p.fifo = Run(b, c) \/ (p.fifo = <<XChar>> /\ b = c)
  BY DEF Order
<1>2. a \in Nat /\ b \in Nat /\ c \in Nat /\ 0 \in Nat /\ 0 <= a /\ 0 <= b /\ 0 <= c /\ c <= n /\ 0 <= n
  OBVIOUS
<1>3. Carries(out, 0, a) /\ Carries(p.xmit, c, n)
  BY <1>1, <1>2, RunCarries
<1>4. Carries(p.shift, a, b)
  BY <1>1, <1>2, XCharCarries
<1>5. Carries(p.fifo, b, c)
  BY <1>1, <1>2, RunCarries, XCharCarries
<1>6. Carries(out \o p.shift, 0, b)
  BY <1>1, <1>2, <1>3, <1>4, CarriesOn
<1>7. Carries(out \o p.shift \o p.fifo, 0, c)
  BY <1>1, <1>2, <1>5, <1>6, CarriesOn
<1>8. Carries(out \o p.shift \o p.fifo \o p.xmit, 0, n)
  BY <1>1, <1>2, <1>3, <1>7, CarriesOn
<1> DEFINE s == out \o p.shift \o p.fifo \o p.xmit
<1> HIDE DEF s
<1>9. Carries(s, 0, n)
  BY <1>8 DEF s
<1>10. 0 + 1 = 1 /\ XChar \notin 1..n
  BY DEF XChar
<1>11. InOrder(s, n)
  <2> DEFINE data == {i \in DOMAIN s : s[i] # XChar}
  <2>1. \A v \in {s[i] : i \in data} : v \in 1..n
    BY <1>9, <1>10 DEF Carries
  <2>2. \A v \in 1..n : v \in {s[i] : i \in data}
    BY <1>9, <1>10 DEF Carries
  <2>3. \A i, j \in data : i < j => s[i] < s[j]
    BY <1>9 DEF Carries
  <2> QED BY <2>1, <2>2, <2>3 DEF InOrder
<1> QED BY <1>11 DEF s

\* The transmitter is left alone.
SameTx(q, p) == q.fifo = p.fifo /\ q.shift = p.shift /\ q.lost = p.lost /\ q.xmit = p.xmit

\* An empty FIFO is filled, with the x_char or from the buffer.
Fills(q, p) ==
  /\ p.fifo = <<>> /\ q.shift = p.shift /\ q.lost = p.lost
  /\ \/ q.fifo = <<XChar>> /\ q.xmit = p.xmit
     \/ \E n \in 0..Len(p.xmit) :
          q.fifo = SubSeq(p.xmit, 1, n) /\ q.xmit = SubSeq(p.xmit, n + 1, Len(p.xmit))
Sends(q, p) == SameTx(q, p) \/ Fills(q, p)

\* A transmitter that can be filled.
Sendable(p) == p.lost = FALSE /\ p.xmit \in Seq(Nat)

\* Leaving it alone and filling it, one after the other.
LEMMA SameThenSends ==
  ASSUME NEW p, NEW q, NEW s, SameTx(q, p), Sends(s, q)
  PROVE  Sends(s, p)
BY DEF Sends, SameTx, Fills
LEMMA SendsThenSame ==
  ASSUME NEW p, NEW q, NEW s, Sends(q, p), SameTx(s, q)
  PROVE  Sends(s, p)
BY DEF Sends, SameTx, Fills

\* Both leave the characters in their order.
LEMMA SendsKeepsOrder ==
  ASSUME NEW p, NEW q, NEW out, NEW n \in Nat, Order(p, out, n), Sends(q, p)
  PROVE  Order(q, out, n)
<1>1. PICK a, b, c \in 0..n :
        /\ a <= b /\ b <= c /\ out = Run(0, a) /\ p.xmit = Run(c, n)
        /\ \/ p.shift \in {<<>>, <<XChar>>} /\ b = a
           \/ p.shift = <<b>> /\ b = a + 1
        /\ p.fifo = Run(b, c) \/ (p.fifo = <<XChar>> /\ b = c)
  BY DEF Order
<1>2. a \in Nat /\ b \in Nat /\ c \in Nat /\ c <= n
  OBVIOUS
<1>3. CASE SameTx(q, p)
  BY <1>1, <1>3 DEF SameTx, Order
<1>4. CASE Fills(q, p)
  <2>1. b = c
    <3>1. p.fifo = <<>>
      BY <1>4 DEF Fills
    <3>2. CASE p.fifo = Run(b, c)
      <4>1. Run(b, c) = <<>> <=> b = c
        BY <1>1, <1>2, RunFacts
      <4> QED BY <3>1, <3>2, <4>1
    <3>3. CASE p.fifo = <<XChar>> /\ b = c
      BY <3>3
    <3> QED BY <1>1, <3>2, <3>3
  <2>2. CASE q.fifo = <<XChar>> /\ q.xmit = p.xmit
    BY <1>1, <1>4, <2>1, <2>2 DEF Fills, Order
  <2>3. ASSUME NEW k \in 0..Len(p.xmit),
               q.fifo = SubSeq(p.xmit, 1, k), q.xmit = SubSeq(p.xmit, k + 1, Len(p.xmit))
        PROVE  Order(q, out, n)
    <3>1. Len(p.xmit) = n - c
      BY <1>1, <1>2, RunFacts
    <3>2. k \in Nat /\ k <= n - c
      BY <1>2, <2>3, <3>1
    <3>3. q.fifo = Run(c, c + k) /\ q.xmit = Run(c + k, n)
      <4>1. /\ SubSeq(Run(c, n), 1, k) = Run(c, c + k)
            /\ SubSeq(Run(c, n), k + 1, n - c) = Run(c + k, n)
        BY <1>2, <3>2, RunCut
      <4> QED BY <1>1, <2>3, <3>1, <4>1
    <3>4. c + k \in 0..n /\ b <= c + k
      BY <1>2, <2>1, <3>2
    <3>5. q.shift = p.shift
      BY <1>4 DEF Fills
    <3> DEFINE e == c + k
    <3>6. q.fifo = Run(b, e) /\ q.xmit = Run(e, n) /\ e \in 0..n /\ b <= e
      BY <2>1, <3>3, <3>4
    <3> HIDE DEF e
    <3> QED BY <1>1, <3>5, <3>6 DEF Order
  <2> QED BY <1>4, <2>2, <2>3 DEF Fills
<1> QED BY <1>3, <1>4 DEF Sends

\* The buffer of a transmitter in order can be sent.
LEMMA OrderIsSendable ==
  ASSUME NEW p, NEW out, NEW n \in Nat, Order(p, out, n), p.lost = FALSE
  PROVE  Sendable(p)
<1>1. PICK c \in 0..n : p.xmit = Run(c, n)
  BY DEF Order
<1>2. c \in Nat /\ c <= n
  OBVIOUS
<1> QED BY <1>1, <1>2, RunFacts DEF Sendable

\* The rest of the port is not the transmitter.
LEMMA OutsideTx ==
  ASSUME NEW p, NEW q,
         Keeps(q, p, UartNames,
               {"cts", "delta", "hw", "hwstop", "ier", "latch", "rx", "saved", "stop", "x"})
  PROVE  SameTx(q, p)
BY DEF Keeps, UartNames, SameTx

LEMMA LsrSame ==
  ASSUME NEW p, UartTypes(p)
  PROVE  SameTx(SaveLsr(p), p) /\ SameTx(ReadLsr(p), p)
<1>1. Keeps(SaveLsr(p), p, UartNames, {"rx", "saved"})
  BY LsrSaved
<1>2. Keeps(ReadLsr(p), p, UartNames, {"rx"})
  BY LsrRead
<1> QED BY <1>1, <1>2, OutsideTx DEF Keeps

LEMMA IerSame ==
  ASSUME NEW p, UartTypes(p), NEW set
  PROVE  SameTx(WriteIer(p, set), p) /\ SameTx(WriteIer([p EXCEPT !.ier = set], set), p)
<1>1. Keeps(WriteIer(p, set), p, UartNames, {"hw", "latch"})
  BY IerWritten
<1>2. Keeps(WriteIer([p EXCEPT !.ier = set], set), p, UartNames, {"hw", "ier", "latch"})
  BY BothWritten
<1> QED BY <1>1, <1>2, OutsideTx DEF Keeps

\* Disabling the transmit interrupt sends nothing.
LEMMA StopSame ==
  ASSUME NEW p, UartTypes(p)
  PROVE  SameTx(StopTx(p), p)
<1>1. CASE "THRI" \in p.ier
  <2> DEFINE set == p.ier \ {"THRI"}
  <2>1. StopTx(p) = WriteIer([p EXCEPT !.ier = set], set)
    BY <1>1 DEF StopTx, UartTypes, HasFields, UartNames
  <2> HIDE DEF set
  <2> QED BY <2>1, IerSame
<1>2. CASE "THRI" \notin p.ier
  BY <1>2 DEF StopTx, SameTx
<1> QED BY <1>1, <1>2

\* What fits into an empty FIFO is all in it.
LEMMA FifoTakes ==
  ASSUME NEW p, UartTypes(p), p.fifo = <<>>, p.lost = FALSE, NEW cs \in Seq(Nat), Len(cs) <= FifoSize
  PROVE  LET q == WriteTx(p, cs)
         IN  /\ Keeps(q, p, UartNames, {"fifo", "latch", "lost"})
             /\ q.fifo = cs /\ q.lost = FALSE
<1> DEFINE fifo == SubSeq(p.fifo \o cs, 1, Least(FifoSize, Len(p.fifo \o cs)))
           lost == p.lost \/ Len(p.fifo \o cs) > FifoSize
           q == [p EXCEPT !.fifo = fifo, !.latch = FALSE, !.lost = lost]
<1>1. WriteTx(p, cs) = q
  BY DEF WriteTx, UartTypes, HasFields, UartNames
<1>2. p.fifo \o cs = cs /\ Len(cs) \in Nat
  OBVIOUS
<1>3. Least(FifoSize, Len(cs)) = Len(cs) /\ ~(Len(cs) > FifoSize)
  BY <1>2, SerialAssumption DEF Least
<1>4. SubSeq(cs, 1, Len(cs)) = cs
  BY SubSeqFull
<1>5. fifo = cs /\ lost = FALSE
  BY <1>2, <1>3, <1>4
<1> HIDE DEF fifo, lost
<1>6. q.fifo = fifo /\ q.lost = lost
  BY DEF UartTypes, HasFields, UartNames
<1> QED BY <1>1, <1>5, <1>6, TxWritten

LEMMA LoadFills ==
  ASSUME NEW p, UartTypes(p), Sendable(p), p.fifo = <<>>
  PROVE  Fills(Load(p), p)
<1> DEFINE n == Least(FifoSize, Len(p.xmit))
           first == SubSeq(p.xmit, 1, n)
           w == WriteTx(p, first)
           xmit == SubSeq(w.xmit, n + 1, Len(w.xmit))
           q == [w EXCEPT !.xmit = xmit]
<1>1. p.xmit \in Seq(Nat) /\ p.lost = FALSE /\ Len(p.xmit) \in Nat
  BY DEF Sendable
<1>2. n \in 0..Len(p.xmit) /\ n <= FifoSize
  BY <1>1, SerialAssumption DEF Least
<1>3. first \in Seq(Nat) /\ Len(first) <= FifoSize
  <2> HIDE DEF n
  <2>1. first \in Seq(Nat) /\ Len(first) = n
    BY <1>1, <1>2
  <2> QED BY <1>2, <2>1
<1>4. Load(p) = IF q.xmit = <<>> THEN StopTx(q) ELSE q
  <2>1. Keeps(w, p, UartNames, {"fifo", "latch", "lost"})
    BY TxWritten
  <2>2. q = [w EXCEPT !.xmit = SubSeq(@, n + 1, Len(@))]
    BY <2>1 DEF Keeps, HasFields, UartNames
  <2> QED BY <2>2 DEF Load
<1> HIDE DEF n, first
<1>5. Keeps(w, p, UartNames, {"fifo", "latch", "lost"}) /\ w.fifo = first /\ w.lost = FALSE
  BY <1>1, <1>3, FifoTakes
<1> HIDE DEF w
<1>6. w.xmit = p.xmit /\ w.shift = p.shift /\ HasFields(UartNames, w)
  BY <1>5 DEF Keeps, UartNames
<1>7. q.fifo = first /\ q.lost = FALSE /\ q.shift = p.shift
      /\ q.xmit = SubSeq(p.xmit, n + 1, Len(p.xmit)) /\ Keeps(q, w, UartNames, {"xmit"})
  BY <1>5, <1>6 DEF Keeps, HasFields, UartNames
<1> HIDE DEF q
<1>8. UartTypes(q)
  <2>1. Keeps(q, p, UartNames, {"fifo", "latch", "lost", "stop", "x", "xmit"})
    BY <1>5, <1>7 DEF Keeps
  <2> QED BY <2>1, SendingMoves DEF Moves, Reacts
<1>9. Fills(q, p)
  BY <1>1, <1>2, <1>7 DEF Fills, first
<1>10. SameTx(StopTx(q), q)
  BY <1>8, StopSame
<1> QED BY <1>4, <1>9, <1>10 DEF SameTx, Fills

\* transmit_chars on an empty FIFO.
LEMMA TransmitSends ==
  ASSUME NEW p, UartTypes(p), Sendable(p), p.fifo = <<>>
  PROVE  Sends(transmit_chars(p), p)
<1>1. CASE p.x
  <2> DEFINE w == WriteTx(p, <<XChar>>)
             q == [w EXCEPT !.x = FALSE]
  <2>1. transmit_chars(p) = q
    BY <1>1 DEF transmit_chars
  <2>2. <<XChar>> \in Seq(Nat) /\ Len(<<XChar>>) <= FifoSize
    BY SerialAssumption DEF XChar
  <2>3. Keeps(w, p, UartNames, {"fifo", "latch", "lost"}) /\ w.fifo = <<XChar>> /\ w.lost = FALSE
    BY <2>2, FifoTakes DEF Sendable
  <2> HIDE DEF w
  <2>4. w.xmit = p.xmit /\ w.shift = p.shift /\ HasFields(UartNames, w)
    BY <2>3 DEF Keeps, UartNames
  <2>5. q.fifo = <<XChar>> /\ q.lost = FALSE /\ q.shift = p.shift /\ q.xmit = p.xmit
    BY <2>3, <2>4 DEF HasFields, UartNames
  <2> QED BY <2>1, <2>5 DEF Sends, Fills, Sendable
<1>2. CASE ~p.x /\ (p.stop \/ p.hwstop \/ p.xmit = <<>>)
  BY <1>2, StopSame DEF transmit_chars, Sends
<1>3. CASE ~p.x /\ ~(p.stop \/ p.hwstop \/ p.xmit = <<>>)
  BY <1>3, LoadFills DEF transmit_chars, Sends
<1> QED BY <1>1, <1>2, <1>3

\* start_tx fills the FIFO with UART_BUG_TXEN only, and only an empty one.
LEMMA StartSends ==
  ASSUME NEW p, UartTypes(p)
  PROVE  /\ Sendable(p) => Sends(StartTx(p), p)
         /\ "TXEN" \notin bugs => SameTx(StartTx(p), p)
<1> DEFINE set == p.ier \cup {"THRI"}
           on == WriteIer([p EXCEPT !.ier = set], set)
           q == SaveLsr(on)
           t == transmit_chars(q)
<1>1. StartTx(p) = IF "THRI" \in p.ier THEN p ELSE IF "TXEN" \notin bugs THEN on
                   ELSE IF TEMT(on) THEN t ELSE q
  <2>1. WriteIer([p EXCEPT !.ier = @ \cup {"THRI"}], p.ier \cup {"THRI"}) = on
    BY DEF UartTypes, HasFields, UartNames
  <2> HIDE DEF on
  <2> QED BY <2>1 DEF StartTx
<1> HIDE DEF set
<1>2. SameTx(on, p) /\ UartTypes(on)
  BY IerSame, BothWritten
<1> HIDE DEF on
<1>3. SameTx(q, on) /\ UartTypes(q)
  BY <1>2, LsrSame, LsrSaved DEF Moves, Reacts
<1> HIDE DEF q
<1>4. SameTx(q, p)
  BY <1>2, <1>3 DEF SameTx
<1>5. ASSUME Sendable(p), TEMT(on) PROVE Sends(t, p)
  <2>1. Sendable(q) /\ q.fifo = <<>>
    BY <1>2, <1>4, <1>5 DEF Sendable, SameTx, TEMT
  <2>2. Sends(t, q)
    BY <1>3, <2>1, TransmitSends
  <2> QED BY <1>4, <2>2, SameThenSends
<1> HIDE DEF t
<1> QED BY <1>1, <1>2, <1>4, <1>5 DEF Sends, SameTx

LEMMA CoreStartSends ==
  ASSUME NEW p, UartTypes(p)
  PROVE  /\ Sendable(p) => Sends(CoreStart(p), p)
         /\ "TXEN" \notin bugs => SameTx(CoreStart(p), p)
<1>1. SameTx(p, p)
  BY DEF SameTx
<1> QED BY <1>1, StartSends DEF CoreStart, Sends

\* CTS that has gone up starts sending, anything else stops it.
LEMMA CtsSends ==
  ASSUME NEW p, UartTypes(p), "TXEN" \notin bugs \/ p.hwstop = FALSE
  PROVE  SameTx(HandleCts(p), p)
<1> DEFINE go == [p EXCEPT !.hwstop = FALSE]
           halt == [p EXCEPT !.hwstop = TRUE]
<1>1. /\ Keeps(go, p, UartNames, {"hwstop"}) /\ go.hwstop = FALSE
      /\ Keeps(halt, p, UartNames, {"hwstop"}) /\ halt.hwstop = TRUE
  BY DEF Keeps, UartTypes, HasFields, UartNames
<1>2. HandleCts(p) = IF p.hwstop /\ p.cts THEN StartTx(go)
                     ELSE IF ~p.hwstop /\ ~p.cts THEN StopTx(halt) ELSE p
  BY DEF HandleCts
<1> HIDE DEF go, halt
<1>3. SameTx(go, p) /\ SameTx(halt, p)
  BY <1>1, OutsideTx DEF Keeps
<1>4. UartTypes(go) /\ UartTypes(halt)
  <2>1. Keeps(go, p, UartNames, {"delta", "hwstop"}) /\ Keeps(halt, p, UartNames, {"delta", "hwstop"})
    BY <1>1 DEF Keeps
  <2>2. p.delta \in BOOLEAN /\ go.delta = p.delta /\ halt.delta = p.delta
    BY <1>1 DEF UartTypes, Keeps, UartNames
  <2>3. go.hwstop \in BOOLEAN /\ halt.hwstop \in BOOLEAN /\ go.delta \in BOOLEAN /\ halt.delta \in BOOLEAN
    BY <1>1, <2>2
  <2> QED BY <2>1, <2>3, CtsReacts DEF Reacts
<1>5. CASE p.hwstop /\ p.cts
  <2>1. "TXEN" \notin bugs
    BY <1>5
  <2>2. SameTx(StartTx(go), go)
    BY <1>4, <2>1, StartSends
  <2> QED BY <1>2, <1>3, <1>5, <2>2 DEF SameTx
<1>6. CASE ~(p.hwstop /\ p.cts)
  <2>1. SameTx(StopTx(halt), halt)
    BY <1>4, StopSame
  <2> QED BY <1>2, <1>3, <1>6, <2>1 DEF SameTx
<1> QED BY <1>5, <1>6

LEMMA ModemSends ==
  ASSUME NEW p, UartTypes(p), NEW crtscts \in BOOLEAN,
         "TXEN" \notin bugs \/ p.hwstop = FALSE \/ ~crtscts
  PROVE  SameTx(check_modem_status(p, crtscts), p)
<1> DEFINE o == [p EXCEPT !.delta = FALSE]
<1>1. Keeps(o, p, UartNames, {"delta"}) /\ o.delta = FALSE /\ o.hwstop = p.hwstop
  BY DEF Keeps, UartTypes, HasFields, UartNames
<1>2. check_modem_status(p, crtscts) = IF p.delta /\ "MSI" \in p.ier /\ crtscts
                                         THEN HandleCts(o) ELSE o
  BY DEF check_modem_status
<1> HIDE DEF o
<1>3. SameTx(o, p)
  BY <1>1, OutsideTx DEF Keeps
<1>4. UartTypes(o)
  <2>1. Keeps(o, p, UartNames, {"delta", "hwstop"})
    BY <1>1 DEF Keeps
  <2>2. o.delta \in BOOLEAN /\ o.hwstop \in BOOLEAN
    BY <1>1 DEF UartTypes
  <2> QED BY <2>1, <2>2, CtsReacts DEF Reacts
<1>5. ASSUME crtscts PROVE SameTx(HandleCts(o), o)
  BY <1>1, <1>4, <1>5, CtsSends
<1> QED BY <1>2, <1>3, <1>5 DEF SameTx

\* Turning flow control on sends nothing.
LEMMA FlowOnSends ==
  ASSUME NEW p, UartTypes(p), p.hwstop = FALSE
  PROVE  SameTx(FlowOn(p), p)
<1> DEFINE o == TermiosIer(p, TRUE)
           c == check_modem_status(o, TRUE)
           halt == [c EXCEPT !.hwstop = TRUE]
<1>1. FlowOn(p) = IF c.cts THEN c ELSE StopTx(halt)
  BY DEF FlowOn, StopUnlessCts
<1>2. UartTypes(o) /\ o.hwstop = FALSE /\ Keeps(o, p, UartNames, {"hw", "ier", "latch"})
  BY TermiosIerSet
<1> HIDE DEF o
<1>3. SameTx(o, p)
  BY <1>2, OutsideTx DEF Keeps
<1>4. UartTypes(c)
  BY <1>2, ModemChecked DEF Reacts
<1>5. SameTx(c, o)
  BY <1>2, ModemSends
<1> HIDE DEF c
<1>6. Keeps(halt, c, UartNames, {"hwstop"}) /\ halt.hwstop = TRUE
  BY <1>4 DEF Keeps, UartTypes, HasFields, UartNames
<1> HIDE DEF halt
<1>7. SameTx(halt, c)
  BY <1>6, OutsideTx DEF Keeps
<1>8. UartTypes(halt)
  <2>1. Keeps(halt, c, UartNames, {"delta", "hwstop"})
    BY <1>6 DEF Keeps
  <2>2. c.delta \in BOOLEAN /\ halt.delta = c.delta
    BY <1>4, <1>6 DEF UartTypes, Keeps, UartNames
  <2>3. halt.delta \in BOOLEAN /\ halt.hwstop \in BOOLEAN
    BY <1>6, <2>2
  <2> QED BY <1>4, <2>1, <2>3, CtsReacts DEF Reacts
<1>9. SameTx(StopTx(halt), halt)
  BY <1>8, StopSame
<1> QED BY <1>1, <1>3, <1>5, <1>7, <1>9 DEF SameTx

-------------------------------------------------------------------------------
(* A port in operation: every step keeps the order                           *)

\* A step that sends, or fills an empty FIFO, and is allowed to.
LEMMA SendsKeep ==
  ASSUME TxInv, written' = written, sent' = sent, flow' => flowUsed', u'.shift = u.shift,
         Ordered' => Ordered /\ Sends(u', u) /\ SeenEmpty'
  PROVE  TxInv'
<1>1. written' \in Nat /\ (u'.shift = <<>> \/ u'.shift = <<u'.shift[1]>>)
  BY DEF TxInv
<1>2. ASSUME Ordered' PROVE u'.lost = FALSE /\ Order(u', sent', written') /\ SeenEmpty'
  <2>1. Ordered /\ Sends(u', u) /\ SeenEmpty'
    BY <1>2
  <2>2. u.lost = FALSE /\ Order(u, sent, written) /\ written \in Nat
    BY <2>1 DEF TxInv
  <2>3. u'.lost = FALSE
    BY <2>1, <2>2 DEF Sends, SameTx, Fills
  <2>4. Order(u', sent, written)
    BY <2>1, <2>2, SendsKeepsOrder
  <2> QED BY <2>1, <2>3, <2>4
<1> QED BY <1>1, <1>2 DEF TxInv

\* A call on an open port.
LEMMA CallSends ==
  ASSUME TxInv, OpenCall, KeepsSettings, written' = written, sent' = sent, u'.shift = u.shift,
         Ordered => Sends(u', u)
  PROVE  TxInv'
<1>1. /\ pc' = "idle" /\ phase' = phase /\ bugs' = bugs /\ flow' = flow /\ flowUsed' = flowUsed
  BY DEF OpenCall, CoreCall, KeepsSettings, handler, past
<1>2. SeenEmpty' /\ (Ordered' <=> Ordered)
  BY <1>1 DEF SeenEmpty, Ordered
<1> QED BY <1>1, <1>2, SendsKeep DEF TxInv

\* What an ordered port can be sent from.
LEMMA OrderedSends ==
  ASSUME TxInv, Ordered
  PROVE  Sendable(u) /\ Order(u, sent, written) /\ u.lost = FALSE /\ written \in Nat /\ SeenEmpty
BY OrderIsSendable DEF TxInv

\* A port that is set up anew has nothing to send.
LEMMA StartupOrders ==
  ASSUME TxInv, NEW p, UartTypes(p), p.shift = u.shift, NEW old, NEW crtscts \in BOOLEAN,
         Startup(p, old, crtscts), pc' = "idle"
  PROVE  TxInv'
<1> DEFINE o == AfterTests(p)
           shift == [i \in DOMAIN o.shift |-> XChar]
           q == [o EXCEPT !.hwstop = FALSE, !.lost = FALSE, !.stop = FALSE, !.shift = shift,
                          !.x = FALSE, !.xmit = <<>>]
<1>1. UartTypes(o) /\ o.fifo = <<>> /\ o.shift = u.shift /\ o.delta = FALSE
  BY TestsRun
<1>2. u' = IF crtscts THEN FlowOn(q) ELSE TermiosIer(q, FALSE)
  <2>1. q = [o EXCEPT !.hwstop = FALSE, !.lost = FALSE, !.stop = FALSE,
                      !.shift = [i \in DOMAIN @ |-> XChar], !.x = FALSE, !.xmit = <<>>]
    OBVIOUS
  <2>2. u' = LET new == [o EXCEPT !.hwstop = FALSE, !.lost = FALSE, !.stop = FALSE,
                      !.shift = [i \in DOMAIN @ |-> XChar], !.x = FALSE, !.xmit = <<>>]
             IN IF crtscts THEN FlowOn(new) ELSE TermiosIer(new, FALSE)
    BY DEF Startup
  <2> HIDE DEF q
  <2> QED BY <2>1, <2>2
<1>3. shift = <<>> \/ shift = <<XChar>>
  <2>1. CASE u.shift = <<>>
    BY <1>1, <2>1
  <2>2. CASE u.shift = <<u.shift[1]>>
    <3>1. DOMAIN u.shift = {1}
      BY <2>2
    <3>2. shift = [i \in {1} |-> XChar]
      BY <1>1, <3>1
    <3> QED BY <3>2
  <2> QED BY <2>1, <2>2 DEF TxInv
<1> HIDE DEF shift, o
<1>4. /\ Keeps(q, o, UartNames, {"hwstop", "lost", "stop", "shift", "x", "xmit"})
      /\ q.hwstop = FALSE /\ q.lost = FALSE /\ q.shift = shift /\ q.xmit = <<>>
  BY <1>1 DEF Keeps, UartTypes, HasFields, UartNames
<1> HIDE DEF q
<1>5. /\ q.cts = o.cts /\ q.delta = o.delta /\ q.rx = o.rx /\ q.saved = o.saved
      /\ q.fifo = <<>> /\ HasFields(UartNames, q)
  BY <1>1, <1>4 DEF Keeps, UartNames
<1>6. UartTypes(q)
  <2>1. q.hwstop \in BOOLEAN
    BY <1>4
  <2> QED BY <1>1, <1>5, <2>1 DEF UartTypes
<1>7. SameTx(u', q)
  <2>1. CASE crtscts
    BY <1>2, <1>4, <1>6, <2>1, FlowOnSends
  <2>2. CASE ~crtscts
    <3>1. u' = TermiosIer(q, FALSE)
      BY <1>2, <2>2
    <3>2. Keeps(u', q, UartNames, {"hw", "ier", "latch"})
      BY <1>6, <3>1, TermiosIerSet
    <3> QED BY <3>2, OutsideTx DEF Keeps
  <2> QED BY <2>1, <2>2
<1>8. /\ u'.fifo = <<>> /\ u'.lost = FALSE /\ u'.xmit = <<>>
      /\ (u'.shift = <<>> \/ u'.shift = <<XChar>>)
  BY <1>3, <1>4, <1>5, <1>7 DEF SameTx
<1>9. written' = 0 /\ sent' = <<>> /\ flow' = crtscts /\ flowUsed' = crtscts
  BY DEF Startup, NewLine
<1>10. Order(u', sent', written')
  <2>1. 0 \in 0..0 /\ 0 <= 0 /\ 0 \in Nat
    OBVIOUS
  <2>2. Run(0, 0) = <<>>
    BY <2>1, RunFacts
  <2> QED BY <1>8, <1>9, <2>1, <2>2 DEF Order
<1>11. SeenEmpty'
  BY DEF SeenEmpty
<1> QED BY <1>8, <1>9, <1>10, <1>11 DEF TxInv

LEMMA OpenOrders == UartInv /\ TxInv /\ OpenUart => TxInv'
<1> SUFFICES ASSUME UartInv, TxInv, OpenUart PROVE TxInv'
  OBVIOUS
<1>1. PICK crtscts \in BOOLEAN : Startup(u, bugs, crtscts)
  BY DEF OpenUart
<1>2. pc' = "idle" /\ UartTypes(u)
  BY DEF OpenUart, CoreCall, handler, UartInv
<1> QED BY <1>1, <1>2, StartupOrders

LEMMA ReconfigureOrders == UartInv /\ TxInv /\ Reconfigure => TxInv'
<1> SUFFICES ASSUME UartInv, TxInv, Reconfigure PROVE TxInv'
  OBVIOUS
<1> DEFINE o == WriteIer(u, {})
<1>1. Startup(o, {}, flow)
  BY DEF Reconfigure
<1>2. pc' = "idle" /\ UartTypes(u) /\ flow \in BOOLEAN
  BY DEF Reconfigure, CoreCall, handler, UartInv, FlowInv
<1>3. Keeps(o, u, UartNames, {"hw", "latch"})
  BY <1>2, IerWritten
<1>4. UartTypes(o) /\ o.shift = u.shift
  <2>1. Keeps(o, u, UartNames, {"fifo", "hw", "ier", "latch"})
    BY <1>3 DEF Keeps
  <2> QED BY <1>2, <1>3, <2>1, TypesKept DEF Keeps, UartNames
<1> HIDE DEF o
<1> QED BY <1>1, <1>2, <1>4, StartupOrders

\* A character written is the last one in the buffer.
LEMMA WriteOrders == UartInv /\ TxInv /\ Write => TxInv'
<1> SUFFICES ASSUME UartInv, TxInv, Write PROVE TxInv'
  OBVIOUS
<1> DEFINE xmit == Append(u.xmit, written + 1)
           q == [u EXCEPT !.xmit = xmit]
<1>1. UartTypes(u)
  BY DEF UartInv
<1>2. u' = CoreStart(q)
  <2>1. q = [u EXCEPT !.xmit = Append(@, written + 1)]
    OBVIOUS
  <2> HIDE DEF q
  <2> QED BY <2>1 DEF Write
<1> HIDE DEF xmit
<1>3. Keeps(q, u, UartNames, {"xmit"}) /\ q.xmit = xmit
  BY <1>1 DEF Keeps, UartTypes, HasFields, UartNames
<1> HIDE DEF q
<1>4. q.fifo = u.fifo /\ q.shift = u.shift /\ q.lost = u.lost
  BY <1>3 DEF Keeps, UartNames
<1>5. UartTypes(q)
  <2>1. Keeps(q, u, UartNames, {"fifo", "latch", "lost", "stop", "x", "xmit"})
    BY <1>3 DEF Keeps
  <2> QED BY <1>1, <2>1, SendingMoves DEF Moves, Reacts
<1>6. /\ pc' = "idle" /\ phase' = phase /\ bugs' = bugs /\ flow' = flow /\ flowUsed' = flowUsed
      /\ written' = written + 1 /\ sent' = sent
  BY DEF Write, OpenCall, CoreCall, KeepsSettings, handler, past
<1>7. u'.shift = u.shift
  <2>1. Moves(u', q)
    BY <1>2, <1>5, CoreStartMoves
  <2> QED BY <1>4, <2>1 DEF Moves, Reacts
<1>8. ASSUME Ordered' PROVE u'.lost = FALSE /\ Order(u', sent', written') /\ SeenEmpty'
  <2>1. Ordered
    BY <1>6, <1>8 DEF Ordered
  <2>2. Order(u, sent, written) /\ u.lost = FALSE /\ written \in Nat
    BY <2>1, OrderedSends
  <2>3. Order(q, sent, written + 1)
    <3>1. PICK a, b, c \in 0..written :
            /\ a <= b /\ b <= c /\ sent = Run(0, a) /\ u.xmit = Run(c, written)
            /\ \/ u.shift \in {<<>>, <<XChar>>} /\ b = a
               \/ u.shift = <<b>> /\ b = a + 1
            /\ u.fifo = Run(b, c) \/ (u.fifo = <<XChar>> /\ b = c)
      BY <2>2 DEF Order
    <3>2. c \in Nat /\ c <= written
      BY <2>2
    <3>3. q.xmit = Run(c, written + 1)
      BY <1>3, <2>2, <3>1, <3>2, RunGrows DEF xmit
    <3>4. a \in 0..(written + 1) /\ b \in 0..(written + 1) /\ c \in 0..(written + 1)
      BY <2>2
    <3> QED BY <1>4, <3>1, <3>3, <3>4 DEF Order
  <2>4. written + 1 \in Nat /\ q.lost = FALSE
    BY <1>4, <2>2
  <2>5. Sends(u', q)
    BY <1>2, <1>5, <2>3, <2>4, OrderIsSendable, CoreStartSends
  <2>6. Order(u', sent, written + 1)
    BY <2>3, <2>4, <2>5, SendsKeepsOrder
  <2>7. u'.lost = FALSE
    BY <2>4, <2>5 DEF Sends, SameTx, Fills
  <2>8. SeenEmpty'
    BY <1>6 DEF SeenEmpty
  <2> QED BY <1>6, <2>6, <2>7, <2>8
<1>9. written' \in Nat /\ (flow' => flowUsed')
  BY <1>6 DEF TxInv
<1> QED BY <1>7, <1>8, <1>9 DEF TxInv

LEMMA XCharOrders == UartInv /\ TxInv /\ SendXChar => TxInv'
<1> SUFFICES ASSUME UartInv, TxInv, SendXChar PROVE TxInv'
  OBVIOUS
<1> DEFINE q == [u EXCEPT !.x = TRUE]
<1>1. UartTypes(u) /\ u' = StartTx(q)
  BY DEF UartInv, SendXChar
<1>2. Keeps(q, u, UartNames, {"x"})
  BY <1>1 DEF Keeps, UartTypes, HasFields, UartNames
<1> HIDE DEF q
<1>3. SameTx(q, u)
  BY <1>2, OutsideTx DEF Keeps
<1>4. UartTypes(q)
  <2>1. Keeps(q, u, UartNames, {"fifo", "latch", "lost", "stop", "x", "xmit"})
    BY <1>2 DEF Keeps
  <2> QED BY <1>1, <2>1, SendingMoves DEF Moves, Reacts
<1>5. u'.shift = u.shift
  BY <1>1, <1>3, <1>4, TxStarts DEF Moves, Reacts, SameTx
<1>6. ASSUME Ordered PROVE Sends(u', u)
  <2>1. Sendable(q)
    BY <1>3, <1>6, OrderedSends DEF Sendable, SameTx
  <2> QED BY <1>1, <1>3, <1>4, <2>1, StartSends, SameThenSends
<1> QED BY <1>5, <1>6, CallSends DEF SendXChar, KeepsLine, line

LEMMA StopOrders == UartInv /\ TxInv /\ Stop => TxInv'
<1> SUFFICES ASSUME UartInv, TxInv, Stop PROVE TxInv'
  OBVIOUS
<1> DEFINE q == [u EXCEPT !.stop = TRUE]
<1>1. UartTypes(u) /\ u' = StopTx(q)
  BY DEF UartInv, Stop
<1>2. Keeps(q, u, UartNames, {"stop"})
  BY <1>1 DEF Keeps, UartTypes, HasFields, UartNames
<1> HIDE DEF q
<1>3. SameTx(q, u)
  BY <1>2, OutsideTx DEF Keeps
<1>4. UartTypes(q)
  <2>1. Keeps(q, u, UartNames, {"fifo", "latch", "lost", "stop", "x", "xmit"})
    BY <1>2 DEF Keeps
  <2> QED BY <1>1, <2>1, SendingMoves DEF Moves, Reacts
<1>5. SameTx(u', u)
  BY <1>1, <1>3, <1>4, StopSame DEF SameTx
<1> QED BY <1>5, CallSends DEF Sends, SameTx, Stop, KeepsLine, line

LEMMA StartOrders == UartInv /\ TxInv /\ Start => TxInv'
<1> SUFFICES ASSUME UartInv, TxInv, Start PROVE TxInv'
  OBVIOUS
<1> DEFINE q == [u EXCEPT !.stop = FALSE]
<1>1. UartTypes(u) /\ u' = CoreStart(q)
  BY DEF UartInv, Start
<1>2. Keeps(q, u, UartNames, {"stop"})
  BY <1>1 DEF Keeps, UartTypes, HasFields, UartNames
<1> HIDE DEF q
<1>3. SameTx(q, u)
  BY <1>2, OutsideTx DEF Keeps
<1>4. UartTypes(q)
  <2>1. Keeps(q, u, UartNames, {"fifo", "latch", "lost", "stop", "x", "xmit"})
    BY <1>2 DEF Keeps
  <2> QED BY <1>1, <2>1, SendingMoves DEF Moves, Reacts
<1>5. u'.shift = u.shift
  BY <1>1, <1>3, <1>4, CoreStartMoves DEF Moves, Reacts, SameTx
<1>6. ASSUME Ordered PROVE Sends(u', u)
  <2>1. Sendable(q)
    BY <1>3, <1>6, OrderedSends DEF Sendable, SameTx
  <2> QED BY <1>1, <1>3, <1>4, <2>1, CoreStartSends, SameThenSends
<1> QED BY <1>5, <1>6, CallSends DEF Start, KeepsLine, line

LEMMA TxEmptyOrders == UartInv /\ TxInv /\ TxEmpty => TxInv'
<1> SUFFICES ASSUME UartInv, TxInv, TxEmpty PROVE TxInv'
  OBVIOUS
<1>1. UartTypes(u) /\ u' = SaveLsr(u)
  BY DEF UartInv, TxEmpty
<1>2. SameTx(u', u)
  BY <1>1, LsrSame
<1> QED BY <1>2, CallSends DEF Sends, SameTx, TxEmpty, KeepsLine, line

LEMMA Rs485Orders == UartInv /\ TxInv /\ Rs485 => TxInv'
<1> SUFFICES ASSUME UartInv, TxInv, Rs485 PROVE TxInv'
  OBVIOUS
<1> DEFINE q == WriteIer(u, {})
<1>1. UartTypes(u) /\ u' = WriteIer(q, u.ier)
  BY DEF UartInv, Rs485
<1>2. Keeps(q, u, UartNames, {"hw", "latch"}) /\ SameTx(q, u)
  BY <1>1, IerWritten, IerSame
<1> HIDE DEF q
<1>3. UartTypes(q)
  <2>1. Keeps(q, u, UartNames, {"fifo", "hw", "ier", "latch"})
    BY <1>2 DEF Keeps
  <2> QED BY <1>1, <2>1, TypesKept
<1>4. SameTx(u', u)
  BY <1>1, <1>2, <1>3, IerSame DEF SameTx
<1> QED BY <1>4, CallSends DEF Sends, SameTx, Rs485, KeepsLine, line

LEMMA StopRxOrders == UartInv /\ TxInv /\ StopRx => TxInv'
<1> SUFFICES ASSUME UartInv, TxInv, StopRx PROVE TxInv'
  OBVIOUS
<1> DEFINE set == u.ier \ {"RLSI"}
<1>1. UartTypes(u)
  BY DEF UartInv
<1>2. u' = WriteIer([u EXCEPT !.ier = set], set)
  <2>1. [u EXCEPT !.ier = set] = [u EXCEPT !.ier = @ \ {"RLSI"}]
    OBVIOUS
  <2>2. u' = WriteIer([u EXCEPT !.ier = @ \ {"RLSI"}], set)
    BY DEF StopRx
  <2> HIDE DEF set
  <2> QED BY <2>1, <2>2
<1> HIDE DEF set
<1>3. SameTx(u', u)
  BY <1>1, <1>2, IerSame
<1>4. /\ pc' = "idle" /\ phase = "open" /\ bugs' = bugs /\ flow' = flow /\ flowUsed' = flowUsed
      /\ written' = written /\ sent' = sent
  BY DEF StopRx, CoreCall, KeepsSettings, KeepsLine, line, handler, past
<1>5. (Ordered' => Ordered) /\ SeenEmpty'
  BY <1>4 DEF Ordered, SeenEmpty
<1> QED BY <1>3, <1>4, <1>5, SendsKeep DEF Sends, SameTx, TxInv

LEMMA TurnFlowOrders == UartInv /\ TxInv /\ TurnFlow => TxInv'
<1> SUFFICES ASSUME UartInv, TxInv, TurnFlow PROVE TxInv'
  OBVIOUS
<1>1. UartTypes(u) /\ flow \in BOOLEAN /\ (~flow => u.hwstop = FALSE)
  BY DEF UartInv, UartTypes, FlowInv
<1>2. /\ pc' = "idle" /\ phase' = phase /\ bugs' = bugs /\ flowUsed' = TRUE
      /\ written' = written /\ sent' = sent
      /\ u' = IF flow THEN FlowOff(u) ELSE FlowOn(u)
  BY DEF TurnFlow, CoreCall, KeepsLine, line, handler
<1>3. (Ordered' => Ordered) /\ SeenEmpty'
  BY <1>2 DEF Ordered, SeenEmpty
<1>4. u'.shift = u.shift /\ (Ordered => Sends(u', u))
  <2>1. CASE ~flow
    <3>1. SameTx(u', u)
      BY <1>1, <1>2, <2>1, FlowOnSends
    <3> QED BY <3>1 DEF Sends, SameTx
  <2>2. CASE flow
    <3> DEFINE o == TermiosIer(u, FALSE)
               q == [o EXCEPT !.hwstop = FALSE]
    <3>1. u' = CoreStart(q)
      BY <1>2, <2>2 DEF FlowOff
    <3>2. UartTypes(o) /\ Keeps(o, u, UartNames, {"hw", "ier", "latch"})
      BY <1>1, TermiosIerSet
    <3> HIDE DEF o
    <3>3. Keeps(q, o, UartNames, {"delta", "hwstop"}) /\ q.hwstop = FALSE /\ q.delta = o.delta
      BY <3>2 DEF Keeps, UartTypes, HasFields, UartNames
    <3> HIDE DEF q
    <3>4. UartTypes(q)
      <4>1. q.delta \in BOOLEAN /\ q.hwstop \in BOOLEAN
        BY <3>2, <3>3 DEF UartTypes
      <4> QED BY <3>2, <3>3, <4>1, CtsReacts DEF Reacts
    <3>5. SameTx(q, u)
      BY <3>2, <3>3, OutsideTx DEF Keeps, SameTx, UartNames
    <3>6. u'.shift = u.shift
      BY <3>1, <3>4, <3>5, CoreStartMoves DEF Moves, Reacts, SameTx
    <3>7. ASSUME Ordered PROVE Sends(u', u)
      <4>1. Sendable(q)
        BY <3>5, <3>7, OrderedSends DEF Sendable, SameTx
      <4> QED BY <3>1, <3>4, <3>5, <4>1, CoreStartSends, SameThenSends
    <3> QED BY <3>6, <3>7
  <2> QED BY <1>1, <2>1, <2>2
<1> QED BY <1>2, <1>3, <1>4, SendsKeep

\* A closed port promises nothing.
LEMMA ShutdownOrders == UartInv /\ TxInv /\ Shutdown => TxInv'
<1> SUFFICES ASSUME UartInv, TxInv, Shutdown PROVE TxInv'
  OBVIOUS
<1> DEFINE o == Cleared(u)
           shift == [i \in DOMAIN o.shift |-> XChar]
           q == [o EXCEPT !.hwstop = FALSE, !.ier = {}, !.lost = FALSE, !.stop = FALSE,
                          !.shift = shift, !.x = FALSE, !.xmit = <<>>]
<1>1. UartTypes(u)
  BY DEF UartInv
<1>2. u' = WriteIer(q, {})
  <2>1. q = [o EXCEPT !.hwstop = FALSE, !.ier = {}, !.lost = FALSE, !.stop = FALSE,
                      !.shift = [i \in DOMAIN @ |-> XChar], !.x = FALSE, !.xmit = <<>>]
    OBVIOUS
  <2> HIDE DEF q
  <2> QED BY <2>1 DEF Shutdown
<1>3. Keeps(o, u, UartNames, {"delta", "fifo", "rx", "saved"}) /\ UartTypes(o)
  BY <1>1, ClearedPort
<1>4. o.shift = u.shift
  BY <1>3 DEF Keeps, UartNames
<1>5. shift = <<>> \/ shift = <<XChar>>
  <2>1. CASE u.shift = <<>>
    BY <1>4, <2>1
  <2>2. CASE u.shift = <<u.shift[1]>>
    <3>1. DOMAIN u.shift = {1}
      BY <2>2
    <3>2. shift = [i \in {1} |-> XChar]
      BY <1>4, <3>1
    <3> QED BY <3>2
  <2> QED BY <2>1, <2>2 DEF TxInv
<1> HIDE DEF shift, o
<1>6. /\ Keeps(q, o, UartNames, {"hwstop", "ier", "lost", "stop", "shift", "x", "xmit"})
      /\ q.hwstop = FALSE /\ q.shift = shift
  BY <1>3 DEF Keeps, UartTypes, HasFields, UartNames
<1> HIDE DEF q
<1>7. UartTypes(q)
  <2>1. q.hwstop \in BOOLEAN
    BY <1>6
  <2>2. /\ HasFields(UartNames, q) /\ q.cts = o.cts /\ q.delta = o.delta /\ q.rx = o.rx
        /\ q.saved = o.saved
    BY <1>6 DEF Keeps, UartNames
  <2> QED BY <1>3, <2>1, <2>2 DEF UartTypes
<1>8. SameTx(u', q)
  BY <1>2, <1>7, IerSame
<1>9. u'.shift = <<>> \/ u'.shift = <<XChar>>
  BY <1>5, <1>6, <1>8 DEF SameTx
<1>10. written' = 0 /\ flow' = FALSE /\ ~Ordered'
  BY DEF Shutdown, NewLine, Ordered
<1> QED BY <1>9, <1>10 DEF TxInv

\* A step of the handler or the timer.
LEMMA HandlerSends ==
  ASSUME TxInv, HandlerStep, u'.shift = u.shift, Ordered => Sends(u', u) /\ SeenEmpty'
  PROVE  TxInv'
<1>1. /\ phase' = phase /\ bugs' = bugs /\ flow' = flow /\ flowUsed' = flowUsed
      /\ written' = written /\ sent' = sent
  BY DEF HandlerStep, past
<1>2. Ordered' <=> Ordered
  BY <1>1 DEF Ordered
<1> QED BY <1>1, <1>2, SendsKeep DEF TxInv

LEMMA TakenOrders == UartInv /\ TxInv /\ TakeInterrupt => TxInv'
<1> SUFFICES ASSUME UartInv, TxInv, TakeInterrupt PROVE TxInv'
  OBVIOUS
<1>1. UartTypes(u)
  BY DEF UartInv
<1>2. SameTx(u', u)
  BY <1>1 DEF TakeInterrupt, ReadIir, SameTx, UartTypes, HasFields, UartNames
<1>3. SeenEmpty'
  BY DEF TakeInterrupt, SeenEmpty
<1> QED BY <1>2, <1>3, HandlerSends DEF Sends, SameTx, TakeInterrupt

\* The LSR that is read tells whether the FIFO is empty.
LEMMA HandledOrders == UartInv /\ TxInv /\ HandlePort => TxInv'
<1> SUFFICES ASSUME UartInv, TxInv, HandlePort PROVE TxInv'
  OBVIOUS
<1>1. UartTypes(u) /\ u' = ReadLsr(u) /\ status' = ReadStatus(u) /\ pc' # "transmit"
  BY DEF UartInv, HandlePort, AfterRx
<1>2. SameTx(u', u)
  BY <1>1, LsrSame
<1>3. status'.thre <=> u.fifo = <<>>
  BY <1>1 DEF ReadStatus, THRE
<1>4. SeenEmpty'
  BY <1>1, <1>2, <1>3 DEF SeenEmpty, SameTx
<1> QED BY <1>2, <1>4, HandlerSends DEF Sends, SameTx, HandlePort

LEMMA ReceivedOrders == UartInv /\ TxInv /\ receive_chars => TxInv'
<1> SUFFICES ASSUME UartInv, TxInv, receive_chars PROVE TxInv'
  OBVIOUS
<1> DEFINE rest == Tail(u.rx)
           q == [u EXCEPT !.rx = rest, !.saved = FALSE]
<1>1. UartTypes(u) /\ RxInv /\ pc = "receive"
  BY DEF UartInv, receive_chars
<1>2. u' = ReadLsr(q) /\ status' = ReadStatus(q) /\ pc' # "transmit"
  <2>1. q = [u EXCEPT !.rx = Tail(@), !.saved = FALSE]
    BY <1>1 DEF UartTypes, HasFields, UartNames
  <2> HIDE DEF q
  <2> QED BY <2>1 DEF receive_chars
<1>3. rest \in Seq(Received)
  <2>1. u.rx \in Seq(Received) /\ Len(u.rx) > 0
    BY <1>1 DEF UartTypes, RxInv
  <2> QED BY <2>1
<1> HIDE DEF rest
<1>4. Keeps(q, u, UartNames, {"rx", "saved"}) /\ q.rx = rest /\ q.saved = FALSE
  BY <1>1 DEF Keeps, UartTypes, HasFields, UartNames
<1> HIDE DEF q
<1>5. UartTypes(q)
  <2>1. q.rx \in Seq(Received) /\ q.saved \in BOOLEAN
    BY <1>3, <1>4
  <2>2. /\ HasFields(UartNames, q) /\ q.cts = u.cts /\ q.delta = u.delta
        /\ q.hwstop = u.hwstop
    BY <1>4 DEF Keeps, UartNames
  <2> QED BY <1>1, <2>1, <2>2 DEF UartTypes
<1>6. SameTx(q, u)
  BY <1>4, OutsideTx DEF Keeps
<1>7. SameTx(u', u)
  BY <1>2, <1>5, <1>6, LsrSame DEF SameTx
<1>8. status'.thre <=> q.fifo = <<>>
  BY <1>2 DEF ReadStatus, THRE
<1>9. SeenEmpty'
  BY <1>2, <1>6, <1>7, <1>8 DEF SeenEmpty, SameTx
<1> QED BY <1>7, <1>9, HandlerSends DEF Sends, SameTx, receive_chars

\* A change of CTS leaves the FIFO as it was seen, if the driver keeps the order.
LEMMA ModemOrders == UartInv /\ TxInv /\ ModemStatus => TxInv'
<1> SUFFICES ASSUME UartInv, TxInv, ModemStatus PROVE TxInv'
  OBVIOUS
<1>1. /\ UartTypes(u) /\ flow \in BOOLEAN /\ u' = check_modem_status(u, flow) /\ pc = "modem"
      /\ pc' = IF status.thre THEN "transmit" ELSE "idle"
  BY DEF UartInv, FlowInv, ModemStatus
<1>2. u'.shift = u.shift
  BY <1>1, ModemChecked DEF Reacts
<1>3. ASSUME Ordered PROVE SameTx(u', u) /\ SeenEmpty'
  <2>1. "TXEN" \notin bugs \/ ~flow
    BY <1>3 DEF Ordered, TxInv
  <2>2. SameTx(u', u)
    BY <1>1, <2>1, ModemSends
  <2>3. status.thre => u.fifo = <<>>
    BY <1>1, <1>3 DEF TxInv, SeenEmpty
  <2>4. pc' = "transmit" => status.thre
    BY <1>1
  <2>5. pc' \notin {"receive", "modem"}
    BY <1>1
  <2> QED BY <2>2, <2>3, <2>4, <2>5 DEF SeenEmpty, SameTx
<1> QED BY <1>2, <1>3, HandlerSends DEF Sends, ModemStatus

LEMMA TransmitOrders == UartInv /\ TxInv /\ TransmitChars => TxInv'
<1> SUFFICES ASSUME UartInv, TxInv, TransmitChars PROVE TxInv'
  OBVIOUS
<1>1. UartTypes(u) /\ u' = transmit_chars(u) /\ pc = "transmit" /\ pc' = "idle"
  BY DEF UartInv, TransmitChars
<1>2. u'.shift = u.shift
  BY <1>1, Transmits DEF Moves, Reacts
<1>3. ASSUME Ordered PROVE Sends(u', u)
  <2>1. Sendable(u) /\ u.fifo = <<>>
    BY <1>1, <1>3, OrderedSends DEF SeenEmpty
  <2> QED BY <1>1, <2>1, TransmitSends
<1>4. SeenEmpty'
  BY <1>1 DEF SeenEmpty
<1> QED BY <1>2, <1>3, <1>4, HandlerSends DEF TransmitChars

\* The timer looks at the LSR itself before it sends.
LEMMA TimeoutOrders == UartInv /\ TxInv /\ BackupTimeout => TxInv'
<1> SUFFICES ASSUME UartInv, TxInv, BackupTimeout PROVE TxInv'
  OBVIOUS
<1> DEFINE none == WriteIer(u, {})
           off == SaveLsr(none)
           kick == "THRI" \in u.ier /\ (u.xmit # <<>> \/ u.x) /\ THRE(u)
           q == IF kick THEN transmit_chars(off) ELSE off
<1>1. UartTypes(u) /\ u' = WriteIer(q, u.hw) /\ pc' = "idle"
  BY DEF UartInv, BackupTimeout, handler
<1>2. Keeps(none, u, UartNames, {"hw", "latch"}) /\ SameTx(none, u)
  BY <1>1, IerWritten, IerSame
<1> HIDE DEF none
<1>3. UartTypes(none)
  <2>1. Keeps(none, u, UartNames, {"fifo", "hw", "ier", "latch"})
    BY <1>2 DEF Keeps
  <2> QED BY <1>1, <2>1, TypesKept
<1>4. UartTypes(off) /\ SameTx(off, none)
  BY <1>3, LsrSaved, LsrSame DEF Moves, Reacts
<1> HIDE DEF off
<1>5. SameTx(off, u)
  BY <1>2, <1>4 DEF SameTx
<1>6. kick => u.fifo = <<>>
  BY DEF THRE
<1> HIDE DEF kick
<1>7. UartTypes(q) /\ q.shift = off.shift
  BY <1>4, Transmits DEF Moves, Reacts
<1>8. ASSUME Ordered PROVE Sends(q, u)
  <2>1. CASE kick
    <3>1. Sendable(off) /\ off.fifo = <<>>
      BY <1>5, <1>6, <1>8, <2>1, OrderedSends DEF Sendable, SameTx
    <3>2. Sends(transmit_chars(off), off)
      BY <1>4, <3>1, TransmitSends
    <3> QED BY <1>5, <2>1, <3>2, SameThenSends
  <2>2. CASE ~kick
    BY <1>5, <2>2 DEF Sends
  <2> QED BY <2>1, <2>2
<1> HIDE DEF q
<1>9. SameTx(u', q)
  BY <1>1, <1>7, IerSame
<1>10. u'.shift = u.shift
  BY <1>5, <1>7, <1>9 DEF SameTx
<1>11. Ordered => Sends(u', u)
  BY <1>8, <1>9, SendsThenSame
<1>12. SeenEmpty'
  BY <1>1 DEF SeenEmpty
<1> QED BY <1>10, <1>11, <1>12, HandlerSends DEF BackupTimeout

\* What the hardware leaves.
LEMMA HardwareLeaves ==
  ASSUME Hardware, TxInv
  PROVE  /\ phase' = phase /\ bugs' = bugs /\ flow' = flow /\ flowUsed' = flowUsed
         /\ pc' = pc /\ status' = status /\ written' = written
         /\ (Ordered' <=> Ordered) /\ written' \in Nat /\ (flow' => flowUsed')
BY DEF Hardware, handler, past, Ordered, TxInv

\* The next character of the FIFO is being sent.
LEMMA ShiftOrders == UartInv /\ TxInv /\ Shift => TxInv'
<1> SUFFICES ASSUME UartInv, TxInv, Shift PROVE TxInv'
  OBVIOUS
<1>1. /\ phase' = phase /\ pc' = pc /\ status' = status /\ written' = written
      /\ (Ordered' <=> Ordered) /\ written' \in Nat /\ (flow' => flowUsed')
  BY HardwareLeaves DEF Shift
<1>2. u.fifo # <<>> /\ u.shift = <<>> /\ sent' = sent
  BY DEF Shift
<1> DEFINE fifo == Tail(u.fifo)
           char == Head(u.fifo)
           latch == u.latch \/ Len(u.fifo) = 1
           q == [u EXCEPT !.fifo = fifo, !.shift = <<char>>, !.latch = latch]
<1>3. HasFields(UartNames, u)
  BY DEF UartInv, UartTypes
<1>4. u' = q
  BY <1>3 DEF Shift, HasFields, UartNames
<1> HIDE DEF latch, fifo, char
<1>5. u'.fifo = fifo /\ u'.shift = <<char>> /\ u'.lost = u.lost /\ u'.xmit = u.xmit
  BY <1>3, <1>4 DEF HasFields, UartNames
<1> HIDE DEF q
<1>6. ASSUME Ordered PROVE u'.lost = FALSE /\ Order(u', sent', written') /\ SeenEmpty'
  <2>1. Order(u, sent, written) /\ u.lost = FALSE /\ written \in Nat /\ SeenEmpty
    BY <1>6, OrderedSends
  <2>2. PICK a, b, c \in 0..written :
          /\ a <= b /\ b <= c /\ sent = Run(0, a) /\ u.xmit = Run(c, written)
          /\ \/ u.shift \in {<<>>, <<XChar>>} /\ b = a
             \/ u.shift = <<b>> /\ b = a + 1
          /\ u.fifo = Run(b, c) \/ (u.fifo = <<XChar>> /\ b = c)
    BY <2>1 DEF Order
  <2>3. b = a
    BY <1>2, <2>2
  <2>4. b \in Nat /\ c \in Nat /\ c <= written
    BY <2>1
  <2>5. CASE u.fifo = Run(b, c)
    <3>1. Run(b, c) = <<>> <=> b = c
      BY <2>2, <2>4, RunFacts
    <3>2. b < c
      BY <1>2, <2>2, <2>4, <2>5, <3>1
    <3>3. char = b + 1 /\ fifo = Run(b + 1, c)
      BY <2>4, <2>5, <3>2, RunShrinks DEF char, fifo
    <3> DEFINE e == b + 1
    <3>4. e \in 0..written /\ a <= e /\ e <= c /\ e = a + 1
      BY <2>1, <2>3, <2>4, <3>2
    <3>5. u'.fifo = Run(e, c) /\ u'.shift = <<e>>
      BY <1>5, <3>3
    <3> HIDE DEF e
    <3>6. Order(u', sent, written)
      BY <1>5, <2>2, <3>4, <3>5 DEF Order
    <3> QED BY <1>1, <1>2, <1>5, <2>1, <3>6 DEF SeenEmpty
  <2>6. CASE u.fifo = <<XChar>> /\ b = c
    <3>1. char = XChar /\ fifo = <<>>
      BY <2>6 DEF char, fifo
    <3>2. Run(b, c) = <<>>
      BY <2>4, <2>6, RunFacts
    <3>3. Order(u', sent, written)
      BY <1>5, <2>2, <2>3, <3>1, <3>2 DEF Order
    <3> QED BY <1>1, <1>2, <1>5, <2>1, <3>3 DEF SeenEmpty
  <2> QED BY <2>2, <2>5, <2>6
<1>7. u'.shift = <<u'.shift[1]>>
  BY <1>5
<1> QED BY <1>1, <1>6, <1>7 DEF TxInv

\* A character is out, and counts if it is data.
LEMMA SendOrders == UartInv /\ TxInv /\ Send => TxInv'
<1> SUFFICES ASSUME UartInv, TxInv, Send PROVE TxInv'
  OBVIOUS
<1>1. /\ phase' = phase /\ pc' = pc /\ status' = status /\ written' = written
      /\ (Ordered' <=> Ordered) /\ written' \in Nat /\ (flow' => flowUsed')
  BY HardwareLeaves DEF Send
<1>2. u.shift # <<>> /\ sent' = IF u.shift = <<XChar>> THEN sent ELSE sent \o u.shift
  BY DEF Send
<1>3. u'.fifo = u.fifo /\ u'.shift = <<>> /\ u'.lost = u.lost /\ u'.xmit = u.xmit
  BY DEF UartInv, UartTypes, Send, HasFields, UartNames
<1>4. ASSUME Ordered PROVE u'.lost = FALSE /\ Order(u', sent', written') /\ SeenEmpty'
  <2>1. Order(u, sent, written) /\ u.lost = FALSE /\ written \in Nat /\ SeenEmpty
    BY <1>4, OrderedSends
  <2>2. PICK a, b, c \in 0..written :
          /\ a <= b /\ b <= c /\ sent = Run(0, a) /\ u.xmit = Run(c, written)
          /\ \/ u.shift \in {<<>>, <<XChar>>} /\ b = a
             \/ u.shift = <<b>> /\ b = a + 1
          /\ u.fifo = Run(b, c) \/ (u.fifo = <<XChar>> /\ b = c)
    BY <2>1 DEF Order
  <2>3. a \in Nat /\ 0 \in Nat /\ 0 <= a
    BY <2>1
  <2>4. sent' = Run(0, b)
    <3>1. CASE u.shift \in {<<>>, <<XChar>>} /\ b = a
      BY <1>2, <2>2, <3>1
    <3>2. CASE u.shift = <<b>> /\ b = a + 1
      <4>1. b # XChar
        BY <2>3, <3>2 DEF XChar
      <4>2. u.shift # <<XChar>>
        <5>1. <<b>>[1] = b /\ <<XChar>>[1] = XChar
          OBVIOUS
        <5> QED BY <3>2, <4>1, <5>1
      <4>3. sent' = Run(0, a) \o <<a + 1>>
        BY <1>2, <2>2, <3>2, <4>2
      <4> QED BY <2>3, <3>2, <4>3, RunGrows
    <3> QED BY <2>2, <3>1, <3>2
  <2>5. Order(u', sent', written)
    <3>1. b <= b
      BY <2>1
    <3> QED BY <1>3, <2>2, <2>4, <3>1 DEF Order
  <2> QED BY <1>1, <1>3, <2>1, <2>5 DEF SeenEmpty
<1> QED BY <1>1, <1>3, <1>4 DEF TxInv

\* The receiver and CTS are not the transmitter.
LEMMA InputOrders ==
  ASSUME TxInv, Hardware, SameTx(u', u), sent' = sent
  PROVE  TxInv'
<1>1. /\ pc' = pc /\ status' = status /\ written' = written
      /\ (Ordered' <=> Ordered) /\ (flow' => flowUsed')
  BY HardwareLeaves
<1>2. Ordered' => Ordered /\ Sends(u', u) /\ SeenEmpty'
  BY <1>1 DEF TxInv, Sends, SeenEmpty, SameTx
<1> QED BY <1>1, <1>2, SendsKeep DEF SameTx

LEMMA ArriveOrders == UartInv /\ TxInv /\ Arrive => TxInv'
<1> SUFFICES ASSUME UartInv, TxInv, Arrive PROVE TxInv'
  OBVIOUS
<1>1. PICK err \in BOOLEAN :
        u' = [u EXCEPT !.rx = Append(@, [char |-> Len(came) + 1, err |-> err])]
  BY DEF Arrive
<1> DEFINE rx == Append(u.rx, [char |-> Len(came) + 1, err |-> err])
<1>2. HasFields(UartNames, u) /\ u' = [u EXCEPT !.rx = rx]
  BY <1>1 DEF UartInv, UartTypes
<1> HIDE DEF rx
<1>3. SameTx(u', u)
  BY <1>2 DEF SameTx, HasFields, UartNames
<1> QED BY <1>3, InputOrders DEF Arrive

LEMMA CtsChangeOrders == UartInv /\ TxInv /\ CtsChange => TxInv'
<1> SUFFICES ASSUME UartInv, TxInv, CtsChange PROVE TxInv'
  OBVIOUS
<1>1. SameTx(u', u)
  BY DEF UartInv, UartTypes, CtsChange, SameTx, HasFields, UartNames
<1> QED BY <1>1, InputOrders DEF CtsChange

\* Nothing is written to a port that has not been opened.
LEMMA TxBegins == UartInit => TxInv
BY DEF UartInit, TxInv, Ordered

\* Every step of the core, the handler, the timer and the line keeps the order.
LEMMA TxStep == UartInv /\ TxInv /\ [UartNext]_uartVars => TxInv'
<1> SUFFICES ASSUME UartInv, TxInv, [UartNext]_uartVars PROVE TxInv'
  OBVIOUS
<1>1. CASE CoreNext
  BY <1>1, OpenOrders, ReconfigureOrders, WriteOrders, XCharOrders, StopOrders, StartOrders,
     TxEmptyOrders, TurnFlowOrders, Rs485Orders, StopRxOrders, ShutdownOrders DEF CoreNext
<1>2. CASE IsrNext
  BY <1>2, TakenOrders, HandledOrders, ReceivedOrders, ModemOrders, TransmitOrders DEF IsrNext
<1>3. CASE BackupTimeout
  BY <1>3, TimeoutOrders
<1>4. CASE LineNext
  BY <1>4, ShiftOrders, SendOrders, ArriveOrders, CtsChangeOrders DEF LineNext
<1>5. CASE UNCHANGED uartVars
  BY <1>5 DEF uartVars, TxInv, Ordered, SeenEmpty, Order
<1> QED BY <1>1, <1>2, <1>3, <1>4, <1>5 DEF UartNext

\* Where the characters are that were written, in a port that keeps the order.
THEOREM TxInvariant == UartSpec => []TxInv
<1>1. UartInit => UartInv /\ TxInv
  BY UartBegins, TxBegins
<1>2. (UartInv /\ TxInv) /\ [UartNext]_uartVars => (UartInv /\ TxInv)'
  BY UartStep, TxStep
<1> QED BY <1>1, <1>2, PTL DEF UartSpec

\* Every character that is written goes out once and in order, for any number
\* of characters, any FIFO, and whether the handler, the backup timer or start_tx
\* fills it (transmit_chars at 1734, 1977 and 1514), in a port that has not both
\* UART_BUG_TXEN and CTS flow control.
THEOREM SentIsInOrder == UartSpec => []SentInOrder
<1>1. TxInv => SentInOrder
  <2> SUFFICES ASSUME TxInv, Ordered PROVE ~u.lost /\ InOrder(OnItsWay, written)
    BY DEF SentInOrder, Ordered
  <2>1. Order(u, sent, written) /\ u.lost = FALSE /\ written \in Nat
    BY DEF TxInv
  <2> QED BY <2>1, OrderIsInOrder DEF OnItsWay
<1> QED BY <1>1, TxInvariant, PTL
===============================================================================
