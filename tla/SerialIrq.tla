------------------------------- MODULE SerialIrq -------------------------------
(***************************************************************************)
(* The chain of the ports of one serial device that share its interrupt     *)
(* (driver/com/8250_cpscom.c): linking a port when it is opened, unlinking   *)
(* it when it is closed, and the interrupt handler that walks the chain.    *)
(*                                                                         *)
(* The hash of irq_info is under hash_mutex, a chain under the lock of its  *)
(* irq_info.  Unlinking holds the mutex throughout, linking gives it up      *)
(* before it takes the lock.  A device has one irq_info at a time.          *)
(***************************************************************************)
EXTENDS Integers, Sequences

CONSTANTS
  Port,      \* the ports of the device
  None,      \* no port
  PassLimit, \* PASS_LIMIT; 512 in the code
  MaxOpens,  \* bound: openings
  MaxRaises  \* bound: interrupts of the ports

ASSUME SerialIrqAssumption ==
  /\ None \notin Port
  /\ PassLimit \in Nat /\ MaxOpens \in Nat /\ MaxRaises \in Nat

VARIABLES
  stage,   \* what each port's open or close is doing
  mutex,   \* the port whose call holds hash_mutex
  info,    \* the device has an irq_info
  stale,   \* ports whose call holds a pointer to a freed irq_info
  chain,   \* its ports, the head first
  irq,     \* the interrupt is requested for it
  pending, \* ports that raise their interrupt
  isr,     \* the handler: where it is and what it remembers
  (* history *)
  crossed, \* linking has met unlinking, or a failure of request_irq
  low,     \* the line was seen low since a port was last handled
  left,    \* how the handler last returned
  opens, raises

vars == <<stage, mutex, info, stale, chain, irq, pending, isr, crossed, low, left, opens, raises>>
lists == <<info, stale, chain, irq>>
interrupts == <<pending, isr, low, left, raises>>

Linking == {"find", "add", "request", "fail", "discard"}
Unlinking == {"unlink", "free_irq", "remove", "release"}

Chain == {chain[i] : i \in DOMAIN chain}
IndexOf(p) == CHOOSE i \in DOMAIN chain : chain[i] = p
Busy(p, stages) == \E q \in Port \ {p} : stage[q] \in stages
Go(p, s) == stage' = [stage EXCEPT ![p] = s]

(* A call of the driver runs while the handler does not.                     *)
Call == isr.at = None /\ UNCHANGED interrupts

-------------------------------------------------------------------------------
(* serial_link_irq_chain                                                     *)

Open(p) ==
  /\ Call /\ stage[p] = "closed" /\ opens < MaxOpens
  /\ Go(p, "find") /\ opens' = opens + 1
  /\ crossed' = ((crossed /\ \E q \in Port : stage[q] # "closed") \/ Busy(p, Unlinking \cup {"fail", "discard"}))
  /\ UNCHANGED <<mutex, lists>>

Find(p) ==
  /\ Call /\ stage[p] = "find" /\ mutex = None
  /\ \/ info' = TRUE /\ Go(p, "add")
     \/ ~info /\ info' = FALSE /\ Go(p, "closed")
  /\ UNCHANGED <<mutex, stale, chain, irq, crossed, opens>>

Add(p) ==
  /\ Call /\ stage[p] = "add"
  /\ IF p \in stale THEN Go(p, "lost") /\ UNCHANGED chain
     ELSE IF chain = <<>> THEN chain' = <<p>> /\ Go(p, "request")
     ELSE chain' = <<Head(chain), p>> \o Tail(chain) /\ Go(p, "open")
  /\ UNCHANGED <<mutex, info, stale, irq, crossed, opens>>

Request(p) ==
  /\ Call /\ stage[p] = "request"
  /\ \/ irq' = (p \notin stale) /\ Go(p, "open") /\ UNCHANGED crossed
     \/ /\ Go(p, "fail") /\ UNCHANGED irq
        /\ crossed' = (crossed \/ Busy(p, Linking \cup {"open"}))
  /\ UNCHANGED <<mutex, info, stale, chain, opens>>

(* serial_do_unlink: the chain, and then, without the lock, the irq_info.    *)
\* the port at the head takes the rest of the chain with it
Without_Head(p) ==
  IF Head(chain) = p THEN <<>>
  ELSE [i \in 1..(Len(chain) - 1) |-> IF i < IndexOf(p) THEN chain[i] ELSE chain[i + 1]]

Without(p) ==
  IF p \notin Chain THEN chain
  ELSE [i \in 1..(Len(chain) - 1) |-> IF i < IndexOf(p) THEN chain[i] ELSE chain[i + 1]]

Freed(p) ==
  /\ info' = (info /\ chain # <<>>)
  /\ stale' = IF info' THEN stale ELSE {q \in Port \ {p} : stage[q] \in {"add", "request"}}

Fail(p) ==
  /\ Call /\ stage[p] = "fail"
  /\ chain' = Without(p) /\ Go(p, "discard")
  /\ UNCHANGED <<mutex, info, stale, irq, crossed, opens>>

Discard(p) ==
  /\ Call /\ stage[p] = "discard"
  /\ Freed(p) /\ Go(p, "closed")
  /\ UNCHANGED <<mutex, chain, irq, crossed, opens>>

(* serial_unlink_irq_chain                                                   *)

Close(p) ==
  /\ isr.at = None /\ stage[p] = "open"
  /\ Go(p, "unlink") /\ pending' = pending \ {p}
  /\ crossed' = (crossed \/ Busy(p, Linking))
  /\ UNCHANGED <<mutex, lists, isr, low, left, opens, raises>>

\* the interrupt is freed when the head goes
Unlink_Head(p) ==
  /\ Call /\ stage[p] = "unlink" /\ mutex = None
  /\ mutex' = p /\ Go(p, IF Head(chain) = p THEN "free_irq" ELSE "remove")
  /\ UNCHANGED <<lists, crossed, opens>>

Unlink(p) ==
  /\ Call /\ stage[p] = "unlink" /\ mutex = None
  /\ IF info /\ chain # <<>>
       THEN mutex' = p /\ Go(p, IF Len(chain) = 1 THEN "free_irq" ELSE "remove")
       ELSE Go(p, "lost") /\ UNCHANGED mutex
  /\ UNCHANGED <<lists, crossed, opens>>

FreeIrq(p) ==
  /\ Call /\ stage[p] = "free_irq"
  /\ irq' = FALSE /\ Go(p, "remove")
  /\ UNCHANGED <<mutex, info, stale, chain, crossed, opens>>

DoUnlink(p) ==
  /\ Call /\ stage[p] = "remove"
  /\ IF chain \in {<<q>> : q \in Port \ {p}}
       THEN Go(p, "lost") /\ UNCHANGED chain
       ELSE chain' = Without(p) /\ Go(p, "release")
  /\ UNCHANGED <<mutex, info, stale, irq, crossed, opens>>

Release(p) ==
  /\ Call /\ stage[p] = "release"
  /\ Freed(p) /\ Go(p, "closed") /\ mutex' = None
  /\ UNCHANGED <<chain, irq, crossed, opens>>

-------------------------------------------------------------------------------
(* cpscom_interrupt walks the chain until every port has been quiet once     *)
(* since a port was last handled.                                            *)

NotIsr == UNCHANGED <<stage, mutex, lists, crossed, opens>>
Idle == [at |-> None, end |-> None, passes |-> 0]
Quiet(some) == some \cap Chain = {}

Interrupt ==
  /\ NotIsr /\ isr.at = None /\ irq /\ chain # <<>> /\ ~Quiet(pending)
  /\ isr' = [at |-> Head(chain), end |-> None, passes |-> 0]
  /\ low' = FALSE /\ left' = "no"
  /\ UNCHANGED <<pending, raises>>

NextOf(p) == IF IndexOf(p) = Len(chain) THEN Head(chain) ELSE chain[IndexOf(p) + 1]

\* a port that was handled does not start the round anew
EndAfter_Kept(p) == IF isr.end = None THEN p ELSE isr.end

EndAfter(p) == IF p \in pending THEN None ELSE IF isr.end = None THEN p ELSE isr.end

Handle ==
  /\ NotIsr /\ isr.at # None
  /\ pending' = pending \ {isr.at}
  /\ low' = ((low /\ isr.at \notin pending) \/ Quiet(pending'))
  /\ LET n     == NextOf(isr.at)
         wrap  == n = Head(chain)
         limit == wrap /\ isr.passes > PassLimit
         quiet == n = EndAfter(isr.at)
     IN /\ isr' = IF limit \/ quiet THEN Idle
                  ELSE [at |-> n, end |-> EndAfter(isr.at),
                        passes |-> IF wrap THEN isr.passes + 1 ELSE isr.passes]
        /\ left' = IF limit THEN "limit" ELSE IF quiet THEN "quiet" ELSE "no"
  /\ UNCHANGED raises

(* An interrupt of the UART; it stays until the handler reads its cause.     *)
Raise(p) ==
  /\ stage[p] = "open" /\ p \notin pending /\ raises < MaxRaises
  /\ pending' = pending \cup {p} /\ raises' = raises + 1
  /\ NotIsr /\ UNCHANGED <<isr, low, left>>

-------------------------------------------------------------------------------
Init ==
  /\ stage = [p \in Port |-> "closed"] /\ mutex = None
  /\ info = FALSE /\ stale = {} /\ chain = <<>> /\ irq = FALSE
  /\ pending = {} /\ isr = Idle
  /\ crossed = FALSE /\ low = FALSE /\ left = "no" /\ opens = 0 /\ raises = 0

Link(p)   == Find(p) \/ Add(p) \/ Request(p) \/ Fail(p) \/ Discard(p)
UnlinkOf(p) == Unlink(p) \/ FreeIrq(p) \/ DoUnlink(p) \/ Release(p)
Next == \/ \E p \in Port : Open(p) \/ Link(p) \/ Close(p) \/ UnlinkOf(p) \/ Raise(p)
        \/ Interrupt \/ Handle

(* A raised interrupt reaches the handler, and the handler runs to its end.   *)
FairSpec == Init /\ [][Next]_vars /\ WF_vars(Interrupt) /\ WF_vars(Handle)

TypeOK ==
  /\ stage \in [Port -> {"closed", "open", "lost"} \cup Linking \cup Unlinking]
  /\ mutex \in Port \cup {None} /\ info \in BOOLEAN /\ irq \in BOOLEAN /\ crossed \in BOOLEAN
  /\ chain \in Seq(Port) /\ pending \subseteq Port /\ stale \subseteq Port

(* An open port is in the chain and the interrupt of the chain is requested,  *)
(* and a chain nobody is in has no irq_info: closing one port never takes the *)
(* interrupt from the other.  It holds when two ports are opened at once or   *)
(* closed at once; not when one is opened while the other is closed, because  *)
(* linking uses the irq_info it found after giving up hash_mutex (1873-1875), *)
(* nor when request_irq fails under a port that has joined the chain.         *)
Chained ==
  ~crossed =>
    /\ \A p \in Port : stage[p] = "open" => p \in Chain
    /\ \A p \in Port : stage[p] # "lost"
    /\ (\A p \in Port : stage[p] \in {"open", "closed"})
         => (irq = (chain # <<>>)) /\ (info = (chain # <<>>))

(* When the handler returns, other than for too much work, the interrupt line *)
(* was low at some moment since a port was last handled, whatever the ports   *)
(* raise during the walk (1769-1775, 1817-1823).                              *)
LineReleased == left = "quiet" => low

(* An interrupt of an open port is handled in the end, or the port closed;    *)
(* also when the handler gives up after PASS_LIMIT rounds.                    *)
Served ==
  \A p \in Port : (p \in pending)
    ~> (p \notin pending \/ crossed \/ \E q \in Port : stage[q] \notin {"open", "closed"})
===============================================================================
