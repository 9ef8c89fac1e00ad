------------------------------ MODULE NodeUse ------------------------------
(***************************************************************************)
(* What the open and close of a device node promise together: the device   *)
(* is attached (its registers mapped, its interrupt handler installed)     *)
(* before a file is opened on it, as long as one is open, and no longer.   *)
(***************************************************************************)
CONSTANT Files       \* the files processes may have open on the node

VARIABLES
  users,      \* the files that are open
  attached    \* the device is attached

use == <<users, attached>>

Init == users = {} /\ attached = FALSE

Attach == ~attached /\ attached' = TRUE /\ UNCHANGED users

Detach == attached /\ users = {} /\ attached' = FALSE /\ UNCHANGED users

Join(f) ==
  /\ attached /\ f \notin users
  /\ users' = users \cup {f}
  /\ UNCHANGED attached

Leave(f) == f \in users /\ users' = users \ {f} /\ UNCHANGED attached

Next == Attach \/ Detach \/ \E f \in Files : Join(f) \/ Leave(f)

\* An attached device that no file uses gets one or is detached.
Settle == users = {} /\ (Detach \/ \E f \in Files : Join(f))

Safe == Init /\ [][Next]_use
Spec == Safe /\ WF_use(Settle)

=============================================================================
