----------------------------- MODULE DeviceFile -----------------------------
(***************************************************************************)
(* open() and close() of one device node, the same code in the drivers     *)
(* aio, cnt, dio and ssi (modelled after cpsdio_open and cpsdio_close).    *)
(*                                                                         *)
(* The first open makes a device structure, reserves and maps the          *)
(* registers and installs the interrupt handler; later ones count          *)
(* themselves in its ref; the close that brings ref to 0 undoes the first  *)
(* open.  There is no lock.  The kernel may run other calls wherever one   *)
(* sleeps: in kzalloc, in ioremap or request_irq, and in free_irq.         *)
(***************************************************************************)
EXTENDS Integers, FiniteSets

CONSTANTS
  Files,     \* files (struct file) that processes may open on the node
  Devs,      \* addresses a device structure may get
  Null,      \* the null pointer
  Zeroed,    \* the structure is kzalloc'd; in cnt it is kmalloc'd
  Serial     \* the users of the node make their first opens one at a time

ASSUME DeviceFileAssumption ==
  /\ IsFiniteSet(Files) /\ Null \notin Devs
  /\ Zeroed \in BOOLEAN /\ Serial \in BOOLEAN

VARIABLES
  pc,         \* where the call of a file is; "open" between two calls
  priv,       \* filp->private_data, and the dev of a call in progress
  iPrivate,   \* inode->i_private
  opened,     \* notFirstOpenFlg[node] # 0
  live,       \* device structures that are allocated
  ref,        \* dev->ref, kept when the structure is freed
  region,     \* the structure whose registers are reserved and mapped
  irqs        \* structures given to request_irq

vars == <<pc, priv, iPrivate, opened, live, ref, region, irqs>>

Pc == {"idle", "alloc", "map", "mapped", "open", "close"}

OpenFiles == {f \in Files : pc[f] = "open"}
InCall(f) == pc[f] \in {"alloc", "map", "mapped", "close"}
Opening(f) == pc[f] \in {"alloc", "map", "mapped"}

\* Before the first open i_private holds anything that is not in use now.
Init ==
  /\ pc = [f \in Files |-> "idle"] /\ priv = [f \in Files |-> Null]
  /\ iPrivate \in Devs \cup {Null} /\ opened = FALSE
  /\ live = {} /\ ref = [d \in Devs |-> 0]
  /\ region = Null /\ irqs = {}

Goto(f, l) == pc' = [pc EXCEPT ![f] = l]

-----------------------------------------------------------------------------
(* open *)

\* i_private is looked at only once an open has succeeded.
Known == opened /\ iPrivate # Null

\* Mutants: the structure is handed out whatever its ref; it is not counted.
OpenAgain_NoRefTest(f) ==
  /\ pc[f] = "idle" /\ Known
  /\ priv' = [priv EXCEPT ![f] = iPrivate]
  /\ ref' = [ref EXCEPT ![iPrivate] = @ + 1]
  /\ Goto(f, "open")
  /\ UNCHANGED <<iPrivate, opened, live, region, irqs>>

OpenAgain(f) ==
  /\ pc[f] = "idle" /\ Known /\ ref[iPrivate] # 0
  /\ priv' = [priv EXCEPT ![f] = iPrivate]
  /\ ref' = [ref EXCEPT ![iPrivate] = @ + 1]
  /\ Goto(f, "open")
  /\ UNCHANGED <<iPrivate, opened, live, region, irqs>>

\* -EFAULT: a structure that nobody has open is not handed out.
Refused(f) ==
  /\ pc[f] = "idle" /\ Known /\ ref[iPrivate] = 0
  /\ UNCHANGED vars

FirstOpen(f) ==
  /\ pc[f] = "idle" /\ ~Known
  /\ Serial => \A g \in Files : ~Opening(g)
  /\ Goto(f, "alloc")
  /\ UNCHANGED <<priv, iPrivate, opened, live, ref, region, irqs>>

\* -ENOMEM: kzalloc failed.
NoMemory(f) ==
  /\ pc[f] = "alloc"
  /\ iPrivate' = Null
  /\ Goto(f, "idle")
  /\ UNCHANGED <<priv, opened, live, ref, region, irqs>>

Allocated(f, d) ==
  /\ pc[f] = "alloc" /\ d \notin live
  /\ live' = live \cup {d}
  /\ priv' = [priv EXCEPT ![f] = d]
  /\ iPrivate' = d
  /\ \E r \in IF Zeroed THEN {0} ELSE 0..1 : ref' = [ref EXCEPT ![d] = r]
  /\ Goto(f, "map")
  /\ UNCHANGED <<opened, region, irqs>>

Reserved(f) ==
  /\ pc[f] = "map" /\ region = Null
  /\ region' = priv[f]
  /\ Goto(f, "mapped")
  /\ UNCHANGED <<priv, iPrivate, opened, live, ref, irqs>>

\* cps_common_mem_release: what was not mapped is not released.
Released(d) == IF region = d THEN Null ELSE region

\* The error path and the last close free the structure alike.
Freed(f) ==
  /\ region' = Released(priv[f])
  /\ live' = live \ {priv[f]}
  /\ iPrivate' = Null
  /\ priv' = [priv EXCEPT ![f] = Null]
  /\ Goto(f, "idle")

\* -ENOMEM: request_mem_region finds the registers reserved already, or has
\* no memory for the reservation.
Busy(f) ==
  /\ pc[f] = "map"
  /\ Freed(f)
  /\ UNCHANGED <<opened, ref, irqs>>

\* Mutant: the error path skips the release of the registers.
Unusable_NoRelease(f) ==
  /\ pc[f] = "mapped"
  /\ live' = live \ {priv[f]} /\ iPrivate' = Null
  /\ priv' = [priv EXCEPT ![f] = Null]
  /\ Goto(f, "idle")
  /\ UNCHANGED <<opened, ref, region, irqs>>

\* ioremap failed, the product is not in the driver's table, or its channel
\* data could not be allocated.
Unusable(f) ==
  /\ pc[f] = "mapped"
  /\ Freed(f)
  /\ UNCHANGED <<opened, ref, irqs>>

\* What request_irq returns is only logged.
Ready(f) ==
  /\ pc[f] = "mapped"
  /\ irqs' \in {irqs, irqs \cup {priv[f]}}
  /\ ref' = [ref EXCEPT ![priv[f]] = 1]
  /\ opened' = TRUE
  /\ Goto(f, "open")
  /\ UNCHANGED <<priv, iPrivate, live, region>>

-----------------------------------------------------------------------------
(* close, which works on i_private, not on the file's own private_data *)

Dropped(d) == IF ref[d] > 0 THEN ref[d] - 1 ELSE ref[d]

\* i_private is null, or others have the structure open.
Close(f) ==
  /\ pc[f] = "open"
  /\ IF iPrivate = Null
     THEN UNCHANGED ref
     ELSE /\ Dropped(iPrivate) # 0
          /\ ref' = [ref EXCEPT ![iPrivate] = Dropped(iPrivate)]
  /\ priv' = [priv EXCEPT ![f] = Null]
  /\ Goto(f, "idle")
  /\ UNCHANGED <<iPrivate, opened, live, region, irqs>>

LastClose(f) ==
  /\ pc[f] = "open" /\ iPrivate # Null /\ Dropped(iPrivate) = 0
  /\ ref' = [ref EXCEPT ![iPrivate] = 0]
  /\ irqs' = irqs \ {iPrivate}
  /\ priv' = [priv EXCEPT ![f] = iPrivate]
  /\ Goto(f, "close")
  /\ UNCHANGED <<iPrivate, opened, live, region>>

\* Mutant: the last close does not release the registers.
Closed_NoRelease(f) ==
  /\ pc[f] = "close"
  /\ live' = live \ {priv[f]} /\ iPrivate' = Null
  /\ priv' = [priv EXCEPT ![f] = Null]
  /\ Goto(f, "idle")
  /\ UNCHANGED <<opened, ref, region, irqs>>

Closed(f) ==
  /\ pc[f] = "close"
  /\ Freed(f)
  /\ UNCHANGED <<opened, ref, irqs>>

-----------------------------------------------------------------------------
\* The module is unloaded and loaded again, which needs every file closed:
\* the flags are new, the inode keeps or loses what it held.
Reload ==
  /\ \A f \in Files : pc[f] = "idle"
  /\ opened' = FALSE
  /\ iPrivate' \in Devs \cup {Null}
  /\ UNCHANGED <<pc, priv, live, ref, region, irqs>>

Open(f) == OpenAgain(f) \/ Refused(f) \/ FirstOpen(f)

\* What a call does on its own once it is under way.
Continue(f) ==
  \/ NoMemory(f) \/ (\E d \in Devs : Allocated(f, d))
  \/ Reserved(f) \/ Busy(f) \/ Unusable(f) \/ Ready(f)
  \/ Closed(f)

Next ==
  \/ \E f \in Files : Open(f) \/ Continue(f) \/ Close(f) \/ LastClose(f)
  \/ Reload

Spec == Init /\ [][Next]_vars

\* A sleeping call is woken up; nothing makes a user open or close.
FairSpec == Spec /\ \A f \in Files : WF_vars(Continue(f))

-----------------------------------------------------------------------------
TypeOK ==
  /\ pc \in [Files -> Pc] /\ priv \in [Files -> Devs \cup {Null}]
  /\ iPrivate \in Devs \cup {Null} /\ opened \in BOOLEAN
  /\ live \in SUBSET Devs /\ ref \in [Devs -> Nat]
  /\ region \in Devs \cup {Null} /\ irqs \in SUBSET Devs

\* The note on cpsdio_open and cpsdio_close: private_data is one per process,
\* i_private one per node.  The files open on a node share the structure that
\* its i_private points to.
OnePerNode == \A f \in OpenFiles : priv[f] = iPrivate

\* ref is what the last close is recognised by: it counts the open files.
RefCountsFiles == OpenFiles # {} => ref[iPrivate] = Cardinality(OpenFiles)

\* Neither an ioctl, nor the interrupt handler, nor a call that was asleep
\* ever uses a structure that has been freed.
NothingDangles ==
  /\ \A f \in Files : pc[f] \notin {"idle", "alloc"} => priv[f] \in live
  /\ irqs \subseteq live
  /\ region \in live \cup {Null}
  /\ Known => iPrivate \in live

\* With every file closed, whatever calls failed on the way, no structure is
\* kept, no register reserved and no handler installed: the next open is a
\* first open that finds the registers free.
NothingKept ==
  (\A f \in Files : pc[f] = "idle") =>
     live = {} /\ region = Null /\ irqs = {} /\ ~Known

\* An open is refused with -EFAULT only while another call is bringing the
\* device up or down, never because of one that failed or of a module reload.
RefusedOnlyDuringCalls ==
  Known /\ ref[iPrivate] = 0 => \E f \in Files : InCall(f)

\* The node promises NodeUse: no file is open on a device that is not
\* attached, and a device that no file uses is detached in the end.
Use == INSTANCE NodeUse WITH users <- OpenFiles, attached <- region # Null
Promise == Use!Spec

=============================================================================
