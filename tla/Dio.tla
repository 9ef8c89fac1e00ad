--------------------------------- MODULE Dio ---------------------------------
(***************************************************************************)
(* A digital I/O device as driver/dio/cpsdio.c and lib/dio/libcpsdio.c use *)
(* it: the interrupt handler that signals a process, the calls by which a  *)
(* process asks for the signal, and the output of a single bit.            *)
(*                                                                         *)
(* Every ioctl holds dev->lock with the interrupts off and is one step; a  *)
(* library call is several ioctls, between which the handler, the signal   *)
(* and other processes run.  open and close are those of NodeUse: attached *)
(* as long as a process has the node open (DeviceFile implements this).    *)
(***************************************************************************)
EXTENDS Naturals, FiniteSets

CONSTANTS
  Process,    \* the processes that use the library, each with one file
  Bit,        \* bits of the port
  None,       \* no process
  MaxEdges    \* bound: interrupts the inputs raise

ASSUME DioAssumption ==
  /\ None \notin Process /\ Bit # {} /\ IsFiniteSet(Bit) /\ MaxEdges \in Nat

VARIABLES
  (* the device *)
  mask,       \* interrupts that are masked
  status,     \* interrupts that are pending; reading it clears it
  output,     \* output bits that are on
  edges,      \* interrupts raised so far
  (* the driver *)
  callback,   \* dev->int_callback
  (* the processes *)
  pc,         \* where the library call is; "idle" between two calls
  arg,        \* its arguments
  users,      \* the processes that have the node open
  handler,    \* those whose SIGUSR2 runs _contec_signal_proc
  func,       \* those with a function in contec_cps_dio_cb_list
  sig,        \* those with a SIGUSR2 pending
  inCallback, \* those that run their function
  dead        \* those that SIGUSR2 has terminated

dev == <<mask, status, output, edges>>
vars == <<dev, callback, pc, arg, users, handler, func, sig, inCallback, dead>>

Pc == {"idle", "edge", "process", "signal", "write", "polled"}

NoArg == [bit |-> CHOOSE b \in Bit : TRUE, val |-> {}]

Init ==
  /\ mask \in SUBSET Bit /\ status = {} /\ output = {} /\ edges = 0
  /\ callback = None
  /\ pc = [p \in Process |-> "idle"] /\ arg = [p \in Process |-> NoArg]
  /\ users = {} /\ handler = {} /\ func = {}
  /\ sig = {} /\ inCallback = {} /\ dead = {}

Goto(p, l) == pc' = [pc EXCEPT ![p] = l]
\* A process runs its call when it is not in the signal handler.
At(p, l) == pc[p] = l /\ p \notin inCallback \cup dead
Calls(p) == At(p, "idle") /\ p \in users

-----------------------------------------------------------------------------
(* The device and the interrupt handler *)

\* An input changes at the edge chosen for a bit that is not masked.
Edge(b) ==
  /\ edges < MaxEdges /\ b \notin mask
  /\ status' = status \cup {b}
  /\ edges' = edges + 1
  /\ UNCHANGED <<mask, output, callback, pc, arg, users, handler, func, sig,
                 inCallback, dead>>

\* Mutants: the handler forgets the signal; it signals the null pointer.
Isr_NoSignal ==
  /\ users # {} /\ status # {}
  /\ status' = {}
  /\ UNCHANGED <<mask, output, edges, callback, pc, arg, users, handler, func,
                 sig, inCallback, dead>>

\* SIGUSR2 does not count: one that is pending already stands for both.
Isr ==
  /\ users # {} /\ status # {}
  /\ status' = {}
  /\ sig' = sig \cup ({callback} \ (dead \cup {None}))
  /\ UNCHANGED <<mask, output, edges, callback, pc, arg, users, handler, func,
                 inCallback, dead>>

-----------------------------------------------------------------------------
(* The signal in the process *)

Signalled(p) ==
  /\ p \in sig /\ p \in handler /\ p \notin inCallback
  /\ sig' = sig \ {p}
  /\ inCallback' = IF p \in func THEN inCallback \cup {p} ELSE inCallback
  /\ UNCHANGED <<dev, callback, pc, arg, users, handler, func, dead>>

CallbackReturns(p) ==
  /\ p \in inCallback
  /\ inCallback' = inCallback \ {p}
  /\ UNCHANGED <<dev, callback, pc, arg, users, handler, func, sig, dead>>

\* The default action of SIGUSR2 terminates; the kernel closes the file.
Killed(p) ==
  /\ p \in sig /\ p \notin handler
  /\ sig' = sig \ {p}
  /\ dead' = dead \cup {p}
  /\ users' = users \ {p}
  /\ UNCHANGED <<dev, callback, pc, arg, handler, func, inCallback>>

-----------------------------------------------------------------------------
(* Library calls *)

\* Init clears the list of functions before it opens the node; the first
\* open makes a new device structure.
DioInit(p) ==
  /\ At(p, "idle") /\ p \notin users
  /\ func' = func \ {p}
  /\ \/ users' = users \cup {p}
     \/ users' = users               \* open failed
  /\ callback' = IF users = {} THEN None ELSE callback
  /\ UNCHANGED <<dev, pc, arg, handler, sig, inCallback, dead>>

DioExit(p) ==
  /\ Calls(p)
  /\ users' = users \ {p}
  /\ UNCHANGED <<dev, callback, pc, arg, handler, func, sig, inCallback, dead>>

\* QueryDeviceName opens and closes every node with Init and Exit; while it
\* is the only user the handler may run and finds no process to signal.
QueryDeviceName(p) ==
  /\ At(p, "idle")
  /\ func' = func \ {p}
  /\ IF users = {}
     THEN status' \in {status, {}} /\ callback' = None
     ELSE UNCHANGED <<status, callback>>
  /\ UNCHANGED <<mask, output, edges, pc, arg, users, handler, sig, inCallback,
                 dead>>

SetInterruptCallBackProc(p) ==
  /\ Calls(p)
  /\ func' = func \cup {p}
  /\ UNCHANGED <<dev, callback, pc, arg, users, handler, sig, inCallback, dead>>

\* NotifyInterrupt unmasks its bit and masks all others, ...
NotifyInterrupt(p, b) ==
  /\ Calls(p)
  /\ mask' = Bit \ {b}
  /\ Goto(p, "edge")
  /\ UNCHANGED <<status, output, edges, callback, arg, users, handler, func,
                 sig, inCallback, dead>>

\* ... chooses the edge (any change of an input may be the chosen one), ...
SetEdge(p) ==
  /\ At(p, "edge")
  /\ Goto(p, "process")
  /\ UNCHANGED <<dev, callback, arg, users, handler, func, sig, inCallback,
                 dead>>

\* ... tells the driver its process id ...
SetCallbackProcess(p) ==
  /\ At(p, "process")
  /\ callback' = p
  /\ Goto(p, "signal")
  /\ UNCHANGED <<dev, arg, users, handler, func, sig, inCallback, dead>>

\* Mutant: the call ends without installing the handler.
InstallHandler_Skipped(p) ==
  /\ At(p, "signal")
  /\ Goto(p, "idle")
  /\ UNCHANGED <<dev, callback, arg, users, handler, func, sig, inCallback,
                 dead>>

\* ... and installs the handler.
InstallHandler(p) ==
  /\ At(p, "signal")
  /\ handler' = handler \cup {p}
  /\ Goto(p, "idle")
  /\ UNCHANGED <<dev, callback, arg, users, func, sig, inCallback, dead>>

\* OutBit asks for the inputs, of a port it has not set: it may get any byte.
OutBit(p, b, on) ==
  /\ Calls(p)
  /\ \E read \in SUBSET Bit :
       arg' = [arg EXCEPT ![p] =
                 [bit |-> b, val |-> IF on THEN read \cup {b} ELSE read \ {b}]]
  /\ Goto(p, "write")
  /\ UNCHANGED <<dev, callback, users, handler, func, sig, inCallback, dead>>

OutBitWrite(p) ==
  /\ At(p, "write")
  /\ output' = arg[p].val
  /\ arg' = [arg EXCEPT ![p] = NoArg]
  /\ Goto(p, "idle")
  /\ UNCHANGED <<mask, status, edges, callback, users, handler, func, sig,
                 inCallback, dead>>

OutByte(p, val) ==
  /\ Calls(p)
  /\ output' = val
  /\ UNCHANGED <<mask, status, edges, callback, pc, arg, users, handler, func,
                 sig, inCallback, dead>>

\* The ioctl GET_INT_STATUS, which the library does not use, returns what the
\* handler has not read yet.
GetIntStatus(p) ==
  /\ Calls(p) /\ status # {}
  /\ status' = {}
  /\ Goto(p, "polled")
  /\ UNCHANGED <<mask, output, edges, callback, arg, users, handler, func, sig,
                 inCallback, dead>>

Polled(p) ==
  /\ At(p, "polled")
  /\ Goto(p, "idle")
  /\ UNCHANGED <<dev, callback, arg, users, handler, func, sig, inCallback,
                 dead>>

-----------------------------------------------------------------------------
Call(p) ==
  \/ DioInit(p) \/ DioExit(p) \/ QueryDeviceName(p)
  \/ SetInterruptCallBackProc(p) \/ GetIntStatus(p)
  \/ \E b \in Bit : NotifyInterrupt(p, b) \/ \E on \in BOOLEAN : OutBit(p, b, on)
  \/ \E val \in SUBSET Bit : OutByte(p, val)

\* What a process does on its own once it is called or signalled.
Continue(p) ==
  \/ SetEdge(p) \/ SetCallbackProcess(p) \/ InstallHandler(p)
  \/ OutBitWrite(p) \/ Polled(p)

Deliver(p) == Signalled(p) \/ Killed(p)

Next ==
  \/ \E b \in Bit : Edge(b)
  \/ Isr
  \/ \E p \in Process :
       Call(p) \/ Continue(p) \/ Deliver(p) \/ CallbackReturns(p)

Spec == Init /\ [][Next]_vars

\* The line stays active until the handler has read the status; the scheduler
\* runs every process that can run; a function that is called returns.
FairSpec ==
  /\ Spec /\ WF_vars(Isr)
  /\ \A p \in Process :
       WF_vars(Continue(p)) /\ WF_vars(Deliver(p)) /\ WF_vars(CallbackReturns(p))

-----------------------------------------------------------------------------
TypeOK ==
  /\ mask \in SUBSET Bit /\ status \in SUBSET Bit /\ output \in SUBSET Bit
  /\ edges \in Nat
  /\ callback \in Process \cup {None}
  /\ pc \in [Process -> Pc]
  /\ arg \in [Process -> [bit : Bit, val : SUBSET Bit]]
  /\ users \in SUBSET Process /\ handler \in SUBSET Process
  /\ func \in SUBSET Process /\ sig \in SUBSET Process
  /\ inCallback \in SUBSET Process /\ dead \in SUBSET Process

\* The process asked for the interrupt, and nothing has been changed since.
Armed(p) ==
  /\ p \in users /\ callback = p /\ p \in handler /\ p \in func
  /\ p \notin dead

\* SIGUSR2 terminates a process that has not installed the handler.  However
\* processes open, close and take the notification from each other, that can
\* only hit one that is in NotifyInterrupt between its last two calls.
KilledOnlyInNotify ==
  [][\A p \in Process : p \in dead' \ dead => pc[p] = "signal"]_vars

\* An interrupt that is pending when a process is armed runs its function,
\* unless another process reads the status or changes what was asked for.
InterruptDelivered ==
  \A p \in Process :
    (status # {} /\ Armed(p)) ~>
      (p \in inCallback \/ ~Armed(p) \/ \E q \in Process : pc[q] = "polled")

=============================================================================
