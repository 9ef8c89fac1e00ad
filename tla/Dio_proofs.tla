----------------------------- MODULE Dio_proofs -----------------------------
(***************************************************************************)
(* Proofs about Dio, for any processes, any bits and any number of         *)
(* interrupts: type correctness, and that SIGUSR2 terminates a process     *)
(* only inside NotifyInterrupt.                                            *)
(***************************************************************************)
EXTENDS Dio, TLAPS

\* The steps that change what a type says, and nothing else, by who makes them.
LEMMA TypeInit == Init => TypeOK
<1>1. NoArg \in [bit : Bit, val : SUBSET Bit]
  BY DioAssumption DEF NoArg
<1> QED
  BY <1>1 DEF Init, TypeOK, Pc

LEMMA TypeStep == TypeOK /\ [Next]_vars => TypeOK'
<1> SUFFICES ASSUME TypeOK, [Next]_vars PROVE TypeOK'
  OBVIOUS
<1>0. NoArg \in [bit : Bit, val : SUBSET Bit]
  BY DioAssumption DEF NoArg
<1>1. ASSUME NEW b \in Bit, Edge(b) PROVE TypeOK'
  BY <1>1 DEF TypeOK, Edge
<1>2. CASE Isr
  BY <1>2 DEF TypeOK, Isr
<1>3. ASSUME NEW p \in Process, Call(p) PROVE TypeOK'
  <2>1. CASE DioInit(p)
    BY <2>1 DEF TypeOK, DioInit, dev
  <2>2. CASE DioExit(p)
    BY <2>2 DEF TypeOK, DioExit, dev
  <2>3. CASE QueryDeviceName(p)
    BY <2>3 DEF TypeOK, QueryDeviceName
  <2>4. CASE SetInterruptCallBackProc(p)
    BY <2>4 DEF TypeOK, SetInterruptCallBackProc, dev
  <2>5. CASE GetIntStatus(p)
    BY <2>5 DEF TypeOK, GetIntStatus, Goto, Pc
  <2>6. ASSUME NEW b \in Bit, NotifyInterrupt(p, b) PROVE TypeOK'
    BY <2>6 DEF TypeOK, NotifyInterrupt, Goto, Pc
  <2>7. ASSUME NEW b \in Bit, NEW on \in BOOLEAN, OutBit(p, b, on)
        PROVE TypeOK'
    <3>1. PICK read \in SUBSET Bit :
            arg' = [arg EXCEPT ![p] =
              [bit |-> b, val |-> IF on THEN read \cup {b} ELSE read \ {b}]]
      BY <2>7 DEF OutBit
    <3>2. arg' \in [Process -> [bit : Bit, val : SUBSET Bit]]
      BY <3>1 DEF TypeOK
    <3> QED
      BY <2>7, <3>2 DEF TypeOK, OutBit, Goto, Pc, dev
  <2>8. ASSUME NEW val \in SUBSET Bit, OutByte(p, val) PROVE TypeOK'
    BY <2>8 DEF TypeOK, OutByte
  <2> QED
    BY <1>3, <2>1, <2>2, <2>3, <2>4, <2>5, <2>6, <2>7, <2>8 DEF Call
<1>4. ASSUME NEW p \in Process, Continue(p) PROVE TypeOK'
  <2>1. CASE SetEdge(p)
    BY <2>1 DEF TypeOK, SetEdge, Goto, Pc, dev
  <2>2. CASE SetCallbackProcess(p)
    BY <2>2 DEF TypeOK, SetCallbackProcess, Goto, Pc, dev
  <2>3. CASE InstallHandler(p)
    BY <2>3 DEF TypeOK, InstallHandler, Goto, Pc, dev
  <2>4. CASE OutBitWrite(p)
    <3>1. output' \in SUBSET Bit
      BY <2>4 DEF TypeOK, OutBitWrite
    <3> QED
      BY <1>0, <2>4, <3>1 DEF TypeOK, OutBitWrite, Goto, Pc
  <2>5. CASE Polled(p)
    BY <2>5 DEF TypeOK, Polled, Goto, Pc, dev
  <2> QED
    BY <1>4, <2>1, <2>2, <2>3, <2>4, <2>5 DEF Continue
<1>5. ASSUME NEW p \in Process, Deliver(p) \/ CallbackReturns(p) PROVE TypeOK'
  BY <1>5 DEF TypeOK, Deliver, Signalled, Killed, CallbackReturns, dev
<1>6. CASE UNCHANGED vars
  BY <1>6 DEF TypeOK, vars, dev
<1> QED
  BY <1>1, <1>2, <1>3, <1>4, <1>5, <1>6 DEF Next

\* Types of the device, the driver and the processes, for any sets of
\* processes and bits.
THEOREM TypeCorrect == Spec => []TypeOK
  BY TypeInit, TypeStep, PTL DEF Spec

-----------------------------------------------------------------------------
\* Whoever is to be signalled, or has the signal pending, has installed the
\* handler or is the process just about to.
Expects(p) == (callback = p \/ p \in sig) /\ p \notin dead
HandlerInv == \A p \in Process : Expects(p) => p \in handler \/ pc[p] = "signal"

LEMMA HandlerStep == TypeOK /\ HandlerInv /\ [Next]_vars => HandlerInv'
<1> SUFFICES ASSUME TypeOK, HandlerInv, [Next]_vars,
                    NEW q \in Process, Expects(q)'
             PROVE (q \in handler \/ pc[q] = "signal")'
  BY DEF HandlerInv
<1> USE DEF Expects
<1>0. Expects(q) => q \in handler \/ pc[q] = "signal"
  BY DEF HandlerInv
<1>1. ASSUME NEW b \in Bit, Edge(b) PROVE (q \in handler \/ pc[q] = "signal")'
  BY <1>0, <1>1 DEF Edge
<1>2. CASE Isr
  BY <1>0, <1>2 DEF Isr
<1>3. ASSUME NEW p \in Process, Call(p)
      PROVE (q \in handler \/ pc[q] = "signal")'
  \* callback is only forgotten, and a call begins where no other is.
  <2>1. /\ callback' \in {callback, None}
        /\ handler' = handler /\ sig' = sig /\ dead' = dead
        /\ pc[q] = "signal" => pc'[q] = "signal"
    BY <1>3 DEF Call, DioInit, DioExit, QueryDeviceName, dev, Calls, At, Goto,
                SetInterruptCallBackProc, GetIntStatus, NotifyInterrupt,
                OutBit, OutByte, TypeOK
  <2>2. q # None
    BY DioAssumption
  <2> QED
    BY <1>0, <2>1, <2>2
<1>4. ASSUME NEW p \in Process, Continue(p)
      PROVE (q \in handler \/ pc[q] = "signal")'
  <2>1. CASE SetEdge(p)
    BY <1>0, <2>1 DEF SetEdge, At, Goto, TypeOK
  <2>2. CASE SetCallbackProcess(p)
    BY <1>0, <2>2 DEF SetCallbackProcess, At, Goto, TypeOK
  <2>3. CASE InstallHandler(p)
    BY <1>0, <2>3 DEF InstallHandler, At, Goto, TypeOK
  <2>4. CASE OutBitWrite(p)
    BY <1>0, <2>4 DEF OutBitWrite, At, Goto, TypeOK
  <2>5. CASE Polled(p)
    BY <1>0, <2>5 DEF Polled, At, Goto, TypeOK
  <2> QED
    BY <1>4, <2>1, <2>2, <2>3, <2>4, <2>5 DEF Continue
<1>5. ASSUME NEW p \in Process, Deliver(p) \/ CallbackReturns(p)
      PROVE (q \in handler \/ pc[q] = "signal")'
  BY <1>0, <1>5 DEF Deliver, Signalled, Killed, CallbackReturns
<1>6. CASE UNCHANGED vars
  BY <1>0, <1>6 DEF vars
<1> QED
  BY <1>1, <1>2, <1>3, <1>4, <1>5, <1>6 DEF Next

\* Only Killed adds to dead, and HandlerInv says where its process is.
LEMMA KilledStep ==
  HandlerInv /\ [Next]_vars =>
    [\A p \in Process : p \in dead' \ dead => pc[p] = "signal"]_vars
<1> SUFFICES ASSUME HandlerInv, Next, NEW q \in Process, q \in dead' \ dead
             PROVE pc[q] = "signal"
  OBVIOUS
<1>1. \E p \in Process : Killed(p)
  <2>1. ASSUME NEW b \in Bit, Edge(b) PROVE dead' = dead
    BY <2>1 DEF Edge
  <2>2. ASSUME Isr PROVE dead' = dead
    BY <2>2 DEF Isr
  <2>3. ASSUME NEW p \in Process, Call(p) PROVE dead' = dead
    BY <2>3 DEF Call, DioInit, DioExit, QueryDeviceName,
                SetInterruptCallBackProc, GetIntStatus, NotifyInterrupt,
                OutBit, OutByte
  <2>4. ASSUME NEW p \in Process, Continue(p) PROVE dead' = dead
    BY <2>4 DEF Continue, SetEdge, SetCallbackProcess, InstallHandler,
                OutBitWrite, Polled
  <2>5. ASSUME NEW p \in Process, Signalled(p) \/ CallbackReturns(p)
        PROVE dead' = dead
    BY <2>5 DEF Signalled, CallbackReturns
  <2> QED
    BY <2>1, <2>2, <2>3, <2>4, <2>5 DEF Next, Deliver
<1>2. Killed(q)
  BY <1>1 DEF Killed
<1> QED
  BY <1>2 DEF HandlerInv, Expects, Killed

\* However many processes open and close the node and take the notification
\* from each other, SIGUSR2 terminates none but one that is in NotifyInterrupt
\* between telling the driver its id and installing the handler.
THEOREM OnlyNotifyIsKilled == Spec => KilledOnlyInNotify
<1>1. Init => HandlerInv
  BY DioAssumption DEF Init, HandlerInv, Expects
<1> QED
  BY <1>1, TypeInit, TypeStep, HandlerStep, KilledStep, PTL
     DEF Spec, KilledOnlyInNotify

=============================================================================
