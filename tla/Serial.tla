-------------------------------- MODULE Serial --------------------------------
(***************************************************************************)
(* One serial port of driver/com/8250_cpscom.c: the characters that are     *)
(* written and those that arrive, the UART, the interrupt handler, the      *)
(* backup timer and the calls of the serial core.  A call holds the port's  *)
(* lock with the interrupts off (MCS341 has one processor) and is one step; *)
(* the interrupt handler is a step per register access, because the UART    *)
(* sends, receives and sees CTS change between two of them.                 *)
(*                                                                         *)
(* A UART of kind "good" raises the transmit interrupt whenever it is       *)
(* enabled while the transmit FIFO is empty; a "stuck" one only when the    *)
(* FIFO becomes empty.  cpscom_startup tests which one it has.              *)
(***************************************************************************)
EXTENDS Integers, Sequences, FiniteSets

CONSTANTS
  FifoSize, \* characters in the transmit FIFO, tx_loadsz; 128 in the code
  MaxCount, \* characters after the first that one receive_chars takes; 256
  SkipTxenTest, \* the module parameter skip_txen_test
  MaxEvents \* bound: calls of the serial core, characters that arrive, changes of CTS

ASSUME SerialAssumption ==
  /\ FifoSize \in Nat \ {0} /\ MaxCount \in Nat /\ MaxEvents \in Nat
  /\ SkipTxenTest \in BOOLEAN

VARIABLES
  kind,      \* of the UART: "good" or "stuck"
  phase,     \* "closed", "open" or "closing"
  u,         \* the port and its UART
  bugs,      \* up->bugs: a set of "THRE", "TXEN"
  flow,      \* CRTSCTS
  pc,        \* where the interrupt handler is
  status,    \* the LSR it read last
  count,     \* max_count
  (* history of the session *)
  written,   \* characters written
  sent,      \* the data that went over the line
  came,      \* characters that arrived: whether each had a line error
  delivered, \* characters and flags given to the tty layer
  cuts,      \* characters that were next when receive_chars gave up
  flowUsed,  \* CRTSCTS has been set
  (* history of all sessions *)
  events,    \* calls, arrivals and changes of CTS so far
  reprobed   \* autoconfig has run on a UART that was in use

uartVars == <<kind, phase, u, bugs, flow, pc, status, count, written, sent, came, delivered, cuts,
          flowUsed, events, reprobed>>
handler == <<pc, status, count>>
line    == <<written, sent, came, delivered, cuts>>
past    == <<flowUsed, reprobed>>

XChar == 0  \* a character that is not data of this session
Least(a, b) == IF a <= b THEN a ELSE b

-------------------------------------------------------------------------------
(* Registers.  The fields of u: cts, delta (MSR); err (the first character   *)
(* received has a line error: LSR), rx (characters received, by number);     *)
(* fifo, shift (characters to send); latch (the transmit interrupt); hw      *)
(* (IER in the UART), ier (up->ier); lost (a character was written to a full *)
(* FIFO); saved (lsr_saved_flags); hwstop, stop (the tty's hw_stopped and    *)
(* stopped); x (x_char), xmit (the circular buffer).                         *)

WriteIer(p, s) ==
  [p EXCEPT !.hw = s,
            !.latch = @ \/ (kind = "good" /\ "THRI" \in s \ p.hw /\ p.fifo = <<>>)]

THRE(p) == p.fifo = <<>>
TEMT(p) == p.fifo = <<>> /\ p.shift = <<>>
LineError(p) == p.rx # <<>> /\ Head(p.rx).err

(* Reading the LSR clears the error bits of the character at the head.       *)
ReadLsr(p) == IF LineError(p) THEN [p EXCEPT !.rx[1].err = FALSE] ELSE p
SaveLsr(p) == [ReadLsr(p) EXCEPT !.saved = @ \/ LineError(p)]

WriteTx(p, cs) ==
  LET all == p.fifo \o cs IN
  [p EXCEPT !.fifo = SubSeq(all, 1, Least(FifoSize, Len(all))), !.latch = FALSE,
            !.lost = @ \/ Len(all) > FifoSize]

(* The sources that raise the interrupt, and what reading IIR acknowledges.  *)
RxPending(p) == p.rx # <<>> /\ ("RDI" \in p.hw \/ ("RLSI" \in p.hw /\ LineError(p)))
TxPending(p) == "THRI" \in p.hw /\ p.latch
MsPending(p) == "MSI" \in p.hw /\ p.delta
Pending(p)   == RxPending(p) \/ TxPending(p) \/ MsPending(p)
ReadIir(p)   == IF TxPending(p) /\ ~RxPending(p) THEN [p EXCEPT !.latch = FALSE] ELSE p

-------------------------------------------------------------------------------
(* The driver's functions on the port.                                       *)

StopTx(p) ==
  IF "THRI" \in p.ier
    THEN WriteIer([p EXCEPT !.ier = @ \ {"THRI"}], p.ier \ {"THRI"})
    ELSE p

Load(p) ==
  LET n == Least(FifoSize, Len(p.xmit))
      q == [WriteTx(p, SubSeq(p.xmit, 1, n)) EXCEPT !.xmit = SubSeq(@, n + 1, Len(@))]
  IN IF q.xmit = <<>> THEN StopTx(q) ELSE q

transmit_chars(p) ==
  IF p.x THEN [WriteTx(p, <<XChar>>) EXCEPT !.x = FALSE]
  ELSE IF p.stop \/ p.hwstop \/ p.xmit = <<>> THEN StopTx(p)
  ELSE Load(p)

StartTx(p) ==
  LET on == WriteIer([p EXCEPT !.ier = @ \cup {"THRI"}], p.ier \cup {"THRI"})
      q  == SaveLsr(on)
  IN IF "THRI" \in p.ier THEN p
     ELSE IF "TXEN" \notin bugs THEN on
     ELSE IF TEMT(on) THEN transmit_chars(q) ELSE q

(* __uart_start and uart_handle_cts_change of the serial core.               *)
CoreStart(p) == IF p.xmit # <<>> /\ ~p.stop /\ ~p.hwstop THEN StartTx(p) ELSE p
HandleCts(p) ==
  IF p.hwstop /\ p.cts THEN StartTx([p EXCEPT !.hwstop = FALSE])
  ELSE IF ~p.hwstop /\ ~p.cts THEN StopTx([p EXCEPT !.hwstop = TRUE])
  ELSE p

check_modem_status(p, crtscts) ==
  LET q == [p EXCEPT !.delta = FALSE] IN
  IF p.delta /\ "MSI" \in p.ier /\ crtscts THEN HandleCts(q) ELSE q

\* a get_mctrl that reads the register itself
StopUnlessCts_Forgets(p) ==
  LET q == [p EXCEPT !.delta = FALSE] IN q

(* get_mctrl reads CTS through check_modem_status and can so lose no change. *)
StopUnlessCts(p) ==
  LET q == check_modem_status(p, TRUE) IN
  IF q.cts THEN q ELSE StopTx([q EXCEPT !.hwstop = TRUE])

-------------------------------------------------------------------------------
(* cpscom_startup: the test for a UART that does not raise the interrupt      *)
(* again, the test for one that does not raise it on enabling.               *)

EnableTest(p) ==
  LET on == WriteIer(p, {"THRI"}) IN
  [irq |-> TxPending(on), p |-> WriteIer(ReadIir(on), {})]

(* The FIFOs and the registers that a read clears are cleared first and last. *)
Cleared(p) == [p EXCEPT !.delta = FALSE, !.fifo = <<>>, !.rx = <<>>, !.saved = FALSE]

FirstTest(p)  == EnableTest(WriteIer(Cleared(p), {}))
SecondTest(p) == EnableTest(FirstTest(p).p)

\* the result of the test is taken anew each time
ThreBug_Anew(old, p) ==
  IF FirstTest(p).irq /\ ~SecondTest(p).irq THEN {"THRE"} ELSE old \ {"THRE"}

ThreBug(old, p) ==
  IF FirstTest(p).irq /\ ~SecondTest(p).irq THEN old \cup {"THRE"} ELSE old

BugsAfter(old, p) ==
  LET third == EnableTest(SecondTest(p).p)
      thre  == ThreBug(old, p)
  IN IF SkipTxenTest THEN thre
     ELSE IF TEMT(third.p) /\ ~third.irq THEN thre \cup {"TXEN"}
     ELSE thre \ {"TXEN"}

AfterTests(p) ==
  LET q == IF SkipTxenTest THEN SecondTest(p).p ELSE EnableTest(SecondTest(p).p).p IN
  WriteIer([Cleared(q) EXCEPT !.ier = {"RDI", "RLSI"}], {"RDI", "RLSI"})

(* cpscom_set_termios, and the core's handling of hw_stopped around it.      *)
TermiosIer(p, crtscts) ==
  LET s == IF crtscts THEN p.ier \cup {"MSI"} ELSE p.ier \ {"MSI"} IN
  WriteIer([p EXCEPT !.ier = s], s)
FlowOn(p)  == StopUnlessCts(TermiosIer(p, TRUE))
FlowOff(p) == CoreStart([TermiosIer(p, FALSE) EXCEPT !.hwstop = FALSE])

NewLine == written' = 0 /\ sent' = <<>> /\ came' = <<>> /\ delivered' = <<>> /\ cuts' = {}

Startup(p, old, crtscts) ==
  /\ bugs' = BugsAfter(old, p)
  /\ LET q == [AfterTests(p) EXCEPT !.hwstop = FALSE, !.lost = FALSE, !.stop = FALSE,
                                    !.shift = [i \in DOMAIN @ |-> XChar],
                                    !.x = FALSE, !.xmit = <<>>]
     IN u' = IF crtscts THEN FlowOn(q) ELSE TermiosIer(q, FALSE)
  /\ phase' = "open" /\ flow' = crtscts /\ flowUsed' = crtscts
  /\ NewLine

Event == events < MaxEvents /\ events' = events + 1
CoreCall == /\ pc = "idle" /\ Event
        /\ UNCHANGED <<kind, handler>>
OpenCall == CoreCall /\ phase = "open" /\ UNCHANGED <<phase, past>>
KeepsLine == UNCHANGED line
KeepsSettings == UNCHANGED <<bugs, flow>>

OpenUart ==
  /\ CoreCall /\ phase = "closed"
  /\ \E crtscts \in BOOLEAN : Startup(u, bugs, crtscts)
  /\ UNCHANGED reprobed

(* TIOCSERCONFIG on an open port: shutdown, autoconfig, startup.  autoconfig *)
(* forgets the bugs.                                                         *)
Reconfigure ==
  /\ CoreCall /\ phase = "open"
  /\ Startup(WriteIer(u, {}), {}, flow)
  /\ reprobed' = TRUE

Write ==
  /\ OpenCall /\ KeepsSettings
  /\ written' = written + 1
  /\ u' = CoreStart([u EXCEPT !.xmit = Append(@, written + 1)])
  /\ UNCHANGED <<sent, came, delivered, cuts>>

SendXChar ==
  /\ OpenCall /\ KeepsSettings /\ KeepsLine
  /\ u' = StartTx([u EXCEPT !.x = TRUE])

Stop ==
  /\ OpenCall /\ KeepsSettings /\ KeepsLine /\ ~u.stop
  /\ u' = StopTx([u EXCEPT !.stop = TRUE])

Start ==
  /\ OpenCall /\ KeepsSettings /\ KeepsLine /\ u.stop
  /\ u' = CoreStart([u EXCEPT !.stop = FALSE])

\* the error bits it reads are not kept
TxEmpty_Forgets ==
  /\ OpenCall /\ KeepsSettings /\ KeepsLine
  /\ u' = ReadLsr(u)

TxEmpty ==
  /\ OpenCall /\ KeepsSettings /\ KeepsLine
  /\ u' = SaveLsr(u)

TurnFlow ==
  /\ CoreCall /\ phase = "open" /\ KeepsLine /\ UNCHANGED <<phase, bugs, reprobed>>
  /\ flow' = ~flow /\ flowUsed' = TRUE
  /\ u' = IF flow THEN FlowOff(u) ELSE FlowOn(u)

\* the interrupts stay off
Rs485_StaysOff ==
  /\ OpenCall /\ KeepsSettings /\ KeepsLine
  /\ u' = WriteIer(u, {})

(* TIOCSRS485, TIOCGRS485: the interrupts are off while LCR is switched.     *)
Rs485 ==
  /\ OpenCall /\ KeepsSettings /\ KeepsLine
  /\ u' = WriteIer(WriteIer(u, {}), u.ier)

(* uart_close: stop_rx, then it waits for what is still to be sent, but not  *)
(* for ever, then shutdown.                                                  *)
StopRx ==
  /\ CoreCall /\ phase = "open" /\ KeepsSettings /\ KeepsLine /\ UNCHANGED past
  /\ phase' = "closing"
  /\ u' = WriteIer([u EXCEPT !.ier = @ \ {"RLSI"}], u.ier \ {"RLSI"})

Shutdown ==
  /\ pc = "idle" /\ phase = "closing"
  /\ phase' = "closed"
  /\ u' = WriteIer([Cleared(u) EXCEPT !.hwstop = FALSE, !.ier = {}, !.lost = FALSE, !.stop = FALSE,
                                        !.shift = [i \in DOMAIN @ |-> XChar],
                                        !.x = FALSE, !.xmit = <<>>], {})
  /\ flow' = FALSE /\ flowUsed' = FALSE /\ NewLine
  /\ UNCHANGED <<kind, handler, bugs, reprobed, events>>

-------------------------------------------------------------------------------
(* The interrupt handler and the backup timer.                               *)

HandlerStep == /\ phase # "closed"
               /\ UNCHANGED <<kind, phase, bugs, flow, past, events, written, sent, came>>

NoStatus == [err |-> FALSE, some |-> FALSE, thre |-> FALSE]
ReadStatus(p) == [err |-> LineError(p), some |-> p.rx # <<>>, thre |-> THRE(p)]
AfterRx == IF status'.some THEN "receive" ELSE "modem"

TakeInterrupt ==
  /\ HandlerStep /\ pc = "idle" /\ Pending(u)
  /\ pc' = "status" /\ u' = ReadIir(u)
  /\ UNCHANGED <<status, count, delivered, cuts>>

HandlePort ==
  /\ HandlerStep /\ pc = "status"
  /\ status' = ReadStatus(u) /\ u' = ReadLsr(u)
  /\ pc' = AfterRx /\ count' = MaxCount
  /\ UNCHANGED <<delivered, cuts>>

receive_chars ==
  /\ HandlerStep /\ pc = "receive"
  /\ delivered' = Append(delivered, [char |-> Head(u.rx).char, err |-> status.err \/ u.saved])
  /\ LET q == [u EXCEPT !.rx = Tail(@), !.saved = FALSE] IN
       /\ status' = ReadStatus(q) /\ u' = ReadLsr(q)
       /\ IF q.rx # <<>> /\ count > 0
            THEN pc' = "receive" /\ count' = count - 1 /\ UNCHANGED cuts
            ELSE /\ pc' = "modem" /\ count' = 0
                 /\ cuts' = cuts \cup {Head(q.rx).char : c \in {1} \cap DOMAIN q.rx}

\* the LSR is not looked at before characters are loaded
ModemStatus_Always ==
  /\ HandlerStep /\ pc = "modem"
  /\ u' = check_modem_status(u, flow)
  /\ pc' = "transmit"
  /\ status' = NoStatus /\ count' = 0 /\ UNCHANGED <<delivered, cuts>>

ModemStatus ==
  /\ HandlerStep /\ pc = "modem"
  /\ u' = check_modem_status(u, flow)
  /\ pc' = IF status.thre THEN "transmit" ELSE "idle"
  /\ status' = NoStatus /\ count' = 0 /\ UNCHANGED <<delivered, cuts>>

TransmitChars ==
  /\ HandlerStep /\ pc = "transmit"
  /\ u' = transmit_chars(u)
  /\ pc' = "idle"
  /\ UNCHANGED <<status, count, delivered, cuts>>

(* The IER is what it was afterwards, also when transmit_chars has disabled  *)
(* the transmit interrupt in between.                                        *)
BackupTimeout ==
  /\ HandlerStep /\ pc = "idle" /\ "THRE" \in bugs
  /\ LET off  == SaveLsr(WriteIer(u, {}))
         kick == "THRI" \in u.ier /\ (u.xmit # <<>> \/ u.x) /\ THRE(u)
     IN u' = WriteIer(IF kick THEN transmit_chars(off) ELSE off, u.hw)
  /\ UNCHANGED <<handler, delivered, cuts>>

-------------------------------------------------------------------------------
(* The UART and the line.                                                    *)

Hardware == UNCHANGED <<kind, phase, bugs, flow, handler, past, written, delivered, cuts>>

Shift ==
  /\ Hardware /\ UNCHANGED events /\ u.fifo # <<>> /\ u.shift = <<>>
  /\ u' = [u EXCEPT !.fifo = Tail(@), !.shift = <<Head(u.fifo)>>, !.latch = @ \/ Len(u.fifo) = 1]
  /\ UNCHANGED <<sent, came>>

Send ==
  /\ Hardware /\ UNCHANGED events /\ u.shift # <<>>
  /\ sent' = IF u.shift = <<XChar>> THEN sent ELSE sent \o u.shift
  /\ u' = [u EXCEPT !.shift = <<>>]
  /\ UNCHANGED came

Arrive ==
  /\ Hardware /\ Event /\ phase # "closed"
  /\ \E err \in BOOLEAN :
       /\ came' = Append(came, err)
       /\ u' = [u EXCEPT !.rx = Append(@, [char |-> Len(came) + 1, err |-> err])]
  /\ UNCHANGED sent

CtsChange ==
  /\ Hardware /\ Event
  /\ u' = [u EXCEPT !.cts = ~@, !.delta = TRUE]
  /\ UNCHANGED <<sent, came>>

-------------------------------------------------------------------------------
UartInit ==
  /\ kind \in {"good", "stuck"}
  /\ phase = "closed" /\ bugs = {} /\ flow = FALSE
  /\ u = [cts |-> TRUE, delta |-> FALSE, fifo |-> <<>>, hw |-> {}, hwstop |-> FALSE, ier |-> {},
          latch |-> TRUE, lost |-> FALSE, rx |-> <<>>, saved |-> FALSE, shift |-> <<>>,
          stop |-> FALSE, x |-> FALSE, xmit |-> <<>>]
  /\ pc = "idle" /\ status = NoStatus /\ count = 0
  /\ written = 0 /\ sent = <<>> /\ came = <<>> /\ delivered = <<>> /\ cuts = {}
  /\ events = 0 /\ flowUsed = FALSE /\ reprobed = FALSE

CoreNext == \/ OpenUart \/ Reconfigure \/ Write \/ SendXChar \/ Stop \/ Start
            \/ TxEmpty \/ TurnFlow \/ Rs485 \/ StopRx \/ Shutdown
IsrNext  == TakeInterrupt \/ HandlePort \/ receive_chars \/ ModemStatus \/ TransmitChars
LineNext == Shift \/ Send \/ Arrive \/ CtsChange
UartNext == CoreNext \/ IsrNext \/ BackupTimeout \/ LineNext

(* The handler runs when the interrupt is raised, the timer is always set    *)
(* again, the UART sends.                                                    *)
Fairness == /\ WF_uartVars(IsrNext) /\ WF_uartVars(BackupTimeout)
            /\ WF_uartVars(Shift) /\ WF_uartVars(Send)
UartSpec == UartInit /\ [][UartNext]_uartVars
FairUartSpec == UartSpec /\ Fairness

UartTypeOK ==
  /\ kind \in {"good", "stuck"} /\ phase \in {"closed", "open", "closing"}
  /\ bugs \subseteq {"THRE", "TXEN"}
  /\ u.ier \subseteq {"RDI", "THRI", "RLSI", "MSI"} /\ u.hw \subseteq {"RDI", "THRI", "RLSI", "MSI"}
  /\ Len(u.fifo) <= FifoSize /\ Len(u.shift) <= 1
  /\ pc \in {"idle", "status", "receive", "modem", "transmit"}

-------------------------------------------------------------------------------
(* What is on its way: sent, being sent, in the FIFO, in the buffer.         *)
OnItsWay == sent \o u.shift \o u.fifo \o u.xmit

(* The data in s are the first n characters, each once and in order.         *)
InOrder(s, n) ==
  LET data == {i \in DOMAIN s : s[i] # XChar} IN
  {s[i] : i \in data} = 1..n /\ \A i, j \in data : i < j => s[i] < s[j]

(* Every character written goes out once and in order, whatever interrupts,  *)
(* timers and CTS do between loading and sending, and the FIFO is never      *)
(* loaded while there is something in it (transmit_chars writes without      *)
(* looking, 1675-1682).  The driver keeps this except with both UART_BUG_TXEN *)
(* and CTS flow control: then the start_tx of a CTS change fills the FIFO,   *)
(* and cpscom_handle_port fills it again on the status it read before.       *)
SentInOrder ==
  (phase # "closed" /\ ~("TXEN" \in bugs /\ flowUsed))
    => ~u.lost /\ InOrder(OnItsWay, written)

(* Every character that arrives is delivered once, in order, and a line error *)
(* is flagged at the character it happened to, although reading the LSR      *)
(* clears it and four functions read the LSR (lsr_saved_flags, 182-188).     *)
(* Excepted is the character that is next when receive_chars gives up after  *)
(* 257: its error has been read and is forgotten (1646).                     *)
FlagsArrive ==
  \A i \in DOMAIN delivered :
    /\ delivered[i].char = i
    /\ (delivered[i].err # came[i]) => i \in cuts

(* Outside the handler the IER of the UART is what the driver believes it    *)
(* is; only the backup timer leaves the transmit interrupt enabled (1979).   *)
IerAgrees ==
  (phase # "closed" /\ pc = "idle")
    => \/ u.hw = u.ier
       \/ "THRE" \in bugs /\ u.hw = u.ier \cup {"THRI"}

(* With CTS flow control and no change of CTS unread, sending is stopped     *)
(* exactly while CTS is low: no change is lost between the handler, get_mctrl *)
(* and set_termios, which all clear the delta bit by reading the MSR.        *)
FlowFollowsCts ==
  (phase = "open" /\ flow /\ ~u.delta) => (u.hwstop = ~u.cts)

(* What is written is sent in the end, unless it is stopped: on a UART that   *)
(* does not raise its interrupt again too, by the backup timer (2276-2296).  *)
(* It needs UART_BUG_THRE to be kept over closing and opening (2287-2290);   *)
(* autoconfig of a port in use forgets it (1273).  An x_char is not promised *)
(* as much: after a stop_tx it waits for the next start_tx.                  *)
EventuallySent ==
  (u.xmit # <<>>)
    ~> (u.xmit = <<>> \/ u.stop \/ u.hwstop \/ phase # "open" \/ reprobed)
===============================================================================
