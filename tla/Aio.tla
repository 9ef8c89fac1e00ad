--------------------------------- MODULE Aio ---------------------------------
(***************************************************************************)
(* An analog device (CPS-AI-1608LI or CPS-AO-1604LI) as                    *)
(* driver/aio/cpsaio.c and lib/aio/libcpsaio.c use it.  A call of the       *)
(* library is a sequence of ioctls, and that is how it is written here: as  *)
(* the sequence of steps it still has to make.  Between two steps other     *)
(* processes make theirs, the device converts and the interrupt handler     *)
(* acknowledges.                                                            *)
(*                                                                         *)
(* The registers of the device are reached in two writes: the command      *)
(* register names one, then the data register is written.  An ioctl that   *)
(* does both holds dev->lock with the interrupts off and is one step; a     *)
(* command without data is a single write; read() does both without the     *)
(* lock, so these are steps of their own.                                  *)
(***************************************************************************)
EXTENDS AioData, Sequences

CONSTANTS
  Process,    \* the processes that use the device
  NoProcess,  \* no process
  Channels,   \* number of channels
  Samples,    \* bound: samples per channel of one sampling
  Value,      \* words that are output and written to the ROM
  RomRetries, \* repetitions of a ROM write before it is given up; 6 in the code
  MaxCalls    \* bound: calls of the library

ASSUME AioAssumption ==
  /\ NoProcess \notin Process
  /\ Channels \in Nat \ {0} /\ Samples \in Nat \ {0}
  /\ Value \subseteq Word
  /\ RomRetries \in Nat /\ MaxCalls \in Nat

VARIABLES
  (* the device *)
  side,     \* "AI" or "AO": what the product has
  mode,     \* transfer mode: "single" or "multi"
  chan,     \* the channel, or the last of the channels
  samp,     \* scans after one start
  gate,     \* "closed", "opening" or "open"
  scan,     \* conversions still to be made: their channels
  owner,    \* the process whose pulse started the scan
  fifo,     \* samples not read, words not put out
  out,      \* what the outputs show
  route,    \* the start signal: "reset", "set" or "bad"
  aiFlag,   \* interrupt flag: the motion ended
  memFlag,  \* interrupt flag: memory
  com,      \* the register the command register names
  unlocked, \* the data register takes writes
  busy,     \* a correction value is being taken over
  rom,      \* the correction word in the ROM
  (* the processes *)
  users,    \* processes that have initialised the device
  todo,     \* steps of its call a process still has to make
  call,     \* the call and its arguments
  got,      \* what its input steps returned
  tries,    \* ROM writes it has repeated
  made,     \* calls made so far
  (* history *)
  shared,   \* two processes have had it open at a time
  clean     \* the process whose call had the device to itself

analog == <<mode, chan, samp, gate, scan, owner, fifo, out>>
ecu == <<route, aiFlag, memFlag, com, unlocked>>
device == <<side, analog, ecu, busy, rom>>
calls == <<users, call, made>>
results == <<got, tries>>
history == <<shared, clean>>
vars == <<device, calls, todo, results, history>>

Chan == 0..(Channels - 1)
Register == {"AiFlag", "MemFlag", "Signal", "Pulse", "EcuInit", "IrqMask"}
Sample == [by : Process \cup {NoProcess}, ch : Chan]
Put == [word : Word]
Junk == [by |-> NoProcess, ch |-> 0]

----------------------------------------------------------------------------
(* The calls of the library *)

Times(n, steps) == IF n = 1 THEN steps ELSE [i \in 1..(n * Len(steps)) |-> steps[((i - 1) % Len(steps)) + 1]]

AioInit_SignalsFirst == <<"Signals", "EcuInit", "SideInit", "MemInit">>

AioInit == <<"EcuInit", "SideInit", "MemInit", "Signals">>
AioExit == <<"Stop", "Close">>
SetAiChannels == <<"Multi", "Channel">>
SetAiEventSamplingTimes == <<"Sampnum">>
StartAi == <<"Start", "WaitReady", "Pulse", "WaitEnd", "Ack">>
StopAi == <<"Stop">>
SingleAi_NoWait == <<"Single", "Channel">> \o SetAiEventSamplingTimes \o StartAi \o <<"InData">> \o StopAi

SingleAi == <<"Single", "Channel">> \o SetAiEventSamplingTimes \o StartAi \o <<"WaitMem", "InData">> \o StopAi
MultiAi(c) == SetAiChannels \o SetAiEventSamplingTimes \o StartAi \o <<"WaitMem">> \o Times(c + 1, <<"InData">>) \o StopAi
AckFlags == <<"AiCom", "Unlock", "AiData", "Lock", "MemCom", "Unlock", "MemData", "Lock">>
GetAiSamplingData(n) == Times(n, <<"ReadWait", "ReadData">>) \o AckFlags
Sampling(c, n) == SetAiEventSamplingTimes \o SetAiChannels \o StartAi \o GetAiSamplingData((c + 1) * n) \o StopAi
StartAo == <<"Start", "Pulse">>
SetAoChannels == <<"Multi", "Channel">>
SetAoEventSamplingTimes == <<"Sampnum">>
StopAo == <<"Stop">>
SingleAo_ModeKept == <<"Channel">> \o SetAoEventSamplingTimes \o <<"OutData">> \o StartAo

SingleAo == <<"Single", "Channel">> \o SetAoEventSamplingTimes \o <<"OutData">> \o StartAo
MultiAo(c) == SetAoChannels \o SetAoEventSamplingTimes \o StartAo \o Times(c + 1, <<"OutData">>) \o StopAo
SetCalibrationData == <<"CalSet", "CalWait">>
WriteCalibrationData == <<"RomSet", "RomCheck">>
ReadCalibrationData == <<"RomRead">>
\* Both values of every channel in the device, then the ROM.
ClearCalibrationData(s) == Times(IF s = "AI" THEN 2 ELSE 2 * Channels, SetCalibrationData) \o <<"RomClear">>

Call == [ch : Chan, n : 1..Samples,
         op : {"none", "Init", "Exit", "SingleAi", "MultiAi", "Sampling", "SingleAo", "MultiAo",
               "SetCal", "WriteRom", "ReadRom", "ClearCal"},
         v : Word]

StepsOf(c) ==
  CASE c.op = "Init" -> AioInit
    [] c.op = "Exit" -> AioExit
    [] c.op = "SingleAi" -> SingleAi
    [] c.op = "MultiAi" -> MultiAi(c.ch)
    [] c.op = "Sampling" -> Sampling(c.ch, c.n)
    [] c.op = "SingleAo" -> SingleAo
    [] c.op = "MultiAo" -> MultiAo(c.ch)
    [] c.op = "SetCal" -> SetCalibrationData
    [] c.op = "WriteRom" -> WriteCalibrationData
    [] c.op = "ReadRom" -> ReadCalibrationData
    [] c.op = "ClearCal" -> ClearCalibrationData(side)
    [] OTHER -> <<>>

\* The calls that make sense on the product.
CallsOn(s) ==
  LET args(o, c, k, w) == [ch |-> c, n |-> k, op |-> o, v |-> w]
      some == Chan \ {0}
  IN  {args(op, 0, 1, 0) : op \in {"Exit", "SetCal", "ReadRom", "ClearCal"}}
      \cup {args("WriteRom", 0, 1, v) : v \in Value}
      \cup IF s = "AI"
             THEN {args("SingleAi", c, 1, 0) : c \in Chan} \cup {args("MultiAi", c, 1, 0) : c \in some}
                  \cup {args("Sampling", c, n, 0) : c \in some, n \in 1..Samples}
             ELSE {args("SingleAo", c, 1, v) : c \in Chan, v \in Value}
                  \cup {args("MultiAo", c, 1, v) : c \in some, v \in Value}
StepName == {"EcuInit", "SideInit", "MemInit", "Signals", "Single", "Multi", "Channel", "Sampnum",
             "Start", "Stop", "Close", "Pulse", "WaitReady", "WaitEnd", "Ack", "WaitMem", "InData", "OutData",
             "ReadWait", "ReadData", "AiCom", "AiData", "MemCom", "MemData", "Unlock", "Lock",
             "CalSet", "CalWait", "RomSet", "RomCheck", "RomRead", "RomClear"}
AnalogCalls == {"SingleAi", "MultiAi", "Sampling", "SingleAo", "MultiAo"}

Init ==
  /\ side \in {"AI", "AO"}
  /\ mode = "single" /\ chan = 0 /\ samp = 1 /\ gate = "closed"
  /\ scan = <<>> /\ owner = NoProcess /\ fifo = <<>> /\ out = [c \in Chan |-> 0]
  /\ route = "reset" /\ aiFlag = FALSE /\ memFlag = FALSE
  /\ com = "EcuInit" /\ unlocked = FALSE
  /\ busy = FALSE /\ rom = 0
  /\ users = {} /\ todo = [p \in Process |-> <<>>] /\ made = 0
  /\ call = [p \in Process |-> [ch |-> 0, n |-> 1, op |-> "none", v |-> 0]]
  /\ got = [p \in Process |-> <<>>] /\ tries = [p \in Process |-> 0]
  /\ shared = FALSE /\ clean = {}

\* A process calls the library.  The call is clean as long as nobody else is in
\* a call and, for a conversion, nothing of an earlier one is left in the device.
Begin(p, c) ==
  /\ todo[p] = <<>> /\ (c.op = "Init") # (p \in users)
  /\ made < MaxCalls /\ made' = made + 1
  /\ call' = [call EXCEPT ![p] = c]
  /\ todo' = [todo EXCEPT ![p] = StepsOf(c)]
  /\ got' = [got EXCEPT ![p] = <<>>] /\ tries' = [tries EXCEPT ![p] = 0]
  /\ users' = users \cup {p} /\ shared' = (shared \/ users \ {p} # {})
  /\ clean' = IF /\ \A q \in Process \ {p} : todo[q] = <<>>
                 /\ c.op \in AnalogCalls => fifo = <<>> /\ scan = <<>>
                THEN {p} ELSE {}
  /\ UNCHANGED device

CallInit(p) == Begin(p, [ch |-> 0, n |-> 1, op |-> "Init", v |-> 0])
CallOther(p) == \E c \in CallsOn(side) : Begin(p, c)

At(p, step) == todo[p] # <<>> /\ Head(todo[p]) = step
Skip(p, n) == todo' = [todo EXCEPT ![p] = SubSeq(@, n + 1, Len(@))]
Spoil(p) == clean' = clean \ {p}

----------------------------------------------------------------------------
(* Settings: each ioctl names its register and writes it under dev->lock. *)

TransferMode(p) ==
  /\ \/ At(p, "Single") /\ mode' = "single"
     \/ At(p, "Multi") /\ mode' = "multi"
  /\ Skip(p, 1)
  /\ UNCHANGED <<side, chan, samp, gate, scan, owner, fifo, out, ecu, busy, rom, calls, results, history>>

SetChannel(p) ==
  /\ At(p, "Channel") /\ chan' = call[p].ch /\ Skip(p, 1)
  /\ UNCHANGED <<side, mode, samp, gate, scan, owner, fifo, out, ecu, busy, rom, calls, results, history>>

SetSampnum(p) ==
  /\ At(p, "Sampnum") /\ samp' = call[p].n /\ Skip(p, 1)
  /\ UNCHANGED <<side, mode, chan, gate, scan, owner, fifo, out, ecu, busy, rom, calls, results, history>>

\* The six signals ContecCpsAioInit connects; the start signal stands for them.
SetEcuSignal(p) ==
  /\ At(p, "Signals") /\ route' = "set" /\ com' = "Signal" /\ unlocked' = FALSE
  /\ Skip(p, 1)
  /\ UNCHANGED <<side, analog, aiFlag, memFlag, busy, rom, calls, results, history>>

(* Commands without data: one write, no lock. *)

EcuInit(p) ==
  /\ At(p, "EcuInit")
  /\ route' = "reset" /\ aiFlag' = FALSE /\ memFlag' = FALSE
  /\ com' = "EcuInit"
  /\ Skip(p, 1)
  /\ UNCHANGED <<side, analog, unlocked, busy, rom, calls, results, history>>

SideInit(p) ==
  /\ At(p, "SideInit")
  /\ mode' = "single" /\ chan' = 0 /\ samp' = 1 /\ gate' = "closed" /\ scan' = <<>>
  /\ Skip(p, 1)
  /\ UNCHANGED <<side, owner, fifo, out, ecu, busy, rom, calls, results, history>>

MemInit(p) ==
  /\ At(p, "MemInit") /\ fifo' = <<>> /\ Skip(p, 1)
  /\ UNCHANGED <<side, mode, chan, samp, gate, scan, owner, out, ecu, busy, rom, calls, results, history>>

Start(p) ==
  /\ At(p, "Start") /\ gate' = "opening" /\ Skip(p, 1)
  /\ UNCHANGED <<side, mode, chan, samp, scan, owner, fifo, out, ecu, busy, rom, calls, results, history>>

Stop(p) ==
  /\ At(p, "Stop") /\ gate' = "closed" /\ scan' = <<>> /\ Skip(p, 1)
  /\ UNCHANGED <<side, mode, chan, samp, owner, fifo, out, ecu, busy, rom, calls, results, history>>

Close(p) ==
  /\ At(p, "Close") /\ users' = users \ {p} /\ Skip(p, 1)
  /\ UNCHANGED <<device, call, made, results, history>>

\* One scan of the channels the registers select, samp times.
Scans == LET one == IF mode = "single" THEN <<chan>> ELSE [i \in 1..(chan + 1) |-> i - 1]
         IN  Times(samp, one)

OutPulse0(p) ==
  /\ At(p, "Pulse") /\ Skip(p, 1)
  /\ com' = "Pulse"
  /\ IF gate = "open" /\ route = "set"
       THEN scan' = Scans /\ owner' = p
       ELSE UNCHANGED <<scan, owner>>
  /\ UNCHANGED <<side, mode, chan, samp, gate, fifo, out, route, aiFlag, memFlag, unlocked, busy, rom, calls, results, history>>

----------------------------------------------------------------------------
(* Polls: a thousand looks at a status, then the call goes on without it. *)

\* ContecCpsAioStartAi returns 1 without the pulse if the gate does not open.
WaitReady(p) ==
  /\ At(p, "WaitReady")
  /\ \/ gate = "open" /\ Skip(p, 1) /\ UNCHANGED clean
     \/ Skip(p, 4) /\ Spoil(p)
  /\ UNCHANGED <<device, calls, results, shared>>

\* It returns 2 if the flag is not seen; the interrupt handler may have cleared it.
WaitEnd(p) ==
  /\ At(p, "WaitEnd")
  /\ (aiFlag /\ Skip(p, 1)) \/ Skip(p, 2)
  /\ UNCHANGED <<device, calls, results, history>>

SetInterruptFlagAi(p) ==
  /\ At(p, "Ack") /\ aiFlag' = FALSE /\ com' = "AiFlag" /\ unlocked' = FALSE
  /\ Skip(p, 1)
  /\ UNCHANGED <<side, analog, route, memFlag, busy, rom, calls, results, history>>

Readable == fifo # <<>>
MultiReadable == Len(fifo) > chan

\* Nobody looks at what _contec_cpsaio_check_memstatus returns.
CheckMemStatus(p) ==
  /\ At(p, "WaitMem") /\ Skip(p, 1)
  /\ \/ (IF call[p].op = "MultiAi" THEN MultiReadable ELSE Readable) /\ UNCHANGED clean
     \/ Spoil(p)
  /\ UNCHANGED <<device, calls, results, shared>>

TakeSample(p) ==
  /\ got' = [got EXCEPT ![p] = Append(@, IF fifo = <<>> THEN Junk ELSE Head(fifo))]
  /\ fifo' = IF fifo = <<>> THEN <<>> ELSE Tail(fifo)

InData(p) ==
  /\ At(p, "InData") /\ TakeSample(p) /\ Skip(p, 1)
  /\ UNCHANGED <<side, mode, chan, samp, gate, scan, owner, out, ecu, busy, rom, calls, tries, history>>

OutData(p) ==
  /\ At(p, "OutData") /\ fifo' = Append(fifo, [word |-> calc_DAC161S055(call[p].v)]) /\ Skip(p, 1)
  /\ UNCHANGED <<side, mode, chan, samp, gate, scan, owner, out, ecu, busy, rom, calls, results, history>>

----------------------------------------------------------------------------
(* read(): sample by sample, without dev->lock. *)

\* A million looks at the memory status, then the samples are dropped.
ReadWait(p) ==
  /\ At(p, "ReadWait")
  /\ \/ Readable /\ Skip(p, 1) /\ UNCHANGED <<fifo, clean>>
     \/ fifo' = <<>> /\ Spoil(p) /\ todo' = [todo EXCEPT ![p] = AckFlags \o StopAi]
  /\ UNCHANGED <<side, mode, chan, samp, gate, scan, owner, out, ecu, busy, rom, calls, results, shared>>

ReadData(p) ==
  /\ At(p, "ReadData") /\ TakeSample(p) /\ Skip(p, 1)
  /\ UNCHANGED <<side, mode, chan, samp, gate, scan, owner, out, ecu, busy, rom, calls, tries, history>>

\* At the end it acknowledges both flags: command, unlock, data, lock.
FlagCommand(p) ==
  /\ \/ At(p, "AiCom") /\ com' = "AiFlag"
     \/ At(p, "MemCom") /\ com' = "MemFlag"
  /\ Skip(p, 1)
  /\ UNCHANGED <<side, analog, route, aiFlag, memFlag, unlocked, busy, rom, calls, results, history>>

DataLock(p) ==
  /\ \/ At(p, "Unlock") /\ unlocked' = TRUE
     \/ At(p, "Lock") /\ unlocked' = FALSE
  /\ Skip(p, 1)
  /\ UNCHANGED <<side, analog, route, aiFlag, memFlag, com, busy, rom, calls, results, history>>

\* 0xFFFF goes to whatever register the command register names by now.
FlagData(p) ==
  /\ At(p, "AiData") \/ At(p, "MemData")
  /\ Skip(p, 1)
  /\ aiFlag' = (aiFlag /\ ~(unlocked /\ com = "AiFlag"))
  /\ memFlag' = (memFlag /\ ~(unlocked /\ com = "MemFlag"))
  /\ route' = IF unlocked /\ com = "Signal" THEN "bad" ELSE route
  /\ UNCHANGED <<side, analog, com, unlocked, busy, rom, calls, results, history>>

----------------------------------------------------------------------------
(* Correction values *)

SetCalibration(p) ==
  /\ At(p, "CalSet") /\ busy' = TRUE /\ Skip(p, 1)
  /\ UNCHANGED <<side, analog, ecu, rom, calls, results, history>>

\* This wait has no bound.
CalibrationWait(p) ==
  /\ At(p, "CalWait") /\ ~busy /\ Skip(p, 1)
  /\ UNCHANGED <<device, calls, results, history>>

\* A write to the ROM that may not have been taken.
RomSet(p) ==
  /\ At(p, "RomSet") /\ rom' \in {rom, call[p].v} /\ Skip(p, 1)
  /\ UNCHANGED <<side, analog, ecu, busy, calls, results, history>>

RomCheck_GivesUpEarly(p) ==
  /\ At(p, "RomCheck")
  /\ IF tries[p] >= RomRetries
       THEN Skip(p, 1) /\ Spoil(p) /\ UNCHANGED tries
       ELSE tries' = [tries EXCEPT ![p] = @ + 1] /\ Skip(p, 1) /\ UNCHANGED clean
  /\ UNCHANGED <<device, calls, got, shared>>

RomCheck_NeverGivesUp(p) ==
  /\ At(p, "RomCheck") /\ tries' = [tries EXCEPT ![p] = RomRetries]
  /\ IF rom = call[p].v THEN Skip(p, 1) ELSE todo' = [todo EXCEPT ![p] = WriteCalibrationData]
  /\ UNCHANGED <<device, calls, got, history>>

\* cpsaio_write_eeprom reads back, and repeats the write until the word is there
\* or it has been tried too often; the ioctl does not report which.
RomCheck(p) ==
  /\ At(p, "RomCheck")
  /\ IF tries[p] >= RomRetries
       THEN Skip(p, 1) /\ Spoil(p) /\ UNCHANGED tries
       ELSE /\ tries' = [tries EXCEPT ![p] = @ + 1]
            /\ IF rom = call[p].v THEN Skip(p, 1) ELSE todo' = [todo EXCEPT ![p] = WriteCalibrationData]
            /\ UNCHANGED clean
  /\ UNCHANGED <<device, calls, got, shared>>

RomRead(p) ==
  /\ At(p, "RomRead") /\ got' = [got EXCEPT ![p] = <<[word |-> rom]>>] /\ Skip(p, 1)
  /\ UNCHANGED <<device, calls, tries, history>>

RomClear(p) ==
  /\ At(p, "RomClear") /\ rom' = 0 /\ Skip(p, 1)
  /\ UNCHANGED <<side, analog, ecu, busy, calls, results, history>>

----------------------------------------------------------------------------
(* The device and its interrupt *)

GateOpens ==
  /\ gate = "opening" /\ gate' = "open"
  /\ UNCHANGED <<side, mode, chan, samp, scan, owner, fifo, out, ecu, busy, rom, calls, todo, results, history>>

Convert ==
  /\ scan # <<>> /\ scan' = Tail(scan)
  /\ \/ /\ side = "AI" /\ UNCHANGED out
        /\ fifo' = Append(fifo, [by |-> owner, ch |-> Head(scan)])
     \/ /\ side = "AO" /\ fifo # <<>> /\ fifo' = Tail(fifo)
        /\ out' = [out EXCEPT ![Head(scan)] = Head(fifo).word]
  /\ aiFlag' = (aiFlag \/ (side = "AI" /\ Len(scan) = 1))
  /\ memFlag' = (memFlag \/ (side = "AI" /\ Len(scan) = 1))
  /\ UNCHANGED <<side, mode, chan, samp, gate, owner, route, com, unlocked, busy, rom, calls, todo, results, history>>

CalibrationDone ==
  /\ busy /\ busy' = FALSE
  /\ UNCHANGED <<side, analog, ecu, rom, calls, todo, results, history>>

\* The handler reads the status, masks, clears the flags it finds and unmasks.
Isr ==
  /\ users # {} /\ (aiFlag \/ memFlag)
  /\ aiFlag' = FALSE /\ memFlag' = FALSE
  /\ com' = "IrqMask" /\ unlocked' = FALSE
  /\ UNCHANGED <<side, analog, route, busy, rom, calls, todo, results, history>>

----------------------------------------------------------------------------
Setting(p) == TransferMode(p) \/ SetChannel(p) \/ SetSampnum(p) \/ SetEcuSignal(p)
Command(p) == EcuInit(p) \/ SideInit(p) \/ MemInit(p) \/ Start(p) \/ Stop(p) \/ OutPulse0(p) \/ Close(p)
Transfer(p) == WaitReady(p) \/ WaitEnd(p) \/ SetInterruptFlagAi(p) \/ CheckMemStatus(p) \/ InData(p) \/ OutData(p)
Reading(p) == ReadWait(p) \/ ReadData(p) \/ FlagCommand(p) \/ DataLock(p) \/ FlagData(p)
Correcting(p) == SetCalibration(p) \/ CalibrationWait(p) \/ RomSet(p) \/ RomCheck(p) \/ RomRead(p) \/ RomClear(p)
Step(p) == Setting(p) \/ Command(p) \/ Transfer(p) \/ Reading(p) \/ Correcting(p)
Device == GateOpens \/ Convert \/ CalibrationDone \/ Isr

Next == Device \/ \E p \in Process : CallInit(p) \/ CallOther(p) \/ Step(p)

Spec == Init /\ [][Next]_vars

FairSpec == Spec /\ WF_vars(CalibrationDone) /\ \A p \in Process : WF_vars(Step(p))
----------------------------------------------------------------------------
(* Properties *)

TypeOK ==
  /\ side \in {"AI", "AO"} /\ mode \in {"single", "multi"}
  /\ chan \in Chan /\ samp \in 1..Samples /\ gate \in {"closed", "opening", "open"}
  /\ scan \in Seq(Chan) /\ owner \in Process \cup {NoProcess}
  /\ fifo \in Seq(Sample \cup Put) /\ out \in [Chan -> Word]
  /\ route \in {"reset", "set", "bad"} /\ aiFlag \in BOOLEAN /\ memFlag \in BOOLEAN
  /\ com \in Register /\ unlocked \in BOOLEAN /\ busy \in BOOLEAN /\ rom \in Word
  /\ users \subseteq Process /\ todo \in [Process -> Seq(StepName)]
  /\ call \in [Process -> Call] /\ got \in [Process -> Seq(Sample \cup Put)]
  /\ tries \in [Process -> 0..RomRetries] /\ made \in 0..MaxCalls
  /\ shared \in BOOLEAN /\ clean \subseteq Process

Done(p, ops) == p \in clean /\ todo[p] = <<>> /\ call[p].op \in ops

\* What a conversion on the channels of a call should have returned.
Wanted(p) ==
  LET c == call[p]
      mine(k) == [by |-> p, ch |-> k]
  IN  CASE c.op = "SingleAi" -> <<mine(c.ch)>>
        [] c.op = "MultiAi" -> [i \in 1..(c.ch + 1) |-> mine(i - 1)]
        [] c.op = "Sampling" -> [i \in 1..((c.ch + 1) * c.n) |-> mine((i - 1) % (c.ch + 1))]

\* A process that had an analog input to itself for a call, and whose polls did
\* not run out, is given the samples of the conversions it started, channel by
\* channel in order: none of an earlier call, none taken before it was there,
\* though the poll for the end of the conversion may run out or see an old flag
\* (the interrupt handler clears the flag it polls), libcpsaio.c:559-564.
SampleIsOwn == \A p \in Process : Done(p, {"SingleAi", "MultiAi", "Sampling"}) => got[p] = Wanted(p)

\* The word a process puts out alone is what its channel shows once the device
\* has taken it, and it is the rounded scaled word (libcpsaio.c:1043-1068).
OutputsAsAsked ==
  \A p \in Process : Done(p, {"SingleAo"}) /\ fifo = <<>> => out[call[p].ch] = calc_DAC161S055(call[p].v)

\* As long as one process at a time has the device open, the signals that its
\* Init connects stay connected: neither the handler nor the unlocked
\* acknowledgement at the end of read() can disturb them (cpsaio.c:1851-1855).
RoutesAsAsked ==
  ~shared /\ (\E p \in users : call[p].op # "Init" \/ todo[p] = <<>>) => route = "set"

\* A correction value that was not given up after RomRetries repetitions is in
\* the ROM when the call returns (cpsaio.c:698-718, 1526).
RomAsAsked == \A p \in Process : Done(p, {"WriteRom"}) => rom = call[p].v

\* Every call of the library returns if the device finishes what it was told to
\* take over: the only wait without a bound is that one (cpsaio.c:1159, 1329),
\* and the ROM is written a bounded number of times (cpsaio.c:709).
CallsReturn == \A p \in Process : todo[p] # <<>> ~> todo[p] = <<>>
=============================================================================
