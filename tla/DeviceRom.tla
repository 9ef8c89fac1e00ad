------------------------------ MODULE DeviceRom ------------------------------
(***************************************************************************)
(* The configuration ROM of one stacked device, as                         *)
(* driver/system/cps-driver.c drives it for the EEPROM ioctls of the aio   *)
(* and ssi drivers.                                                        *)
(*                                                                         *)
(* A value is put into a register of the device; a command then copies the *)
(* registers to the ROM or back.  A command is a write with the ENABLE bit,*)
(* a sleep, and a write without it.  Each of the two writes holds          *)
(* mcs341_eeprom_lock, the sleep does not, and no lock is held from one    *)
(* command to the next: the calls of two processes mix.                    *)
(***************************************************************************)
EXTENDS Naturals, Sequences, SequencesExt

CONSTANTS
  Client,   \* processes that issue EEPROM ioctls of this device
  Cells,    \* registers of the device that the calls address
  Cleared,  \* those a clear overwrites with zeros: cpsssi_ioctl passes the four
            \* channels where the library writes the words 0 to 4
  Value,    \* what may be written to them; 0 is one
  Erased,   \* what a cell of the ROM holds after an erase
  Faulty,   \* the ROM may refuse a write
  Signals   \* a signal may end the five seconds that an erase needs

ASSUME CellsAssumption == Cells \in Nat \ {0} /\ Cleared \in 1 .. Cells
ASSUME ValueAssumption == 0 \in Value /\ Erased \notin Value
ASSUME FaultAssumption == Faulty \in BOOLEAN /\ Signals \in BOOLEAN

Cell    == 0 .. Cells - 1
Content == Value \cup {Erased}

VARIABLES
  rom,      \* the EEPROM
  reg,      \* the extension registers of the device's FPGA
  access,   \* the ROM is enabled
  cmd,      \* the command the device has been given: pending, "done" or "none"
  call,     \* what each client has been asked for
  script,   \* steps the client still has to do for one get, set or clear
  started,  \* the client has issued the first of them and sleeps
  gets,     \* gets still to come before the value counts
  chkVal,   \* what the last get of the client returned
  count,    \* count of write_eeprom
  cnt,      \* cnt of clear_fpga_extension_reg
  result,   \* the last call of the client and what the ioctl returned
  refusals, \* history: how many writes of it the ROM has refused, seven or more
            \* being one
  woken     \* history: a signal has ended that call's erase before it was done

device  == <<rom, reg, access, cmd>>
loop    == <<gets, chkVal, count, cnt>>
history == <<refusals, woken>>
romVars == <<device, call, script, started, loop, result, history>>

Idle  == [op |-> "idle"]
Calls == [op : {"clear"}] \cup [op : {"read"}, cell : Cell]
         \cup [op : {"write"}, cell : Cell, val : Value]

GetScript   == <<"enable", "addrInit", "read", "disable", "fetch">>
SetScript   == <<"put", "enable", "addrInit", "write", "disable">>
EraseScript == <<"enable", "erase", "disable">>
Attempts    == 7   \* of one write, before cpsaio_write_eeprom gives up
Commands    == {"enable", "disable", "addrInit", "write", "read", "erase"}

Doing(c, step) == script[c] # <<>> /\ Head(script[c]) = step
InScript(c)    == script[c] # <<>>
Advance(c) == script' = [script EXCEPT ![c] = Tail(@)]

-----------------------------------------------------------------------------
(* __contec_mcs341_device_extension_value: one action per locked section.  *)

\* The register and the value of the set in progress; a clear sets zeros.
Num(c)  == IF call[c].op = "clear" THEN cnt[c] - 1 ELSE call[c].cell
ValW(c) == IF call[c].op = "clear" THEN 0 ELSE call[c].val

Put(c) ==
  /\ Doing(c, "put")
  /\ reg' = [reg EXCEPT ![Num(c)] = ValW(c)]
  /\ Advance(c)
  /\ UNCHANGED <<rom, access, cmd, call, started, loop, result, history>>

Fetch(c) ==
  /\ Doing(c, "fetch")
  /\ chkVal' = [chkVal EXCEPT ![c] = reg[Num(c)]]
  /\ Advance(c)
  /\ UNCHANGED <<device, call, started, gets, count, cnt, result, history>>

(* __contec_mcs341_device_rom_write_command *)

StartCommand(c) ==
  /\ ~started[c] /\ \E step \in Commands : Doing(c, step)
  /\ cmd' = Head(script[c])
  /\ started' = [started EXCEPT ![c] = TRUE]
  /\ UNCHANGED <<rom, reg, access, call, script, loop, result, history>>

\* The sleep lasts until the device has obeyed, or somebody else has given
\* it another command; only the erase sleeps so long that it can be woken.
Slept(c) == \/ cmd # Head(script[c])
            \/ Signals /\ Head(script[c]) = "erase"

FinishCommand(c) ==
  /\ started[c] /\ Slept(c)
  /\ cmd' = "none"
  /\ started' = [started EXCEPT ![c] = FALSE]
  /\ Advance(c)
  /\ woken' = [woken EXCEPT ![c] = @ \/ cmd = Head(script[c])]
  /\ UNCHANGED <<rom, reg, access, call, loop, result, refusals>>

-----------------------------------------------------------------------------
(* The device: it obeys a command only while the ROM is enabled.           *)

Obey ==
  /\ cmd \in Commands
  /\ cmd' = "done"
  /\ access' = (cmd = "enable" \/ (access /\ cmd # "disable"))
  /\ reg' = IF cmd = "read" /\ access THEN rom ELSE reg
  /\ \E taken \in BOOLEAN :
       /\ ~taken => Faulty /\ cmd = "write"
       /\ refusals' = [c \in Client |->
                          IF ~taken /\ started[c] /\ refusals[c] < Attempts
                            THEN refusals[c] + 1 ELSE refusals[c]]
       /\ rom' = CASE access /\ taken /\ cmd = "write" -> reg
                   [] access /\ cmd = "erase" -> [x \in Cell |-> Erased]
                   [] OTHER -> rom
  /\ UNCHANGED <<call, script, started, loop, result, woken>>

-----------------------------------------------------------------------------
(* cpsaio_write_eeprom, cpsaio_read_eeprom, cpsaio_clear_eeprom with       *)
(* cpsaio_clear_fpga_extension_reg, and their twins of the ssi driver.     *)

Call(c, x) ==
  /\ call[c] = Idle
  /\ call' = [call EXCEPT ![c] = x]
  /\ script' = [script EXCEPT ![c] =
                  IF x.op = "write" THEN SetScript ELSE <<>>]
  /\ gets' = [gets EXCEPT ![c] = 3]
  /\ count' = [count EXCEPT ![c] = 0]
  /\ cnt' = [cnt EXCEPT ![c] = 0]
  /\ result' = [result EXCEPT ![c] = [of |-> x, says |-> "running", val |-> 0]]
  /\ refusals' = [refusals EXCEPT ![c] = 0]
  /\ woken' = [woken EXCEPT ![c] = FALSE]
  /\ UNCHANGED <<device, started, chkVal>>

\* The locals of the call are gone with it.
Answer(c, says, val) ==
  /\ result' = [result EXCEPT ![c] = [of |-> call[c], says |-> says, val |-> val]]
  /\ call' = [call EXCEPT ![c] = Idle]
  /\ chkVal' = [chkVal EXCEPT ![c] = 0]
  /\ UNCHANGED <<device, script, started, gets, count, cnt, history>>

\* Each read is three gets, and one read follows each set.
Get(c) ==
  /\ ~InScript(c) /\ call[c].op \in {"read", "write"} /\ gets[c] > 0
  /\ gets' = [gets EXCEPT ![c] = @ - 1]
  /\ script' = [script EXCEPT ![c] = GetScript]
  /\ UNCHANGED <<device, call, started, chkVal, count, cnt, result, history>>

ReadReturns(c) ==
  /\ ~InScript(c) /\ call[c].op = "read" /\ gets[c] = 0
  /\ Answer(c, "success", chkVal[c])

WriteChecked(c) == ~InScript(c) /\ call[c].op = "write" /\ gets[c] = 0

\* mutant: the value read back is not looked at
WriteReturns_Blind(c) == WriteChecked(c) /\ Answer(c, "success", call[c].val)

\* The value is read back as it was asked for, or this was the seventh attempt.
\* cpsaio_write_eeprom returns 1 in that case, which no ioctl looks at: the
\* client is told 0 both times.
WriteReturns(c) ==
  /\ WriteChecked(c)
  /\ count[c] > 5 \/ chkVal[c] = call[c].val
  /\ Answer(c, "success", call[c].val)

Again(c) ==
  /\ gets' = [gets EXCEPT ![c] = 3]
  /\ script' = [script EXCEPT ![c] = SetScript]
  /\ UNCHANGED <<device, call, started, chkVal, cnt, result, history>>

\* mutant: the retries are not counted
Retry_Uncounted(c) ==
  /\ WriteChecked(c) /\ count[c] <= 5 /\ chkVal[c] # call[c].val
  /\ Again(c) /\ UNCHANGED count

Retry(c) ==
  /\ WriteChecked(c) /\ count[c] <= 5 /\ chkVal[c] # call[c].val
  /\ count' = [count EXCEPT ![c] = @ + 1]
  /\ Again(c)

\* mutant: the last register is not overwritten
ClearNext_OneShort(c) ==
  /\ ~InScript(c) /\ call[c].op = "clear" /\ cnt[c] <= Cleared
  /\ cnt' = [cnt EXCEPT ![c] = IF @ + 1 = Cleared THEN Cleared + 1 ELSE @ + 1]
  /\ script' = [script EXCEPT ![c] =
                  IF cnt'[c] <= Cleared THEN SetScript ELSE EraseScript]
  /\ UNCHANGED <<device, call, started, gets, chkVal, count, result, history>>

\* The registers a clear knows are overwritten one set each, then the ROM is
\* erased.
ClearNext(c) ==
  /\ ~InScript(c) /\ call[c].op = "clear" /\ cnt[c] <= Cleared
  /\ cnt' = [cnt EXCEPT ![c] = @ + 1]
  /\ script' = [script EXCEPT ![c] =
                  IF cnt[c] < Cleared THEN SetScript ELSE EraseScript]
  /\ UNCHANGED <<device, call, started, gets, chkVal, count, result, history>>

ClearReturns(c) ==
  /\ ~InScript(c) /\ call[c].op = "clear" /\ cnt[c] > Cleared
  /\ Answer(c, "cleared", 0)

RomInit ==
  /\ rom = [x \in Cell |-> Erased] /\ reg = rom
  /\ access = FALSE /\ cmd = "none"
  /\ call = [c \in Client |-> Idle]
  /\ script = [c \in Client |-> <<>>] /\ started = [c \in Client |-> FALSE]
  /\ gets = [c \in Client |-> 0] /\ count = [c \in Client |-> 0]
  /\ chkVal = [c \in Client |-> 0] /\ cnt = [c \in Client |-> 0]
  /\ result = [c \in Client |-> [of |-> Idle, says |-> "nothing", val |-> 0]]
  /\ refusals = [c \in Client |-> 0] /\ woken = [c \in Client |-> FALSE]

\* The steps of a call in progress.
CallStep(c) ==
  \/ Put(c) \/ Fetch(c) \/ StartCommand(c) \/ FinishCommand(c)
  \/ Get(c) \/ ReadReturns(c) \/ WriteReturns(c) \/ Retry(c)
  \/ ClearNext(c) \/ ClearReturns(c)

RomNext ==
  \/ \E c \in Client : CallStep(c)
  \/ \E c \in Client, x \in Calls : Call(c, x)
  \/ Obey

RomSpec == RomInit /\ [][RomNext]_romVars

\* The device answers, and a process inside an ioctl is scheduled.
FairRomSpec == RomSpec /\ WF_romVars(Obey) /\ \A c \in Client : WF_romVars(CallStep(c))

-----------------------------------------------------------------------------
RomTypeOK ==
  /\ rom \in [Cell -> Content] /\ reg \in [Cell -> Content]
  /\ access \in BOOLEAN
  /\ cmd \in Commands \cup {"none", "done"}
  /\ call \in [Client -> Calls \cup {Idle}]
  /\ started \in [Client -> BOOLEAN]
  /\ gets \in [Client -> 0 .. 3] /\ count \in [Client -> 0 .. 6]
  /\ refusals \in [Client -> 0 .. Attempts] /\ woken \in [Client -> BOOLEAN]
  /\ cnt \in [Client -> 0 .. Cleared + 1] /\ chkVal \in [Client -> Content]
  /\ \A c \in Client :
       /\ IsSuffix(script[c], GetScript) \/ IsSuffix(script[c], SetScript)
          \/ IsSuffix(script[c], EraseScript)
       /\ started[c] => Head(script[c]) \in Commands
       /\ Doing(c, "put") => Num(c) \in Cell

\* No other client has been asked to change the same cell.
SoleWriter(c, x) == \A d \in Client \ {c} :
                result[d].of.op \in {"idle", "read"} \/
                (result[d].of.op = "write" /\ result[d].of.cell # x)

(***************************************************************************)
(* Properties                                                              *)
(***************************************************************************)

\* What a client has been told is stored, or was read, is in that cell of the
\* ROM until its next call: a write is tried until the value can be read back.
\* A write may be told so falsely in one case, the ROM having refused all seven
\* attempts (cpsaio_ioctl and cpsssi_ioctl drop the 1 of write_eeprom).
ReturnedIsStored ==
  \A c \in Client :
    result[c].says = "success" =>
      \/ rom[result[c].of.cell] = result[c].val
      \/ result[c].of.op = "write" /\ refusals[c] = Attempts
      \/ ~SoleWriter(c, result[c].of.cell)

\* After a clear no correction value is left in the ROM. If a signal has cut the
\* erase short, the zeros written before it still see to that, for the registers
\* the driver overwrites and a ROM that took them: word 4 of the ssi device is
\* not one of them.
ClearedForgets ==
  \A c \in Client :
    result[c].says = "cleared" =>
      \A x \in Cell :
        \/ rom[x] \in {0, Erased}
        \/ woken[c] /\ (x >= Cleared \/ refusals[c] > 0)
        \/ ~SoleWriter(c, x)

\* A ROM that refuses every write cannot hold a process in the ioctl.
CallsReturn == \A c \in Client : call[c] # Idle ~> call[c] = Idle
=============================================================================
