# Verification of cps-driver

TLA+ models of the CONTEC CONPROSYS drivers in this repository: the kernel
modules under `driver/`, the user libraries under `lib/` and the register
access they share in `include/`.  TLC checks the models on small instances,
TLAPS proves theorems about them for every value of the constants.

## 1. The system

A CPS-MCS341 controller is a one core ARM board.  An FPGA on its memory bus
connects a stack of I/O devices (analog, digital, counter, sensor, serial) and
a child unit (a radio module with its own power and reset lines).

| component | state it keeps | operations | what must hold |
|---|---|---|---|
| controller bring-up, timer, child unit (`driver/system/cps-driver.c`) | copies of two write-only FPGA registers, the button's tick count, `shutdown_sequence`, `child_unit`, `child_unit_enable` | insmod, `cpsDevicesInit` (also called by every device driver), the 20 ms timer, `ChildUnitInit`/`Exit` behind sysfs | bring-up and power sequences happen in order; a press of the button stops restarts; an FPGA that fails comes back |
| FPGA bus access (`include/cps_common_io.h`) | two GPIO pins that tell the FPGA how wide the access is | 8 and 16 bit reads and writes | no access goes to the other byte |
| LEDs, digital I/O, filter, watchdog (`cps-driver.c`) | LED modes, blink phase and counts; the FPGA's registers | sysfs stores, the timer's blinking | steady LEDs show what the file says, blinking ones blink |
| device ROM (`cps-driver.c`, ioctls in `aio` and `ssi`) | extension registers and EEPROM of every device | write, read, clear correction values; logical id | what was reported written is stored unless the ROM refused every attempt, what was cleared is gone |
| device lookup, register windows (`cps-driver.c`) | device count, mapped windows | `FindCategory`, `FindDevice`, `device_inb`... | a device that is not in the stack is not found |
| device node (`aio`, `cnt`, `dio`, `ssi`) | `i_private`, `private_data`, `ref`, the register region, the handler | open, close, module load and unload | one structure per node, given back when nobody uses it |
| DIO driver and library (`cpsdio.c`, `libcpsdio.c`) | interrupt status and mask, `int_callback`; the process's callback list and signal handler | ioctls, ISR, `NotifyInterrupt`, inputs and outputs | an interrupt reaches the process that asked for it; every setting is what was asked |
| AIO driver and library (`cpsaio.c`, `libcpsaio.c`) | the device's command and data registers, signal routes, sample FIFO, interrupt flags | ioctls, ISR, read, `Init`, single and multi-channel conversion, sampling, outputs, correction values | a process gets the samples it started; routes, outputs and correction values are what was asked |
| counter driver and library (`cpscnt.c`, `libcpscnt.c`) | a copy of every channel's settings, latches | setters, start, stop, preset, latch, read | a started channel works with what was set before; a count read is not stale |
| sensor driver and library (`cpsssi.c`, `libcpsssi.c`) | channel data, `lastStatus`, offsets by wiring | wirings, offsets, single start, measure | offset and measurement belong to the wiring asked for |
| SPI DIO driver (`cpsdio_spi.c`) | none beside the mutex | one SPI transfer a call | - |
| serial driver (`driver/com/8250_cpscom.c`) | `up->ier`, `lcr`, `mcr`, `bugs`, saved status bits, the transmit buffer, the chain of ports of one interrupt, claimed registers | probe, open, close, termios, RS-485, modem lines, transmit, receive, backup timer, load and unload | every character goes out once and in order, errors are flagged where they happened, nobody waits for a lost interrupt |
| kernel's serial driver (`driver/com/8250.c`) | - | not built; the file `8250_cpscom.c` was made from | - |

**How they interact.**  The device drivers call the base driver's exported
functions (bring-up, product id, category, ROM).  All reach the FPGA through
the two width pins.  The base driver's timer shares the init register's copy
with insmod, with device drivers being loaded and with sysfs writers; it shares
the LED register with sysfs writers.  A module parameter, `child_unit`, changes
the number of the child unit without any of its sequences.  Files open on one node
share its device structure, the handler of which signals one process.  The ports of
one serial device share an interrupt and the chain its handler walks.

**What is hard here.**  No lock protects the init register, the LED register,
the width pins or open/close; the ROM lock covers half a command.  A library
call is several ioctls, between which other processes make theirs, on devices
with one command register, one converter, one set of latches.  One core
means that processes in the kernel are not preempted by each other during
register accesses, but a softirq or a handler may come between any two
accesses, and another process wherever a call sleeps.  Serial registers clear
when they are read, by whichever function reads them.  The FPGA may lose its
state at any time.  `PROJECT.json` lists 40 such hazards with their lines;
section 6 has those without a property.

## 2. The modules

| module | stands for |
|---|---|
| `Mcs341` | the controller: `DevicesInit`, `ChildUnitInit`, `ChildUnitExit` as labelled steps of any context (insmod, timer, loaders, shells), the timer's tick, the FPGA and the button as environment |
| `FpgaBus` | the width pins and the nesting of contexts by interrupt level |
| `Leds` | composes `FpgaBus` with the LED register: sysfs stores and the blinking timer, every register access going through the pins |
| `DeviceRom` | one device's ROM: commands in two halves, get/set/clear, the ioctls' retry loops, the device obeying or refusing |
| `NodeUse` | abstract: a device is attached before a file is open on it, as long as one is, and not for ever after |
| `DeviceFile` | open and close as written, one step between any two points where the kernel may sleep; implements `NodeUse` |
| `DioCalls`, `CntCalls`, `AioCalls`, `SsiCalls` | every setting and getter of one library, followed through its ioctls to registers, commands and driver copies: pure operators |
| `DeviceUse`, `MCDeviceUse` | composes `DeviceFile` with the four: a node in use, with the library of the board behind it; the calls TLC makes |
| `Dio` | interrupt, signal and outputs over a node that behaves as `NodeUse` says |
| `Cnt` | the driver's copy of the counter settings against the device; latches and presets of several processes |
| `Ssi`, `SsiOffset` | wirings, offsets and measurements of several processes; the numbers of registers and offsets |
| `Aio`, `AioData` | the ioctls of library calls of several processes interleaved with the converter and the handler; output scaling and correction words |
| `Serial` | one port's transmit and receive paths: core calls, the handler a register access at a time, the backup timer, the UART |
| `SerialIrq` | the chain of ports of one interrupt: linking, unlinking, the handler's walk |
| `SerialPorts`, `SerialData` | the life of a port from probing to unloading; UART types, register values from termios, banked registers |
| `*_proofs` | theorems about the module of that name; `Mcs341_proofs` also about `DeviceRom`, `Leds_proofs` about `FpgaBus`, `DeviceFile_proofs` about `DeviceUse` and the four libraries, `SerialDriver_proofs` about `SerialIrq`, `SerialPorts` and `Serial` |

**Mcs341.**  `hwInit` and `hwLvds` are the two write-only registers,
`initReg` and `lvdsReg` the driver's copies (`mcs341_systeminit_reg`,
`mcs341_fpga_reset_reg`).  `mcs341_systeminit_reg |= BIT` is a load and a store,
because a tick may come between them (`LoadReg`, `StoreReg`); the write to the
device belongs to the store.  `pc[c]` is the place in the sequence a context is
in, `unit[c]` the `childType` it was called with.  While the timer's label is
not `"idle"` no process moves (`CanRun`): it is a softirq on the only core.
`TimerTick` is everything the function does to the button and the restart
decision; the restart itself goes through the same labels as the insmod.
`StoreNumber` is the sysfs file, which powers the unit down first, `StoreUnit` a
write to the module parameter `child_unit`, which does not; `meddled` records that
the latter changed the type of a unit in use.  Units of type 1, 2, 3, 5 and 0x100
differ in one pin mode and are one value.

**FpgaBus and Leds.**  An access sets one pin, then the other, transfers,
and, if it was 8 bits wide, puts the pins back.  `CanRun` lets a context of
a higher level in between and makes the lower one wait.  `Locking` are contexts
that work under `spin_lock_irqsave`.  In `Leds` the accesses of a call are the
sequence `todo`; `Elsewhere` stands for the accesses other code makes (digital
I/O, filter, watchdog, status), of any width.

**DeviceRom.**  `script[c]` are the locked sections that a get, set or clear
still has to do; commands mix wherever the lock is released.  The device obeys
only while enabled and may refuse writes (`Faulty`); a signal may wake the
sleeper of an erase (`Signals`).  A clear writes zeros over the first `Cleared` of
the `Cells` registers before it erases: four of the sensor's five.  `refusals`
and `woken` record how often the ROM refused the call in progress, and a cut erase.
The ioctls answer a write with success whatever `write_eeprom` returned.

**DeviceFile and DeviceUse.**  `priv` and `iPrivate` are the two private
pointers, `opened` is the node's `notFirstOpenFlg`.  A call is split where it
may sleep: `kzalloc`, `request_mem_region`/`ioremap` and `request_irq`,
`free_irq`.  `Zeroed` is whether the structure is zeroed; `Serial` whether users
make their first opens one at a time.  The four drivers hold copies of this
code; it is modelled after dio, and the failure of the others' channel data is
one of the reasons of `Unusable`.  In `DeviceUse` a file that is open makes
calls of the library of the board behind the node.  `dev` holds registers
(which outlive every close) and the driver's copies (which a reload of the
module, or for ssi's channel data a new first open, loses); `told` is what was
asked for last.  `SettingsAsAsked` compares `told` with every getter of the
library that works and with what the device itself holds, so a setter that spoils
the neighbour in its register, byte or command breaks it.  What a call says of
settings it is not named for is in its `Settles`: the counter's `SelectChannelSignal`
clears the other channel's bit, `StartCount` sends both channels' settings to the
registers (where what the driver only keeps a copy of is compared too), and under
`reset_flag_always_on`, which a reload may change (`CntReload`), a start or a stop
counts only if the channel's flag was up.  `Forgets` are the settings a call takes
back: of the counter, the direction when it is asked for; of the analog library,
those that `Single` and `Init` use up; of the sensor, the single bytes of a gain that
is set as a number, and the other way round.  `DioAsked`, `CntAsked`,
`AioAsked` and `SsiAsked` are the calls programs may make; `Legal` of each library
cuts them down to what the device behind the node has and the argument types can
carry (a byte, a 32-bit word, a multiple of the 25 ns clock).

**Dio.**  An ioctl holds `dev->lock` with interrupts off and is one step; a
library call is several ioctls.  Any unmasked bit may become pending (`Edge`),
and what `OutBit` reads is any byte, since the port it reads was never set.
open and close are one step each, justified by `DeviceFile`'s refinement of
`NodeUse`, for first opens that do not overlap.  SIGUSR2 is a flag per process.

**Cnt.**  `shadow` is `cpscnt_32xxI_head`: setters change it, starting a channel
writes it to `reg`.  A count is the moment (`clock`) at which it was latched.
`ReadCount` and `Preset` are several ioctls.  The handler is left out: it claims
the interrupt and changes nothing.

**Ssi.**  An offset goes to and comes from the wiring the channel data name
(`copy`), so the library selects the wiring it wants and puts the old one back:
`"get"`, `"select"`, `"access"`, `"restore"`.  A measurement is `"start"`,
`"wait"` (polls until nothing is being converted) and `"indata"`; `lastStatus` is
in `SsiCalls` only, since no measurement looks at it.  `mixed` are
the channels that two processes used at once; nothing is claimed of them.

**Aio.**  `todo[p]` is the sequence of ioctls, and of `read()`'s unlocked
accesses, that a library call still has to make, `com` the command register,
whose value says which register the next data access reaches.  The device opens
its gate late or never, converts, and interrupts.  A process is in `clean` when
its call had the device to itself and no poll ran out; what it got is then
compared with what it asked for.

**Serial.**  `u` is the port and its UART.  A core call is one step (it holds the
port's lock with interrupts off, on one core); the handler is a step per
register access, since the UART sends, receives and sees CTS change between two
of them.  A `"stuck"` UART is one for which the driver has `UART_BUG_THRE` and
`UART_BUG_TXEN`.  In `SerialIrq` the steps of an open or close are those between
taking and giving up `hash_mutex` and the chain's lock; in `SerialPorts`
`Kinds` are the answers of the UART to `autoconfig`, and the register file has
the banks that LCR selects, also where a word length selects one while the divisor
is written (`Misses`); `overwritten` records that FCTR was hit and not set since.

## 3. The runs

All pass.

| run | distinct states | shows |
|---|---|---|
| `Mcs341Restart` | 29,954 | three FPGA failures and a button at any moment: child power restored, no restart in a shutdown, a failed FPGA restarted, release powers off, whatever the parameter `child_unit` is changed to |
| `Mcs341ChildUnit` | 473,584 | a shell, a loader, timeouts, the parameter `child_unit`: the order of the power lines |
| `DeviceRom` | 78,400 | success means stored unless all seven attempts were refused, clear forgets, calls return, with a faulty ROM and signals |
| `Leds` | 127,459 | no access to the other byte, steady LEDs show their file, blinking ones blink |
| `DeviceUse` | 548,933 | nothing dangles, nothing is kept, settings of six boards are as asked through closes and reloads, refinement of `NodeUse` with its fairness |
| `Dio` | 262,784 | killed only inside `NotifyInterrupt`, a pending interrupt is delivered |
| `Cnt` | 139,213 | settings of a running channel are those at its start, it counts from start to stop, counts read are fresh |
| `Ssi` | 714,694 | offsets reach their wiring, measurements are made and corrected for the wiring asked for |
| `Aio` | 113,586 | samples, outputs, routes and ROM words are what was asked, calls return |
| `Serial` | 731,137 | characters go out once and in order, errors are flagged where they happened, IER and CTS state agree with the UART, what is written is sent |
| `SerialIrq` | 40,966 | open ports stay chained, the handler returns only after a low line, interrupts are served |
| `SerialPorts` | 337,192 | settings, RS-485, interrupt gate, resources and error flags through every call of a port's life |

**Bounds.**
- `Mcs341Restart`: `MaxGlitch` 3; counting states without the counter of
  failures, TLC finds 1206, 1630, 1710 and 1710 of them for one to four
  failures, so a fourth adds none.  `Mcs341ChildUnit`: `MaxTimeout` 1, since one
  failing wait puts every waiter on its error path; no unit or an hl8548 (with the
  other types too, as in `Mcs341Restart`, `PowerSequence` holds in 2,496,480 states).  `ResetTicks` 2 instead of
  250: a first, a middle and a last tick; the counter saturates above it.
  `Devices` 2, `FpgaVersion` 2: the code distinguishes none from some, and 1
  from more.
- `DeviceRom`: `Cells` 3 and `Cleared` 2: the cell a command is about, another one
  and one that a clear does not overwrite; all seven attempts of the code.
- `Leds`: `BlinkTicks` 1 instead of 50.
- `DeviceUse`: two files and two addresses; `DeviceFile`'s theorems hold for any
  number of both.  `MaxCalls` 3: a setting, one that might spoil it, and one that
  might repair it.  The boards are one of each set of terminals and abilities,
  the values asked for (`MCDeviceUse`) lie at boundaries or set and clear the bits
  of their neighbours.  `SettingsStay` needs none of these bounds.
- `Dio`: `MaxEdges` 1: SIGUSR2 does not count, so a second interrupt adds nothing
  to a pending one; with 2 (766,976 states) the properties hold too.
- `Cnt`: `MaxChanges` 2 changes of settings and counts together, two channels of
  one device.  The theorems need no bound.
- `Ssi`: offsets 0 and 255 (none and -1), registers
  0, 5 and -1 in 24 bits, four calls of two processes on two channels.
- `Aio`: two channels, two scans, words 0 and 40000 (below and above half range),
  one repetition of a ROM write instead of 6, three calls.
- `Serial`: a FIFO of 2 characters instead of 128 and one character more instead
  of 256 per `receive_chars`: full, partly full and empty, and a reception that is
  cut off; `MaxEvents` 6 counts calls, arrivals and changes of CTS.
- `SerialIrq`: two ports, one pass before the limit, five opens, eight interrupts.
  The invariant of its theorem was checked with three ports as well.
- `SerialPorts`: no bound but the values: 11 UARTs, two products and FPGA versions,
  24 terminal settings.  (With the fixed 16650 and the 16450 too, and 28 settings, the
  properties hold in 609,464 states.)

`CHECK_DEADLOCK FALSE` is set where the system may stop: in `Dio` every process
may have been terminated; in `Aio`, `Serial` and `SerialIrq` the bounded calls
and events run out; in `SerialPorts` the driver may have used an address it
failed to map, which ends the run.

**What the runs exclude**, because a property fails there:
- Shells and FPGA failures are not in one run: `PoweredIffEnabled` fails when a
  loader completes the bring-up of a restarted FPGA before the timer sees it, or
  when the FPGA fails while a child unit is being powered down.  With a timeout
  `Restarted` fails, because a late `INIT_END` is not busy and so never looked at
  again; whether the FPGA can be that late is not for this code to say.
- A write to the parameter `child_unit` while a unit is in use (`meddled`): disabled
  as another type, an hl8548 keeps its 3G4 pin, and the power stays on where the
  number is none then.  That its reset is never released without power holds
  whatever is written.
- `DeviceRom` has one client: two mix their commands.  A write that the ROM
  refused seven times is reported as a success, and a clear whose erase was cut
  short leaves what it does not overwrite, or what the ROM refused.
- A divisor that misses (`Misses`, `overwritten` in `SerialPorts`): the speed is not
  set and FCTR, with RS-485 and the trigger levels, is overwritten.
- `DeviceUse` has `Serial` first opens and `Zeroed` structures; with
  `Zeroed = FALSE`, the counter driver's `kmalloc`, an open that comes while the
  first one sleeps takes a garbage `ref` for a structure in use.
- `OutBit` of dio is not `Legal` in `DeviceUse`: it changes the other outputs.
- The history variables `mixed` (`Ssi`), `clean` and `shared` (`Aio`), `meddled`
  (`Cnt`), `crossed` (`SerialIrq`) and `reprobed` (`Serial`) record the cases a
  property does not speak of; each property's comment says which and why.

**Fairness.**  `Mcs341`: the tick (`mod_timer` re-arms it), the FPGA (it answers
what it is asked), each context's next step (the scheduler); never the button,
a shell, a loader or a failure.  `DeviceRom`: the device obeys, a process inside
an ioctl goes on.  `Leds`: strong fairness for the tick and each context's step,
since interrupts disable and re-enable what they interrupt, and no interrupt
comes so often that what it interrupts stands still.  `DeviceUse`: a sleeping
call is woken.  `Dio`: the interrupt line is level active until the status is
read, a signal is delivered, a process in a library call runs, a callback
returns.  `Aio`: the device finishes taking over a correction value, and a
process inside a call goes on; not that a conversion ends or a gate opens.
`Serial`: a raised interrupt is handled, the backup timer is set again, the UART
sends what it has.  `SerialIrq`: a raised interrupt reaches the handler, which
runs on.

## 4. The proofs

All theorems hold for every value of the constants that meets the named
`ASSUME`s; TLC evaluates those in the runs.

| theorem | says | argument |
|---|---|---|
| `Mcs341_proofs!TypeCorrect` | types | one lemma per sequence |
| `Mcs341_proofs!ShutdownStopsRestarts` | with any contexts, failures (inside a restart too) and timeouts, no restart begins or runs after the first tick of a press | inductive with the types: `shutdown` changes only in a tick, which needs an idle timer |
| `Mcs341_proofs!ShutdownKeepsMask` | without a context that updates the register, the interrupt bit stays clear during the shutdown | `MaskInv`: during the shutdown the bit is clear in copy and register; that is not inductive alone, it needs that the timer is idle then and the insmod over, so that nobody is between a load and a store |
| `Mcs341_proofs!UnitKeepsSequence` | under `Regime`, the child unit's reset is never released without power; nor its 3G4 pin on without its reset released, until the parameter `child_unit` has changed the type of a unit in use | `SequenceInv`: which context has its turn (`Turns`), what of the copy and of the register is ordered (`Ordered`), who drives the pin (`DrivenPin`), and, for each step of a sequence, what it has already switched (`Facts`: `Upward`, `Downward`, `Loaded`) |
| `Mcs341_proofs!UnitIsAsShown` | under `Calm`, until the parameter has changed the type of a unit in use, `child_unit_enable` tells what the board does whenever no call is in progress and no restart is due | `EnabledInv`: `SequenceInv` and what each step of a store or a restart owes to the value it will show (`Shown`, `Restarting`, `UnitInv`, `Settled`, `Leaving`) |
| `Mcs341_proofs!ValueIsStored`, `ClearIsComplete` | for one process (`OneClient`), any number of channels and any values: the ROM holds the value of a write unless it refused all seven attempts; a clear leaves nothing, or, if a signal cut it short, nothing of what it overwrites in a ROM that takes what it is given | `RomInv`: a script is the rest of a get, a set or an erase that fits the call (`CommandInv`); `Ahead`, the step the device is still to see, tells whether the ROM is enabled, that registers and ROM agree once a get has read (`GetInv`), and which registers a clear has passed (`ClearInv`).  A woken erase needs no step of the device: the registers it overwrites were zero and written before it.  With two processes the commands mix and both fail |
| `Leds_proofs!BusTypeCorrect` | types | |
| `Leds_proofs!OtherByteIsSafe` | an access is made with its own width or with 16 bits, however deeply accesses nest | `BusInv` = types, `Nested` (contexts inside the kernel have different levels), `PinInv` (what the pins say at each stage for the innermost context, and for one nothing can interrupt) |
| `Leds_proofs!UndisturbedIsExact`, `QuietBusIsWord` | what cannot be interrupted gets its width; with no access in progress the pins say 16 bits | `BusInv` |
| `Leds_proofs!LedsUseBus` | `Leds` implements `BusSpec` of `FpgaBus`: what is proved of the bus holds whatever the accesses are about; `LedAccessesAreSafe` is `OtherByteIsSafe` there | each step is a step of the bus or leaves it alone |
| `Leds_proofs!SteadyLeds` | a LED that is told to be on or off shows it, whatever the timer does between the read and the write of a store | `IInv` = `BusInv`, `ScriptInv` (what a context still has to do is a rest of what it came for), `Fresh` (the byte about to be written is right for every steady LED but the one it changes); it needs the bus: the byte that is written goes to the right byte of the register |
| `DeviceFile_proofs!TypeCorrect` | types, also without `Serial` | |
| `DeviceFile_proofs!StructureIsShared`, `RefIsExact`, `NoDangling`, `AllGivenBack`, `RefusalsPass` | one structure per node, `ref` counts its files, nothing dangles, nothing is kept, an open is refused only during another call | `Inv`, a case distinction: a call is bringing the device up or down (then no file is open), files are open (then `ref` is their number and one structure is live), or everything is given back |
| `DeviceFile_proofs!KeepsPromise` | `DeviceFile` implements the safety part of `NodeUse` | each step is a step of `NodeUse` or a stutter, from `Inv` |
| `DeviceFile_proofs!SettingsStay` | for every board of the tables, every argument of the calls (`Legal`) and any number of calls, closes, new opens, reloads and failing allocations: every getter that works, and the device itself, gives what the last call that settles it says (`SettingsAsAsked`) | `UseInv`: the device is of one kind, well formed for that kind, and answers what was said about keys of that kind.  For each kind a frame lemma says which registers and fields an answer depends on, and each call is shown to change only those of what it settles or forgets.  Counter: the mode byte is eight bits put together and taken apart again, and starting or stopping a channel changes nothing else that answers (`CntRun`).  Sensor: words are four bytes in registers told apart by address, and offsets go through the channel's wiring.  Analog: the device's INIT commands clear a side, every other command one register of it |
| `DeviceFile_proofs!UseOpensAsSpecified`, `UseIsSafe` | a node in use behaves as `DeviceFile` says, so nothing dangles or is kept there and the safety part of `NodeUse` holds | the calls leave `DeviceFile`'s variables alone; the other steps are its steps |
| `Dio_proofs!TypeCorrect` | types | |
| `Dio_proofs!OnlyNotifyIsKilled` | SIGUSR2 terminates only a process between the last two calls of `NotifyInterrupt` | `HandlerInv`: whoever is to be signalled has the handler or is just about to install it |
| `Cnt_proofs!KeepsSettings` | a started channel works with what was requested before its start, across reloads | `SettingsInv`: the copy is what was requested since the module was loaded |
| `Cnt_proofs!StartedCounts` | unless the module parameter was touched a channel counts from its start to its stop | `CountingInv`: then the parameter is off and the mode register's reset bit follows start and stop |
| `Cnt_proofs!CountsAreFresh` | no count of before the call is returned, however latches and reads mix | `FreshInv`: calls began in the past, latches only get newer |
| `Ssi_proofs!CorrectedIsSum`, `OffsetRoundTrip` | a corrected temperature is the measured one plus 32 times the offset; a byte survives the conversions | case split on the two signs, integer arithmetic |
| `Ssi_proofs!CopyAgrees` | channel data and device never name two wirings | what each ioctl leaves in both |
| `Ssi_proofs!OffsetsReachTheirWiring` | on channels that are not mixed, wirings stay as asked and offsets reach theirs | `AskedInv`: an unmixed channel is used by one call (`Alone`), and what each stage of that call relies on (`Relies`) |
| `Ssi_proofs!MeasuresAreRight` | measurements are made with the wiring asked for and its offset | the same, with what a conversion in progress was made with |
| `Aio_proofs!OutputInRange`, `OutputIsMonotone` | every word gives a code from 256 to 65535; a larger word never gives a smaller code | the reduction is a ceiling: two linear inequalities |
| `Aio_proofs!CorrectionRoundTrip` | the two bytes of a correction word come back | division and remainder |
| `Aio_proofs!CurrentsKeepOrder`, `FullScaleIsZero` | output currents below 20 mA keep their order; 20 mA itself becomes code 0 | linear inequalities; evaluation |
| `Aio_proofs!AioTypeCorrect` | types: what a call still has to do is always the rest of the steps of some call | `BaseInv`: how far a process has come is a number, `Pos` |
| `Aio_proofs!SignalsStay` | while one process at a time has the device open, neither the handler nor the unlocked acknowledgement disconnects its signals | `UsersInv` (who is in a call has it open), `RouteInv` (what the command register names when the flags are written) |
| `Aio_proofs!RomIsWritten` | a correction value that was not given up is in the ROM when the call returns | `AloneInv` (while a call is clean nobody else is in one), `RomInv` (what is in the ROM, or on its way, at each position) |
| `Aio_proofs!OutputsShow` | what a process puts out alone is what the channel shows | `SettledInv` (what a clean call has set up by each position), `AoInv` (the value is nowhere, then in the FIFO, then on its way, then on the channel) |
| `Aio_proofs!SamplesAreOwn` | a process alone for a call is given exactly the samples of the conversions it started, in order, for any number of channels and samples | `AiInv`: the samples still to be made, those in the FIFO and those returned are together the samples of the call |
| `SerialDriver_proofs!WalkReleasesLine` | for any number of ports, a handler that returns because all were quiet has seen the line low since it last handled one | `Walk`: once the walk has passed quiet ports from `end` on and the line has not been low, some port that raises it lies ahead of the walk, before `end`; it needs that no port is in the chain twice, that the walk is at a port of the chain, and that a handler runs while no call changes the chain |
| `SerialDriver_proofs!PortsStayChained` | for any number of ports and openings, an open port is in the chain, no call works on a freed `irq_info`, and the interrupt is requested exactly while a port is in the chain | `CallInv`: an opened port is in the chain or on its way (`PresentIsIn`), at most one call changes the chain (`Held`), which `irq_info` each stage works on and who owns it (`StaleInv`, `InfoInv`, `IrqInv`), and no closing meets an opening (`Orderly`) |
| `SerialDriver_proofs!PortIsSetUp`, `Rs485Stays`, `GateFollowsUse`, `ClaimFollowsType`, `ErrorsFollowSettings` | for any products, FPGA versions and UARTs: the five safety properties of `SerialPorts`, with the exceptions their comments name | one invariant, `PortInv`: a port in use is set up in every register as was asked (`SetUp`), one that is not is silent (`Silent`), the trigger levels and RS-485 outlive closing and unloading (`HasTriggers`), whose the registers are goes with the type (`Claims`), and the type is the one the probe finds or none (`Shapes`).  Each function of the driver has a lemma saying which registers and fields it changes and to what; the calls are composed of those.  The error flags need a lemma of their own, on masks for every setting and combination of errors |
| `SerialDriver_proofs!IerIsKnown`, `FlowIsFollowed`, `FlagsAreOwn` | for any FIFO, `MaxCount`, number of calls, characters and changes of CTS, and any order of the handler's accesses with them: three safety properties of `Serial` | `UartInv`: outside of the backup timer the IER and its copy agree (`IerInv`), with flow control MSI is asked for and an unread change is the only excuse for `hwstop` (`FlowInv`), the characters delivered and those waiting are those that came, and the error of the first one waiting is in the LSR, in `lsr_saved_flags` or in the status just read (`RxInv`).  Every function of the driver is shown to be a `Reacts` (it may handle CTS) or a `Moves` (it may not) of the port; both compose |
| `SerialDriver_proofs!SentIsInOrder` | for the same, on a port without `UART_BUG_TXEN` or without CTS flow control: every character written is on its way once and in order, and the FIFO never overflows | `TxInv`: what is sent, in the shift register, in the FIFO and in the buffer are four consecutive runs of the numbers from 1 to `written` (`Order`), and while the handler goes by an empty FIFO it has seen, the FIFO is empty (`SeenEmpty`).  The driver's functions leave the transmitter alone or fill an empty FIFO (`Sends`), and that keeps `Order` |

The `DeviceFile` theorems but `TypeCorrect`, `SettingsStay` and `UseOpensAsSpecified`
assume `Serial` and `Zeroed`, and
`ShutdownKeepsMask` no loader, no shell: without those the properties fail, as
sections 3 and 5 say.  `Regime` of `UnitKeepsSequence` is either the base driver
alone (no shell, no loader; the FPGA may fail, also inside a restart) or one
shell, any loaders and an FPGA that does not fail: two writers of the sysfs files,
or one and a restarting timer, lose each other's bits between load and store.
`Calm` adds what `PoweredIffEnabled` needs: only unit types that the switch of
`cps-driver.c` names, and, where the base driver is alone, no giving up before the
FPGA's answer and no failure inside a restart, since a late answer finds the copy
of another state.  Both are met by the instances of the runs: `Mcs341Restart` is
the one, `Mcs341ChildUnit` the other.  The theorems about a port hold for the
terminal settings `SerialPorts` names: every treatment of errors at 9600 baud, a
receiver switched off, and the slowest and the fastest speed with and without flow
control, and the fastest one with space parity and one or two stop bits.

**Only model-checked:** every liveness property and the fairness part of
`NodeUse` (the proof system does not reason about fairness): `Restarted`,
`ReleasePowersOff`, both `CallsReturn`, `LedsBlink`, `InterruptDelivered`,
`EventuallySent`, `Served` and that part of `Promise`.  Every other property of the
runs is a theorem.

## 5. Where the code disagrees with itself

Met while modelling.  The models do what the code does; the properties say what
they leave out because of it.

*Controller and bus.*
- "LVDS OFF" and-s with the LVDS bit instead of its complement: the bit stays set
  (`cps-driver.c` 1288).
- A child unit sequence between load and store of the init register writes back
  the interrupt bit that a tick of the button has cleared.
- An interrupt between pins and data makes an 8 bit access 16 bits wide.
- The parameter `child_unit` is writable (182) beside the sysfs file that powers the
  old unit down first: the unit is then disabled as one it is not.

*Device ROM and node.*
- Two processes' ROM commands mix: a write returns success for a value that is
  only in a register.
- The ioctls drop what `write_eeprom` returns (`cpsaio.c` 1526, 1584; `cpsssi.c` 1186):
  a correction value that was given up is reported as written.  The seventh attempt
  would return 1 even if it had been stored.
- Two first opens at once: the one that fails clears `i_private` of the one that
  succeeds.
- `cpscnt.c` 279-280 frees a structure twice; its `notFirstOpenFlg` is sized by the
  number of counter devices and indexed by minor (1652, 1870).

*Digital I/O.*  `OutBit` fills the port's other outputs from inputs, of a port
number it never set.

*Counter.*
- The common input is never selected: the ioctl reads (`cpscnt.c` 987).
  `set_selectsignal` overwrites the other channel's bit (463).
- Under `reset_flag_always_on` a start or stop leaves the counting to the flag
  (1006, 1035).
- `GetCountDirection` uses SET_DIRECTION with an uninitialised value
  (`libcpscnt.c` 528); GET_MODE and GET_Z_PHASE are not handled.
- The handler claims every interrupt and acknowledges none (1088-1120).

*Sensor.*
- After a reopen measurements use the 4-wire offset although the converter may
  keep 3 wires: the channel data are new.
- `QueryDeviceName` and another `Init` reset the gain; clearing the ROM zeroes
  four of its five words first (1224-1227), so that the fifth stays after an erase
  that a signal cut short.
- Direct register functions pass their struct by value (`libcpsssi.c` 1165, 1192;
  `libcpsaio.c` 1548-2012).

*Analog.*
- The getters of the input's settings are not handled; DIRECT_COMMAND_INPUT stores
  its answer in one struct and copies another (`cpsaio.c` 1711-1718); `write()`
  copies towards the user (1888).
- 20 mA is code 65536, which truncates to 0 (`FullScaleIsZero`); an output clock
  below 25 ns wraps.
- `MultiAo` starts the output before its data is there and stops at once;
  `samplingAi2.c` reads `num` samples although `ch * num` were taken.

*Serial.*
- With both `UART_BUG_TXEN` and CTS flow control the FIFO is filled twice;
  `UART_BUG_TXEN` tests TEMT where it means THRE.
- A line error read before the 257th character ended a reception is forgotten
  (1646, against the comment at 182-186).
- Probing a port in use forgets `UART_BUG_THRE`; an x_char stays after a CTS stop.
- Linking gives up `hash_mutex` before it takes the chain's lock, so an unlink may
  free what it found.
- IGNBRK needs BRKINT or PARMRK: the bit is masked first (2568, 2577).  With CREAD
  clear characters are dropped, but an overrun is still reported.
- CMSPAR makes a word of 8 bits, two stop bits and space parity, with DLAB, the LCR
  value that selects the bank of FCTR (2624-2628): the divisor goes there, the speed
  is not set, and RS-485 and trigger levels are overwritten.
- The entry of `PORT_16550A` has no `.flags` (230-235): its FIFO stays off although
  16 characters are loaded at a time.
- The first open sets only the receive trigger level (2239-2243).
- TIOCSRS485 on a UART without FCTR changes its divisor's high byte.
- COM1PC is listed twice, COM1PD not at all (1110-1111).
- When the ioremap of the interrupt vector register fails, it is written through
  NULL and the region is released twice (2813-2823); `config_port` returns early
  and leaves the type; `remove` releases regions a second time (3522); when
  `platform_driver_register` fails the ports stay (4111-4121).

## 6. Hazards without a property

`PROJECT.json` gives each with its line and the reason: two writers of the init
register; two clients of a ROM, and its writes that were given up; two first opens at
once; a calibration that does not end; linking ports while unlinking others; the
output code 65536, of which two theorems speak; the late `INIT_END`; the copy of
the init register after a failed restart; a loader that completes a
restart; the timer after unloading; `notFirstOpenFlg`'s index; the counter's
unzeroed structure; `FindCategory`'s end.  Further ones, of modules that are not
modelled: unloading unmaps the registers before it removes the sysfs files
(`cps-driver.c` 2829), a failed registration leaves the timer (2799), enabling
the watchdog marks ST1 without lighting it (2789), the FPGA fails while a child
unit's reset is asserted (1211).

## 7. Not modelled

- *Device lookup*: `FindCategory`, `FindDevice`, the node numbers, register windows
  beside the width pins; *unloading the base driver*; the *logical id*, which
  nothing in the repository calls.
- *Sysfs stores of the controller's digital I/O, filter and watchdog*: one file
  writes one register and nobody else does; `Leds` has them as bus accesses.
- *Handlers of cnt and ssi*: they change nothing.  Versions and error strings.
- *SPI driver*: no state beside a mutex around one transfer.  On reading: it takes
  a reference to the device in every ioctl and never gives it back, its probe
  ignores what `register_dev` returns, and it leaks its class when `device_create`
  fails.
- *Serial*: console, early setup, power management, RSA, the LoRa sysfs files
  (which share `leds_status` without a lock) and their creation.
- *`8250.c`*, samples, Makefiles: not part of what runs.
- The platform driver's registration and what the kernel does inside
  `request_irq`, the serial core and the like are taken as the code uses them;
  such definitions are marked external in `PROJECT.json`.

## 8. Plan

1. A stack of devices with `FindCategory`, `FindDevice` and the node numbers that
   index `notFirstOpenFlg`, checked against their definition by a set.
2. `Mcs341`: unloading, and failures together with shells, with a property of the
   state after the last failure.
3. The SPI driver's registration and its failures.
