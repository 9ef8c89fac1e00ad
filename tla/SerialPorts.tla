------------------------------ MODULE SerialPorts ------------------------------
(***************************************************************************)
(* The life of one serial port (driver/com/8250_cpscom.c): the driver is     *)
(* loaded and finds out what UART is there, claims its registers, the port   *)
(* is opened, set up, switched to RS-485, closed, probed again while in use, *)
(* and the driver is unloaded and loaded again over the registers it left.   *)
(* Every call is one step: the core calls them one at a time, and under the  *)
(* port's lock where the interrupt handler touches the same registers.       *)
(***************************************************************************)
EXTENDS SerialData

CONSTANTS
  Product,  \* the products of the device the port may belong to
  Versions, \* its FPGA versions
  Kinds     \* the answers of its UART that are explored

ASSUME SerialPortsAssumption == Kinds \subseteq STRING /\ Versions \subseteq Nat

VARIABLES
  board,  \* what is plugged in: product, version, channel, answers of the UART
  region, \* who has claimed the port's registers
  port,   \* struct uart_8250_port
  r,      \* the registers of the UART
  user,   \* what was asked last
  oops    \* the driver has used an address it failed to map

portVars == <<board, region, port, r, user, oops>>

-------------------------------------------------------------------------------
(* What may be asked and plugged in                                          *)

Terminal(baud, size, on) ==
  [baud |-> baud, brkint |-> "brkint" \in on, cmspar |-> "cmspar" \in on, cread |-> "cread" \in on,
   crtscts |-> "crtscts" \in on, cstopb |-> "cstopb" \in on, ignbrk |-> "ignbrk" \in on,
   ignpar |-> "ignpar" \in on, inpck |-> "inpck" \in on, parenb |-> "parenb" \in on,
   parodd |-> "parodd" \in on, size |-> size]

(* What the serial core sets up a terminal with: 9600 baud, 8 bits.           *)
Standard == Terminal(9600, 8, {"cread"})
ErrorSettings ==
  {Terminal(9600, 8, {"cread"} \cup e) : e \in SUBSET {"brkint", "ignbrk", "ignpar", "inpck"}}
DeafSettings == {Terminal(9600, 8, e) : e \in {{}, {"ignbrk", "ignpar"}}}
SpeedSettings ==
  {Terminal(b, 7, {"cread", "parenb"} \cup e) : b \in {50, 921600}, e \in SUBSET {"crtscts"}}
(* Space parity: CMSPAR without PARODD.                                       *)
SpaceSettings ==
  {Terminal(921600, 8, {"cmspar", "cread", "parenb"} \cup e) : e \in SUBSET {"cstopb"}}
Settings == {Standard} \cup ErrorSettings \cup DeafSettings \cup SpeedSettings \cup SpaceSettings

(* With 8 bits, two stop bits and space parity, LCR with DLAB is mode B: the  *)
(* divisor lands in the bank of FCTR, if the UART has it.                    *)
Misses(regs, t) == regs.banked /\ LcrOf(t) \cup {"DLAB"} = ModeB

(* The UARTs: none, each type without further tests, the one on the boards.   *)
AnswersOf(kind) ==
  [efr     |-> IF kind \in {"A", "A fixed", "B"} THEN kind ELSE "none",
   ier     |-> kind # "absent",
   iir     |-> CASE kind \in {"i8250", "i16450"} -> 0 [] kind = "unknown" -> 1
                 [] kind = "i16550" -> 2 [] OTHER -> 3,
   kind    |-> IF kind \in {"NS16550A", "i16750", "XScale", "U6_16550A"} THEN kind ELSE "i16550A",
   scratch |-> kind = "i16450"]

Blank == [caps |-> {}, ier |-> {}, ignoreMask |-> {}, lcr |-> {}, mapped |-> FALSE, mcr |-> {},
          mctrl |-> {}, open |-> FALSE, readMask |-> {}, stage |-> "absent", type |-> "unknown"]

PortInit ==
  /\ board \in [answers : {AnswersOf(k) : k \in Kinds}, channel : 0..1, product : Product,
                version : Versions]
  /\ region = "none"
  /\ port = Blank
  /\ r = [banked |-> board.answers.efr = "B", DLL |-> {}, DLM |-> {}, EFR |-> {}, FCR |-> {},
          FCTR |-> {}, IER |-> {}, LCR |-> {}, MCR |-> {}, RXTRG |-> {}, TXTRG |-> {}]
  /\ user = [break |-> FALSE, crossed |-> FALSE, gate |-> TRUE, got |-> FALSE,
             overwritten |-> FALSE, rs485 |-> FALSE, startups |-> 0, termios |-> Standard]
  /\ oops = FALSE

(* The states of the port, its registers and its claim that a call passes.   *)
State(p, regs, claim, bad) == [bad |-> bad, p |-> p, r |-> regs, region |-> claim]
Become(s) == port' = s.p /\ r' = s.r /\ region' = s.region /\ oops' = s.bad

-------------------------------------------------------------------------------
(* Probing                                                                   *)

cpscom_release_std_resource(s) ==
  [s EXCEPT !.p.mapped = FALSE, !.region = "none"]

(* autoconfig leaves LCR and MCR as it found them; a UART that does not take  *)
(* the interrupt bits keeps the type it had and loses its capabilities.      *)
Autoconfig(p, regs) ==
  LET type == autoconfig(board.answers, board.product, board.version, p.type)
      caps == uart_config[type].caps
      idle == [regs EXCEPT !.EFR = {}, !.FCR = {"ENABLE"}]
  IN CASE ~board.answers.ier -> [p |-> [p EXCEPT !.caps = {}], r |-> regs]
       [] type = "unknown"   -> [p |-> [p EXCEPT !.caps = {}, !.type = type], r |-> idle]
       [] OTHER -> [p |-> [p EXCEPT !.caps = caps, !.type = type],
                    r |-> [idle EXCEPT !.IER = Bits("UUE", "UUE" \in caps),
                                       !.FCR = IF "FIFO" \in caps THEN {} ELSE @]]

(* memory: which of the two ioremaps fails, if one does.                     *)
Memory == {"enough", "no registers", "no IVR"}

Granted(s, memory) == s.region = "none" /\ memory # "no registers"
cpscom_request_std_resource(s) == [s EXCEPT !.p.mapped = TRUE, !.region = "us"]
(* The interrupt vector is written even where its register was not mapped.    *)
cpscom_ivr_settings(s, memory) == [s EXCEPT !.bad = memory = "no IVR"]

cpscom_config_port_Keeps(s, memory) ==
  IF ~Granted(s, memory) THEN s
  ELSE LET claimed == cpscom_ivr_settings(cpscom_request_std_resource(s), memory)
           found   == Autoconfig(claimed.p, claimed.r)
       IN IF claimed.bad THEN claimed ELSE [claimed EXCEPT !.p = found.p, !.r = found.r]

cpscom_config_port(s, memory) ==
  IF ~Granted(s, memory) THEN s
  ELSE LET claimed == cpscom_ivr_settings(cpscom_request_std_resource(s), memory)
           found   == Autoconfig(claimed.p, claimed.r)
           probed  == [claimed EXCEPT !.p = found.p, !.r = found.r]
       IN IF claimed.bad THEN claimed
          ELSE IF found.p.type = "unknown" THEN cpscom_release_std_resource(probed)
          ELSE probed

-------------------------------------------------------------------------------
(* Loading the driver                                                        *)

(* uart_add_one_port powers a port that has a type off.                      *)
cpscom_set_sleep(caps, regs, asleep) ==
  LET bank(v) == IF "EFR" \in caps
                   THEN Out([regs EXCEPT !.LCR = ModeB], "FCR", v) ELSE regs
  IN IF "SLEEP" \notin caps THEN regs
     ELSE [bank({}) EXCEPT !.IER = Bits("SLEEP", asleep),
                           !.LCR = IF "EFR" \in caps THEN {} ELSE @]

uart_add_one_port(s) ==
  IF s.p.type = "unknown" THEN s
  ELSE [s EXCEPT !.r = cpscom_set_sleep(s.p.caps, [@ EXCEPT !.MCR = {}], TRUE)]

(* A line beyond the channels of the product is left out: it is -1.          *)
HasLine == board.channel < Channels(board.product)
cpscom_register_ports(fresh, memory) ==
  IF HasLine THEN uart_add_one_port(cpscom_config_port(fresh, memory)) ELSE fresh

(* Where platform_driver_register fails the module goes, and leaves the ports *)
(* and their claims behind.                                                  *)
cpscom_init ==
  /\ ~oops /\ port.stage = "absent"
  /\ \E stage \in {"registered", "abandoned"}, memory \in Memory :
       LET fresh == State([Blank EXCEPT !.stage = stage], r, region, FALSE)
       IN Become(cpscom_register_ports(fresh, memory))
  /\ UNCHANGED <<board, user>>

Registered == ~oops /\ port.stage = "registered" /\ HasLine

-------------------------------------------------------------------------------
(* Opening                                                                   *)

SetMctrl(p, regs, mctrl) ==
  [p |-> [p EXCEPT !.mctrl = mctrl],
   r |-> [regs EXCEPT !.MCR = cpscom_set_mctrl(mctrl) \cup p.mcr]]

cpscom_do_set_termios(p, regs, t) ==
  LET cval == LcrOf(t)
      fcr  == IF "FIFO" \in p.caps THEN FcrOf(p.type, t.baud) ELSE {}
      mcr  == IF "AFE" \in p.caps THEN Bits("AFE", t.crtscts) ELSE p.mcr
      ier  == (p.ier \ {"MSI"}) \cup Bits("MSI", t.crtscts) \cup (p.caps \cap {"UUE", "RTOIE"})
      efr  == IF "EFR" \in p.caps
                THEN Out([regs EXCEPT !.LCR = ModeB], "FCR", Bits("CTS", t.crtscts)) ELSE regs
      dl   == _serial_dl_write([efr EXCEPT !.IER = ier, !.LCR = cval \cup {"DLAB"}],
                               cpscom_get_divisor(t.baud))
      q    == [p EXCEPT !.ier = ier, !.ignoreMask = IgnoreMask(t), !.lcr = cval, !.mcr = mcr,
                        !.readMask = ReadMask(t)]
  IN SetMctrl(q, [dl EXCEPT !.FCR = fcr, !.LCR = cval], p.mctrl)

Level == Byte(64)
Triggers_Forgets(type, regs) ==
  IF type # "CPS16550A" THEN regs
  ELSE [regs EXCEPT !.FCTR = {UART_FCTR_TX}, !.LCR = {}, !.RXTRG = Level, !.TXTRG = Level]

(* The trigger levels: TRG is written once for each value of UART_FCTR_TX.    *)
Triggers(type, regs) ==
  IF type # "CPS16550A" THEN regs
  ELSE LET b    == [regs EXCEPT !.LCR = ModeB]
           fctr == In(b, "IER") \ {UART_FCTR_TX}
           rx   == Out(Out(b, "TX", Level), "IER", fctr)
           tx   == Out(Out(rx, "TX", Level), "IER", fctr \cup {UART_FCTR_TX})
       IN [tx EXCEPT !.LCR = {}]

(* cpscom_startup up to where it may be refused: nothing answers (ENODEV), or *)
(* the interrupt is not granted.                                             *)
Prepared(p, regs) ==
  LET caps == uart_config[p.type].caps
  IN [p |-> [p EXCEPT !.caps = caps, !.mcr = {}], r |-> cpscom_clear_fifos(caps, regs)]
Refused(p, regs, granted) ==
  LET s == Prepared(p, regs) IN IF granted THEN s ELSE [s EXCEPT !.r = Triggers(p.type, @)]

cpscom_startup(p, regs) ==
  LET s   == Prepared(p, regs)
      m   == SetMctrl(s.p, Triggers(p.type, s.r), (p.mctrl \cup {"OUT2"}) \ {"OUT1"})
      off == IF p.type = "CPS16550A" THEN [m.r EXCEPT !.LCR = {"WLEN0", "WLEN1"}]
             ELSE [m.r EXCEPT !.FCR = {"R_TRIG_10"}, !.LCR = {}]
  IN [p |-> [m.p EXCEPT !.ier = {"RLSI", "RDI"}], r |-> [off EXCEPT !.IER = {"RLSI", "RDI"}]]

(* uart_startup sets the port up as the terminal was last, and raises DTR and *)
(* RTS.                                                                      *)
uart_startup(s) ==
  LET up == cpscom_startup(s.p, s.r)
      t  == cpscom_do_set_termios(up.p, up.r, user.termios)
      m  == SetMctrl(t.p, t.r, t.p.mctrl \cup {"DTR", "RTS"})
  IN State([m.p EXCEPT !.open = TRUE], m.r, s.region, s.bad)

Started(u) == [u EXCEPT !.startups = IF @ = 2 THEN 2 ELSE @ + 1]

(* A divisor that misses overwrites FCTR and a trigger level.                 *)
TermiosDone(u) ==
  IF Misses(r, u.termios) THEN [u EXCEPT !.overwritten = TRUE, !.startups = 0] ELSE u

Awake == State(port, cpscom_set_sleep(port.caps, r, FALSE), region, oops)

OpenPort ==
  /\ Registered /\ ~port.open /\ port.type # "unknown"
  /\ Become(uart_startup(Awake))
  /\ user' = TermiosDone(Started([user EXCEPT !.crossed = FALSE, !.gate = TRUE]))
  /\ UNCHANGED board

OpenRefused ==
  /\ Registered /\ ~port.open /\ port.type # "unknown"
  /\ \E granted \in BOOLEAN :
       LET s == Refused(port, Awake.r, granted)
       IN /\ port' = s.p /\ r' = cpscom_set_sleep(s.p.caps, s.r, TRUE)
          /\ user' = IF granted THEN user ELSE Started(user)
  /\ UNCHANGED <<board, region, oops>>

-------------------------------------------------------------------------------
(* While it is open                                                          *)

InUse == Registered /\ port.open

SetTermios ==
  /\ InUse
  /\ \E t \in Settings :
       /\ LET s == cpscom_do_set_termios(port, r, t) IN port' = s.p /\ r' = s.r
       /\ user' = TermiosDone([user EXCEPT !.crossed = FALSE, !.termios = t])
  /\ UNCHANGED <<board, region, oops>>

cpscom_break_ctl(on) ==
  /\ InUse
  /\ LET lcr == (port.lcr \ {"SBC"}) \cup Bits("SBC", on)
     IN port' = [port EXCEPT !.lcr = lcr] /\ r' = [r EXCEPT !.LCR = lcr]
  /\ user' = [user EXCEPT !.break = on]
  /\ UNCHANGED <<board, region, oops>>

(* TIOCSRS485 and TIOCGRS485 go to the bank of FCTR.  On a UART without that  *)
(* bank they reach the high byte of the divisor.                             *)
Fctr == [r EXCEPT !.LCR = ModeB]
TIOCSRS485_StaysInBank(on) ==
  /\ InUse
  /\ LET fctr == (In(Fctr, "IER") \ {UART_FCTR_RS485}) \cup (IF on THEN {UART_FCTR_RS485} ELSE {})
     IN r' = [Out(Fctr, "IER", fctr) EXCEPT !.IER = port.ier]
  /\ user' = [user EXCEPT !.crossed = @ \/ ~r.banked, !.got = on,
                             !.overwritten = FALSE, !.rs485 = on]
  /\ UNCHANGED <<board, region, port, oops>>

TIOCSRS485(on) ==
  /\ InUse
  /\ LET fctr == (In(Fctr, "IER") \ {UART_FCTR_RS485}) \cup (IF on THEN {UART_FCTR_RS485} ELSE {})
     IN r' = [Out(Fctr, "IER", fctr) EXCEPT !.IER = port.ier, !.LCR = r.LCR]
  /\ user' = [user EXCEPT !.crossed = @ \/ ~r.banked, !.got = on,
                             !.overwritten = FALSE, !.rs485 = on]
  /\ UNCHANGED <<board, region, port, oops>>

TIOCGRS485 ==
  /\ InUse
  /\ user' = [user EXCEPT !.got = UART_FCTR_RS485 \in In(Fctr, "IER")]
  /\ UNCHANGED <<board, region, port, r, oops>>

(* TIOCMBIS and TIOCMBIC may move the line that gates the interrupt.         *)
SetModem(line, on) ==
  /\ InUse
  /\ LET s == SetMctrl(port, r, (port.mctrl \ {line}) \cup Bits(line, on))
     IN port' = s.p /\ r' = s.r
  /\ user' = [user EXCEPT !.gate = IF line = "OUT2" THEN on ELSE @]
  /\ UNCHANGED <<board, region, oops>>

-------------------------------------------------------------------------------
(* Closing, probing again, unloading                                         *)

cpscom_shutdown_LeavesGate(p, regs) ==
  LET m == SetMctrl([p EXCEPT !.ier = {}, !.open = FALSE], [regs EXCEPT !.IER = {}],
                    (p.mctrl \cup {"OUT1"}) \ {"DTR", "RTS"})
  IN [p |-> m.p, r |-> cpscom_clear_fifos(m.p.caps, [m.r EXCEPT !.LCR = @ \ {"SBC"}])]

(* uart_shutdown drops DTR and RTS first.                                    *)
cpscom_shutdown(p, regs) ==
  LET m == SetMctrl([p EXCEPT !.ier = {}, !.open = FALSE], [regs EXCEPT !.IER = {}],
                    (p.mctrl \cup {"OUT1"}) \ {"OUT2", "DTR", "RTS"})
  IN [p |-> m.p, r |-> cpscom_clear_fifos(m.p.caps, [m.r EXCEPT !.LCR = @ \ {"SBC"}])]

ClosePort ==
  /\ InUse
  /\ LET s == cpscom_shutdown(port, r)
     IN port' = s.p /\ r' = cpscom_set_sleep(s.p.caps, s.r, TRUE)
  /\ user' = [user EXCEPT !.break = FALSE]
  /\ UNCHANGED <<board, region, oops>>

(* uart_do_autoconfig (TIOCSERCONFIG): the port is shut down if it is in use, *)
(* let go, probed and started again.  A port without a type is not started,   *)
(* and one that kept its type without its registers is started all the same.  *)
Reprobe ==
  /\ Registered /\ (port.open \/ port.type = "unknown")
  /\ \E memory \in Memory :
       LET shut == IF port.open THEN cpscom_shutdown(port, r) ELSE [p |-> port, r |-> r]
           s    == State(shut.p, shut.r, region, FALSE)
           t    == cpscom_config_port(IF port.type = "unknown" THEN s
                                      ELSE cpscom_release_std_resource(s), memory)
       IN Become(IF t.bad \/ t.p.type = "unknown" THEN t
                 ELSE IF ~t.p.mapped THEN [t EXCEPT !.bad = TRUE]
                 ELSE uart_startup(t))
  /\ user' = LET u == [user EXCEPT !.break = FALSE, !.crossed = FALSE, !.gate = TRUE]
             IN IF port'.open THEN TermiosDone(Started(u)) ELSE u
  /\ UNCHANGED board

(* cpscom_remove: uart_remove_one_port releases a port that has a type, then  *)
(* every port is released (again), whoever has claimed its registers.        *)
cpscom_remove ==
  /\ ~oops /\ port.stage = "registered" /\ ~port.open
  /\ region' = IF HasLine THEN "none" ELSE region
  /\ port' = Blank
  /\ UNCHANGED <<board, r, user, oops>>

OtherClaims ==
  /\ ~oops /\ region = "none" /\ region' = "other"
  /\ UNCHANGED <<board, port, r, user, oops>>
OtherReleases ==
  /\ ~oops /\ region = "other" /\ region' = "none"
  /\ UNCHANGED <<board, port, r, user, oops>>

PortNext ==
  \/ cpscom_init \/ OpenPort \/ OpenRefused \/ SetTermios \/ TIOCGRS485
  \/ \E on \in BOOLEAN :
       cpscom_break_ctl(on) \/ TIOCSRS485(on) \/ \E line \in {"RTS", "OUT2"} : SetModem(line, on)
  \/ ClosePort \/ Reprobe \/ cpscom_remove \/ OtherClaims \/ OtherReleases

PortSpec == PortInit /\ [][PortNext]_portVars

-------------------------------------------------------------------------------
(* Properties                                                                *)

PortTypeOK ==
  /\ region \in {"none", "us", "other"} /\ oops \in BOOLEAN
  /\ port.type \in Type /\ port.stage \in {"absent", "registered", "abandoned"}
  /\ user.termios \in Settings

(* A port in use has the word and the speed last asked for, whatever was done *)
(* since to RS-485, break, the modem lines or the type; only a break that was  *)
(* asked for is on; the FIFO is on exactly where the driver loads more than    *)
(* one character at a time, slow ports interrupt for each character, and the  *)
(* FIFOs of a board raise their interrupts at 64.  Except that                *)
(* - a 16550A is loaded with 16 characters and its FIFO is off: its entry of   *)
(*   uart_config has no capabilities;                                        *)
(* - the level for sending waits for a second open, since FCTR selects it only *)
(*   then;                                                                   *)
(* - RS-485, asked of a UART without FCTR, changes its speed;                 *)
(* - a divisor that misses does not set the speed, and the trigger levels are  *)
(*   right again only after the next opens.                                  *)
SettingsHold ==
  port.open /\ ~oops =>
    /\ r.LCR \ {"SBC"} = LcrOf(user.termios)
    /\ "SBC" \in r.LCR => user.break
    /\ "ENABLE" \in r.FCR <=> uart_config[port.type].load > 1 /\ port.type # "i16550A"
    /\ "64BYTE" \in r.FCR <=> port.type = "i16750" /\ user.termios.baud >= 2400
    /\ user.termios.baud < 2400 => "R_TRIG_1" \notin r.FCR
    /\ port.type = "CPS16550A" =>
         (user.startups >= 1 => r.RXTRG = Level) /\ (user.startups = 2 => r.TXTRG = Level)
    /\ \/ user.crossed \/ Misses(r, user.termios)
       \/ LET q == cpscom_get_divisor(user.termios.baud)
          IN r.DLL = Byte(q % 256) /\ r.DLM = Byte(q \div 256)

(* RS-485 stays as last asked, through closing, another open, another probe   *)
(* and a reload of the driver, and TIOCGRS485 tells so.  Except where a        *)
(* divisor that missed has overwritten FCTR since.                            *)
Rs485Kept ==
  r.banked /\ ~user.overwritten =>
    /\ UART_FCTR_RS485 \in r.FCTR <=> user.rs485
    /\ user.got <=> user.rs485

(* A port interrupts only while it is open: OUT2 is what lets it, and stays   *)
(* down through probing and a refused open; while it is open OUT2 is up,      *)
(* unless a program took it down.                                            *)
InterruptGate ==
  ~oops =>
    /\ ~port.open => "OUT2" \notin r.MCR /\ r.IER \subseteq {"UUE", "SLEEP"} /\ "SBC" \notin r.LCR
    /\ port.open /\ user.gate => "OUT2" \in r.MCR

(* A registered port has its registers, claimed and mapped, exactly when a    *)
(* UART was found there.                                                     *)
ResourcesFollowType ==
  ~oops /\ port.stage = "registered" =>
    /\ port.type # "unknown" <=> region = "us"
    /\ port.mapped <=> region = "us"

(* What a terminal asks to be done with a character received with the errors  *)
(* lsr.  An overrun is reported apart, by a mark of its own, even where every   *)
(* character is dropped.                                                      *)
Asked(lsr, t) ==
  [char    |-> CASE ~t.cread -> "dropped"
                 [] t.cread /\ "BI" \in lsr ->
                      IF t.ignbrk THEN "dropped" ELSE IF t.brkint THEN "TTY_BREAK" ELSE "TTY_NORMAL"
                 [] OTHER ->
                      IF lsr \cap {"PE", "FE"} = {} \/ ~t.inpck THEN "TTY_NORMAL"
                      ELSE IF t.ignpar THEN "dropped"
                      ELSE IF "PE" \in lsr THEN "TTY_PARITY" ELSE "TTY_FRAME",
   overrun |-> "OE" \in lsr /\ ~(t.ignbrk /\ t.ignpar)]

(* Every combination of line errors is reported, dropped or passed as the     *)
(* terminal asked last.  Except that ignoring breaks needs BRKINT or PARMRK   *)
(* with IGNBRK: the bit is masked before it is ignored.                      *)
ErrorsAsAsked ==
  port.open =>
    \A lsr \in SUBSET {"OE", "PE", "FE", "BI"} :
      LET got == Flag(lsr, port.readMask, port.ignoreMask)
          t   == user.termios
      IN /\ got.overrun = Asked(lsr, t).overrun
         /\ \/ got.char = Asked(lsr, t).char
            \/ "BI" \in lsr /\ t.cread /\ t.ignbrk /\ ~t.brkint
===============================================================================
