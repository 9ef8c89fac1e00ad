------------------------------ MODULE SerialData ------------------------------
(***************************************************************************)
(* What driver/com/8250_cpscom.c computes: the type of a UART from what it   *)
(* answers, the sizes and capabilities of a type, register values from       *)
(* termios, the flag of a character received; and the register file of the   *)
(* UART, in which the LCR decides which register an offset reaches.          *)
(* A register is the set of the names of its bits.                          *)
(***************************************************************************)
EXTENDS Naturals, Sequences

-------------------------------------------------------------------------------
(* Types of UART                                                             *)

(* uart_config: capabilities, the trigger bits of the FCR, fifo_size,        *)
(* tx_loadsz.                                                                *)
Config(caps, fcr, fifo, load) == [caps |-> caps, fcr |-> fcr, fifo |-> fifo, load |-> load]
uart_config == [
  unknown    |-> Config({}, {}, 1, 1),
  i8250      |-> Config({}, {}, 1, 1),
  i16450     |-> Config({}, {}, 1, 1),
  i16550     |-> Config({}, {}, 1, 1),
  i16550A    |-> Config({}, {"ENABLE", "R_TRIG_1"}, 16, 16),
  CPS16550   |-> Config({"FIFO"}, {"ENABLE"}, 128, 128),
  CPS16550A  |-> Config({"FIFO"}, {"ENABLE"}, 128, 128),
  i16650     |-> Config({"FIFO", "EFR", "SLEEP"}, {}, 1, 1),
  i16750     |-> Config({"FIFO", "SLEEP", "AFE"}, {"ENABLE", "R_TRIG_1", "64BYTE"}, 64, 64),
  NS16550A   |-> Config({"FIFO", "NATSEMI"}, {"ENABLE", "R_TRIG_1"}, 16, 16),
  XScale     |-> Config({"FIFO", "UUE", "RTOIE"}, {"ENABLE", "R_TRIG_1"}, 32, 32),
  U6_16550A  |-> Config({"FIFO", "AFE"}, {"ENABLE", "R_TRIG_1"}, 64, 64)]
Type == DOMAIN uart_config

(* Channels of a product; a product of another category has none.            *)
Channels(product) ==
  IF product \in {"COM2PC", "COM2PD"} THEN 2
  ELSE IF product \in {"COM1PC", "COM1PD", "COM1QL"} THEN 1 ELSE 0

(* The products whose first FPGA has no trigger levels in the EFR bank.      *)
OldFpga(product, version) == product \in {"COM2PC", "COM2PD", "COM1PC"} /\ version < 2

autoconfig_16550a(a, product, version) ==
  CASE a.efr = "A"       -> "i16650"
    [] a.efr = "A fixed" -> "i16550A"
    [] a.efr = "B"       -> IF OldFpga(product, version) THEN "CPS16550" ELSE "CPS16550A"
    [] OTHER             -> a.kind

autoconfig_8250(a) == IF a.scratch THEN "i16450" ELSE "i8250"

autoconfig(a, product, version, old) ==
  IF ~a.ier THEN old
  ELSE CASE a.iir = 0 -> autoconfig_8250(a)
         [] a.iir = 1 -> "unknown"
         [] a.iir = 2 -> "i16550"
         [] a.iir = 3 -> autoconfig_16550a(a, product, version)

-------------------------------------------------------------------------------
(* Register values from termios                                              *)

Bits(name, on) == IF on THEN {name} ELSE {}
WordLength(size) == Bits("WLEN0", size \in {6, 8}) \cup Bits("WLEN1", size \in {7, 8})

LcrOf(t) ==
  WordLength(t.size) \cup Bits("STOP", t.cstopb) \cup Bits("PARITY", t.parenb)
    \cup Bits("EPAR", ~t.parodd) \cup Bits("SPAR", t.cmspar)

FcrOf(type, baud) ==
  LET c == uart_config[type] IN
  IF "FIFO" \in c.caps /\ c.fifo > 1
    THEN IF baud < 2400 THEN {"ENABLE"} ELSE c.fcr
    ELSE {}

(* uart_get_divisor rounds to the nearest.                                   *)
uartclk == 14745600
cpscom_get_divisor(baud) == (uartclk + 8 * baud) \div (16 * baud)

ReadMask_ForgetsParity(t) ==
  {"DR", "OE"} \cup (IF t.inpck THEN {"FE"} ELSE {}) \cup Bits("BI", t.brkint)

(* What receive_chars makes of a character with the errors lsr, a break has    *)
(* no other error, and what uart_insert_char puts in the buffer: the          *)
(* character, unless it is "dropped", and a mark for an overrun.             *)
Flag(lsr, read, ignore) ==
  LET seen == ((IF "BI" \in lsr THEN lsr \ {"FE", "PE"} ELSE lsr) \cup {"DR"}) \cap read
  IN [char    |-> IF (seen \cap ignore) \ {"OE"} # {} THEN "dropped"
                  ELSE IF "BI" \in seen THEN "TTY_BREAK"
                  ELSE IF "PE" \in seen THEN "TTY_PARITY"
                  ELSE IF "FE" \in seen THEN "TTY_FRAME" ELSE "TTY_NORMAL",
      overrun |-> "OE" \in seen \ ignore]

(* The errors a reader is told of; those whose characters are dropped, and    *)
(* with CREAD clear every character.                                         *)
ReadMask(t) ==
  {"DR", "OE"} \cup (IF t.inpck THEN {"FE", "PE"} ELSE {}) \cup Bits("BI", t.brkint)
IgnoreMask(t) ==
  (IF t.ignpar THEN {"PE", "FE"} ELSE {}) \cup Bits("BI", t.ignbrk)
    \cup Bits("OE", t.ignbrk /\ t.ignpar) \cup Bits("DR", ~t.cread)

cpscom_set_mctrl(mctrl) == mctrl \cap {"RTS", "DTR", "OUT1", "OUT2", "LOOP"}

-------------------------------------------------------------------------------
(* The register file.  TX, IER, FCR, LCR and MCR are the offsets of the       *)
(* normal registers; behind three of them the LCR may show others: the        *)
(* divisor, and in mode B, if the UART has that bank, FCTR, EFR and the       *)
(* trigger levels.                                                           *)

ModeB == {"DLAB", "SPAR", "EPAR", "PARITY", "STOP", "WLEN0", "WLEN1"}

Behind(r, offset) ==
  LET b == r.banked /\ r.LCR = ModeB IN
  CASE offset = "TX"  -> IF b THEN "TRG" ELSE IF "DLAB" \in r.LCR THEN "DLL" ELSE "TX"
    [] offset = "IER" -> IF b THEN "FCTR" ELSE IF "DLAB" \in r.LCR THEN "DLM" ELSE "IER"
    [] offset = "FCR" -> IF b THEN "EFR" ELSE "FCR"
    [] OTHER          -> offset

(* The bits of FCTR and of the divisor are their numbers.  Two trigger levels *)
(* are behind TRG: UART_FCTR_TX selects the one that is written.             *)
UART_FCTR_RS485 == 3
UART_FCTR_TX == 7
Out(r, offset, value) ==
  LET reg == Behind(r, offset) IN
  IF reg = "TRG"
    THEN [r EXCEPT ![IF UART_FCTR_TX \in r.FCTR THEN "TXTRG" ELSE "RXTRG"] = value]
  ELSE IF reg = "TX" THEN r
  ELSE [r EXCEPT ![reg] = value]
In(r, offset) == r[Behind(r, offset)]

cpscom_clear_fifos(caps, r) == IF "FIFO" \in caps THEN Out(r, "FCR", {}) ELSE r

Byte(n) == {i \in 0..7 : (n \div 2^i) % 2 = 1}
_serial_dl_write(r, quot) ==
  Out(Out(r, "TX", Byte(quot % 256)), "IER", Byte((quot \div 256) % 256))
===============================================================================
