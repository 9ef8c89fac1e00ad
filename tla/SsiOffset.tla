------------------------------ MODULE SsiOffset ------------------------------
(***************************************************************************)
(* Numbers of the CPS-SSI-4P: a measured temperature is a 24-bit register  *)
(* with a sign, an offset is a byte with a sign whose unit is 32 units of  *)
(* the register.  The words keep their width, as in driver/ssi/cpsssi.c    *)
(* and lib/ssi/libcpsssi.c.                                                *)
(***************************************************************************)
EXTENDS Integers

Byte == 0..255
Register == {n \in Nat : n < 16777216}   \* 24 bits

\* A double scaled by 32 and converted to unsigned char, n its integral part.
double2uchar(n) ==
  IF n >= 0 THEN n % 256 ELSE ((255 - ((-n) % 256)) + 1) % 256

uchar2double(b) == IF b >= 128 THEN -(128 - (b % 128)) ELSE b % 128

\* The register corrected by an offset; both wrap at 24 bits.
addsub(reg, b) ==
  IF b >= 128
  THEN (reg - (128 - (b % 128)) * 32) % 16777216
  ELSE (reg + (b % 128) * 32) % 16777216

\* The number a register stands for.
Temperature(reg) == (reg % 8388608) - (IF reg >= 8388608 THEN 8388608 ELSE 0)

InRange(n) == -8388608 <= n /\ n < 8388608

\* Both offsets of a channel share a word of the ROM.
PackOffsets(w3, w4) == w3 * 256 + w4
UnpackOffsets(word) == [w3 |-> (word \div 256) % 256, w4 |-> word % 256]
===============================================================================
