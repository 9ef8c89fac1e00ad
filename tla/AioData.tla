------------------------------- MODULE AioData -------------------------------
(***************************************************************************)
(* The number formats of the analog driver and its library, on naturals:   *)
(* the scaling of an output word for the DAC161S055, the code an output     *)
(* current is turned into, and the word the correction bytes share.        *)
(***************************************************************************)
EXTENDS Integers

Word == {n \in Nat : n < 65536}
Byte == 0..255

\* ceil(1953 * dat / 500000): 0.996094 is 1 - 1953/500000.
Reduction(dat) == (1953 * dat + 499999) \div 500000

\* dat * 0.996094 + 256, rounded to the nearest integer.
calc_DAC161S055(dat) ==
  LET tmpDat == dat + 256 - Reduction(dat)
      rest == 500000 * Reduction(dat) - 1953 * dat
  IN  IF rest > 250000 THEN tmpDat + 1 ELSE tmpDat

\* The code of an output current: microampere of the range 0..20 mA to the
\* 2^16 codes.  The driver keeps 16 bits of what the library computes.
CodeOf(current) == ((current * 4096) \div 1250) % 65536

\* The correction word of gain and offset, and its two bytes.
Correction(gain, offset) == 256 * gain + offset
GainOf(word) == (word \div 256) % 256
OffsetOf(word) == word % 256
=============================================================================
