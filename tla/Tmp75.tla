-------------------------------- MODULE Tmp75 --------------------------------
(***************************************************************************)
(* The temperature register of a TMP75 (proto_temp_tmp75.c): two bytes,    *)
(* most significant first (util_byte.c), of which the upper twelve bits    *)
(* count sixteenths of a degree in two's complement.                       *)
(***************************************************************************)
EXTENDS FixedPoint, Sequences

Byte == 0..255

(* util_be16_read.                                                           *)
Be16(bytes) == 256 * bytes[1] + bytes[2]

(* Mutant: the sign bit is taken for a digit.                                *)
SignedCodeUnsigned(word) == word \div 16
SignedCode(word) ==
  LET code == word \div 16 IN IF code >= 2048 THEN code - 4096 ELSE code

(* proto_temp_tmp75_decode_mdeg_c.                                           *)
Decoded(bytes) == DivRoundNearest(SignedCode(Be16(bytes)) * 625, 10)

-----------------------------------------------------------------------------
(* What the register means: a 16-bit two's complement number of 256ths of a   *)
(* degree, of which the fraction below a sixteenth is not measured.           *)
Sixteenths(bytes) ==
  (256 * (IF bytes[1] < 128 THEN bytes[1] ELSE bytes[1] - 256) + bytes[2]) \div 16

(* r is the temperature in the register, to the nearest millidegree.          *)
IsTemperature(r, bytes) == IsNearest(r, 1000 * Sixteenths(bytes), 16)
=============================================================================
