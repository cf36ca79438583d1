------------------------------ MODULE FixedPoint ------------------------------
(***************************************************************************)
(* The integer arithmetic of util_math.c: C division truncates towards     *)
(* zero, and the framework rounds halves away from zero.                   *)
(***************************************************************************)
EXTENDS Integers

Magnitude(n) == IF n < 0 THEN -n ELSE n

(* The quotient of C.                                                        *)
Truncated(n, d) ==
  IF (n < 0) = (d < 0) THEN Magnitude(n) \div Magnitude(d)
                       ELSE -(Magnitude(n) \div Magnitude(d))

(* Mutant: the half of an odd divisor is rounded down.                       *)
ThresholdRoundedDown(d) == Magnitude(d) \div 2
RoundingThreshold(d) == (Magnitude(d) \div 2) + (Magnitude(d) % 2)

(* util_div_round_nearest_i64.                                               *)
DivRoundNearest(n, d) ==
  LET quotient  == Truncated(n, d)
      remainder == n - quotient * d
  IN IF remainder # 0 /\ Magnitude(remainder) >= RoundingThreshold(d)
     THEN IF (n < 0) # (d < 0) THEN quotient - 1 ELSE quotient + 1
     ELSE quotient

(* util_sat_i64_to_i32, with the limits of the type as parameters.           *)
Saturated(n, least, greatest) ==
  IF n > greatest THEN greatest ELSE IF n < least THEN least ELSE n

(* What rounding is for: r is as close to n / d as an integer can be, and of  *)
(* two as close the one further from zero.                                    *)
IsNearest(r, n, d) ==
  LET error == 2 * Magnitude(n - r * d) IN
  /\ error <= Magnitude(d)
  /\ error = Magnitude(d) => Magnitude(r * d) > Magnitude(n)
=============================================================================
