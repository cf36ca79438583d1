--------------------------------- MODULE Sums ---------------------------------
(* What the properties of windows, averages and drop counters speak of.       *)
EXTENDS Integers, Sequences

(* The sum of a sequence.                                                     *)
Total(s) ==
  LET part[i \in 0..Len(s)] == IF i = 0 THEN 0 ELSE part[i - 1] + s[i]
  IN part[Len(s)]

===============================================================================
