------------------------------- MODULE Filters -------------------------------
(***************************************************************************)
(* The filters of func/filter as operators.  A stage of a chain is a       *)
(* record with its kind and configuration; After is the state in which     *)
(* process leaves the stage, Output the value it hands on from there.      *)
(***************************************************************************)
EXTENDS FixedPoint, Sequences, FiniteSetsExt

CONSTANTS
  LeastInt, GreatestInt   \* INT32_MIN and INT32_MAX

Q15One == 32768           \* FUNC_FILTER_EMA_Q15_ONE

(* Limit: clamp, then bound the change against the output before.            *)
Clamped(stage, input) ==
  IF input < stage.min THEN stage.min ELSE IF input > stage.max THEN stage.max ELSE input

Slewed(stage, previous, value) ==
  IF value > previous + stage.change THEN previous + stage.change
  ELSE IF value < previous - stage.change THEN previous - stage.change
  ELSE value

LimitInit == [previous |-> 0, started |-> FALSE]
(* Mutant: the largest change is not looked at.                              *)
LimitAfterClampsOnly(stage, s, input) ==
  [previous |-> Clamped(stage, input), started |-> TRUE]
LimitAfter(stage, s, input) ==
  LET limited == Clamped(stage, input) IN
  [previous |-> IF s.started THEN Slewed(stage, s.previous, limited) ELSE limited,
   started  |-> TRUE]

-----------------------------------------------------------------------------
(* Exponential moving average, weight alpha / Q15One.                        *)

(* Mutant: the adjustment is truncated.                                      *)
AdjustmentTruncated(stage, value, input) == Truncated(stage.alpha * (input - value), Q15One)
Adjustment(stage, value, input) == DivRoundNearest(stage.alpha * (input - value), Q15One)

EmaInit == [value |-> 0, started |-> FALSE]
(* Mutant: the first value is averaged with zero.                            *)
EmaAfterFromZero(stage, s, input) ==
  [value |-> Saturated(s.value + Adjustment(stage, s.value, input), LeastInt, GreatestInt),
   started |-> TRUE]
EmaAfter(stage, s, input) ==
  [value |-> IF s.started
             THEN Saturated(s.value + Adjustment(stage, s.value, input), LeastInt, GreatestInt)
             ELSE input,
   started |-> TRUE]

-----------------------------------------------------------------------------
(* Windows: moving average and median keep the last samples in a ring.       *)

NextIndex(stage, i) == (i + 1) % stage.window

WindowFull(stage, s) == s.count = stage.window

MaInit(stage) == [samples |-> [i \in 0..stage.window - 1 |-> 0],
                  sum |-> 0, count |-> 0, next |-> 0]
(* Mutant: a full window adds without giving up the oldest sample.           *)
MaAfterAddsOnly(stage, s, input) ==
  [samples |-> [s.samples EXCEPT ![s.next] = input],
   sum     |-> s.sum + input,
   count   |-> IF WindowFull(stage, s) THEN s.count ELSE s.count + 1,
   next    |-> NextIndex(stage, s.next)]
MaAfter(stage, s, input) ==
  [samples |-> [s.samples EXCEPT ![s.next] = input],
   sum     |-> s.sum + input - IF WindowFull(stage, s) THEN s.samples[s.next] ELSE 0,
   count   |-> IF WindowFull(stage, s) THEN s.count ELSE s.count + 1,
   next    |-> NextIndex(stage, s.next)]
MaOutput(s) == DivRoundNearest(s.sum, s.count)

MedianInit(stage) == [samples |-> [i \in 0..stage.window - 1 |-> 0], count |-> 0, next |-> 0]
MedianAfter(stage, s, input) ==
  [samples |-> [s.samples EXCEPT ![s.next] = input],
   count   |-> IF s.count < stage.window THEN s.count + 1 ELSE s.count,
   next    |-> NextIndex(stage, s.next)]

(* The insertion sort: a key goes behind the last value that is not greater.  *)
Place(t, key) == Max({0} \cup {i \in DOMAIN t : t[i] <= key})
Inserted(t, key) ==
  [i \in 1..Len(t) + 1 |-> IF i <= Place(t, key) THEN t[i]
                           ELSE IF i = Place(t, key) + 1 THEN key ELSE t[i - 1]]
Sorted(s) ==
  LET sorted[n \in 0..Len(s)] == IF n = 0 THEN <<>> ELSE Inserted(sorted[n - 1], s[n])
  IN sorted[Len(s)]

(* An even number of samples has two middle ones.                            *)
MedianOutput(s) ==
  LET sorted == Sorted([i \in 1..s.count |-> s.samples[i - 1]])
      half   == s.count \div 2
  IN IF s.count % 2 = 1 THEN sorted[half + 1]
     ELSE DivRoundNearest(sorted[half] + sorted[half + 1], 2)

-----------------------------------------------------------------------------
StageInit(stage) ==
  CASE stage.kind = "limit"  -> LimitInit
    [] stage.kind = "ema"    -> EmaInit
    [] stage.kind = "ma"     -> MaInit(stage)
    [] stage.kind = "median" -> MedianInit(stage)

After(stage, s, input) ==
  CASE stage.kind = "limit"  -> LimitAfter(stage, s, input)
    [] stage.kind = "ema"    -> EmaAfter(stage, s, input)
    [] stage.kind = "ma"     -> MaAfter(stage, s, input)
    [] stage.kind = "median" -> MedianAfter(stage, s, input)

Output(stage, s) ==
  CASE stage.kind = "limit"  -> s.previous
    [] stage.kind = "ema"    -> s.value
    [] stage.kind = "ma"     -> MaOutput(s)
    [] stage.kind = "median" -> MedianOutput(s)
=============================================================================
