----------------------------- MODULE FilterChain -----------------------------
(***************************************************************************)
(* A chain of filters (func_filter.c) fed one value per call; a step is    *)
(* one stage, whose output is the input of the next.  Configurations are   *)
(* valid, so that no stage refuses.                                        *)
(***************************************************************************)
EXTENDS Filters, Sums

CONSTANTS
  Chain,   \* the stages, in order
  Values   \* what the chain is fed

Stages == 1..Len(Chain)
Limits == {i \in Stages : Chain[i].kind = "limit"}
Emas   == {i \in Stages : Chain[i].kind = "ema"}
Windows == {i \in Stages : Chain[i].kind \in {"ma", "median"}}

IntType == LeastInt..GreatestInt
StageTypes ==
  [kind : {"limit"}, min : IntType, max : IntType, change : Nat]
    \cup [kind : {"ema"}, alpha : 1..Q15One]
    \cup [kind : {"ma", "median"}, window : Nat \ {0}]

ASSUME ChainAssumption ==
  /\ LeastInt \in Int /\ GreatestInt \in Int
  /\ Chain \in Seq(StageTypes)
  /\ Chain # <<>>   \* an empty chain hands its input on
  /\ \A i \in Limits : Chain[i].min <= Chain[i].max
  /\ Values \subseteq IntType

VARIABLES
  state,     \* of every stage
  at,        \* the stage process comes to next, 0 outside of it
  signal,    \* what the stage before handed on; the result of the last call
  \* observers, of every stage since the last reset
  fed,       \* its last inputs, as many as its window holds (one without window)
  output,    \* its last output
  range      \* least and greatest of its inputs

vars == <<state, at, signal, fed, output, range>>

Window(i) == IF i \in Windows THEN Chain[i].window ELSE 1
Started(i) == fed[i] # <<>>

Process(input) ==
  /\ at = 0
  /\ at' = 1
  /\ signal' = input
  /\ UNCHANGED <<state, fed, output, range>>

ProcessStage(i) ==
  LET s == After(Chain[i], state[i], signal) IN
  /\ at = i
  /\ at' = IF i = Len(Chain) THEN 0 ELSE i + 1
  /\ state' = [state EXCEPT ![i] = s]
  /\ signal' = Output(Chain[i], s)
  /\ output' = [output EXCEPT ![i] = Output(Chain[i], s)]
  /\ fed' = [fed EXCEPT ![i] =
               IF Len(@) = Window(i) THEN Append(Tail(@), signal) ELSE Append(@, signal)]
  /\ range' = [range EXCEPT ![i] =
                 IF Started(i)
                 THEN [low  |-> IF signal < @.low THEN signal ELSE @.low,
                       high |-> IF signal > @.high THEN signal ELSE @.high]
                 ELSE [low |-> signal, high |-> signal]]

Fresh == [i \in Stages |-> StageInit(Chain[i])]
NothingFed == [i \in Stages |-> <<>>]
Zeros == [i \in Stages |-> 0]
NoRange == [i \in Stages |-> [low |-> 0, high |-> 0]]

(* func_filter_chain_reset, and func_filter_chain_init on a live chain.       *)
Reset ==
  /\ at = 0
  /\ state' = Fresh
  /\ fed' = NothingFed /\ output' = Zeros /\ range' = NoRange
  /\ UNCHANGED <<at, signal>>

Init ==
  /\ state = Fresh
  /\ at = 0 /\ signal = 0
  /\ fed = NothingFed /\ output = Zeros /\ range = NoRange

Next ==
  \/ \E input \in Values : Process(input)
  \/ \E i \in Stages : ProcessStage(i)
  \/ Reset

Spec == Init /\ [][Next]_vars

-----------------------------------------------------------------------------
(* Properties.                                                              *)

(* r is a median of s: as many values are on either side of it; of an even    *)
(* number it is the rounded mean of the two middle ones.                      *)
IsMiddle(x, s, k) ==
  /\ \E i \in DOMAIN s : s[i] = x
  /\ Cardinality({i \in DOMAIN s : s[i] < x}) < k
  /\ Cardinality({i \in DOMAIN s : s[i] <= x}) >= k
IsMedian(r, s) ==
  LET n == Len(s) IN
  IF n % 2 = 1 THEN IsMiddle(r, s, (n + 1) \div 2)
  ELSE \E i, j \in DOMAIN s : /\ IsMiddle(s[i], s, n \div 2)
                              /\ IsMiddle(s[j], s, n \div 2 + 1)
                              /\ IsNearest(r, s[i] + s[j], 2)

(* However often the rings wrapped and the chain was reset, moving average    *)
(* and median are those of exactly the last inputs of the stage.              *)
WindowOutputs ==
  \A i \in Windows : Started(i) =>
    IF Chain[i].kind = "ma"
    THEN IsNearest(output[i], Total(fed[i]), Len(fed[i]))
    ELSE IsMedian(output[i], fed[i])

(* A limit keeps both promises at once: the output is within the limits, and  *)
(* no further from the one before than the largest change.                   *)
LimitRespected ==
  [][\A i \in Limits : Started(i)' =>
       /\ output'[i] \in Chain[i].min..Chain[i].max
       /\ Started(i) => Magnitude(output'[i] - output[i]) <= Chain[i].change]_vars

(* A smoothing stage (a window or an average, not a limit, whose clamp may)   *)
(* never leaves the range of what it was fed since the reset; in particular   *)
(* nothing remains of what came before.                                      *)
HullKept ==
  \A i \in Windows \cup Emas : Started(i) => output[i] \in range[i].low..range[i].high

(* The average moves towards its input without overshoot, and stands still    *)
(* only when the step would be less than half a unit.                         *)
EmaApproaches ==
  [][\A i \in Emas : at = i /\ Started(i) =>
       LET input  == signal
           before == input - output[i]
           after  == input - output'[i]
       IN
       /\ Magnitude(after) <= Magnitude(before)
       /\ before * after >= 0
       /\ output'[i] = output[i] <=> 2 * Chain[i].alpha * Magnitude(before) < Q15One]_vars
=============================================================================
