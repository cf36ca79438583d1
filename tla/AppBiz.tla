-------------------------------- MODULE AppBiz --------------------------------
(***************************************************************************)
(* The business application of func_app_biz.c: minimum, maximum, average   *)
(* and a high alarm with hysteresis, per sensor, over its last VALID       *)
(* readings.  A step is one event taken from the queue in the loop of      *)
(* func_app_biz_poll.                                                      *)
(***************************************************************************)
EXTENDS FixedPoint, Sums

CONSTANTS
  States,      \* sensors with a func_biz_sensor_state_t
  Ids,         \* sensors that send events
  Values,      \* readings
  Capacity,    \* window_capacity of each state
  AlarmOn, AlarmOff

ASSUME BizAssumption ==
  /\ States \subseteq Ids
  /\ Values \subseteq Int
  /\ Capacity \in [States -> Nat \ {0}]
  /\ AlarmOn \in Int /\ AlarmOff \in Int
  /\ AlarmOff <= AlarmOn        \* all func_biz_sensor_state_init asks for

VARIABLES
  window, windowNext, windowCount, sum,
  latest,      \* the result of each state
  hasLatest,
  \* observers
  recent,      \* the last Capacity VALID readings of each sensor, oldest first
  crossing     \* which alarm limit its readings crossed last

statistics == <<window, windowNext, windowCount, sum, latest, hasLatest>>
vars == <<statistics, recent, crossing>>

Half(count) == count \div 2
(* Mutant: the average is truncated.                                         *)
AverageTruncated(s, count) == Truncated(s, count)
Average(s, count) ==
  IF s < 0 THEN Truncated(s - Half(count), count) ELSE Truncated(s + Half(count), count)

Least(S)    == CHOOSE x \in S : \A y \in S : x <= y
Greatest(S) == CHOOSE x \in S : \A y \in S : y <= x

(* Mutant: no hysteresis, the alarm ends below the upper limit.              *)
AlarmAfterThreshold(alarm, value) == value >= AlarmOn
AlarmAfter(alarm, value) ==
  IF ~alarm /\ value >= AlarmOn THEN TRUE
  ELSE IF alarm /\ value <= AlarmOff THEN FALSE
  ELSE alarm

(* The part of the window func_app_biz_refresh reads.                        *)
Filled(id) == {window'[id][i] : i \in 0..windowCount'[id] - 1}

Refreshed(id, value) ==
  [minimum |-> Least(Filled(id)), maximum |-> Greatest(Filled(id)),
   average |-> Average(sum'[id], windowCount'[id]),
   sampleCount |-> windowCount'[id], quality |-> "VALID",
   alarm |-> AlarmAfter(latest[id].alarm, value)]

NextSlot(i, capacity) == (i + 1) % capacity
Full(id) == windowCount[id] = Capacity[id]

(* A reading enters the window in place of the oldest one.                   *)
HandleValid(id, value) ==
  /\ id \in States
  /\ windowCount' = [windowCount EXCEPT ![id] = IF Full(id) THEN @ ELSE @ + 1]
  /\ window' = [window EXCEPT ![id][windowNext[id]] = value]
  /\ sum' = [sum EXCEPT ![id] = @ + value - IF Full(id) THEN window[id][windowNext[id]] ELSE 0]
  /\ windowNext' = [windowNext EXCEPT ![id] = NextSlot(@, Capacity[id])]
  /\ latest' = [latest EXCEPT ![id] = Refreshed(id, value)]
  /\ hasLatest' = [hasLatest EXCEPT ![id] = TRUE]
  /\ recent' = [recent EXCEPT ![id] =
                  IF Len(@) = Capacity[id] THEN Append(Tail(@), value) ELSE Append(@, value)]
  /\ crossing' = [crossing EXCEPT ![id] =
                    IF value >= AlarmOn THEN "on" ELSE IF value <= AlarmOff THEN "off" ELSE @]

(* A STALE or ERROR event changes the quality and nothing else of the result. *)
HandleInvalid(id, quality) ==
  /\ id \in States
  /\ latest' = [latest EXCEPT ![id].quality = quality]
  /\ hasLatest' = [hasLatest EXCEPT ![id] = TRUE]
  /\ UNCHANGED <<window, windowNext, windowCount, sum, recent, crossing>>

HandleUnknown(id) ==
  /\ id \notin States
  /\ UNCHANGED vars

NoResult == [minimum |-> 0, maximum |-> 0, average |-> 0, sampleCount |-> 0,
             quality |-> "VALID", alarm |-> FALSE]

(* The window storage is the caller's and may hold anything; 0 stands for it. *)
Init ==
  /\ window = [id \in States |-> [i \in 0..Capacity[id] - 1 |-> 0]]
  /\ windowNext = [id \in States |-> 0] /\ windowCount = [id \in States |-> 0]
  /\ sum = [id \in States |-> 0]
  /\ latest = [id \in States |-> NoResult] /\ hasLatest = [id \in States |-> FALSE]
  /\ recent = [id \in States |-> <<>>]
  /\ crossing = [id \in States |-> "off"]

Next ==
  \E id \in Ids :
    \/ \E value \in Values : HandleValid(id, value)
    \/ \E quality \in {"STALE", "ERROR"} : HandleInvalid(id, quality)
    \/ HandleUnknown(id)

Spec == Init /\ [][Next]_vars

-----------------------------------------------------------------------------
(* Properties.                                                              *)

(* The result of a sensor is the minimum, the maximum and the rounded mean of *)
(* its own last VALID readings, as many as the window holds, whatever other   *)
(* sensors sent and however often the ring wrapped.                           *)
ResultOfWindow ==
  \A id \in States : recent[id] # <<>> =>
    LET readings == {recent[id][i] : i \in 1..Len(recent[id])} IN
    /\ latest[id].sampleCount = Len(recent[id])
    /\ latest[id].minimum = Least(readings) /\ latest[id].maximum = Greatest(readings)
    /\ IsNearest(latest[id].average, Total(recent[id]), Len(recent[id]))

(* The alarm is on exactly when the limit crossed last is the upper one:      *)
(* readings between the limits, STALE and ERROR events never change it.       *)
AlarmTracksCrossing ==
  AlarmOff < AlarmOn => \A id \in States : latest[id].alarm = (crossing[id] = "on")
=============================================================================
