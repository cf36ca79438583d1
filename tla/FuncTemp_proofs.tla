--------------------------- MODULE FuncTemp_proofs ---------------------------
(* For every period, threshold, publish change and set of values: the       *)
(* events of the driver tell the quality and, up to the publish change, the *)
(* value of every sample, and both come in time.                            *)
EXTENDS FuncTemp, CommonLemmas

(* The counter is the number of failures until it saturates.                *)
ErrorsCount == errors = IF fails < ErrorsMax THEN fails ELSE ErrorsMax
ValidKept == (hasValid <=> good # NoValue) /\ (hasValid => good = lastValid)
(* What the driver remembers of its events is what it handed out.           *)
EventsKept ==
  /\ hasValidPublish => hasPublishedQuality
  /\ hasPublishedQuality => lastQuality = shown.quality
  /\ hasPublishedQuality /\ lastQuality = "VALID" =>
       hasValidPublish /\ shown.value = lastPublished
IInv == TypeOK /\ ErrorsCount /\ ValidKept /\ EventsKept /\ QualityTruthful /\ ValueClose

LEMMA ThresholdType == Threshold \in Nat \ {0} /\ Threshold <= ErrorsMax
  BY TempAssumption DEF Threshold

LEMMA ErrorsMaxType == ErrorsMax \in Nat
  BY TempAssumption

LEMMA StartTypes ==
  /\ 0 \in 0..ErrorsMax /\ 0 \in 0..MaxFails
  /\ NoEvent \in [quality : Qualities \cup {"none"}, value : Int]
<1>1. ErrorsMax \in Nat /\ MaxFails \in Nat
  BY TempAssumption
<1> QED
  BY <1>1 DEF NoEvent, Qualities

LEMMA ValuesAreInts == Values \subseteq Int /\ NoValue \notin Int
  BY TempAssumption

LEMMA DistanceType ==
  ASSUME NEW a \in Int, NEW b \in Int PROVE Distance(a, b) \in Nat
  BY DEF Distance

LEMMA MoreErrorsType ==
  ASSUME NEW n \in 0..ErrorsMax PROVE MoreErrors(n) \in 0..ErrorsMax
  BY TempAssumption DEF MoreErrors

LEMMA ClockType == ASSUME NEW t \in Int PROVE Clock(t) \in Int
  BY TempAssumption DEF Clock

(* Whatever the clock is at the start, the driver is typed and silent.      *)
LEMMA InitInv == Init => IInv
<1> SUFFICES ASSUME Init PROVE IInv
  OBVIOUS
<1>1. TypeOK
  <2>0. ClockMod - 1 \in Int
    BY TempAssumption
  <2>1. /\ now \in Int /\ lastSample \in Int /\ lastValid \in Int
        /\ lastPublished \in Int /\ lastValidPublish \in Int
    BY <2>0 DEF Init
  <2>2. errors \in 0..ErrorsMax /\ fails \in 0..MaxFails
    BY StartTypes DEF Init
  <2>3. shown \in [quality : Qualities \cup {"none"}, value : Int]
    BY StartTypes DEF Init
  <2>4. lastQuality \in Qualities
    BY DEF Init, Qualities
  <2>5. /\ configured \in BOOLEAN /\ initialized \in BOOLEAN
        /\ sampleStarted \in BOOLEAN /\ hasValid \in BOOLEAN
        /\ hasPublishedQuality \in BOOLEAN /\ hasValidPublish \in BOOLEAN
    BY DEF Init
  <2>6. /\ rest \in Nat /\ spacing \in Nat \cup {NoValue} /\ age \in Nat
        /\ good \in Int \cup {NoValue}
    BY DEF Init
  <2> QED
    BY <2>1, <2>2, <2>3, <2>4, <2>5, <2>6 DEF TypeOK
<1>2. ErrorsCount
  BY TempAssumption DEF Init, ErrorsCount
<1>3. ValidKept /\ EventsKept /\ QualityTruthful /\ ValueClose
  BY DEF Init, ValidKept, EventsKept, QualityTruthful, ValueClose
<1> QED
  BY <1>1, <1>2, <1>3 DEF IInv

LEMMA ClearedInv ==
  ASSUME TypeOK, Cleared, configured' \in BOOLEAN, initialized' \in BOOLEAN
  PROVE  IInv'
<1>1. TypeOK'
  <2>1. errors' \in 0..ErrorsMax
    BY StartTypes DEF Cleared
  <2>2. fails' \in 0..MaxFails
    BY StartTypes DEF Cleared
  <2>3. shown' \in [quality : Qualities \cup {"none"}, value : Int]
    BY StartTypes DEF Cleared
  <2>4. lastQuality' \in Qualities
    BY DEF Cleared, Qualities
  <2>5. /\ sampleStarted' \in BOOLEAN /\ hasValid' \in BOOLEAN
        /\ hasPublishedQuality' \in BOOLEAN /\ hasValidPublish' \in BOOLEAN
    BY DEF Cleared
  <2>6. /\ lastSample' \in Int /\ lastValid' \in Int /\ lastPublished' \in Int
        /\ lastValidPublish' \in Int /\ now' \in Int
    BY DEF Cleared, TypeOK
  <2>7. /\ rest' \in Nat /\ spacing' \in Nat \cup {NoValue} /\ age' \in Nat
        /\ good' \in Int \cup {NoValue}
    BY DEF Cleared
  <2> QED
    BY <2>1, <2>2, <2>3, <2>4, <2>5, <2>6, <2>7 DEF TypeOK
<1>2. ErrorsCount'
  BY ErrorsMaxType DEF Cleared, ErrorsCount
<1>3. ValidKept' /\ EventsKept' /\ QualityTruthful' /\ ValueClose'
  BY DEF Cleared, ValidKept, EventsKept, QualityTruthful, ValueClose
<1> QED
  BY <1>1, <1>2, <1>3 DEF IInv

(* A poll that takes no sample disturbs only the clocks.                     *)
LEMMA QuietInv ==
  ASSUME IInv, UNCHANGED <<configured, initialized, valid, errors, published, history,
                           sampleStarted>>,
         lastSample' \in Int, now' \in Int, rest' \in Nat,
         spacing' \in Nat \cup {NoValue}, age' \in Nat
  PROVE  IInv'
<1> USE DEF IInv, valid, published, history
<1>1. TypeOK'
  BY DEF TypeOK
<1>2. ErrorsCount' /\ ValidKept' /\ EventsKept'
  BY DEF ErrorsCount, ValidKept, EventsKept
<1>3. QualityTruthful' /\ ValueClose'
  BY DEF QualityTruthful, ValueClose, Verdict
<1> QED
  BY <1>1, <1>2, <1>3

LEMMA SampleTakenType ==
  ASSUME TypeOK, NEW d \in Nat, NEW t \in Int, SampleTaken(d, t)
  PROVE  /\ sampleStarted' = TRUE /\ lastSample' \in Int /\ rest' \in Nat
         /\ spacing' \in Nat \cup {NoValue}
  BY DEF SampleTaken, TypeOK

LEMMA FailInv ==
  ASSUME IInv, NEW d \in Nat, NEW t \in Int, now' \in Int,
         UNCHANGED <<configured, initialized>>, SampleFails(d, t)
  PROVE  IInv'
<1>1. /\ sampleStarted' = TRUE /\ lastSample' \in Int /\ rest' \in Nat
      /\ spacing' \in Nat \cup {NoValue}
  BY SampleTakenType DEF SampleFails, IInv
<1>2. errors' \in 0..ErrorsMax
  BY MoreErrorsType DEF SampleFails, IInv, TypeOK
<1>3. ErrorEvent.quality \in {"STALE", "ERROR"} /\ ErrorEvent.value \in Int
  BY DEF ErrorEvent, IInv, TypeOK
<1>4. fails' = fails + 1 /\ fails' \in 0..MaxFails /\ fails' # 0
  BY TempAssumption DEF SampleFails, IInv, TypeOK
<1>5. shown' = ErrorEvent /\ lastQuality' = ErrorEvent.quality /\ hasPublishedQuality' = TRUE
  BY DEF SampleFails
<1>6. shown' \in [quality : Qualities \cup {"none"}, value : Int]
  BY <1>3, <1>5 DEF ErrorEvent, Qualities
<1>7. TypeOK'
  <2>1. age' \in Nat
    BY DEF SampleFails, IInv, TypeOK
  <2>2. lastQuality' \in Qualities
    BY <1>3, <1>5 DEF Qualities
  <2> QED
    BY <1>1, <1>2, <1>4, <1>5, <1>6, <2>1, <2>2 DEF TypeOK, IInv, SampleFails, valid
<1>8. ErrorsCount'
  BY <1>4, TempAssumption DEF SampleFails, MoreErrors, ErrorsCount, IInv, TypeOK
<1>9. ValidKept'
  BY DEF SampleFails, valid, ValidKept, IInv
<1>10. EventsKept'
  BY <1>3, <1>5 DEF EventsKept
<1>11. errors' >= Threshold <=> fails' >= Threshold
  BY <1>8, <1>4, <1>2, ThresholdType, TempAssumption DEF ErrorsCount
<1>12. QualityTruthful'
  <2>1. good' = good /\ (hasValid <=> good # NoValue)
    BY DEF SampleFails, IInv, ValidKept
  <2> QED
    BY <1>4, <1>5, <1>11, <2>1 DEF QualityTruthful, Verdict, ErrorEvent
<1>13. ValueClose'
  <2>1. good' = good /\ (hasValid <=> good # NoValue) /\ (hasValid => good = lastValid)
    BY DEF SampleFails, IInv, ValidKept
  <2> QED
    BY <1>4, <1>5, <2>1 DEF ValueClose, ErrorEvent
<1> QED
  BY <1>7, <1>8, <1>9, <1>10, <1>12, <1>13 DEF IInv

LEMMA SuccessInv ==
  ASSUME IInv, NEW d \in Nat, NEW t \in Int, NEW v \in Values, now' \in Int,
         UNCHANGED <<configured, initialized>>, SampleSucceeds(v, d, t)
  PROVE  IInv'
<1>1. /\ sampleStarted' = TRUE /\ lastSample' \in Int /\ rest' \in Nat
      /\ spacing' \in Nat \cup {NoValue}
  BY SampleTakenType DEF SampleSucceeds, IInv
<1>2. v \in Int /\ v # NoValue
  BY ValuesAreInts
<1>3. errors' = 0 /\ hasValid' = TRUE /\ lastValid' = v /\ fails' = 0 /\ good' = v
  BY DEF SampleSucceeds
<1>4. ErrorsCount' /\ ValidKept'
  BY <1>2, <1>3, ErrorsMaxType DEF ErrorsCount, ValidKept
<1>5. CASE PublishDue(v, t)
  <2>1. /\ shown' = [quality |-> "VALID", value |-> v]
        /\ lastPublished' = v /\ lastValidPublish' = t /\ lastQuality' = "VALID"
        /\ hasValidPublish' = TRUE /\ hasPublishedQuality' = TRUE /\ age' = 0
    BY <1>5 DEF SampleSucceeds
  <2>2. TypeOK'
    BY <1>1, <1>2, <1>3, <2>1, TempAssumption DEF IInv, TypeOK, Qualities
  <2>3. EventsKept' /\ QualityTruthful' /\ ValueClose'
    BY <1>3, <2>1 DEF EventsKept, QualityTruthful, Verdict, ValueClose
  <2> QED
    BY <1>4, <2>2, <2>3 DEF IInv
<1>6. CASE ~PublishDue(v, t)
  <2>1. UNCHANGED <<published, shown>> /\ age' = age + d
    BY <1>6 DEF SampleSucceeds
  <2>2. hasPublishedQuality /\ lastQuality = "VALID" /\ Distance(v, lastPublished) < PublishChange
    <3>1. hasValidPublish /\ ~(Distance(v, lastPublished) >= PublishChange)
      BY <1>6 DEF PublishDue
    <3>2. hasPublishedQuality
      BY <3>1 DEF IInv, EventsKept
    <3>3. lastQuality = "VALID"
      BY <1>6, <3>2 DEF PublishDue
    <3>4. Distance(v, lastPublished) \in Nat
      BY <1>2, DistanceType DEF IInv, TypeOK
    <3> QED
      BY <3>1, <3>2, <3>3, <3>4, TempAssumption
  <2>3. TypeOK'
    <3>1. age' \in Nat
      BY <2>1 DEF IInv, TypeOK
    <3> QED
      BY <1>1, <1>2, <1>3, <2>1, <3>1, TempAssumption DEF IInv, TypeOK, published
  <2>4. EventsKept'
    BY <2>1 DEF IInv, EventsKept, published
  <2>5. shown'.quality = "VALID" /\ shown'.value = lastPublished
    BY <2>1, <2>2 DEF IInv, EventsKept
  <2>6. QualityTruthful' /\ ValueClose'
    BY <1>3, <2>2, <2>5 DEF QualityTruthful, Verdict, ValueClose
  <2> QED
    BY <1>4, <2>3, <2>4, <2>6 DEF IInv
<1> QED
  BY <1>5, <1>6

LEMMA PollInv ==
  ASSUME IInv, NEW d \in Gaps, Poll(d) PROVE IInv'
<1> DEFINE t == Clock(now + d)
<1>1. d \in Nat
  BY TempAssumption
<1>2. now + d \in Int /\ TypeOK
  BY <1>1 DEF IInv, TypeOK
<1>3. t \in Int /\ now' = t /\ UNCHANGED <<configured, initialized>>
  BY <1>2, ClockType DEF Poll
<1> HIDE DEF t
<1>4. CASE PollInactive
  <2>1. lastSample' \in Int /\ rest' \in Nat /\ spacing' \in Nat \cup {NoValue} /\ age' \in Nat
    BY <1>2, <1>4 DEF PollInactive, sampling, elapsed, TypeOK
  <2> QED
    BY <1>3, <1>4, <2>1, QuietInv DEF PollInactive, sampling
<1>5. CASE PollTooSoon(d, t)
  <2>1. lastSample' \in Int /\ spacing' \in Nat \cup {NoValue}
    BY <1>2, <1>5 DEF PollTooSoon, sampling, TypeOK
  <2>2. rest' \in Nat /\ age' \in Nat
    BY <1>1, <1>2, <1>5 DEF PollTooSoon, TypeOK
  <2> QED
    BY <1>3, <1>5, <2>1, <2>2, QuietInv DEF PollTooSoon, sampling
<1>6. CASE SampleFails(d, t)
  BY <1>1, <1>3, <1>6, FailInv
<1>7. CASE \E v \in Values : SampleSucceeds(v, d, t)
  BY <1>1, <1>3, <1>7, SuccessInv
<1> QED
  BY <1>4, <1>5, <1>6, <1>7 DEF Poll, t

LEMMA StepInv == IInv /\ [Next]_vars => IInv'
<1> SUFFICES ASSUME IInv, [Next]_vars PROVE IInv'
  OBVIOUS
<1>0. TypeOK
  BY DEF IInv
<1>1. CASE Configure
  BY <1>0, <1>1, ClearedInv DEF Configure
<1>2. CASE DriverInit
  BY <1>0, <1>2, ClearedInv DEF DriverInit, TypeOK
<1>3. CASE Deinit
  BY <1>3 DEF Deinit, IInv, TypeOK, ErrorsCount, ValidKept, EventsKept, QualityTruthful,
     ValueClose, Verdict, sampling, valid, published, history, elapsed
<1>4. CASE \E d \in Gaps : Poll(d)
  BY <1>4, PollInv
<1>5. CASE UNCHANGED vars
  BY <1>5 DEF vars, IInv, TypeOK, ErrorsCount, ValidKept, EventsKept, QualityTruthful,
     ValueClose, Verdict, sampling, valid, published, history, elapsed
<1> QED
  BY <1>1, <1>2, <1>3, <1>4, <1>5 DEF Next

(* The driver is well typed, its error counter included.                     *)
THEOREM TypeCorrect == Spec => []TypeOK
<1>1. IInv => TypeOK
  BY DEF IInv
<1> QED
  BY InitInv, StepInv, <1>1, PTL DEF Spec

(* Every failed sample and every recovery is announced with its true quality *)
(* although most samples give no event (func_temp.c:151-175).                *)
THEOREM QualityCorrect == Spec => []QualityTruthful
<1>1. IInv => QualityTruthful
  BY DEF IInv
<1> QED
  BY InitInv, StepInv, <1>1, PTL DEF Spec

(* The value a consumer holds is the last good one, or within the publish     *)
(* change of it.                                                              *)
THEOREM ValueCorrect == Spec => []ValueClose
<1>1. IInv => ValueClose
  BY DEF IInv
<1> QED
  BY InitInv, StepInv, <1>1, PTL DEF Spec

-----------------------------------------------------------------------------
(* Time.  Between two polls that count, less than a turn of the clock passes, *)
(* so the wrapped differences are the times that really passed.               *)
TimeKept ==
  /\ sampleStarted => rest < SamplePeriod
  /\ initialized /\ sampleStarted => Elapsed(now, lastSample) = rest
  /\ spacing # NoValue => spacing >= SamplePeriod
  /\ hasValidPublish => sampleStarted
  /\ ForcePeriod # 0 /\ sampleStarted /\ fails = 0 => age < ForcePeriod + rest
  /\ initialized /\ hasValidPublish /\ ForcePeriod # 0 /\ fails = 0 =>
       Elapsed(now, lastValidPublish) = age

LEMMA TimeTypes ==
  /\ ClockMod \in Nat \ {0} /\ SamplePeriod \in Nat \ {0} /\ ForcePeriod \in Nat
  /\ \A d \in Gaps : d \in Nat /\ SamplePeriod + ForcePeriod + d <= ClockMod
  /\ NoValue \notin Int
  BY TempAssumption

LEMMA SameInstant == ASSUME NEW t \in Int PROVE Elapsed(t, t) = 0
  BY ElapsedNothing, TimeTypes DEF Elapsed

(* A poll sees how long ago the last sample was, and an event that no failure *)
(* followed.                                                                  *)
LEMMA RestSeen ==
  ASSUME TypeOK, TimeKept, initialized, sampleStarted, NEW d \in Gaps
  PROVE  Elapsed(Clock(now + d), lastSample) = rest + d
<1>1. /\ now \in Int /\ lastSample \in Int /\ rest \in Nat /\ d \in Nat
      /\ rest + d < ClockMod
  BY TimeTypes DEF TypeOK, TimeKept
<1>2. (now - lastSample) % ClockMod = rest
  BY DEF TimeKept, Elapsed
<1>3. ClockMod \in Nat \ {0}
  BY TimeTypes
<1>4. PICK t \in Int : t = (now + d) % ClockMod
  BY <1>1, <1>3
<1>5. /\ now - lastSample \in Int /\ now + d \in Int /\ t - lastSample \in Int
      /\ rest + d \in 0..ClockMod - 1
      /\ t - lastSample = ((now - lastSample) - rest) + (t - (now + d)) + (rest + d)
  BY <1>1, <1>3
<1>6. (t - lastSample) % ClockMod = rest + d
  BY <1>2, <1>3, <1>4, <1>5, ElapsedAdvances
<1> QED
  BY <1>4, <1>6 DEF Elapsed, Clock

LEMMA AgeSeen ==
  ASSUME TypeOK, TimeKept, initialized, hasValidPublish, ForcePeriod # 0, fails = 0,
         NEW d \in Gaps
  PROVE  Elapsed(Clock(now + d), lastValidPublish) = age + d
<1>1. /\ now \in Int /\ lastValidPublish \in Int /\ age \in Nat /\ d \in Nat
      /\ rest \in Nat /\ rest < SamplePeriod /\ age < ForcePeriod + rest
  BY TimeTypes DEF TypeOK, TimeKept
<1>2. age + d < ClockMod
  BY <1>1, TimeTypes
<1>3. (now - lastValidPublish) % ClockMod = age
  BY DEF TimeKept, Elapsed
<1>4. ClockMod \in Nat \ {0}
  BY TimeTypes
<1>5. PICK t \in Int : t = (now + d) % ClockMod
  BY <1>1, <1>4
<1>6. /\ now - lastValidPublish \in Int /\ now + d \in Int /\ t - lastValidPublish \in Int
      /\ age + d \in 0..ClockMod - 1
      /\ t - lastValidPublish =
           ((now - lastValidPublish) - age) + (t - (now + d)) + (age + d)
  BY <1>1, <1>2, <1>4
<1>7. (t - lastValidPublish) % ClockMod = age + d
  BY <1>3, <1>4, <1>5, <1>6, ElapsedAdvances
<1> QED
  BY <1>5, <1>7 DEF Elapsed, Clock

LEMMA ClearedTime == ASSUME Cleared PROVE TimeKept'
  BY DEF Cleared, TimeKept

LEMMA IdleTime ==
  ASSUME TimeKept, ~initialized', UNCHANGED <<sampling, spacing, rest, age, fails, published>>
  PROVE  TimeKept'
  BY DEF TimeKept, sampling, published

LEMMA TooSoonTime ==
  ASSUME TypeOK, TimeKept, initialized, NEW d \in Gaps, now' = Clock(now + d),
         PollTooSoon(d, Clock(now + d))
  PROVE  TimeKept'
<1>1. /\ sampleStarted /\ rest \in Nat /\ age \in Nat /\ d \in Nat
      /\ ~(Elapsed(Clock(now + d), lastSample) >= SamplePeriod)
      /\ rest' = rest + d /\ age' = IF hasValidPublish THEN age + d ELSE 0
      /\ UNCHANGED <<sampling, published, fails, spacing>>
  BY TimeTypes DEF PollTooSoon, SampleDue, TypeOK, history
<1>2. Elapsed(Clock(now + d), lastSample) = rest + d
  BY <1>1, RestSeen
<1>3. rest + d < SamplePeriod
  BY <1>1, <1>2, TimeTypes
<1>4. hasValidPublish /\ ForcePeriod # 0 /\ fails = 0 =>
        Elapsed(Clock(now + d), lastValidPublish) = age + d
  BY AgeSeen
<1>5. ForcePeriod # 0 /\ fails = 0 => age' < ForcePeriod + rest'
  <2>1. ForcePeriod # 0 /\ fails = 0 => age < ForcePeriod + rest
    BY <1>1 DEF TimeKept
  <2>2. CASE hasValidPublish
    BY <1>1, <2>1, <2>2, TimeTypes
  <2>3. CASE ~hasValidPublish
    BY <1>1, <2>3, TimeTypes
  <2> QED
    BY <2>2, <2>3
<1>6. /\ sampleStarted' = sampleStarted /\ lastSample' = lastSample
      /\ hasValidPublish' = hasValidPublish /\ lastValidPublish' = lastValidPublish
      /\ fails' = fails /\ spacing' = spacing
  BY <1>1 DEF sampling, published
<1>7. Elapsed(now, lastSample)' = rest'
  BY <1>1, <1>2, <1>6 DEF Elapsed
<1>8. hasValidPublish /\ ForcePeriod # 0 /\ fails = 0 =>
        Elapsed(now, lastValidPublish)' = age'
  BY <1>1, <1>4, <1>6 DEF Elapsed
<1> QED
  BY <1>1, <1>3, <1>5, <1>6, <1>7, <1>8 DEF TimeKept

(* A sample is taken a period or more after the last one.                     *)
LEMMA SpacingKept ==
  ASSUME TypeOK, TimeKept, initialized, NEW d \in Gaps, now' = Clock(now + d),
         SampleDue(now'), SampleTaken(d, now')
  PROVE  /\ sampleStarted' /\ rest' = 0 /\ rest' < SamplePeriod
         /\ Elapsed(now, lastSample)' = 0
         /\ spacing' # NoValue => spacing' >= SamplePeriod
<1>1. now' \in Int /\ now + d \in Int
  BY TimeTypes DEF TypeOK, Clock
<1>2. sampleStarted' /\ rest' = 0 /\ lastSample' = now'
  BY DEF SampleTaken
<1>3. Elapsed(now', now') = 0
  BY <1>1, SameInstant
<1>4. Elapsed(now, lastSample)' = 0
  BY <1>2, <1>3 DEF Elapsed
<1>5. CASE sampleStarted
  <2>1. Elapsed(Clock(now + d), lastSample) = rest + d
    BY <1>5, RestSeen
  <2>2. spacing' = rest + d /\ rest + d >= SamplePeriod
    BY <1>5, <2>1 DEF SampleTaken, SampleDue
  <2> QED
    BY <1>2, <1>4, <2>2, TimeTypes
<1>6. CASE ~sampleStarted
  BY <1>2, <1>4, <1>6, TimeTypes DEF SampleTaken
<1> QED
  BY <1>5, <1>6

LEMMA FailsTime ==
  ASSUME TypeOK, TimeKept, initialized, NEW d \in Gaps, now' = Clock(now + d),
         SampleFails(d, now')
  PROVE  TimeKept'
<1>1. fails' # 0
  BY DEF SampleFails, TypeOK
<1>2. /\ sampleStarted' /\ rest' = 0 /\ rest' < SamplePeriod
      /\ Elapsed(now, lastSample)' = 0
      /\ spacing' # NoValue => spacing' >= SamplePeriod
  BY SpacingKept DEF SampleFails
<1> QED
  BY <1>1, <1>2 DEF TimeKept

(* A good sample that gives no event finds one younger than the force period. *)
LEMMA SucceedsTime ==
  ASSUME IInv, TimeKept, initialized, NEW d \in Gaps, now' = Clock(now + d),
         NEW v \in Values, SampleSucceeds(v, d, now')
  PROVE  TimeKept'
<1>1. /\ sampleStarted' /\ rest' = 0 /\ rest' < SamplePeriod
      /\ Elapsed(now, lastSample)' = 0
      /\ spacing' # NoValue => spacing' >= SamplePeriod
  BY SpacingKept DEF SampleSucceeds, IInv
<1>2. now' \in Int /\ now + d \in Int
  BY TimeTypes DEF IInv, TypeOK, Clock
<1>3. CASE age' = 0 /\ lastValidPublish' = now'
  <2>1. Elapsed(now', now') = 0
    BY <1>2, SameInstant
  <2>2. Elapsed(now, lastValidPublish)' = age'
    BY <1>3, <2>1 DEF Elapsed
  <2>3. ForcePeriod # 0 => age' < ForcePeriod + rest'
    BY <1>1, <1>3, TimeTypes
  <2> QED
    BY <1>1, <2>2, <2>3 DEF TimeKept
<1>4. CASE ~PublishDue(v, now') /\ age' = age + d /\ UNCHANGED <<published, shown>>
  <2>1. /\ hasValidPublish /\ (hasPublishedQuality => lastQuality = "VALID")
        /\ ForcePeriod # 0 => ~(Elapsed(now', lastValidPublish) >= ForcePeriod)
    BY <1>4 DEF PublishDue
  <2>2. shown.quality = "VALID"
    BY <2>1 DEF IInv, EventsKept
  <2>3. sampleStarted /\ fails = 0
    BY <2>1, <2>2 DEF TimeKept, IInv, QualityTruthful, Verdict
  <2>4. ForcePeriod # 0 => Elapsed(now', lastValidPublish) = age + d
    BY <2>1, <2>3, AgeSeen DEF IInv
  <2>5. age + d \in Nat
    BY TimeTypes DEF IInv, TypeOK
  <2>6. ForcePeriod # 0 => age' < ForcePeriod + rest'
    BY <1>1, <1>4, <2>1, <2>4, <2>5, TimeTypes
  <2>7. ForcePeriod # 0 => Elapsed(now, lastValidPublish)' = age'
    BY <1>4, <2>4 DEF published, Elapsed
  <2> QED
    BY <1>1, <2>6, <2>7 DEF TimeKept
<1> QED
  BY <1>3, <1>4 DEF SampleSucceeds

LEMMA TimeStep == IInv /\ TimeKept /\ [Next]_vars => TimeKept'
<1> SUFFICES ASSUME IInv, TimeKept, [Next]_vars PROVE TimeKept'
  OBVIOUS
<1>1. TypeOK
  BY DEF IInv
<1>2. CASE Configure \/ DriverInit
  BY <1>2, ClearedTime DEF Configure, DriverInit
<1>3. CASE Deinit
  BY <1>3, IdleTime DEF Deinit, elapsed, history
<1>4. ASSUME NEW d \in Gaps, Poll(d) PROVE TimeKept'
  <2>1. now' = Clock(now + d) /\ initialized' = initialized
    BY <1>4 DEF Poll
  <2>2. CASE PollInactive
    BY <2>1, <2>2, IdleTime DEF PollInactive, elapsed, history
  <2>3. CASE initialized /\ PollTooSoon(d, now')
    BY <1>1, <2>1, <2>3, TooSoonTime
  <2>4. CASE initialized /\ SampleFails(d, now')
    BY <1>1, <2>1, <2>4, FailsTime
  <2>5. CASE initialized /\ \E v \in Values : SampleSucceeds(v, d, now')
    BY <2>1, <2>5, SucceedsTime
  <2> QED
    BY <1>4, <2>1, <2>2, <2>3, <2>4, <2>5 DEF Poll
<1>5. CASE UNCHANGED vars
  BY <1>5 DEF vars, TimeKept, sampling, published, history, elapsed, Elapsed
<1> QED
  BY <1>2, <1>3, <1>4, <1>5 DEF Next

LEMMA TimeInvariant == Spec => [](IInv /\ TimeKept)
<1>1. Init => TimeKept
  BY DEF Init, TimeKept
<1> QED
  BY <1>1, InitInv, StepInv, TimeStep, PTL DEF Spec

(* Samples are a period or more apart and, after a poll, never a period old,  *)
(* wherever the clock wraps.                                                  *)
THEOREM ScheduleCorrect == Spec => []SampledOnSchedule
<1>1. TimeKept => SampledOnSchedule
  BY DEF TimeKept, SampledOnSchedule
<1> QED
  BY <1>1, TimeInvariant, PTL

(* A good sample finds, or makes, a VALID event younger than the force        *)
(* period, wherever the clock wraps.                                          *)
THEOREM ForceCorrect == Spec => []ForcedInTime
<1>1. IInv /\ TimeKept => ForcedInTime
  <2> SUFFICES ASSUME TypeOK, TimeKept, ForcePeriod # 0, sampleStarted, fails = 0, rest = 0
               PROVE  age < ForcePeriod
    BY DEF IInv, ForcedInTime
  <2>1. age < ForcePeriod + 0 /\ ForcePeriod \in Nat
    BY TimeTypes DEF TimeKept
  <2> QED
    BY <2>1
<1> QED
  BY <1>1, TimeInvariant, PTL
=============================================================================
