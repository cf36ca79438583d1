------------------------------- MODULE FuncTemp -------------------------------
(***************************************************************************)
(* The temperature driver of func_temp.c: samples its source once per      *)
(* period, grades the result VALID, STALE or ERROR, and decides whether    *)
(* the sample is worth an event.  A call is one step.  Reading the source, *)
(* checking its range, calibrating and filtering give any value of Values, *)
(* or fail.                                                                *)
(***************************************************************************)
EXTENDS Integers

CONSTANTS
  Values,           \* what calibration and filters may yield
  SamplePeriod,     \* cfg.sample_period_ms
  PublishChange,    \* cfg.publish_change_mdeg_c
  ForcePeriod,      \* cfg.force_publish_period_ms, 0: never forced
  ErrorThreshold,   \* cfg.error_threshold, 0: the default
  DefaultThreshold, \* FUNC_CFG_TEMP_ERROR_THRESHOLD
  ErrorsMax,        \* UINT16_MAX: the error counter saturates here
  ClockMod,         \* 2^32
  Gaps,             \* times that may pass between two polls
  MaxFails,         \* bound: failures in a row
  NoValue           \* no number

ASSUME TempAssumption ==
  /\ Values \subseteq Int
  /\ SamplePeriod \in Nat \ {0} /\ PublishChange \in Nat /\ ForcePeriod \in Nat
  /\ ErrorThreshold \in Nat /\ DefaultThreshold \in Nat \ {0}
  /\ ErrorsMax \in Nat
  /\ ErrorThreshold <= ErrorsMax /\ DefaultThreshold <= ErrorsMax
  /\ ClockMod \in Nat \ {0} /\ Gaps \subseteq Nat /\ MaxFails \in Nat
  /\ \A d \in Gaps : SamplePeriod + ForcePeriod + d <= ClockMod
  /\ NoValue \notin Int

NoEvent == [quality |-> "none", value |-> 0]

VARIABLES
  configured,          \* func_temp_configure has been called
  initialized, sampleStarted, lastSample,
  hasValid, lastValid,
  errors,              \* consecutive_errors
  lastQuality, hasPublishedQuality,
  hasValidPublish, lastPublished, lastValidPublish,
  now,
  \* observers
  fails,               \* failed samples since the last good one, not capped
  good,                \* the last good value
  shown,               \* the last event handed out
  rest,                \* time since the last sample, measured without wrap
  spacing,             \* time between the last two samples, or NoValue
  age                  \* time since the last VALID event

sampling  == <<sampleStarted, lastSample>>
valid     == <<hasValid, lastValid>>
published == <<lastQuality, hasPublishedQuality, hasValidPublish, lastPublished,
               lastValidPublish>>
history   == <<fails, good, shown>>
elapsed   == <<rest, spacing, age>>
vars == <<configured, initialized, sampling, valid, errors, published, now,
          history, elapsed>>

Clock(t) == t % ClockMod
(* Mutant: the time since the last sample forgets that the clock wraps.      *)
ElapsedUnwrapped(t, since) == t - since
Elapsed(t, since) == (t - since) % ClockMod

Threshold == IF ErrorThreshold = 0 THEN DefaultThreshold ELSE ErrorThreshold

-----------------------------------------------------------------------------
(* The fields func_temp_configure and func_temp_init clear.                 *)
Cleared ==
  /\ sampleStarted' = FALSE /\ lastSample' = 0
  /\ hasValid' = FALSE /\ lastValid' = 0
  /\ errors' = 0
  /\ lastQuality' = "ERROR" /\ hasPublishedQuality' = FALSE
  /\ hasValidPublish' = FALSE /\ lastPublished' = 0 /\ lastValidPublish' = 0
  /\ fails' = 0 /\ good' = NoValue /\ shown' = NoEvent
  /\ rest' = 0 /\ spacing' = NoValue /\ age' = 0
  /\ UNCHANGED now

Configure ==
  /\ configured' = TRUE
  /\ initialized' = FALSE
  /\ Cleared

(* A filter or the source may refuse; the driver then stays as it was, live *)
(* or not.                                                                  *)
DriverInit ==
  /\ configured
  /\ initialized' = TRUE
  /\ Cleared
  /\ UNCHANGED configured

Deinit ==
  /\ initialized
  /\ initialized' = FALSE
  /\ UNCHANGED <<configured, sampling, valid, errors, published, now, history,
                 elapsed>>

-----------------------------------------------------------------------------
(* func_temp_poll, d after the previous poll, at time t.                    *)

SampleDue(t) == ~sampleStarted \/ Elapsed(t, lastSample) >= SamplePeriod

(* The last two samples are as far apart as the clock of the world says.    *)
SampleTaken(d, t) ==
  /\ sampleStarted' = TRUE
  /\ lastSample' = t
  /\ spacing' = IF sampleStarted THEN rest + d ELSE NoValue
  /\ rest' = 0

PollTooSoon(d, t) ==
  /\ ~SampleDue(t)
  /\ rest' = rest + d
  /\ age' = IF hasValidPublish THEN age + d ELSE 0
  /\ UNCHANGED <<sampling, valid, errors, published, history, spacing>>

(* Mutants: the threshold is one failure late, and a stale value is dropped. *)
ErrorEventLate ==
  [quality |-> IF ~hasValid \/ errors' > Threshold THEN "ERROR" ELSE "STALE",
   value   |-> IF hasValid THEN lastValid ELSE 0]
ErrorEventPublished ==
  [quality |-> IF ~hasValid \/ errors' >= Threshold THEN "ERROR" ELSE "STALE",
   value   |-> IF hasValid THEN lastPublished ELSE 0]
ErrorEvent ==
  [quality |-> IF ~hasValid \/ errors' >= Threshold THEN "ERROR" ELSE "STALE",
   value   |-> IF hasValid THEN lastValid ELSE 0]

MoreErrors(n) == IF n < ErrorsMax THEN n + 1 ELSE n

(* temp_error_event: the counter saturates, every failure is reported.      *)
SampleFails(d, t) ==
  /\ SampleDue(t)
  /\ fails < MaxFails
  /\ SampleTaken(d, t)
  /\ errors' = MoreErrors(errors)
  /\ shown' = ErrorEvent
  /\ lastQuality' = ErrorEvent.quality
  /\ hasPublishedQuality' = TRUE
  /\ fails' = fails + 1
  /\ age' = IF hasValidPublish THEN age + d ELSE 0
  /\ UNCHANGED <<valid, hasValidPublish, lastPublished, lastValidPublish, good>>

Distance(a, b) == IF a < b THEN b - a ELSE a - b

(* Mutants: recovery is not announced, and a forced event one tick late.     *)
PublishDueSilentRecovery(v, t) ==
  \/ ~hasValidPublish
  \/ Distance(v, lastPublished) >= PublishChange
  \/ ForcePeriod # 0 /\ Elapsed(t, lastValidPublish) >= ForcePeriod
PublishDueLate(v, t) ==
  \/ ~hasValidPublish
  \/ hasPublishedQuality /\ lastQuality # "VALID"
  \/ Distance(v, lastPublished) >= PublishChange
  \/ ForcePeriod # 0 /\ Elapsed(t, lastValidPublish) > ForcePeriod
(* Mutant: the change is measured from the last sample.                      *)
PublishDueDrifts(v, t) ==
  \/ ~hasValidPublish
  \/ hasPublishedQuality /\ lastQuality # "VALID"
  \/ Distance(v, lastValid) >= PublishChange
  \/ ForcePeriod # 0 /\ Elapsed(t, lastValidPublish) >= ForcePeriod
PublishDue(v, t) ==
  \/ ~hasValidPublish
  \/ hasPublishedQuality /\ lastQuality # "VALID"
  \/ Distance(v, lastPublished) >= PublishChange
  \/ ForcePeriod # 0 /\ Elapsed(t, lastValidPublish) >= ForcePeriod

SampleSucceeds(v, d, t) ==
  /\ SampleDue(t)
  /\ SampleTaken(d, t)
  /\ errors' = 0
  /\ hasValid' = TRUE /\ lastValid' = v
  /\ fails' = 0 /\ good' = v
  /\ \/ /\ PublishDue(v, t)
        /\ shown' = [quality |-> "VALID", value |-> v]
        /\ lastPublished' = v /\ lastValidPublish' = t
        /\ lastQuality' = "VALID"
        /\ hasValidPublish' = TRUE /\ hasPublishedQuality' = TRUE
        /\ age' = 0
     \/ /\ ~PublishDue(v, t)
        /\ age' = age + d
        /\ UNCHANGED <<published, shown>>

(* A driver that is not initialised reports SNS_ERR_STATE and no event.     *)
PollInactive ==
  /\ ~initialized
  /\ UNCHANGED <<sampling, valid, errors, published, history, elapsed>>

Poll(d) ==
  LET t == Clock(now + d) IN
  /\ now' = t
  /\ UNCHANGED <<configured, initialized>>
  /\ \/ PollInactive
     \/ /\ initialized
        /\ \/ PollTooSoon(d, t)
           \/ SampleFails(d, t)
           \/ \E v \in Values : SampleSucceeds(v, d, t)

Init ==
  /\ configured = FALSE /\ initialized = FALSE
  /\ sampleStarted = FALSE /\ lastSample = 0
  /\ hasValid = FALSE /\ lastValid = 0 /\ errors = 0
  /\ lastQuality = "ERROR" /\ hasPublishedQuality = FALSE
  /\ hasValidPublish = FALSE /\ lastPublished = 0 /\ lastValidPublish = 0
  /\ now \in 0..ClockMod - 1
  /\ fails = 0 /\ good = NoValue /\ shown = NoEvent
  /\ rest = 0 /\ spacing = NoValue /\ age = 0

Next == Configure \/ DriverInit \/ Deinit \/ \E d \in Gaps : Poll(d)

Spec == Init /\ [][Next]_vars

-----------------------------------------------------------------------------
(* Properties.                                                              *)

Qualities == {"VALID", "STALE", "ERROR"}

(* Every variable has its type; the error counter never leaves uint16_t.     *)
TypeOK ==
  /\ configured \in BOOLEAN /\ initialized \in BOOLEAN
  /\ sampleStarted \in BOOLEAN /\ lastSample \in Int
  /\ hasValid \in BOOLEAN /\ lastValid \in Int
  /\ errors \in 0..ErrorsMax
  /\ lastQuality \in Qualities /\ hasPublishedQuality \in BOOLEAN
  /\ hasValidPublish \in BOOLEAN /\ lastPublished \in Int /\ lastValidPublish \in Int
  /\ now \in Int
  /\ fails \in 0..MaxFails /\ good \in Int \cup {NoValue}
  /\ shown \in [quality : Qualities \cup {"none"}, value : Int]
  /\ rest \in Nat /\ spacing \in Nat \cup {NoValue} /\ age \in Nat

(* The last event handed out tells the truth about the last sample, although  *)
(* most good samples give no event: VALID exactly when it succeeded, STALE    *)
(* while fewer failures in a row than the threshold follow a good sample,     *)
(* ERROR otherwise.  So every failure and every recovery is announced.       *)
Verdict ==
  IF fails = 0 THEN "VALID"
  ELSE IF good = NoValue \/ fails >= Threshold THEN "ERROR" ELSE "STALE"
QualityTruthful == sampleStarted => shown.quality = Verdict

(* The value a consumer holds is the last good one when the source fails, and *)
(* closer than the publish change to it when not.                            *)
ValueClose ==
  sampleStarted =>
    IF fails = 0
    THEN good = shown.value \/ Distance(good, shown.value) < PublishChange
    ELSE shown.value = IF good = NoValue THEN 0 ELSE good

(* Samples are never closer than a period, and after a poll the last one is   *)
(* never a period old, also across the wrap of the clock.                    *)
SampledOnSchedule ==
  sampleStarted =>
    /\ rest < SamplePeriod
    /\ spacing # NoValue => spacing >= SamplePeriod

(* A good sample finds, or makes, a VALID event younger than the force        *)
(* period.                                                                   *)
ForcedInTime ==
  ForcePeriod # 0 /\ sampleStarted /\ fails = 0 /\ rest = 0 => age < ForcePeriod
=============================================================================
