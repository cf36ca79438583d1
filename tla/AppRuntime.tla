------------------------------ MODULE AppRuntime ------------------------------
(***************************************************************************)
(* One iteration of the main loop, func_app_runtime_poll_once: the clock,  *)
(* the sensors, then the consumers GUI, business and MQTT application, and *)
(* the MQTT client.  Every event goes to the queue of every consumer.      *)
(* The n-th event is represented by n; what a consumer does with it is in  *)
(* the module of that component.                                           *)
(***************************************************************************)
EXTENDS Integers, Sequences

CONSTANTS
  Sensors,        \* how many are registered
  Capacity, Policy, \* of the queue of each consumer
  Budget,         \* max_events_per_poll of each consumer
  TxCapacity,     \* publish slots of the MQTT client
  SensorFaults,   \* statuses a failing driver may return
  DisplayFaults,  \* statuses a failing display may return
  MaxEvents       \* bound: events

Consumers == {"gui", "biz", "mqtt"}

ASSUME RuntimeAssumption ==
  /\ Sensors \in Nat \ {0}
  /\ Capacity \in [Consumers -> Nat \ {0}] /\ Budget \in [Consumers -> Nat \ {0}]
  /\ Policy \in [Consumers -> {"DROP_NEWEST", "DROP_OLDEST"}]
  /\ TxCapacity \in Nat \ {0} /\ MaxEvents \in Nat
  /\ SensorFaults \subseteq {"IO", "NOT_READY"}
  /\ DisplayFaults \subseteq {"IO", "NOT_READY"}

VARIABLES
  stage,       \* which component is polled, "idle" outside of poll_once
  sensor,      \* the sensor polled next
  coreError,   \* first_error of func_sensor_poll_all
  handled,     \* events the consumer has handled in this poll
  firstError,  \* first_error of poll_once; its result when idle
  queue,       \* of each consumer
  tx,          \* events queued in the MQTT client
  \* observers
  published,   \* events so far
  troubles,    \* statuses other than OK and NOT_READY met in this iteration
  advanced,    \* consumers that took an event in this iteration
  behind,      \* consumers whose queue held an event when the iteration began
  excused      \* consumers that failed or spent their budget in it

loop == <<stage, sensor, coreError, handled, firstError>>
vars == <<loop, queue, tx, published, troubles, advanced, behind, excused>>

Harmless == {"OK", "NOT_READY"}

(* func_app_runtime_capture.  Mutant: full queues are no error.               *)
CaptureNoSpaceIgnored(status) ==
  IF status \notin Harmless \cup {"NO_SPACE"} /\ firstError = "OK" THEN status ELSE firstError
Capture(status) ==
  IF status \notin Harmless /\ firstError = "OK" THEN status ELSE firstError

(* Mutant: an error ends the iteration.                                      *)
StageAfterStopping(s) ==
  CASE s = "idle" -> "sensors" [] s = "client" \/ firstError' # "OK" -> "idle"
    [] s = "sensors" /\ firstError' = "OK" -> "gui"
    [] s = "gui" /\ firstError' = "OK" -> "biz" [] s = "biz" /\ firstError' = "OK" -> "mqtt"
    [] s = "mqtt" /\ firstError' = "OK" -> "client"
(* Mutant: the GUI is polled before the sensors.                             *)
StageAfterReordered(s) ==
  CASE s = "idle" -> "gui" [] s = "gui" -> "sensors" [] s = "sensors" -> "biz"
    [] s = "biz" -> "mqtt" [] s = "mqtt" -> "client" [] s = "client" -> "idle"
StageAfter(s) ==
  CASE s = "idle" -> "sensors" [] s = "sensors" -> "gui" [] s = "gui" -> "biz"
    [] s = "biz" -> "mqtt" [] s = "mqtt" -> "client" [] s = "client" -> "idle"

(* The component returned status.                                            *)
Returned(status) ==
  /\ firstError' = Capture(status)
  /\ stage' = StageAfter(stage)
  /\ sensor' = 1 /\ coreError' = "OK" /\ handled' = 0

Noted(statuses) == troubles' = troubles \cup (statuses \ Harmless)

-----------------------------------------------------------------------------
ReadClock ==
  /\ stage = "idle"
  /\ troubles' = {} /\ advanced' = {} /\ excused' = {}
  /\ behind' = {c \in Consumers : queue[c] # <<>>}
  /\ firstError' = "OK"
  /\ stage' = StageAfter(stage)
  /\ sensor' = 1 /\ coreError' = "OK" /\ handled' = 0
  /\ UNCHANGED <<queue, tx, published>>

(* Nothing is polled when the clock fails.                                   *)
ClockFails ==
  /\ stage = "idle"
  /\ firstError' = "IO" /\ troubles' = {"IO"}
  /\ advanced' = {} /\ behind' = {}
  /\ UNCHANGED <<stage, sensor, coreError, handled, queue, tx, published, excused>>

Full(c) == Len(queue[c]) >= Capacity[c]
Refuses(c) == Full(c) /\ Policy[c] = "DROP_NEWEST"
Pushed(c, event) ==
  IF ~Full(c) THEN Append(queue[c], event)
  ELSE IF Refuses(c) THEN queue[c] ELSE Append(Tail(queue[c]), event)

(* A temperature driver that fails publishes a STALE or ERROR event.         *)
PollSensor ==
  /\ stage = "sensors" /\ sensor <= Sensors
  /\ \E status \in {"OK"} \cup SensorFaults, eventReady \in BOOLEAN :
       LET refused == eventReady /\ \E c \in Consumers : Refuses(c)
           met     == IF refused THEN {status, "NO_SPACE"} ELSE {status}
       IN
       /\ status # "OK" => eventReady
       /\ eventReady => published < MaxEvents
       /\ published' = IF eventReady THEN published + 1 ELSE published
       /\ queue' = IF eventReady THEN [c \in Consumers |-> Pushed(c, published + 1)] ELSE queue
       /\ coreError' = IF coreError # "OK" THEN coreError
                       ELSE IF refused THEN "NO_SPACE" ELSE status
       /\ Noted(met)
  /\ sensor' = sensor + 1
  /\ UNCHANGED <<stage, handled, firstError, tx, advanced, behind, excused>>

SensorsPolled ==
  /\ stage = "sensors" /\ sensor > Sensors
  /\ Returned(coreError)
  /\ UNCHANGED <<queue, tx, published, troubles, advanced, behind, excused>>

(* An event is gone whether it can be handled or not.                        *)
(* Mutant: it stays until the next one is asked for.                         *)
TakeLeaving(c) ==
  /\ stage = c
  /\ handled < Budget[c] /\ queue[c] # <<>>
  /\ UNCHANGED queue
  /\ advanced' = advanced \cup {c}
Take(c) ==
  /\ stage = c
  /\ handled < Budget[c] /\ queue[c] # <<>>
  /\ queue' = [queue EXCEPT ![c] = Tail(@)]
  /\ advanced' = advanced \cup {c}

Handled ==
  /\ handled' = handled + 1
  /\ UNCHANGED <<stage, sensor, coreError, firstError, troubles, excused>>

Failed(status) ==
  /\ Returned(status)
  /\ Noted({status})
  /\ excused' = excused \cup {stage}

TxFull == Len(tx) = TxCapacity

GuiShows ==
  /\ Take("gui")
  /\ \/ Handled
     \/ \E status \in DisplayFaults : Failed(status)
  /\ UNCHANGED <<tx, published, behind>>

BizHandles ==
  /\ Take("biz")
  /\ Handled
  /\ UNCHANGED <<tx, published, behind>>

MqttAppEnqueues ==
  /\ Take("mqtt")
  /\ \/ /\ ~TxFull
        /\ tx' = Append(tx, Head(queue["mqtt"]))
        /\ Handled
     \/ /\ TxFull
        /\ Failed("NO_SPACE")
        /\ UNCHANGED tx
  /\ UNCHANGED <<published, behind>>

ConsumerPolled ==
  /\ stage \in Consumers
  /\ queue[stage] = <<>> \/ handled = Budget[stage]
  /\ Returned("OK")
  /\ excused' = IF handled = Budget[stage] THEN excused \cup {stage} ELSE excused
  /\ UNCHANGED <<queue, tx, published, troubles, advanced, behind>>

(* proto_mqtt_poll, as the outbox sees it: it sends its oldest packet, waits  *)
(* or fails.                                                                 *)
ClientPolled ==
  /\ stage = "client"
  /\ \/ /\ tx # <<>>
        /\ tx' = Tail(tx)
        /\ Returned("OK") /\ UNCHANGED <<troubles, excused>>
     \/ /\ \E status \in {"OK", "NOT_READY", "IO"} : Failed(status)
        /\ UNCHANGED tx
  /\ UNCHANGED <<queue, published, advanced, behind>>

Init ==
  /\ stage = "idle" /\ sensor = 1 /\ coreError = "OK" /\ handled = 0
  /\ firstError = "OK"
  /\ queue = [c \in Consumers |-> <<>>] /\ tx = <<>>
  /\ published = 0 /\ troubles = {} /\ advanced = {} /\ behind = {} /\ excused = {}

Iterate ==
  \/ ReadClock \/ PollSensor \/ SensorsPolled
  \/ GuiShows \/ BizHandles \/ MqttAppEnqueues \/ ConsumerPolled \/ ClientPolled

Next == Iterate \/ ClockFails

(* The main loop calls poll_once for ever, and the clock does not fail for    *)
(* ever.                                                                     *)
Spec == Init /\ [][Next]_vars /\ WF_vars(Iterate)

-----------------------------------------------------------------------------
(* Properties.                                                              *)

Results == {"OK", "IO", "NOT_READY", "NO_SPACE"}

(* Every variable has its type; no queue outgrows its storage.               *)
TypeOK ==
  /\ stage \in Consumers \cup {"idle", "sensors", "client"}
  /\ sensor \in 1..Sensors + 1 /\ coreError \in Results
  /\ handled \in Nat /\ (stage \in Consumers => handled <= Budget[stage])
  /\ firstError \in Results \ {"NOT_READY"}
  /\ queue \in [Consumers -> Seq(1..MaxEvents)]
  /\ \A c \in Consumers : Len(queue[c]) <= Capacity[c]
  /\ tx \in Seq(1..MaxEvents) /\ Len(tx) <= TxCapacity
  /\ published \in 0..MaxEvents
  /\ troubles \subseteq Results \ Harmless
  /\ advanced \subseteq Consumers /\ behind \subseteq Consumers
  /\ excused \subseteq Consumers \cup {"client"}

(* poll_once returns SNS_OK exactly when nothing but NOT_READY happened at    *)
(* any level: drivers, full queues, display, full transmit queue, network.    *)
FirstErrorKept ==
  stage = "idle" => (firstError = "OK" <=> troubles = {})

(* Whatever failed before it, every consumer with events waiting takes at     *)
(* least one in every iteration: no component starves another.                *)
EveryConsumerAdvances == stage = "idle" => behind \subseteq advanced

(* A consumer ends the iteration up to date with the sensors polled in it,    *)
(* unless it spent its budget or its destination failed.                      *)
UpToDate ==
  stage = "idle" => \A c \in Consumers : queue[c] # <<>> => c \in excused

(* Every queue drains once the sensors are quiet, although displays and       *)
(* network may fail for ever.                                                *)
QueuesDrain == \A c \in Consumers : queue[c] # <<>> ~> queue[c] = <<>>
=============================================================================
