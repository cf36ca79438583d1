-------------------------- MODULE AppRuntime_proofs --------------------------
(* For any number of sensors, sizes of queues, budgets and faults: the main  *)
(* loop starves no consumer, leaves none behind and hides no error (as long  *)
(* as no driver is merely not ready).                                        *)
EXTENDS AppRuntime, SequenceTheorems, TLAPS

(* The consumers polled after c in an iteration.                              *)
Done(c) ==
  \/ stage \in {"client", "idle"}
  \/ c = "gui" /\ stage \in {"biz", "mqtt"}
  \/ c = "biz" /\ stage = "mqtt"

(* A consumer with events at the start keeps them until its turn, and has     *)
(* handled none when its turn begins.                                        *)
TurnComes ==
  \A c \in behind : c \in advanced \/ (~Done(c) /\ queue[c] # <<>> /\ (stage = c => handled = 0))

(* Once its turn is over, what is left in a queue is excused.                 *)
LeftExcused == \A c \in Consumers : Done(c) /\ queue[c] # <<>> => c \in excused

(* The error of the sensors is collected apart from the rest.                 *)
ErrorsCollected ==
  IF stage = "sensors"
  THEN firstError = "OK" /\ coreError # "NOT_READY" /\ (coreError = "OK" <=> troubles = {})
  ELSE coreError = "OK" /\ (firstError = "OK" <=> troubles = {})

-----------------------------------------------------------------------------
LEMMA Sizes ==
  /\ Sensors \in Nat \ {0} /\ MaxEvents \in Nat /\ TxCapacity \in Nat \ {0}
  /\ \A c \in Consumers : Capacity[c] \in Nat \ {0} /\ Budget[c] \in Nat \ {0}
  /\ SensorFaults \subseteq {"IO", "NOT_READY"} /\ DisplayFaults \subseteq {"IO", "NOT_READY"}
  BY RuntimeAssumption

LEMMA StageCases ==
  ASSUME TypeOK
  PROVE  /\ StageAfter(stage) \in Consumers \cup {"idle", "sensors", "client"}
         /\ StageAfter("idle") = "sensors" /\ StageAfter("sensors") = "gui"
         /\ StageAfter("gui") = "biz" /\ StageAfter("biz") = "mqtt"
         /\ StageAfter("mqtt") = "client" /\ StageAfter("client") = "idle"
<1>1. stage \in {"gui", "biz", "mqtt", "idle", "sensors", "client"}
  BY DEF TypeOK, Consumers
<1> QED
  BY <1>1 DEF StageAfter, Consumers

LEMMA CaptureType ==
  ASSUME NEW status \in Results, firstError \in Results \ {"NOT_READY"}
  PROVE  Capture(status) \in Results \ {"NOT_READY"}
  BY DEF Capture, Harmless, Results

(* What a part that returns does to the variables of the loop.                *)
LEMMA ReturnedType ==
  ASSUME TypeOK, NEW status \in Results, Returned(status)
  PROVE  /\ stage' \in Consumers \cup {"idle", "sensors", "client"}
         /\ sensor' \in 1..Sensors + 1 /\ coreError' \in Results
         /\ handled' = 0 /\ firstError' \in Results \ {"NOT_READY"}
<1>1. firstError' \in Results \ {"NOT_READY"}
  BY CaptureType DEF Returned, TypeOK
<1>2. sensor' \in 1..Sensors + 1
  BY Sizes DEF Returned
<1>3. stage' \in Consumers \cup {"idle", "sensors", "client"}
  BY StageCases DEF Returned
<1> QED
  BY <1>1, <1>2, <1>3 DEF Returned, Results

(* What a push leaves in a queue.                                             *)
LEMMA PushedType ==
  ASSUME TypeOK, NEW c \in Consumers, NEW event \in 1..MaxEvents
  PROVE  /\ Pushed(c, event) \in Seq(1..MaxEvents)
         /\ Len(Pushed(c, event)) <= Capacity[c]
         /\ Pushed(c, event) # <<>>
<1> DEFINE s == queue[c]
<1>1. s \in Seq(1..MaxEvents) /\ Len(s) <= Capacity[c] /\ Len(s) \in Nat
  BY DEF TypeOK
<1>2. Capacity[c] \in Nat \ {0}
  BY Sizes
<1>3. CASE ~Full(c)
  <2>1. /\ Append(s, event) \in Seq(1..MaxEvents)
        /\ Len(Append(s, event)) = Len(s) + 1 /\ Append(s, event) # <<>>
    BY <1>1, AppendProperties
  <2> QED
    BY <1>1, <1>2, <1>3, <2>1 DEF Full, Pushed
<1>4. CASE Full(c) /\ Refuses(c)
  <2>1. s # <<>>
    BY <1>1, <1>2, <1>4 DEF Full
  <2> QED
    BY <1>1, <1>4, <2>1 DEF Pushed
<1>5. CASE Full(c) /\ ~Refuses(c)
  <2>1. s # <<>>
    BY <1>1, <1>2, <1>5 DEF Full
  <2>2. Tail(s) \in Seq(1..MaxEvents) /\ Len(Tail(s)) = Len(s) - 1
    BY <1>1, <2>1, HeadTailProperties
  <2>3. /\ Append(Tail(s), event) \in Seq(1..MaxEvents)
        /\ Len(Append(Tail(s), event)) = Len(Tail(s)) + 1 /\ Append(Tail(s), event) # <<>>
    BY <2>2, AppendProperties
  <2>4. Pushed(c, event) = Append(Tail(s), event)
    BY <1>5 DEF Pushed
  <2>5. Len(Append(Tail(s), event)) = Len(s)
    BY <1>1, <2>2, <2>3
  <2> QED
    BY <1>1, <2>3, <2>4, <2>5
<1> QED
  BY <1>3, <1>4, <1>5

LEMMA InitType == Init => TypeOK
<1> SUFFICES ASSUME Init PROVE TypeOK
  OBVIOUS
<1>1. sensor \in 1..Sensors + 1 /\ published \in 0..MaxEvents
  BY Sizes DEF Init
<1>2. queue \in [Consumers -> Seq(1..MaxEvents)] /\ \A c \in Consumers : Len(queue[c]) <= Capacity[c]
  BY Sizes DEF Init
<1>3. tx \in Seq(1..MaxEvents) /\ Len(tx) <= TxCapacity
  BY Sizes DEF Init
<1> QED
  BY <1>1, <1>2, <1>3 DEF Init, TypeOK, Results, Consumers

LEMMA ReadClockType == TypeOK /\ ReadClock => TypeOK'
<1> SUFFICES ASSUME TypeOK, ReadClock PROVE TypeOK'
  OBVIOUS
<1>1. sensor' \in 1..Sensors + 1 /\ stage' = "sensors" /\ handled' = 0
  BY Sizes, StageCases DEF ReadClock
<1>2. behind' \subseteq Consumers
  BY DEF ReadClock
<1> QED
  BY <1>1, <1>2 DEF ReadClock, TypeOK, Results, Consumers

LEMMA ClockFailsType == TypeOK /\ ClockFails => TypeOK'
  BY DEF ClockFails, TypeOK, Results, Harmless

LEMMA PollSensorType == TypeOK /\ PollSensor => TypeOK'
<1> SUFFICES ASSUME TypeOK, PollSensor PROVE TypeOK'
  OBVIOUS
<1>1. PICK status \in {"OK"} \cup SensorFaults, eventReady \in BOOLEAN :
        LET refused == eventReady /\ \E c \in Consumers : Refuses(c)
            met     == IF refused THEN {status, "NO_SPACE"} ELSE {status}
        IN
        /\ eventReady => published < MaxEvents
        /\ published' = IF eventReady THEN published + 1 ELSE published
        /\ queue' = IF eventReady THEN [c \in Consumers |-> Pushed(c, published + 1)] ELSE queue
        /\ coreError' = IF coreError # "OK" THEN coreError
                        ELSE IF refused THEN "NO_SPACE" ELSE status
        /\ Noted(met)
  BY DEF PollSensor
<1>2. status \in {"OK", "IO", "NOT_READY"}
  BY Sizes
<1>3. coreError' \in Results
  BY <1>1, <1>2 DEF TypeOK, Results
<1>4. troubles' \subseteq Results \ Harmless
  BY <1>1, <1>2 DEF TypeOK, Noted, Results, Harmless
<1>5. published' \in 0..MaxEvents
  BY <1>1, Sizes DEF TypeOK
<1>6. /\ queue' \in [Consumers -> Seq(1..MaxEvents)]
      /\ \A c \in Consumers : Len(queue'[c]) <= Capacity[c]
  <2>1. CASE eventReady
    <3>1. published + 1 \in 1..MaxEvents
      BY <1>1, <2>1, Sizes DEF TypeOK
    <3>2. queue' = [c \in Consumers |-> Pushed(c, published + 1)]
      BY <1>1, <2>1
    <3> QED
      BY <3>1, <3>2, PushedType
  <2>2. CASE ~eventReady
    BY <1>1, <2>2 DEF TypeOK
  <2> QED
    BY <2>1, <2>2
<1>7. sensor' \in 1..Sensors + 1
  BY Sizes DEF PollSensor, TypeOK
<1> QED
  BY <1>3, <1>4, <1>5, <1>6, <1>7 DEF PollSensor, TypeOK

LEMMA SensorsPolledType == TypeOK /\ SensorsPolled => TypeOK'
<1> SUFFICES ASSUME TypeOK, SensorsPolled PROVE TypeOK'
  OBVIOUS
<1>1. coreError \in Results /\ Returned(coreError)
  BY DEF SensorsPolled, TypeOK
<1>2. stage' = "gui"
  BY StageCases DEF SensorsPolled, Returned
<1>3. handled' <= Budget["gui"] /\ handled' \in Nat
  BY <1>1, ReturnedType, Sizes DEF Consumers
<1> QED
  BY <1>1, <1>2, <1>3, ReturnedType DEF SensorsPolled, TypeOK

(* Handling one event, or returning, keeps the loop typed.                    *)
LoopType ==
  /\ stage \in Consumers \cup {"idle", "sensors", "client"}
  /\ sensor \in 1..Sensors + 1 /\ coreError \in Results
  /\ handled \in Nat /\ (stage \in Consumers => handled <= Budget[stage])
  /\ firstError \in Results \ {"NOT_READY"}

LEMMA ReturnedLoop ==
  ASSUME TypeOK, NEW status \in Results, Returned(status) PROVE LoopType'
<1>1. stage' \in Consumers => 0 <= Budget[stage']
  BY Sizes
<1> QED
  BY <1>1, ReturnedType DEF LoopType

LEMMA HandledType ==
  ASSUME TypeOK, NEW c \in Consumers, Take(c), Handled
  PROVE  LoopType' /\ troubles' = troubles /\ excused' = excused
<1>1. handled + 1 <= Budget[c] /\ handled + 1 \in Nat /\ stage' = c
  BY Sizes DEF Take, Handled, TypeOK
<1> QED
  BY <1>1 DEF Handled, LoopType, TypeOK

LEMMA FailedType ==
  ASSUME TypeOK, NEW status \in Results, Failed(status), stage \in Consumers \cup {"client"}
  PROVE  /\ LoopType' /\ troubles' \subseteq Results \ Harmless
         /\ excused' \subseteq Consumers \cup {"client"}
<1>1. LoopType'
  BY ReturnedLoop DEF Failed
<1> QED
  BY <1>1 DEF Failed, Noted, TypeOK

LEMMA TakeType ==
  ASSUME TypeOK, NEW c \in Consumers, Take(c)
  PROVE  /\ queue' \in [Consumers -> Seq(1..MaxEvents)]
         /\ \A d \in Consumers : Len(queue'[d]) <= Capacity[d]
         /\ advanced' \subseteq Consumers
         /\ Head(queue[c]) \in 1..MaxEvents
<1>1. queue[c] \in Seq(1..MaxEvents) /\ queue[c] # <<>> /\ Len(queue[c]) <= Capacity[c]
  BY DEF Take, TypeOK
<1>2. /\ Tail(queue[c]) \in Seq(1..MaxEvents) /\ Len(Tail(queue[c])) = Len(queue[c]) - 1
      /\ Head(queue[c]) \in 1..MaxEvents
  BY <1>1, HeadTailProperties
<1>3. Len(Tail(queue[c])) <= Capacity[c]
  <2>1. Capacity[c] \in Nat /\ Len(queue[c]) \in Nat
    BY <1>1, Sizes
  <2> QED
    BY <1>1, <1>2, <2>1
<1>4. queue' = [queue EXCEPT ![c] = Tail(queue[c])]
  BY DEF Take
<1>5. queue' \in [Consumers -> Seq(1..MaxEvents)]
  BY <1>2, <1>4 DEF TypeOK
<1>6. \A d \in Consumers : queue'[d] = IF d = c THEN Tail(queue[c]) ELSE queue[d]
  BY <1>4 DEF TypeOK
<1> QED
  BY <1>2, <1>3, <1>5, <1>6 DEF Take, TypeOK

LEMMA TxAppended ==
  ASSUME TypeOK, ~TxFull, NEW event \in 1..MaxEvents
  PROVE  Append(tx, event) \in Seq(1..MaxEvents) /\ Len(Append(tx, event)) <= TxCapacity
<1>1. tx \in Seq(1..MaxEvents) /\ Len(tx) <= TxCapacity /\ Len(tx) # TxCapacity
  BY DEF TypeOK, TxFull
<1>2. Append(tx, event) \in Seq(1..MaxEvents) /\ Len(Append(tx, event)) = Len(tx) + 1
  BY <1>1, AppendProperties
<1> QED
  BY <1>1, <1>2, Sizes

LEMMA TxSent ==
  ASSUME TypeOK, tx # <<>>
  PROVE  Tail(tx) \in Seq(1..MaxEvents) /\ Len(Tail(tx)) <= TxCapacity
<1>1. tx \in Seq(1..MaxEvents) /\ Len(tx) <= TxCapacity
  BY DEF TypeOK
<1>2. Tail(tx) \in Seq(1..MaxEvents) /\ Len(Tail(tx)) = Len(tx) - 1
  BY <1>1, HeadTailProperties
<1> QED
  BY <1>1, <1>2, Sizes

LEMMA FaultsAreResults ==
  /\ SensorFaults \subseteq Results /\ DisplayFaults \subseteq Results
  /\ "OK" \in Results /\ "NO_SPACE" \in Results
  BY Sizes DEF Results

LEMMA ConsumerNames == "gui" \in Consumers /\ "biz" \in Consumers /\ "mqtt" \in Consumers
  BY DEF Consumers

(* One step of a consumer, whatever comes of the event.                       *)
LEMMA ConsumerType ==
  ASSUME TypeOK, NEW c \in Consumers, Take(c),
         Handled \/ \E status \in Results : Failed(status)
  PROVE  /\ LoopType' /\ troubles' \subseteq Results \ Harmless
         /\ excused' \subseteq Consumers \cup {"client"}
<1>1. CASE Handled
  BY <1>1, HandledType DEF TypeOK
<1>2. CASE \E status \in Results : Failed(status)
  BY <1>2, FailedType DEF Take
<1> QED
  BY <1>1, <1>2

LEMMA ConsumersType ==
  ASSUME TypeOK, GuiShows \/ BizHandles \/ MqttAppEnqueues PROVE TypeOK'
<1>1. CASE GuiShows
  <2>1. Take("gui") /\ (Handled \/ \E status \in Results : Failed(status))
    BY <1>1, FaultsAreResults DEF GuiShows
  <2> QED
    BY <1>1, <2>1, ConsumerNames, ConsumerType, TakeType DEF GuiShows, TypeOK, LoopType
<1>2. CASE BizHandles
  BY <1>2, ConsumerNames, ConsumerType, TakeType DEF BizHandles, TypeOK, LoopType
<1>3. CASE MqttAppEnqueues
  <2>1. Take("mqtt") /\ (Handled \/ \E status \in Results : Failed(status))
    BY <1>3, FaultsAreResults DEF MqttAppEnqueues
  <2>2. tx' \in Seq(1..MaxEvents) /\ Len(tx') <= TxCapacity
    <3>1. CASE ~TxFull /\ tx' = Append(tx, Head(queue["mqtt"]))
      BY <2>1, <3>1, ConsumerNames, TakeType, TxAppended
    <3>2. CASE UNCHANGED tx
      BY <3>2 DEF TypeOK
    <3> QED
      BY <1>3, <3>1, <3>2 DEF MqttAppEnqueues
  <2> QED
    BY <1>3, <2>1, <2>2, ConsumerNames, ConsumerType, TakeType DEF MqttAppEnqueues, TypeOK, LoopType
<1> QED
  BY <1>1, <1>2, <1>3

LEMMA ConsumerPolledType == TypeOK /\ ConsumerPolled => TypeOK'
<1> SUFFICES ASSUME TypeOK, ConsumerPolled PROVE TypeOK'
  OBVIOUS
<1>1. LoopType'
  BY FaultsAreResults, ReturnedLoop DEF ConsumerPolled
<1>2. excused' \subseteq Consumers \cup {"client"}
  BY DEF ConsumerPolled, TypeOK
<1> QED
  BY <1>1, <1>2 DEF ConsumerPolled, TypeOK, LoopType

LEMMA ClientPolledType == TypeOK /\ ClientPolled => TypeOK'
<1> SUFFICES ASSUME TypeOK, ClientPolled PROVE TypeOK'
  OBVIOUS
<1>1. CASE tx # <<>> /\ tx' = Tail(tx) /\ Returned("OK") /\ UNCHANGED <<troubles, excused>>
  BY <1>1, FaultsAreResults, ReturnedLoop, TxSent DEF ClientPolled, TypeOK, LoopType
<1>2. CASE (\E status \in {"OK", "NOT_READY", "IO"} : Failed(status)) /\ UNCHANGED tx
  <2>1. \E status \in Results : Failed(status)
    BY <1>2 DEF Results
  <2>2. stage \in Consumers \cup {"client"}
    BY DEF ClientPolled
  <2> QED
    BY <1>2, <2>1, <2>2, FailedType DEF ClientPolled, TypeOK, LoopType
<1> QED
  BY <1>1, <1>2 DEF ClientPolled

LEMMA NextType == TypeOK /\ [Next]_vars => TypeOK'
<1> SUFFICES ASSUME TypeOK, [Next]_vars PROVE TypeOK'
  OBVIOUS
<1>1. CASE UNCHANGED vars
  BY <1>1 DEF vars, loop, TypeOK
<1> QED
  BY <1>1, ReadClockType, ClockFailsType, PollSensorType, SensorsPolledType, ConsumersType,
     ConsumerPolledType, ClientPolledType DEF Next, Iterate

(* Every reachable state of the main loop is well typed; no queue and no      *)
(* transmit ring outgrows its storage.                                       *)
THEOREM TypeCorrect == Spec => []TypeOK
  BY InitType, NextType, PTL DEF Spec

-----------------------------------------------------------------------------
(* Stages by name.                                                           *)
LEMMA Names ==
  ASSUME TypeOK
  PROVE  /\ stage \in {"gui", "biz", "mqtt", "idle", "sensors", "client"}
         /\ \A c : c \in Consumers <=> c \in {"gui", "biz", "mqtt"}
  BY DEF TypeOK, Consumers

(* A part that returns ends the turn of the consumer it is, and no other.     *)
LEMMA TurnEnds ==
  ASSUME TypeOK, NEW status, Returned(status), stage # "idle", NEW c \in Consumers
  PROVE  /\ Done(c)' <=> Done(c) \/ stage = c
         /\ handled' = 0
<1>1. stage' = StageAfter(stage) /\ handled' = 0
  BY DEF Returned
<1>2. stage \in {"gui", "biz", "mqtt", "sensors", "client"} /\ c \in {"gui", "biz", "mqtt"}
  BY Names
<1> QED
  BY <1>1, <1>2, StageCases DEF Done

LEMMA TakeLeavesOthers ==
  ASSUME TypeOK, NEW c \in Consumers, Take(c)
  PROVE  /\ c \in advanced' /\ advanced \subseteq advanced' /\ stage = c
         /\ \A d \in Consumers : d # c => queue'[d] = queue[d]
  BY DEF Take, TypeOK

(* A consumer that takes an event: what that does to the turns of all.        *)
LEMMA TakeTurns ==
  ASSUME TypeOK, TurnComes, LeftExcused, NEW c \in Consumers, Take(c), behind' = behind,
         Handled \/ \E status \in Results : Failed(status)
  PROVE  TurnComes' /\ LeftExcused'
<1>1. stage = c /\ stage # "idle" /\ behind \subseteq Consumers
  BY Names, TakeLeavesOthers DEF TypeOK
<1>2. \A d \in Consumers : d # c => (Done(d)' <=> Done(d))
  <2>1. CASE Handled
    BY <2>1 DEF Handled, Done
  <2>2. CASE \E status \in Results : Failed(status)
    BY <1>1, <2>2, TurnEnds DEF Failed
  <2> QED
    BY <2>1, <2>2
<1>3. excused \subseteq excused' /\ (Done(c)' => c \in excused')
  <2>1. CASE Handled
    <3>1. ~Done(c)
      BY <1>1, Names DEF Done
    <3> QED
      BY <2>1, <3>1 DEF Handled, Done
  <2>2. CASE \E status \in Results : Failed(status)
    BY <1>1, <2>2 DEF Failed
  <2> QED
    BY <2>1, <2>2
<1>4. \A d \in Consumers : d # c => (stage' = d => handled' = 0)
  <2>1. CASE Handled
    BY <1>1, <2>1 DEF Handled
  <2>2. CASE \E status \in Results : Failed(status)
    BY <2>2 DEF Failed, Returned
  <2> QED
    BY <2>1, <2>2
<1>5. TurnComes'
  BY <1>1, <1>2, <1>4, TakeLeavesOthers DEF TurnComes
<1>6. LeftExcused'
  BY <1>2, <1>3, TakeLeavesOthers DEF LeftExcused
<1> QED
  BY <1>5, <1>6

LEMMA PollSensorTurns ==
  ASSUME TypeOK, TurnComes, LeftExcused, PollSensor PROVE TurnComes' /\ LeftExcused'
<1>1. stage = "sensors" /\ UNCHANGED <<stage, handled, advanced, behind, excused>>
  BY DEF PollSensor
<1>2. \A c \in Consumers : queue[c] # <<>> => queue'[c] # <<>>
  <2>1. ASSUME NEW c \in Consumers, queue[c] # <<>>, queue' # queue
        PROVE  queue'[c] # <<>>
    <3>1. published < MaxEvents /\ queue' = [d \in Consumers |-> Pushed(d, published + 1)]
      BY <2>1 DEF PollSensor
    <3>2. published + 1 \in 1..MaxEvents
      BY <3>1, Sizes DEF TypeOK
    <3> QED
      BY <3>1, <3>2, PushedType
  <2> QED
    BY <2>1
<1>3. \A c \in Consumers : ~Done(c) /\ ~Done(c)'
  BY <1>1, Names DEF Done
<1> QED
  BY <1>1, <1>2, <1>3 DEF TurnComes, LeftExcused, TypeOK

LEMMA ReturnedTurns ==
  ASSUME TypeOK, TurnComes, LeftExcused, SensorsPolled \/ ConsumerPolled \/ ClientPolled
  PROVE  TurnComes' /\ LeftExcused'
<1>1. /\ stage # "idle" /\ behind \subseteq Consumers
      /\ UNCHANGED <<queue, advanced, behind>> /\ excused \subseteq excused'
      /\ \E status \in Results : Returned(status)
  <2>1. coreError \in Results /\ "OK" \in Results /\ behind \subseteq Consumers
    BY DEF TypeOK, Results
  <2>2. CASE SensorsPolled
    BY <2>1, <2>2 DEF SensorsPolled
  <2>3. CASE ConsumerPolled
    BY <2>1, <2>3, Names DEF ConsumerPolled
  <2>4. CASE ClientPolled
    BY <2>1, <2>4 DEF ClientPolled, Failed, Results
  <2> QED
    BY <2>2, <2>3, <2>4
<1>2. \A c \in Consumers : (Done(c)' <=> Done(c) \/ stage = c) /\ handled' = 0
  BY <1>1, TurnEnds
<1>3. ASSUME NEW c \in Consumers, stage = c
      PROVE  /\ queue[c] = <<>> \/ handled = Budget[c]
             /\ handled = Budget[c] => c \in excused'
  BY <1>3, Names DEF SensorsPolled, ConsumerPolled, ClientPolled
<1>4. \A c \in Consumers : Budget[c] # 0
  BY Sizes
<1>5. TurnComes'
  BY <1>1, <1>2, <1>3, <1>4 DEF TurnComes
<1>6. LeftExcused'
  BY <1>1, <1>2, <1>3 DEF LeftExcused
<1> QED
  BY <1>5, <1>6

LEMMA InitTurns == Init => TurnComes /\ LeftExcused
  BY DEF Init, TurnComes, LeftExcused

LEMMA NextTurns ==
  TypeOK /\ TurnComes /\ LeftExcused /\ [Next]_vars => TurnComes' /\ LeftExcused'
<1> SUFFICES ASSUME TypeOK, TurnComes, LeftExcused, [Next]_vars
             PROVE  TurnComes' /\ LeftExcused'
  OBVIOUS
<1>1. CASE ReadClock
  <2>1. stage' = "sensors" /\ handled' = 0 /\ UNCHANGED queue
        /\ behind' = {c \in Consumers : queue[c] # <<>>}
    BY <1>1, StageCases DEF ReadClock
  <2>2. \A c \in Consumers : ~Done(c)'
    BY <2>1 DEF Done, Consumers
  <2> QED
    BY <2>1, <2>2 DEF TurnComes, LeftExcused
<1>2. CASE ClockFails
  <2>1. UNCHANGED <<stage, queue, excused>> /\ behind' = {}
    BY <1>2 DEF ClockFails
  <2> QED
    BY <2>1 DEF TurnComes, LeftExcused, Done
<1>3. CASE GuiShows \/ BizHandles \/ MqttAppEnqueues
  <2>1. /\ behind' = behind
        /\ \E c \in Consumers :
             Take(c) /\ (Handled \/ \E status \in Results : Failed(status))
    <3>1. CASE GuiShows
      BY <3>1, ConsumerNames, FaultsAreResults DEF GuiShows
    <3>2. CASE BizHandles
      BY <3>2, ConsumerNames DEF BizHandles
    <3>3. CASE MqttAppEnqueues
      BY <3>3, ConsumerNames, FaultsAreResults DEF MqttAppEnqueues
    <3> QED
      BY <1>3, <3>1, <3>2, <3>3
  <2> QED
    BY <2>1, TakeTurns
<1>4. CASE UNCHANGED vars
  BY <1>4 DEF vars, loop, TurnComes, LeftExcused, Done
<1> QED
  BY <1>1, <1>2, <1>3, <1>4, PollSensorTurns, ReturnedTurns DEF Next, Iterate

(* Every consumer with events waiting takes one in every iteration, whatever  *)
(* fails before it, for all sizes, budgets and faults.                       *)
THEOREM NobodyStarves == Spec => []EveryConsumerAdvances
<1>1. TypeOK /\ TurnComes => EveryConsumerAdvances
  BY DEF TurnComes, EveryConsumerAdvances, Done
<1> QED
  BY <1>1, InitType, NextType, InitTurns, NextTurns, PTL DEF Spec

(* No iteration leaves an event behind without a failure or a spent budget.   *)
THEOREM EveryoneUpToDate == Spec => []UpToDate
<1>1. LeftExcused => UpToDate
  BY DEF LeftExcused, UpToDate, Done
<1> QED
  BY <1>1, InitType, NextType, InitTurns, NextTurns, PTL DEF Spec

-----------------------------------------------------------------------------
LEMMA CaptureKeeps ==
  ASSUME TypeOK, NEW status \in Results, firstError = "OK" <=> troubles = {},
         firstError' = Capture(status), Noted({status})
  PROVE  firstError' = "OK" <=> troubles' = {}
<1>1. CASE status \in Harmless
  BY <1>1 DEF Capture, Noted
<1>2. CASE status \notin Harmless
  <2>1. status \in troubles' /\ status # "OK"
    BY <1>2 DEF Noted, Harmless
  <2>2. firstError' # "OK"
    BY <1>2, <2>1 DEF Capture
  <2> QED
    BY <2>1, <2>2
<1> QED
  BY <1>1, <1>2

LEMMA ReturnedErrors ==
  ASSUME TypeOK, ErrorsCollected, stage \notin {"sensors", "idle"},
         NEW status \in Results, Returned(status), Noted({status})
  PROVE  ErrorsCollected'
<1>1. stage' # "sensors" /\ coreError' = "OK"
  BY Names, StageCases DEF Returned
<1>2. firstError' = "OK" <=> troubles' = {}
  BY CaptureKeeps DEF ErrorsCollected, Returned
<1> QED
  BY <1>1, <1>2 DEF ErrorsCollected

LEMMA PollSensorErrors ==
  ASSUME TypeOK, ErrorsCollected, PollSensor, "NOT_READY" \notin SensorFaults
  PROVE  ErrorsCollected'
<1>1. PICK status \in {"OK"} \cup SensorFaults, eventReady \in BOOLEAN :
        LET refused == eventReady /\ \E c \in Consumers : Refuses(c)
            met     == IF refused THEN {status, "NO_SPACE"} ELSE {status}
        IN
        /\ coreError' = IF coreError # "OK" THEN coreError
                        ELSE IF refused THEN "NO_SPACE" ELSE status
        /\ Noted(met)
  BY DEF PollSensor
<1>2. status \in {"OK", "IO"}
  BY Sizes
<1>3. stage = "sensors" /\ stage' = stage /\ firstError' = firstError
  BY DEF PollSensor
<1>4. CASE eventReady /\ \E c \in Consumers : Refuses(c)
  <2>1. "NO_SPACE" \in troubles'
    BY <1>1, <1>4 DEF Noted, Harmless
  <2>2. coreError' = IF coreError # "OK" THEN coreError ELSE "NO_SPACE"
    BY <1>1, <1>4
  <2> QED
    BY <1>3, <2>1, <2>2 DEF ErrorsCollected
<1>5. CASE ~(eventReady /\ \E c \in Consumers : Refuses(c))
  <2>1. troubles' = troubles \cup ({status} \ Harmless)
    BY <1>1, <1>5 DEF Noted
  <2>2. coreError' = IF coreError # "OK" THEN coreError ELSE status
    BY <1>1, <1>5
  <2>3. CASE status = "OK"
    BY <1>3, <2>1, <2>2, <2>3 DEF ErrorsCollected, Harmless
  <2>4. CASE status = "IO"
    BY <1>3, <2>1, <2>2, <2>4 DEF ErrorsCollected, Harmless
  <2> QED
    BY <1>2, <2>3, <2>4
<1> QED
  BY <1>4, <1>5

LEMMA ConsumerErrors ==
  ASSUME TypeOK, ErrorsCollected, NEW c \in Consumers, Take(c),
         Handled \/ \E status \in Results : Failed(status)
  PROVE  ErrorsCollected'
<1>1. stage = c /\ c \notin {"sensors", "idle"}
  BY Names DEF Take
<1>2. CASE Handled
  BY <1>1, <1>2 DEF Handled, ErrorsCollected
<1>3. CASE \E status \in Results : Failed(status)
  BY <1>1, <1>3, ReturnedErrors DEF Failed
<1> QED
  BY <1>2, <1>3

LEMMA NextErrors ==
  ASSUME "NOT_READY" \notin SensorFaults
  PROVE  TypeOK /\ ErrorsCollected /\ [Next]_vars => ErrorsCollected'
<1> SUFFICES ASSUME TypeOK, ErrorsCollected, [Next]_vars PROVE ErrorsCollected'
  OBVIOUS
<1>1. CASE ReadClock
  BY <1>1, StageCases DEF ReadClock, ErrorsCollected
<1>2. CASE ClockFails
  BY <1>2 DEF ClockFails, ErrorsCollected
<1>3. CASE PollSensor
  BY <1>3, PollSensorErrors
<1>4. CASE SensorsPolled
  <2>1. stage = "sensors" /\ stage' = "gui" /\ coreError' = "OK" /\ UNCHANGED troubles
        /\ firstError' = Capture(coreError)
    BY <1>4, StageCases DEF SensorsPolled, Returned
  <2>2. firstError' = coreError
    BY <2>1 DEF ErrorsCollected, Capture, Harmless
  <2> QED
    BY <2>1, <2>2 DEF ErrorsCollected
<1>5. CASE GuiShows
  BY <1>5, ConsumerNames, FaultsAreResults, ConsumerErrors DEF GuiShows
<1>6. CASE BizHandles
  BY <1>6, ConsumerNames, ConsumerErrors DEF BizHandles
<1>7. CASE MqttAppEnqueues
  BY <1>7, ConsumerNames, FaultsAreResults, ConsumerErrors DEF MqttAppEnqueues
<1>8. CASE ConsumerPolled
  <2>1. stage \notin {"sensors", "idle"} /\ Returned("OK") /\ Noted({"OK"})
    BY <1>8, Names DEF ConsumerPolled, Noted, Harmless
  <2> QED
    BY <2>1, FaultsAreResults, ReturnedErrors
<1>9. CASE ClientPolled
  <2>1. stage \notin {"sensors", "idle"}
    BY <1>9 DEF ClientPolled
  <2>2. \E status \in Results : Returned(status) /\ Noted({status})
    BY <1>9 DEF ClientPolled, Failed, Noted, Harmless, Results
  <2> QED
    BY <2>1, <2>2, ReturnedErrors
<1>10. CASE UNCHANGED vars
  BY <1>10 DEF vars, loop, ErrorsCollected
<1> QED
  BY <1>1, <1>2, <1>3, <1>4, <1>5, <1>6, <1>7, <1>8, <1>9, <1>10 DEF Next, Iterate

(* poll_once reports success exactly when nothing failed at any level, as     *)
(* long as no driver reports that it is not ready; the run app_runtime_masked *)
(* shows that the restriction is needed.                                     *)
THEOREM ErrorsReported ==
  ASSUME "NOT_READY" \notin SensorFaults
  PROVE  Spec => []FirstErrorKept
<1>1. Init => ErrorsCollected
  BY DEF Init, ErrorsCollected
<1>2. ErrorsCollected => FirstErrorKept
  BY DEF ErrorsCollected, FirstErrorKept
<1> QED
  BY <1>1, <1>2, InitType, NextType, NextErrors, PTL DEF Spec
=============================================================================
