------------------------------ MODULE SensorCore ------------------------------
(***************************************************************************)
(* The sensor core of func_sensor.c: registration and subscription tables, *)
(* poll_all, which polls every driver and copies each event into the queue *)
(* of every subscriber, and reset, which deinitialises every driver.       *)
(* poll_all and reset take one step per sensor; as the main loop owns      *)
(* everything, nothing else happens in between.                            *)
(***************************************************************************)
EXTENDS Sums, FiniteSetsExt

CONSTANTS
  Ids, Drivers, Queues,
  Removable,        \* the drivers that have a deinit
  Capacity, Policy, \* of each queue
  MaxSensors,       \* FUNC_CFG_MAX_SENSORS
  MaxSubscriptions, \* FUNC_CFG_MAX_SUBSCRIPTIONS
  MaxSequence,      \* bound: events of one registration
  MaxEras,          \* bound: resets
  MaxAroundReset    \* bound: events of one registration that a reset ends, or
                    \* that was made after one

ASSUME CoreAssumption ==
  /\ Removable \subseteq Drivers
  /\ Capacity \in [Queues -> Nat \ {0}]
  /\ Policy \in [Queues -> {"DROP_NEWEST", "DROP_OLDEST"}]
  /\ MaxSensors \in Nat /\ MaxSubscriptions \in Nat
  /\ MaxSequence \in Nat /\ MaxEras \in Nat
  /\ MaxAroundReset \in 0..MaxSequence

Statuses == {"OK", "IO"}           \* what a driver returns
Results  == Statuses \cup {"NO_SPACE"}

VARIABLES
  slots,          \* registrations: [id, driver, next]; next is next_sequence
  subscriptions,  \* set of <<id, queue>>
  live,           \* <<id, driver>>: initialised for id, and a deinit is due
  queue, dropped, \* of each subscriber: events waiting, counter of drops
  at,             \* the slot poll_all polls next, 0 outside of it
  resetAt,        \* the slot reset deinitialises next, 0 outside of it
  firstError,     \* result of the running call, or of the last one
  \* observers
  seen,           \* of each subscriber and source: last number popped, or -1
  missed,         \* of each subscriber: numbers it did not see in between
  troubles,       \* drivers that failed and queues that refused, this call
  era             \* how many times the core was reset

tables == <<slots, subscriptions, live>>
consumers == <<seen, missed>>
vars == <<tables, queue, dropped, at, resetAt, firstError, consumers, troubles, era>>

(* Mutant: the search stops before the last slot.                            *)
FindMissingLast(id) == {i \in 1..Len(slots) - 1 : slots[i].id = id}
Find(id) == {i \in 1..Len(slots) : slots[i].id = id}

(* Mutant: one sensor too many.                                              *)
HasRoomForOneMore == Len(slots) <= MaxSensors
HasRoom == Len(slots) < MaxSensors

Idle == at = 0 /\ resetAt = 0

Sources == Ids \X (0..MaxEras)

-----------------------------------------------------------------------------
CanRegister(id) == Idle /\ Find(id) = {} /\ HasRoom

(* A driver without a deinit stays initialised for good, unregistered too.   *)
Register(id, driver) ==
  /\ CanRegister(id)
  /\ live' = live \cup ({id} \X ({driver} \cap Removable))
  /\ slots' = Append(slots, [id |-> id, driver |-> driver, next |-> 0])
  /\ firstError' = "OK" /\ troubles' = {}
  /\ UNCHANGED <<subscriptions, queue, dropped, at, resetAt, consumers, era>>

(* The driver's init fails: nothing is registered, and the caller is told.   *)
RegisterFails(id) ==
  /\ CanRegister(id)
  /\ firstError' = "IO" /\ troubles' = {<<id, "driver">>}
  /\ UNCHANGED <<tables, queue, dropped, at, resetAt, consumers, era>>

Subscribe(id, q) ==
  /\ Idle
  /\ Find(id) # {}
  /\ <<id, q>> \notin subscriptions
  /\ Cardinality(subscriptions) < MaxSubscriptions
  /\ subscriptions' = subscriptions \cup {<<id, q>>}
  /\ UNCHANGED <<slots, live, queue, dropped, at, resetAt, firstError, consumers,
                 troubles, era>>

-----------------------------------------------------------------------------
(* poll_all.                                                                *)

PollStart ==
  /\ Idle
  /\ slots # <<>>
  /\ at' = 1
  /\ firstError' = "OK" /\ troubles' = {}
  /\ UNCHANGED <<tables, queue, dropped, resetAt, consumers, era>>

Full(q) == Len(queue[q]) >= Capacity[q]
Refuses(q) == Full(q) /\ Policy[q] = "DROP_NEWEST"

(* func_event_queue_push: what the queue holds after it.                     *)
Pushed(q, event) ==
  IF ~Full(q) THEN Append(queue[q], event)
  ELSE IF Policy[q] = "DROP_OLDEST" THEN Append(Tail(queue[q]), event)
  ELSE queue[q]

Subscribers(id) == {q \in Queues : <<id, q>> \in subscriptions}
(* Mutant: a queue that refuses ends the round.                              *)
ServedUntilRefusal(id) ==
  {q \in Subscribers(id) : ~\E r \in Subscribers(id) \ {q} : Refuses(r)}
Served(id) == Subscribers(id)

EventBound == IF era = 0 THEN MaxSequence ELSE MaxAroundReset

(* The sequence number is used up even if every queue refuses the event.     *)
Publish(i) ==
  LET slot  == slots[i]
      event == [id |-> slot.id, sequence |-> slot.next, era |-> era]
  IN
  /\ slot.next < EventBound
  /\ slots' = [slots EXCEPT ![i].next = slot.next + 1]
  /\ queue' = [q \in Queues |-> IF q \in Served(slot.id) THEN Pushed(q, event) ELSE queue[q]]
  /\ dropped' = [q \in Queues |->
                   dropped[q] + IF q \in Served(slot.id) /\ Full(q) THEN 1 ELSE 0]

(* Mutant: the last status wins.                                             *)
FirstErrorForgotten(refused, status) == IF refused THEN "NO_SPACE" ELSE status
FirstError(refused, status) ==
  IF firstError # "OK" THEN firstError ELSE IF refused THEN "NO_SPACE" ELSE status

(* A driver may report an error with an event, as func_temp does, or without. *)
PollSensor ==
  /\ at # 0
  /\ \E status \in Statuses, eventReady \in BOOLEAN :
       LET id == slots[at].id
           refusing == {q \in Served(id) : eventReady /\ Refuses(q)}
       IN
       /\ \/ eventReady /\ Publish(at)
          \/ ~eventReady /\ UNCHANGED <<slots, queue, dropped>>
       /\ firstError' = FirstError(refusing # {}, status)
       /\ troubles' = troubles \cup {<<id, q>> : q \in refusing}
                        \cup {<<id, "driver">> : s \in {status} \ {"OK"}}
  /\ at' = IF at = Len(slots) THEN 0 ELSE at + 1
  /\ UNCHANGED <<subscriptions, live, resetAt, consumers, era>>

-----------------------------------------------------------------------------
(* reset.                                                                    *)

(* Without sensors it changes nothing.                                       *)
ResetStart ==
  /\ Idle
  /\ slots # <<>>
  /\ era < MaxEras
  /\ \A i \in 1..Len(slots) : slots[i].next <= MaxAroundReset
  /\ resetAt' = 1
  /\ firstError' = "OK" /\ troubles' = {}
  /\ UNCHANGED <<tables, queue, dropped, at, consumers, era>>

(* Mutant: a deinit that fails ends the loop.                                *)
LastReleaseOrFailed(status) == resetAt = Len(slots) \/ status # "OK"
LastRelease(status) == resetAt = Len(slots)

(* A deinit may fail, or not exist.  Behind the last one the tables are       *)
(* cleared; the queues keep what they hold.                                  *)
ResetDriver ==
  /\ resetAt # 0
  /\ LET slot == slots[resetAt]
         removable == slot.driver \in Removable
     IN
     \E status \in IF removable THEN Statuses ELSE {"OK"} :
       /\ live' = live \ {<<slot.id, slot.driver>>}
       /\ firstError' = FirstError(FALSE, status)
       /\ troubles' = troubles \cup {<<slot.id, "driver">> : s \in {status} \ {"OK"}}
       /\ \/ /\ ~LastRelease(status)
             /\ resetAt' = resetAt + 1
             /\ UNCHANGED <<slots, subscriptions, era>>
          \/ /\ LastRelease(status)
             /\ resetAt' = 0
             /\ slots' = <<>> /\ subscriptions' = {}
             /\ era' = era + 1
  /\ UNCHANGED <<queue, dropped, at, consumers>>

-----------------------------------------------------------------------------
(* The numbers of a registration between the last one seen and this event.    *)
Gap(last, event) == IF last = -1 THEN 0 ELSE event.sequence - last - 1

(* A consumer: func_event_queue_pop.                                         *)
Pop(q) ==
  /\ Idle
  /\ queue[q] # <<>>
  /\ LET event  == Head(queue[q])
         source == <<event.id, event.era>>
     IN
     /\ missed' = [missed EXCEPT ![q] = @ + Gap(seen[q][source], event)]
     /\ seen' = [seen EXCEPT ![q][source] = event.sequence]
  /\ queue' = [queue EXCEPT ![q] = Tail(@)]
  /\ UNCHANGED <<tables, dropped, at, resetAt, firstError, troubles, era>>

Init ==
  /\ slots = <<>> /\ subscriptions = {} /\ live = {}
  /\ queue = [q \in Queues |-> <<>>] /\ dropped = [q \in Queues |-> 0]
  /\ at = 0 /\ resetAt = 0 /\ firstError = "OK"
  /\ seen = [q \in Queues |-> [source \in Sources |-> -1]]
  /\ missed = [q \in Queues |-> 0]
  /\ troubles = {} /\ era = 0

Next ==
  \/ \E id \in Ids, driver \in Drivers : Register(id, driver)
  \/ \E id \in Ids, q \in Queues : Subscribe(id, q)
  \/ \E id \in Ids : RegisterFails(id)
  \/ ResetStart \/ ResetDriver
  \/ PollStart \/ PollSensor
  \/ \E q \in Queues : Pop(q)

Spec == Init /\ [][Next]_vars

-----------------------------------------------------------------------------
(* Properties.                                                              *)

Slots  == [id : Ids, driver : Drivers, next : 0..MaxSequence]
Events == [id : Ids, sequence : 0..MaxSequence, era : 0..MaxEras]

(* Every variable has its type; the tables keep to their sizes.              *)
TypeOK ==
  /\ slots \in Seq(Slots) /\ Len(slots) <= MaxSensors
  /\ subscriptions \in SUBSET (Ids \X Queues)
  /\ live \in SUBSET (Ids \X Drivers)
  /\ queue \in [Queues -> Seq(Events)]
  /\ \A q \in Queues : Len(queue[q]) <= Capacity[q]
  /\ dropped \in [Queues -> Nat]
  /\ at \in 0..Len(slots) /\ resetAt \in 0..Len(slots)
  /\ firstError \in Results
  /\ seen \in [Queues -> [Sources -> -1..MaxSequence]]
  /\ missed \in [Queues -> Nat]
  /\ era \in 0..MaxEras

WithDeinit == {i \in 1..Len(slots) : slots[i].driver \in Removable}

(* A driver that can be deinitialised is, whichever init or deinit fails:     *)
(* outside of reset the ones initialised are those in the table, which reset  *)
(* finds again; while it works they are the ones it has yet to come to, and   *)
(* when it forgets the table there is none left.                             *)
DriversReleased ==
  live = {<<slots[i].id, slots[i].driver>> : i \in {j \in WithDeinit : j >= resetAt}}

SameSource(e, f) == e.id = f.id /\ e.era = f.era

(* Whatever the queues drop, every consumer sees the events of a registration *)
(* once and in order, each with a number of its own.                          *)
NumberedInOrder ==
  \A q \in Queues : \A j \in 1..Len(queue[q]) :
    LET event == queue[q][j] IN
    /\ event.sequence > seen[q][<<event.id, event.era>>]
    /\ \A i \in 1..j - 1 :
         SameSource(queue[q][i], event) => queue[q][i].sequence < event.sequence

(* The last number of its source before the j-th event that waits.            *)
Before(q, j) ==
  LET event   == queue[q][j]
      earlier == {i \in 1..j - 1 : SameSource(queue[q][i], event)}
  IN IF earlier = {} THEN seen[q][<<event.id, event.era>>]
     ELSE queue[q][Max(earlier)].sequence

(* Every gap a consumer has seen, or will, is explained by the drop counter   *)
(* of its own queue: no full queue of another consumer costs it an event.     *)
GapsCounted ==
  \A q \in Queues :
    missed[q] + Total([j \in 1..Len(queue[q]) |-> Gap(Before(q, j), queue[q][j])])
      <= dropped[q]

(* A call reports success exactly when every driver it called succeeded and   *)
(* every subscriber took every event, and otherwise what really happened.     *)
ResultTruthful ==
  /\ firstError = "OK" <=> troubles = {}
  /\ firstError = "IO" => \E id \in Ids : <<id, "driver">> \in troubles
  /\ firstError = "NO_SPACE" => \E id \in Ids, q \in Queues : <<id, q>> \in troubles
=============================================================================
