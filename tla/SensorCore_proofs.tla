-------------------------- MODULE SensorCore_proofs --------------------------
(* For any ids, drivers, queues and sizes: every driver that can be           *)
(* deinitialised is, the result of poll_all is true, every consumer     *)
(* sees the events in order, and the drop counters explain every gap.         *)
EXTENDS SensorCore, CommonLemmas

LEMMA Sizes ==
  /\ \A q \in Queues : Capacity[q] \in Nat \ {0}
  /\ \A q \in Queues : Policy[q] \in {"DROP_NEWEST", "DROP_OLDEST"}
  /\ MaxSensors \in Nat /\ MaxSubscriptions \in Nat /\ MaxSequence \in Nat /\ MaxEras \in Nat
  /\ MaxAroundReset \in 0..MaxSequence
  BY CoreAssumption

(* The tables, without the observers of the consumers.                        *)
TablesType ==
  /\ slots \in Seq(Slots) /\ Len(slots) <= MaxSensors
  /\ subscriptions \in SUBSET (Ids \X Queues)
  /\ live \in SUBSET (Ids \X Drivers)
  /\ at \in 0..Len(slots) /\ resetAt \in 0..Len(slots)
  /\ at = 0 \/ resetAt = 0
  /\ resetAt # 0 => era < MaxEras
  /\ firstError \in Results
  /\ era \in 0..MaxEras

-----------------------------------------------------------------------------
LEMMA RegisterTables ==
  ASSUME TablesType, NEW id \in Ids, NEW driver \in Drivers, Register(id, driver)
  PROVE  TablesType'
<1> DEFINE slot == [id |-> id, driver |-> driver, next |-> 0]
<1>1. slot \in Slots
  BY Sizes DEF Slots
<1>2. /\ slots \in Seq(Slots) /\ Len(slots) \in Nat /\ Len(slots) < MaxSensors
      /\ at = 0 /\ resetAt = 0
  BY DEF TablesType, Register, CanRegister, HasRoom, Idle
<1>3. Append(slots, slot) \in Seq(Slots) /\ Len(Append(slots, slot)) = Len(slots) + 1
  BY <1>1, <1>2, AppendProperties
<1>4. /\ slots' = Append(slots, slot) /\ live' = live \cup ({id} \X ({driver} \cap Removable))
      /\ firstError' = "OK" /\ UNCHANGED <<subscriptions, at, resetAt, era>>
  BY DEF Register
<1>5. Len(slots') <= MaxSensors /\ at' \in 0..Len(slots') /\ resetAt' \in 0..Len(slots')
  BY <1>2, <1>3, <1>4, Sizes
<1>6. live' \in SUBSET (Ids \X Drivers)
  BY <1>4 DEF TablesType
<1> QED
  BY <1>2, <1>3, <1>4, <1>5, <1>6 DEF TablesType, Results, Statuses

LEMMA RegisterFailsTables ==
  ASSUME TablesType, NEW id \in Ids, RegisterFails(id) PROVE TablesType'
  BY DEF RegisterFails, tables, TablesType, Results, Statuses

LEMMA SubscribeTables ==
  ASSUME TablesType, NEW id \in Ids, NEW q \in Queues, Subscribe(id, q) PROVE TablesType'
  BY DEF Subscribe, TablesType

(* What the step of reset behind the last driver does.                        *)
Forgets ==
  /\ era < MaxEras
  /\ slots' = <<>> /\ subscriptions' = {} /\ era' = era + 1
  /\ UNCHANGED <<queue, dropped, seen, missed>>

LEMMA ResetForgets ==
  ASSUME TablesType, ResetDriver
  PROVE  \/ Forgets
         \/ UNCHANGED <<slots, subscriptions, era, queue, dropped, seen, missed>>
<1>1. era < MaxEras /\ UNCHANGED <<queue, dropped, seen, missed>>
  BY DEF TablesType, ResetDriver, consumers
<1>2. \/ slots' = <<>> /\ subscriptions' = {} /\ era' = era + 1
      \/ UNCHANGED <<slots, subscriptions, era>>
  BY DEF ResetDriver
<1> QED
  BY <1>1, <1>2 DEF Forgets

LEMMA ResetStartTables == ASSUME TablesType, ResetStart PROVE TablesType'
<1>1. UNCHANGED <<slots, subscriptions, live, at, era>> /\ resetAt' = 1 /\ firstError' \in Results
  BY DEF ResetStart, tables, Results, Statuses
<1>2. 1 \in 0..Len(slots) /\ at = 0 /\ era < MaxEras
  BY EmptySeq, LenProperties DEF ResetStart, TablesType, Idle
<1> QED
  BY <1>1, <1>2 DEF TablesType

LEMMA ResetDriverTables == ASSUME TablesType, ResetDriver PROVE TablesType'
<1>1. resetAt \in 1..Len(slots) /\ at = 0 /\ at' = at /\ era < MaxEras
  BY DEF ResetDriver, TablesType
<1>2. live' \subseteq live /\ firstError' \in Results
  BY DEF ResetDriver, FirstError, TablesType, Results, Statuses
<1>3. CASE /\ slots' = <<>> /\ subscriptions' = {} /\ era' = era + 1 /\ resetAt' = 0
  <2>1. era' \in 0..MaxEras
    BY <1>1, <1>3, Sizes DEF TablesType
  <2>2. slots' \in Seq(Slots) /\ Len(slots') = 0
    BY <1>3
  <2> QED
    BY <1>1, <1>2, <1>3, <2>1, <2>2, Sizes DEF TablesType
<1>4. CASE /\ UNCHANGED <<slots, subscriptions, era>> /\ resetAt' = resetAt + 1
           /\ resetAt # Len(slots)
  <2>1. resetAt' \in 0..Len(slots)
    BY <1>1, <1>4, LenProperties DEF TablesType
  <2> QED
    BY <1>1, <1>2, <1>4, <2>1 DEF TablesType
<1> QED
  BY <1>3, <1>4 DEF ResetDriver, LastRelease

LEMMA PollStartTables == ASSUME TablesType, PollStart PROVE TablesType'
<1>1. /\ UNCHANGED <<slots, subscriptions, live, resetAt, era>> /\ at' = 1
      /\ firstError' \in Results
  BY DEF PollStart, tables, Results, Statuses
<1>2. 1 \in 0..Len(slots) /\ resetAt = 0
  BY EmptySeq, LenProperties DEF PollStart, TablesType, Idle
<1> QED
  BY <1>1, <1>2 DEF TablesType

(* Polling changes nothing of a slot but its next number.                     *)
LEMMA PublishTables ==
  ASSUME TablesType, NEW i \in 1..Len(slots), Publish(i)
  PROVE  /\ slots' \in Seq(Slots) /\ Len(slots') = Len(slots)
         /\ \A j \in 1..Len(slots) :
              /\ slots'[j].id = slots[j].id /\ slots'[j].driver = slots[j].driver
              /\ slots'[j].next = IF j = i THEN slots[i].next + 1 ELSE slots[j].next
<1>1. slots \in Seq(Slots) /\ slots[i] \in Slots /\ slots[i].next < MaxSequence
  <2>1. slots \in Seq(Slots) /\ slots[i] \in Slots
    BY ElementOfSeq DEF TablesType
  <2>2. slots[i].next < EventBound
    BY DEF Publish
  <2>3. EventBound \in Nat /\ EventBound <= MaxSequence
    BY Sizes DEF EventBound
  <2>4. slots[i].next \in Nat
    BY <2>1, Sizes DEF Slots
  <2> QED
    BY <2>1, <2>2, <2>3, <2>4, Sizes
<1>2. slots' = [slots EXCEPT ![i] = [slots[i] EXCEPT !.next = slots[i].next + 1]]
  BY DEF Publish
<1>3. [slots[i] EXCEPT !.next = slots[i].next + 1] \in Slots
  BY <1>1, Sizes DEF Slots
<1>4. slots' \in Seq(Slots) /\ Len(slots') = Len(slots)
  BY <1>1, <1>2, <1>3, ExceptSeq
<1>5. \A j \in 1..Len(slots) :
        slots'[j] = IF j = i THEN [slots[i] EXCEPT !.next = slots[i].next + 1] ELSE slots[j]
  BY <1>1, <1>2
<1>6. \A j \in 1..Len(slots) : slots[j] \in Slots
  BY <1>1
<1> QED
  BY <1>1, <1>4, <1>5, <1>6 DEF Slots

LEMMA PollSensorTables == ASSUME TablesType, PollSensor PROVE TablesType'
<1>1. at \in 1..Len(slots) /\ resetAt = 0 /\ resetAt' = resetAt
  BY DEF PollSensor, TablesType
<1>2. slots' \in Seq(Slots) /\ Len(slots') = Len(slots)
  <2>1. CASE Publish(at)
    BY <1>1, <2>1, PublishTables
  <2>2. CASE UNCHANGED slots
    BY <2>2 DEF TablesType
  <2> QED
    BY <2>1, <2>2 DEF PollSensor
<1>3. at' \in 0..Len(slots)
  BY <1>1 DEF PollSensor, TablesType
<1>4. firstError' \in Results
  BY DEF PollSensor, FirstError, TablesType, Results
<1> QED
  BY <1>1, <1>2, <1>3, <1>4 DEF PollSensor, TablesType

LEMMA TablesInit == Init => TablesType
  BY Sizes DEF Init, TablesType, Results, Statuses

LEMMA TablesNext == TablesType /\ [Next]_vars => TablesType'
<1> SUFFICES ASSUME TablesType, [Next]_vars PROVE TablesType'
  OBVIOUS
<1>1. CASE \E q \in Queues : Pop(q)
  BY <1>1 DEF Pop, tables, TablesType
<1>2. CASE UNCHANGED vars
  BY <1>2 DEF vars, tables, TablesType
<1> QED
  BY <1>1, <1>2, RegisterTables, RegisterFailsTables, SubscribeTables, ResetStartTables,
     ResetDriverTables, PollStartTables, PollSensorTables DEF Next

-----------------------------------------------------------------------------
LEMMA TruthNext == TablesType /\ ResultTruthful /\ [Next]_vars => ResultTruthful'
<1> SUFFICES ASSUME TablesType, ResultTruthful, [Next]_vars PROVE ResultTruthful'
  OBVIOUS
<1>1. CASE PollStart
  BY <1>1 DEF PollStart, ResultTruthful
<1>2. CASE PollSensor
  <2>1. slots[at].id \in Ids
    <3>1. at \in 1..Len(slots)
      BY <1>2, LenProperties DEF PollSensor, TablesType, Idle
    <3>2. slots \in Seq(Slots)
      BY DEF TablesType
    <3>3. slots[at] \in Slots
      BY <3>1, <3>2, ElementOfSeq
    <3> QED
      BY <3>3 DEF Slots
  <2>2. PICK status \in Statuses, eventReady \in BOOLEAN :
          LET refusing == {q \in Served(slots[at].id) : eventReady /\ Refuses(q)} IN
          /\ firstError' = FirstError(refusing # {}, status)
          /\ troubles' = troubles \cup {<<slots[at].id, q>> : q \in refusing}
                           \cup {<<slots[at].id, "driver">> : s \in {status} \ {"OK"}}
    BY <1>2 DEF PollSensor
  <2> DEFINE refusing == {q \in Served(slots[at].id) : eventReady /\ Refuses(q)}
  <2>3. refusing \subseteq Queues
    BY DEF Served, Subscribers
  <2>4. troubles \subseteq troubles'
    BY <2>2
  <2>5. CASE firstError # "OK"
    <3>1. firstError' = firstError
      BY <2>2, <2>5 DEF FirstError
    <3> QED
      BY <2>4, <2>5, <3>1 DEF ResultTruthful
  <2>6. CASE firstError = "OK" /\ refusing # {}
    <3>1. firstError' = "NO_SPACE"
      BY <2>2, <2>6 DEF FirstError
    <3>2. PICK q \in Queues : <<slots[at].id, q>> \in troubles'
      BY <2>2, <2>3, <2>6
    <3> QED
      BY <2>1, <3>1, <3>2 DEF ResultTruthful
  <2>7. CASE firstError = "OK" /\ refusing = {}
    <3>1. firstError' = status /\ troubles = {}
      BY <2>2, <2>7 DEF FirstError, ResultTruthful
    <3>2. CASE status = "OK"
      BY <2>2, <2>7, <3>1, <3>2 DEF ResultTruthful
    <3>3. CASE status = "IO"
      <4>1. <<slots[at].id, "driver">> \in troubles'
        BY <2>2, <3>3
      <4> QED
        BY <2>1, <3>1, <3>3, <4>1 DEF ResultTruthful
    <3> QED
      BY <3>2, <3>3 DEF Statuses
  <2> QED
    BY <2>5, <2>6, <2>7
<1>3. CASE UNCHANGED <<firstError, troubles>>
  BY <1>3 DEF ResultTruthful
<1>4. ASSUME NEW id \in Ids, NEW driver \in Drivers, Register(id, driver)
      PROVE  ResultTruthful'
  BY <1>4 DEF Register, ResultTruthful
<1>5. ASSUME NEW id \in Ids, RegisterFails(id) PROVE ResultTruthful'
  BY <1>5 DEF RegisterFails, ResultTruthful
<1>6. CASE ResetStart
  BY <1>6 DEF ResetStart, ResultTruthful
<1>7. CASE ResetDriver
  <2>1. slots[resetAt].id \in Ids
    <3>1. resetAt \in 1..Len(slots) /\ slots \in Seq(Slots)
      BY <1>7 DEF ResetDriver, TablesType
    <3>2. slots[resetAt] \in Slots
      BY <3>1, ElementOfSeq
    <3> QED
      BY <3>2 DEF Slots
  <2>2. PICK status \in Statuses :
          /\ firstError' = FirstError(FALSE, status)
          /\ troubles' = troubles \cup {<<slots[resetAt].id, "driver">> : s \in {status} \ {"OK"}}
    BY <1>7 DEF ResetDriver, Statuses
  <2>3. CASE firstError # "OK"
    <3>1. firstError' = firstError /\ troubles \subseteq troubles'
      BY <2>2, <2>3 DEF FirstError
    <3> QED
      BY <2>3, <3>1 DEF ResultTruthful
  <2>4. CASE firstError = "OK"
    <3>1. firstError' = status /\ troubles = {}
      BY <2>2, <2>4 DEF FirstError, ResultTruthful
    <3>2. CASE status = "OK"
      BY <2>2, <3>1, <3>2 DEF ResultTruthful
    <3>3. CASE status = "IO"
      <4>1. <<slots[resetAt].id, "driver">> \in troubles'
        BY <2>2, <3>3
      <4> QED
        BY <2>1, <3>1, <3>3, <4>1 DEF ResultTruthful
    <3> QED
      BY <3>2, <3>3 DEF Statuses
  <2> QED
    BY <2>3, <2>4
<1> QED
  BY <1>1, <1>2, <1>3, <1>4, <1>5, <1>6, <1>7 DEF Next, Subscribe, Pop, vars

(* poll_all, register and reset tell the truth: success only if every driver   *)
(* and every queue succeeded, and no error that did not happen.               *)
THEOREM ResultCorrect == Spec => []ResultTruthful
<1>1. Init => ResultTruthful
  BY DEF Init, ResultTruthful
<1> QED
  BY <1>1, TablesInit, TablesNext, TruthNext, PTL DEF Spec

-----------------------------------------------------------------------------
(* The numbering.  A sequence of waiting events s and the numbers f already   *)
(* seen are in order when each event has a greater number than all before it. *)
SourceOf(event) == <<event.id, event.era>>
InOrder(s, f) ==
  \A j \in 1..Len(s) :
    /\ s[j].sequence > f[SourceOf(s[j])]
    /\ \A i \in 1..j - 1 : SameSource(s[i], s[j]) => s[i].sequence < s[j].sequence

LEMMA InOrderDef == NumberedInOrder <=> \A q \in Queues : InOrder(queue[q], seen[q])
  BY DEF NumberedInOrder, InOrder, SourceOf

LEMMA EventFields ==
  ASSUME NEW event \in Events
  PROVE  /\ event.sequence \in Int /\ event.sequence >= 0 /\ event.era \in 0..MaxEras
         /\ event.id \in Ids /\ SourceOf(event) \in Sources
  BY Sizes DEF Events, SourceOf, Sources

LEMMA TailOrder ==
  ASSUME NEW s \in Seq(Events), NEW f, s # <<>>, InOrder(s, f)
  PROVE  InOrder(Tail(s), f)
<1>1. /\ Tail(s) \in Seq(Events) /\ Len(Tail(s)) = Len(s) - 1 /\ Len(s) \in Nat
      /\ \A j \in 1..Len(Tail(s)) : Tail(s)[j] = s[j + 1]
  BY HeadTailProperties
<1> SUFFICES ASSUME NEW j \in 1..Len(Tail(s))
             PROVE  /\ Tail(s)[j].sequence > f[SourceOf(Tail(s)[j])]
                    /\ \A i \in 1..j - 1 : SameSource(Tail(s)[i], Tail(s)[j]) =>
                         Tail(s)[i].sequence < Tail(s)[j].sequence
  BY DEF InOrder
<1>2. j + 1 \in 1..Len(s) /\ Tail(s)[j] = s[j + 1]
  BY <1>1
<1>3. \A i \in 1..j - 1 : i + 1 \in 1..(j + 1) - 1 /\ Tail(s)[i] = s[i + 1]
  BY <1>1
<1> QED
  BY <1>2, <1>3 DEF InOrder

LEMMA AppendOrder ==
  ASSUME NEW s \in Seq(Events), NEW event \in Events, NEW f, InOrder(s, f),
         event.sequence > f[SourceOf(event)],
         \A i \in 1..Len(s) : SameSource(s[i], event) => s[i].sequence < event.sequence
  PROVE  InOrder(Append(s, event), f)
<1>1. /\ Len(Append(s, event)) = Len(s) + 1 /\ Len(s) \in Nat
      /\ \A j \in 1..Len(s) : Append(s, event)[j] = s[j]
      /\ Append(s, event)[Len(s) + 1] = event
  BY AppendProperties
<1> SUFFICES ASSUME NEW j \in 1..Len(s) + 1
             PROVE  /\ Append(s, event)[j].sequence > f[SourceOf(Append(s, event)[j])]
                    /\ \A i \in 1..j - 1 :
                         SameSource(Append(s, event)[i], Append(s, event)[j]) =>
                         Append(s, event)[i].sequence < Append(s, event)[j].sequence
  BY <1>1 DEF InOrder
<1>2. CASE j \in 1..Len(s)
  <2>1. \A i \in 1..j - 1 : i \in 1..Len(s)
    BY <1>1, <1>2
  <2> QED
    BY <1>1, <1>2, <2>1 DEF InOrder
<1>3. CASE j = Len(s) + 1
  <2>1. \A i \in 1..j - 1 : i \in 1..Len(s)
    BY <1>1, <1>3
  <2> QED
    BY <1>1, <1>3, <2>1
<1> QED
  BY <1>1, <1>2, <1>3

LEMMA PopOrder ==
  ASSUME NEW s \in Seq(Events), NEW f \in [Sources -> Int], s # <<>>, InOrder(s, f)
  PROVE  InOrder(Tail(s), [f EXCEPT ![SourceOf(Head(s))] = Head(s).sequence])
<1> DEFINE g == [f EXCEPT ![SourceOf(Head(s))] = Head(s).sequence]
<1>1. /\ Tail(s) \in Seq(Events) /\ Len(Tail(s)) = Len(s) - 1 /\ Len(s) \in Nat
      /\ \A j \in 1..Len(Tail(s)) : Tail(s)[j] = s[j + 1]
      /\ Head(s) = s[1] /\ 1 \in 1..Len(s)
  BY HeadTailProperties
<1>2. InOrder(Tail(s), f)
  BY TailOrder
<1>3. ASSUME NEW j \in 1..Len(Tail(s))
      PROVE  Tail(s)[j].sequence > g[SourceOf(Tail(s)[j])]
  <2>1. j + 1 \in 1..Len(s) /\ Tail(s)[j] = s[j + 1] /\ 1 \in 1..(j + 1) - 1
    BY <1>1, <1>3
  <2>2. s[j + 1] \in Events /\ s[1] \in Events
    BY <1>1, <2>1, ElementOfSeq
  <2>3. SourceOf(s[j + 1]) \in Sources
    BY <2>2, EventFields
  <2>4. CASE SourceOf(s[j + 1]) = SourceOf(s[1])
    <3>1. SameSource(s[1], s[j + 1])
      BY <2>4 DEF SourceOf, SameSource
    <3>2. s[1].sequence < s[j + 1].sequence
      BY <2>1, <3>1 DEF InOrder
    <3>3. g[SourceOf(s[j + 1])] = s[1].sequence
      BY <1>1, <2>3, <2>4
    <3>4. s[1].sequence \in Int /\ s[j + 1].sequence \in Int
      BY <2>2, EventFields
    <3> QED
      BY <2>1, <3>2, <3>3, <3>4
  <2>5. CASE SourceOf(s[j + 1]) # SourceOf(s[1])
    <3>1. g[SourceOf(s[j + 1])] = f[SourceOf(s[j + 1])]
      BY <1>1, <2>3, <2>5
    <3> QED
      BY <1>2, <1>3, <2>1, <3>1 DEF InOrder
  <2> QED
    BY <2>4, <2>5
<1> QED
  BY <1>2, <1>3 DEF InOrder

(* Every number in circulation was given out by a registration that still     *)
(* counts on from it, or by one before the last reset.                        *)
Used(id, n) == \E i \in 1..Len(slots) : slots[i].id = id /\ n < slots[i].next
GivenOut(id, e, n) == e <= era /\ (e = era => Used(id, n))
IdsDistinct ==
  \A i, j \in 1..Len(slots) : slots[i].id = slots[j].id => i = j
QueuesType ==
  /\ queue \in [Queues -> Seq(Events)]
  /\ seen \in [Queues -> [Sources -> -1..MaxSequence]]
Past ==
  /\ \A q \in Queues : \A j \in 1..Len(queue[q]) :
       GivenOut(queue[q][j].id, queue[q][j].era, queue[q][j].sequence)
  /\ \A q \in Queues, id \in Ids, e \in 0..MaxEras :
       seen[q][<<id, e>>] # -1 => GivenOut(id, e, seen[q][<<id, e>>])
Numbering == QueuesType /\ IdsDistinct /\ Past
OrderInv == TablesType /\ Numbering /\ NumberedInOrder

(* Steps that keep the queues and what was seen, and under which every number *)
(* given out stays given out.                                                 *)
LEMMA PastKept ==
  ASSUME Numbering, NumberedInOrder, UNCHANGED <<queue, seen>>, IdsDistinct',
         \A id \in Ids, e \in 0..MaxEras, n \in 0..MaxSequence :
           GivenOut(id, e, n) => GivenOut(id, e, n)'
  PROVE  Numbering' /\ NumberedInOrder'
<1>1. QueuesType' /\ NumberedInOrder'
  BY DEF Numbering, QueuesType, NumberedInOrder
<1>2. \A q \in Queues : \A j \in 1..Len(queue[q]) :
        GivenOut(queue[q][j].id, queue[q][j].era, queue[q][j].sequence)'
  <2>1. TAKE q \in Queues
  <2>2. TAKE j \in 1..Len(queue[q])
  <2>3. queue[q][j] \in Events
    BY ElementOfSeq DEF Numbering, QueuesType
  <2>4. /\ queue[q][j].id \in Ids /\ queue[q][j].era \in 0..MaxEras
        /\ queue[q][j].sequence \in 0..MaxSequence
    BY <2>3 DEF Events
  <2>5. GivenOut(queue[q][j].id, queue[q][j].era, queue[q][j].sequence)
    BY DEF Numbering, Past
  <2>6. PICK id \in Ids, e \in 0..MaxEras, n \in 0..MaxSequence :
          id = queue[q][j].id /\ e = queue[q][j].era /\ n = queue[q][j].sequence
    BY <2>4
  <2>7. GivenOut(id, e, n)'
    BY <2>5, <2>6
  <2> QED
    BY <2>6, <2>7 DEF GivenOut, Used
<1>3. \A q \in Queues, id \in Ids, e \in 0..MaxEras :
        seen[q][<<id, e>>] # -1 => GivenOut(id, e, seen[q][<<id, e>>])'
  <2>1. TAKE q \in Queues, id \in Ids, e \in 0..MaxEras
  <2>2. seen[q][<<id, e>>] \in -1..MaxSequence
    <3>1. <<id, e>> \in Sources
      BY DEF Sources
    <3> QED
      BY <3>1 DEF Numbering, QueuesType
  <2>3. HAVE seen[q][<<id, e>>] # -1
  <2>4. seen[q][<<id, e>>] \in 0..MaxSequence
    BY <2>2, <2>3, Sizes
  <2>5. GivenOut(id, e, seen[q][<<id, e>>])
    BY <2>3 DEF Numbering, Past
  <2> QED
    BY <2>4, <2>5 DEF GivenOut, Used
<1> QED
  BY <1>1, <1>2, <1>3 DEF Numbering, Past, GivenOut, Used

LEMMA RegisterOrder ==
  ASSUME OrderInv, NEW id \in Ids, NEW driver \in Drivers, Register(id, driver)
  PROVE  Numbering' /\ NumberedInOrder'
<1> DEFINE slot == [id |-> id, driver |-> driver, next |-> 0]
<1>1. slots \in Seq(Slots) /\ slot \in Slots /\ slots' = Append(slots, slot)
  BY Sizes DEF OrderInv, TablesType, Register, Slots
<1>2. /\ Len(slots') = Len(slots) + 1 /\ Len(slots) \in Nat
      /\ \A i \in 1..Len(slots) : slots'[i] = slots[i]
      /\ slots'[Len(slots) + 1] = slot
  BY <1>1, AppendProperties
<1>3. \A i \in 1..Len(slots) : slots[i].id # id
  BY DEF Register, CanRegister, Find
<1>4. IdsDistinct'
  <2> SUFFICES ASSUME NEW i \in 1..Len(slots) + 1, NEW j \in 1..Len(slots) + 1,
                      slots'[i].id = slots'[j].id
               PROVE  i = j
    BY <1>2 DEF IdsDistinct
  <2>1. CASE i \in 1..Len(slots) /\ j \in 1..Len(slots)
    BY <1>2, <2>1 DEF OrderInv, Numbering, IdsDistinct
  <2>2. CASE i = Len(slots) + 1 \/ j = Len(slots) + 1
    BY <1>2, <1>3, <2>2
  <2> QED
    BY <1>2, <2>1, <2>2
<1>5. UNCHANGED <<queue, seen, era>>
  BY DEF Register, consumers
<1>6. \A k \in Ids, n \in 0..MaxSequence : Used(k, n) => Used(k, n)'
  <2> SUFFICES ASSUME NEW k \in Ids, NEW n \in 0..MaxSequence,
                      NEW i \in 1..Len(slots), slots[i].id = k, n < slots[i].next
               PROVE  \E j \in 1..Len(slots') : slots'[j].id = k /\ n < slots'[j].next
    BY DEF Used
  <2>1. i \in 1..Len(slots') /\ slots'[i] = slots[i]
    BY <1>2
  <2> QED
    BY <2>1
<1>7. \A k \in Ids, e \in 0..MaxEras, n \in 0..MaxSequence :
        GivenOut(k, e, n) => GivenOut(k, e, n)'
  BY <1>5, <1>6 DEF GivenOut
<1> QED
  BY <1>4, <1>5, <1>7, PastKept DEF OrderInv

LEMMA ResetOrder == OrderInv /\ Forgets => Numbering' /\ NumberedInOrder'
<1> SUFFICES ASSUME OrderInv, Forgets PROVE Numbering' /\ NumberedInOrder'
  OBVIOUS
<1>1. slots' = <<>> /\ era' = era + 1 /\ era \in Nat /\ UNCHANGED <<queue, seen>>
  BY Sizes DEF OrderInv, TablesType, Forgets
<1>2. IdsDistinct'
  BY <1>1 DEF IdsDistinct
<1>3. \A id \in Ids, e \in 0..MaxEras, n \in 0..MaxSequence :
        GivenOut(id, e, n) => GivenOut(id, e, n)'
  BY <1>1, Sizes DEF GivenOut
<1> QED
  BY <1>1, <1>2, <1>3, PastKept DEF OrderInv

(* What a push leaves of a queue: the event at its end, if anything changed.  *)
LEMMA PushedCases ==
  ASSUME NEW q \in Queues, NEW event, queue[q] \in Seq(Events)
  PROVE  \/ Pushed(q, event) = Append(queue[q], event)
         \/ /\ queue[q] # <<>>
            /\ Pushed(q, event) = Append(Tail(queue[q]), event)
         \/ Pushed(q, event) = queue[q]
<1>1. Full(q) => queue[q] # <<>>
  BY Sizes, EmptySeq DEF Full
<1> QED
  BY <1>1 DEF Pushed

(* A predicate of events that holds of a queue's events and of the new one     *)
(* holds of what the push leaves.                                             *)
LEMMA PushedElements ==
  ASSUME NEW q \in Queues, NEW event \in Events, queue[q] \in Seq(Events),
         NEW S, event \in S, \A j \in 1..Len(queue[q]) : queue[q][j] \in S
  PROVE  /\ Pushed(q, event) \in Seq(Events)
         /\ \A j \in 1..Len(Pushed(q, event)) : Pushed(q, event)[j] \in S
<1> DEFINE s == queue[q]
<1>1. CASE Pushed(q, event) = Append(s, event)
  <2>1. /\ Append(s, event) \in Seq(Events) /\ Len(Append(s, event)) = Len(s) + 1
        /\ Len(s) \in Nat
        /\ \A j \in 1..Len(s) : Append(s, event)[j] = s[j]
        /\ Append(s, event)[Len(s) + 1] = event
    BY AppendProperties
  <2> QED
    BY <1>1, <2>1
<1>2. CASE s # <<>> /\ Pushed(q, event) = Append(Tail(s), event)
  <2>1. /\ Tail(s) \in Seq(Events) /\ Len(Tail(s)) = Len(s) - 1 /\ Len(s) \in Nat
        /\ \A j \in 1..Len(Tail(s)) : Tail(s)[j] = s[j + 1]
    BY <1>2, HeadTailProperties
  <2>2. /\ Append(Tail(s), event) \in Seq(Events)
        /\ Len(Append(Tail(s), event)) = Len(Tail(s)) + 1
        /\ \A j \in 1..Len(Tail(s)) : Append(Tail(s), event)[j] = Tail(s)[j]
        /\ Append(Tail(s), event)[Len(Tail(s)) + 1] = event
    BY <2>1, AppendProperties
  <2>3. \A j \in 1..Len(Tail(s)) : Append(Tail(s), event)[j] \in S
    BY <2>1, <2>2
  <2> QED
    BY <1>2, <2>1, <2>2, <2>3
<1>3. CASE Pushed(q, event) = s
  BY <1>3
<1> QED
  BY <1>1, <1>2, <1>3, PushedCases

LEMMA PushedOrder ==
  ASSUME NEW q \in Queues, NEW event \in Events, queue[q] \in Seq(Events), NEW f,
         InOrder(queue[q], f), event.sequence > f[SourceOf(event)],
         \A i \in 1..Len(queue[q]) :
           SameSource(queue[q][i], event) => queue[q][i].sequence < event.sequence
  PROVE  InOrder(Pushed(q, event), f)
<1>1. CASE Pushed(q, event) = Append(queue[q], event)
  BY <1>1, AppendOrder
<1>2. CASE queue[q] # <<>> /\ Pushed(q, event) = Append(Tail(queue[q]), event)
  <2>1. /\ Tail(queue[q]) \in Seq(Events) /\ Len(queue[q]) \in Nat
        /\ Len(Tail(queue[q])) = Len(queue[q]) - 1
        /\ \A j \in 1..Len(Tail(queue[q])) : Tail(queue[q])[j] = queue[q][j + 1]
    BY <1>2, HeadTailProperties
  <2>2. InOrder(Tail(queue[q]), f)
    BY <1>2, TailOrder
  <2>3. \A i \in 1..Len(Tail(queue[q])) :
          SameSource(Tail(queue[q])[i], event) =>
            Tail(queue[q])[i].sequence < event.sequence
    <3>1. TAKE i \in 1..Len(Tail(queue[q]))
    <3>2. i + 1 \in 1..Len(queue[q]) /\ Tail(queue[q])[i] = queue[q][i + 1]
      BY <2>1
    <3> QED
      BY <3>2
  <2> QED
    BY <1>2, <2>1, <2>2, <2>3, AppendOrder
<1>3. CASE Pushed(q, event) = queue[q]
  BY <1>3
<1> QED
  BY <1>1, <1>2, <1>3, PushedCases

LEMMA PublishOrder ==
  ASSUME OrderInv, NEW i \in 1..Len(slots), Publish(i), UNCHANGED <<seen, era>>
  PROVE  Numbering' /\ NumberedInOrder'
<1>1. /\ slots' \in Seq(Slots) /\ Len(slots') = Len(slots)
      /\ \A j \in 1..Len(slots) :
           /\ slots'[j].id = slots[j].id
           /\ slots'[j].next = IF j = i THEN slots[i].next + 1 ELSE slots[j].next
  BY PublishTables DEF OrderInv
<1>2. \A j \in 1..Len(slots) : slots[j].next \in 0..MaxSequence /\ slots[j].id \in Ids
  <2>1. \A j \in 1..Len(slots) : slots[j] \in Slots
    BY ElementOfSeq DEF OrderInv, TablesType
  <2> QED
    BY <2>1 DEF Slots
<1>3. era \in 0..MaxEras
  BY DEF OrderInv, TablesType
<1>4. PICK event \in Events :
        event = [id |-> slots[i].id, sequence |-> slots[i].next, era |-> era]
  BY <1>2, <1>3 DEF Events
<1>5. event.id = slots[i].id /\ event.sequence = slots[i].next /\ event.era = era
  BY <1>4
<1>6. \A k \in Ids, n \in 0..MaxSequence : Used(k, n) => Used(k, n)'
  <2> SUFFICES ASSUME NEW k \in Ids, NEW n \in 0..MaxSequence,
                      NEW j \in 1..Len(slots), slots[j].id = k, n < slots[j].next
               PROVE  slots'[j].id = k /\ n < slots'[j].next
    BY <1>1 DEF Used
  <2> QED
    BY <1>1, <1>2
<1>7. \A k \in Ids, e \in 0..MaxEras, n \in 0..MaxSequence :
        GivenOut(k, e, n) => GivenOut(k, e, n)'
  BY <1>6 DEF GivenOut
<1>8. GivenOut(event.id, event.era, event.sequence)'
  <2>1. slots'[i].id = event.id /\ event.sequence < slots'[i].next
    BY <1>1, <1>2, <1>5
  <2>2. Used(event.id, event.sequence)'
    BY <1>1, <2>1 DEF Used
  <2>3. era' = era /\ event.era <= era
    BY <1>3, <1>5
  <2> QED
    BY <2>2, <2>3 DEF GivenOut
<1>9. \A n \in 0..MaxSequence : GivenOut(event.id, event.era, n) => n < event.sequence
  BY <1>2, <1>3, <1>5 DEF GivenOut, Used, OrderInv, Numbering, IdsDistinct
<1>10. IdsDistinct'
  BY <1>1 DEF IdsDistinct, OrderInv, Numbering
<1> DEFINE S == {ev \in Events : GivenOut(ev.id, ev.era, ev.sequence)'}
<1>11. queue \in [Queues -> Seq(Events)] /\ seen \in [Queues -> [Sources -> -1..MaxSequence]]
  BY DEF OrderInv, Numbering, QueuesType
<1>12. queue' = [q \in Queues |->
                   IF q \in Served(slots[i].id) THEN Pushed(q, event) ELSE queue[q]]
  BY <1>4 DEF Publish
<1>13. \A q \in Queues : \A j \in 1..Len(queue[q]) :
         /\ queue[q][j] \in Events
         /\ GivenOut(queue[q][j].id, queue[q][j].era, queue[q][j].sequence)
  BY <1>11, ElementOfSeq DEF OrderInv, Numbering, Past
<1>14. \A q \in Queues : \A j \in 1..Len(queue[q]) : queue[q][j] \in S
  <2>1. TAKE q \in Queues
  <2>2. TAKE j \in 1..Len(queue[q])
  <2>3. PICK ev \in Events : ev = queue[q][j]
    BY <1>13
  <2>4. GivenOut(ev.id, ev.era, ev.sequence)
    BY <1>13, <2>3
  <2>5. ev.id \in Ids /\ ev.era \in 0..MaxEras /\ ev.sequence \in 0..MaxSequence
    BY DEF Events
  <2>6. GivenOut(ev.id, ev.era, ev.sequence)'
    BY <1>7, <2>4, <2>5
  <2> QED
    BY <2>3, <2>6
<1>15. event \in S
  BY <1>8
<1>16. \A q \in Queues :
         /\ queue'[q] \in Seq(Events)
         /\ \A j \in 1..Len(queue'[q]) : queue'[q][j] \in S
  <2>1. TAKE q \in Queues
  <2>2. CASE q \in Served(slots[i].id)
    <3>1. queue[q] \in Seq(Events) /\ queue'[q] = Pushed(q, event)
      BY <1>11, <1>12, <2>2
    <3>2. /\ Pushed(q, event) \in Seq(Events)
          /\ \A j \in 1..Len(Pushed(q, event)) : Pushed(q, event)[j] \in S
      BY <1>14, <1>15, <3>1, PushedElements
    <3> QED
      BY <3>1, <3>2
  <2>3. CASE q \notin Served(slots[i].id)
    BY <1>11, <1>12, <1>14, <2>3
  <2> QED
    BY <2>2, <2>3
<1>17. QueuesType'
  <2>1. queue' \in [Queues -> Seq(Events)]
    BY <1>12, <1>16
  <2> QED
    BY <1>11, <2>1 DEF QueuesType
<1>18. \A q \in Queues : InOrder(queue'[q], seen[q])
  <2>1. TAKE q \in Queues
  <2>2. InOrder(queue[q], seen[q]) /\ queue[q] \in Seq(Events)
    BY <1>11, InOrderDef DEF OrderInv
  <2>3. CASE q \in Served(slots[i].id)
    <3>1. event.sequence > seen[q][SourceOf(event)]
      <4>1. event.id \in Ids /\ event.era \in 0..MaxEras /\ SourceOf(event) \in Sources
            /\ event.sequence \in 0..MaxSequence
        BY EventFields DEF Events
      <4>2. seen[q][SourceOf(event)] \in -1..MaxSequence
        BY <1>11, <4>1
      <4>3. CASE seen[q][SourceOf(event)] = -1
        BY <4>1, <4>3, Sizes
      <4>4. CASE seen[q][SourceOf(event)] # -1
        <5>1. GivenOut(event.id, event.era, seen[q][SourceOf(event)])
          BY <4>1, <4>4 DEF OrderInv, Numbering, Past, SourceOf
        <5>2. seen[q][SourceOf(event)] \in 0..MaxSequence
          BY <4>2, <4>4, Sizes
        <5> QED
          BY <1>9, <4>1, <5>1, <5>2
      <4> QED
        BY <4>3, <4>4
    <3>2. \A j \in 1..Len(queue[q]) :
            SameSource(queue[q][j], event) => queue[q][j].sequence < event.sequence
      <4>1. TAKE j \in 1..Len(queue[q])
      <4>2. HAVE SameSource(queue[q][j], event)
      <4>3. queue[q][j].sequence \in 0..MaxSequence
        BY <1>13 DEF Events
      <4>4. GivenOut(event.id, event.era, queue[q][j].sequence)
        BY <1>13, <4>2 DEF SameSource
      <4> QED
        BY <1>9, <4>3, <4>4
    <3>3. InOrder(Pushed(q, event), seen[q])
      BY <2>2, <3>1, <3>2, PushedOrder
    <3> QED
      BY <1>12, <2>3, <3>3
  <2>4. CASE q \notin Served(slots[i].id)
    BY <1>12, <2>2, <2>4
  <2> QED
    BY <2>3, <2>4
<1>19. NumberedInOrder'
  BY <1>18 DEF NumberedInOrder, InOrder, SourceOf
<1>20. Past'
  <2>1. \A q \in Queues : \A j \in 1..Len(queue'[q]) :
          GivenOut(queue[q][j].id, queue[q][j].era, queue[q][j].sequence)'
    <3>1. TAKE q \in Queues
    <3>2. TAKE j \in 1..Len(queue'[q])
    <3>3. PICK ev \in S : ev = queue'[q][j]
      BY <1>16
    <3> QED
      BY <3>3 DEF GivenOut, Used
  <2>2. \A q \in Queues, id \in Ids, e \in 0..MaxEras :
          seen[q][<<id, e>>] # -1 => GivenOut(id, e, seen[q][<<id, e>>])'
    <3>1. TAKE q \in Queues, id \in Ids, e \in 0..MaxEras
    <3>2. HAVE seen[q][<<id, e>>] # -1
    <3>3. <<id, e>> \in Sources
      BY DEF Sources
    <3>4. PICK n \in 0..MaxSequence : n = seen[q][<<id, e>>]
      BY <1>11, <3>2, <3>3, Sizes
    <3>5. GivenOut(id, e, n)'
      BY <1>7, <3>2, <3>4 DEF OrderInv, Numbering, Past
    <3> QED
      BY <3>4, <3>5 DEF GivenOut, Used
  <2> QED
    BY <2>1, <2>2 DEF Past
<1> QED
  BY <1>10, <1>17, <1>19, <1>20 DEF Numbering

LEMMA PopKeepsOrder ==
  ASSUME OrderInv, NEW q \in Queues, Pop(q) PROVE Numbering' /\ NumberedInOrder'
<1> DEFINE event == Head(queue[q])
<1>1. queue \in [Queues -> Seq(Events)] /\ seen \in [Queues -> [Sources -> -1..MaxSequence]]
  BY DEF OrderInv, Numbering, QueuesType
<1>2. /\ queue[q] # <<>> /\ queue[q] \in Seq(Events) /\ event \in Events
      /\ event = queue[q][1] /\ 1 \in 1..Len(queue[q])
      /\ Tail(queue[q]) \in Seq(Events) /\ Len(Tail(queue[q])) = Len(queue[q]) - 1
      /\ Len(queue[q]) \in Nat
      /\ \A j \in 1..Len(Tail(queue[q])) : Tail(queue[q])[j] = queue[q][j + 1]
  BY <1>1, HeadTailProperties DEF Pop
<1>3. /\ seen' = [seen EXCEPT ![q] = [seen[q] EXCEPT ![SourceOf(event)] = event.sequence]]
      /\ queue' = [queue EXCEPT ![q] = Tail(queue[q])]
      /\ UNCHANGED <<slots, era>>
  BY DEF Pop, SourceOf, tables
<1>4. event.sequence \in 0..MaxSequence /\ SourceOf(event) \in Sources
      /\ event.id \in Ids /\ event.era \in 0..MaxEras
  BY <1>2, EventFields DEF Events
<1>5. QueuesType'
  BY <1>1, <1>2, <1>3, <1>4, Sizes DEF QueuesType
<1>6. IdsDistinct'
  BY <1>3 DEF OrderInv, Numbering, IdsDistinct
<1>7. \A p \in Queues : InOrder(queue[p], seen[p])
  BY InOrderDef DEF OrderInv
<1>8. \A p \in Queues : InOrder(queue'[p], seen'[p])
  <2>1. TAKE p \in Queues
  <2>2. CASE p = q
    <3>1. seen[q] \in [Sources -> Int]
      BY <1>1
    <3>2. InOrder(Tail(queue[q]), [seen[q] EXCEPT ![SourceOf(event)] = event.sequence])
      BY <1>2, <1>7, <3>1, PopOrder
    <3> QED
      BY <1>1, <1>3, <2>2, <3>2
  <2>3. CASE p # q
    BY <1>1, <1>3, <1>7, <2>3
  <2> QED
    BY <2>2, <2>3
<1>9. NumberedInOrder'
  BY <1>8 DEF NumberedInOrder, InOrder, SourceOf
<1>10. \A p \in Queues : \A j \in 1..Len(queue'[p]) :
         \E k \in 1..Len(queue[p]) : queue'[p][j] = queue[p][k]
  <2>1. TAKE p \in Queues
  <2>2. CASE p = q
    <3>1. queue'[q] = Tail(queue[q])
      BY <1>1, <1>3
    <3>2. \A j \in 1..Len(Tail(queue[q])) : j + 1 \in 1..Len(queue[q])
      BY <1>2
    <3> QED
      BY <1>2, <2>2, <3>1, <3>2
  <2>3. CASE p # q
    BY <1>1, <1>3, <2>3
  <2> QED
    BY <2>2, <2>3
<1>11. Past'
  <2>1. \A p \in Queues : \A j \in 1..Len(queue'[p]) :
          GivenOut(queue[p][j].id, queue[p][j].era, queue[p][j].sequence)'
    <3>1. TAKE p \in Queues
    <3>2. TAKE j \in 1..Len(queue'[p])
    <3>3. PICK k \in 1..Len(queue[p]) : queue'[p][j] = queue[p][k]
      BY <1>10
    <3>4. GivenOut(queue[p][k].id, queue[p][k].era, queue[p][k].sequence)
      BY DEF OrderInv, Numbering, Past
    <3> QED
      BY <1>3, <3>3, <3>4 DEF GivenOut, Used
  <2>2. \A p \in Queues, id \in Ids, e \in 0..MaxEras :
          seen'[p][<<id, e>>] # -1 => GivenOut(id, e, seen[p][<<id, e>>])'
    <3>1. TAKE p \in Queues, id \in Ids, e \in 0..MaxEras
    <3>2. <<id, e>> \in Sources
      BY DEF Sources
    <3>3. CASE p = q /\ <<id, e>> = SourceOf(event)
      <4>1. seen'[p][<<id, e>>] = event.sequence
        BY <1>1, <1>3, <3>2, <3>3
      <4>2. id = event.id /\ e = event.era
        BY <3>3 DEF SourceOf
      <4>3. GivenOut(id, e, event.sequence)
        BY <1>2, <4>2 DEF OrderInv, Numbering, Past
      <4> QED
        BY <1>3, <4>1, <4>3 DEF GivenOut, Used
    <3>4. CASE ~(p = q /\ <<id, e>> = SourceOf(event))
      <4>1. seen'[p][<<id, e>>] = seen[p][<<id, e>>]
        BY <1>1, <1>3, <1>4, <3>2, <3>4
      <4>2. seen[p][<<id, e>>] # -1 => GivenOut(id, e, seen[p][<<id, e>>])
        BY DEF OrderInv, Numbering, Past
      <4> QED
        BY <1>3, <4>1, <4>2 DEF GivenOut, Used
    <3> QED
      BY <3>3, <3>4
  <2> QED
    BY <2>1, <2>2 DEF Past
<1> QED
  BY <1>5, <1>6, <1>9, <1>11 DEF Numbering

LEMMA OrderInit == Init => Numbering /\ NumberedInOrder
<1> SUFFICES ASSUME Init PROVE Numbering /\ NumberedInOrder
  OBVIOUS
<1>1. /\ slots = <<>> /\ queue = [q \in Queues |-> <<>>]
      /\ seen = [q \in Queues |-> [source \in Sources |-> -1]]
  BY DEF Init
<1>2. QueuesType
  BY <1>1, Sizes DEF QueuesType
<1>3. IdsDistinct
  BY <1>1 DEF IdsDistinct
<1>4. \A q \in Queues : 1..Len(queue[q]) = {}
  BY <1>1
<1>5. \A q \in Queues, id \in Ids, e \in 0..MaxEras : seen[q][<<id, e>>] = -1
  BY <1>1 DEF Sources
<1>6. Past
  BY <1>4, <1>5 DEF Past
<1> QED
  BY <1>2, <1>3, <1>4, <1>6 DEF Numbering, NumberedInOrder

LEMMA OrderNext ==
  TablesType /\ Numbering /\ NumberedInOrder /\ [Next]_vars
    => Numbering' /\ NumberedInOrder'
<1> SUFFICES ASSUME TablesType, Numbering, NumberedInOrder, [Next]_vars
             PROVE  Numbering' /\ NumberedInOrder'
  OBVIOUS
<1>1. OrderInv
  BY DEF OrderInv
<1>2. ASSUME UNCHANGED <<slots, queue, seen, era>>
      PROVE  Numbering' /\ NumberedInOrder'
  <2>1. IdsDistinct'
    BY <1>2 DEF Numbering, IdsDistinct
  <2>2. \A id \in Ids, e \in 0..MaxEras, n \in 0..MaxSequence :
          GivenOut(id, e, n) => GivenOut(id, e, n)'
    BY <1>2 DEF GivenOut, Used
  <2> QED
    BY <1>2, <2>1, <2>2, PastKept
<1>3. CASE PollSensor
  <2>1. UNCHANGED <<seen, era>>
    BY <1>3 DEF PollSensor, consumers
  <2>2. CASE Publish(at)
    <3>1. at \in 1..Len(slots)
      BY <1>3, LenProperties DEF PollSensor, TablesType, Idle
    <3> QED
      BY <1>1, <2>1, <2>2, <3>1, PublishOrder
  <2>3. CASE UNCHANGED <<slots, queue, dropped>>
    BY <1>2, <2>1, <2>3
  <2> QED
    BY <1>3, <2>2, <2>3 DEF PollSensor
<1>4. CASE PollStart \/ ResetStart
  BY <1>2, <1>4 DEF PollStart, ResetStart, tables, consumers
<1>5. ASSUME NEW id \in Ids, NEW q \in Queues, Subscribe(id, q)
      PROVE  Numbering' /\ NumberedInOrder'
  BY <1>2, <1>5 DEF Subscribe, consumers
<1>6. CASE UNCHANGED vars
  BY <1>2, <1>6 DEF vars, tables, consumers
<1>7. CASE ResetDriver
  BY <1>1, <1>2, <1>7, ResetForgets, ResetOrder
<1>8. ASSUME NEW id \in Ids, RegisterFails(id) PROVE Numbering' /\ NumberedInOrder'
  BY <1>2, <1>8 DEF RegisterFails, tables, consumers
<1> QED
  BY <1>1, <1>3, <1>4, <1>5, <1>6, <1>7, <1>8, RegisterOrder, PopKeepsOrder DEF Next

(* For any number of sensors, consumers, resets and any overflow policies, a   *)
(* consumer sees the events of a registration once and in order.              *)
THEOREM OrderCorrect == Spec => []NumberedInOrder
  BY TablesInit, TablesNext, OrderInit, OrderNext, PTL DEF Spec

-----------------------------------------------------------------------------
(* The counters of a queue and its length.  A gap is a number because the      *)
(* events are in order.                                                       *)
CountersType ==
  /\ dropped \in [Queues -> Nat]
  /\ missed \in [Queues -> Nat]
  /\ \A q \in Queues : Len(queue[q]) <= Capacity[q]

LEMMA PushedLength ==
  ASSUME NEW q \in Queues, NEW event \in Events, queue[q] \in Seq(Events),
         Len(queue[q]) <= Capacity[q]
  PROVE  Len(Pushed(q, event)) <= Capacity[q]
<1>1. Len(queue[q]) \in Nat /\ Capacity[q] \in Nat \ {0}
  BY Sizes
<1>2. CASE ~Full(q)
  <2>1. Len(Append(queue[q], event)) = Len(queue[q]) + 1
    BY AppendProperties
  <2> QED
    BY <1>1, <1>2, <2>1 DEF Full, Pushed
<1>3. CASE Full(q) /\ Policy[q] = "DROP_OLDEST"
  <2>1. queue[q] # <<>>
    BY <1>1, <1>3, EmptySeq DEF Full
  <2>2. Tail(queue[q]) \in Seq(Events) /\ Len(Tail(queue[q])) = Len(queue[q]) - 1
    BY <2>1, HeadTailProperties
  <2>3. Len(Append(Tail(queue[q]), event)) = Len(queue[q])
    BY <1>1, <2>2, AppendProperties
  <2> QED
    BY <1>3, <2>3 DEF Pushed
<1>4. CASE Full(q) /\ Policy[q] # "DROP_OLDEST"
  BY <1>4 DEF Pushed
<1> QED
  BY <1>2, <1>3, <1>4

LEMMA PublishCounters ==
  ASSUME OrderInv, CountersType, NEW i \in 1..Len(slots), Publish(i), UNCHANGED missed
  PROVE  CountersType'
<1> DEFINE event == [id |-> slots[i].id, sequence |-> slots[i].next, era |-> era]
<1>1. event \in Events
  <2>1. slots[i] \in Slots
    BY ElementOfSeq DEF OrderInv, TablesType
  <2> QED
    BY <2>1 DEF Slots, Events, OrderInv, TablesType
<1>2. queue \in [Queues -> Seq(Events)]
  BY DEF OrderInv, Numbering, QueuesType
<1>3. queue' = [q \in Queues |->
                  IF q \in Served(slots[i].id) THEN Pushed(q, event) ELSE queue[q]]
  BY DEF Publish
<1>4. \A q \in Queues : Len(queue'[q]) <= Capacity[q]
  BY <1>1, <1>2, <1>3, PushedLength DEF CountersType
<1>5. dropped' = [q \in Queues |->
                    dropped[q] + IF q \in Served(slots[i].id) /\ Full(q) THEN 1 ELSE 0]
  BY DEF Publish
<1>6. dropped' \in [Queues -> Nat]
  BY <1>5 DEF CountersType
<1> QED
  BY <1>4, <1>6 DEF CountersType

LEMMA PopCounters ==
  ASSUME OrderInv, CountersType, NEW q \in Queues, Pop(q) PROVE CountersType'
<1> DEFINE event == Head(queue[q])
<1>1. queue \in [Queues -> Seq(Events)] /\ seen \in [Queues -> [Sources -> -1..MaxSequence]]
  BY DEF OrderInv, Numbering, QueuesType
<1>2. /\ event \in Events /\ event = queue[q][1] /\ 1 \in 1..Len(queue[q])
      /\ Len(Tail(queue[q])) = Len(queue[q]) - 1 /\ Len(queue[q]) \in Nat
  BY <1>1, HeadTailProperties DEF Pop
<1>3. event.sequence > seen[q][SourceOf(event)]
  BY <1>2, InOrderDef DEF OrderInv, InOrder
<1>4. event.sequence \in Int /\ event.sequence >= 0 /\ seen[q][SourceOf(event)] \in Int
  BY <1>1, <1>2, EventFields
<1>5. Gap(seen[q][SourceOf(event)], event) \in Nat
  BY <1>3, <1>4 DEF Gap
<1>6. missed' = [missed EXCEPT ![q] = @ + Gap(seen[q][SourceOf(event)], event)]
  BY DEF Pop, SourceOf
<1>7. missed[q] \in Nat /\ missed \in [Queues -> Nat]
  BY DEF CountersType
<1>8. missed' \in [Queues -> Nat]
  BY <1>5, <1>6, <1>7
<1>9. queue' = [queue EXCEPT ![q] = Tail(queue[q])]
  BY DEF Pop
<1>10. \A p \in Queues : Len(queue'[p]) <= Capacity[p]
  <2>1. TAKE p \in Queues
  <2>2. CASE p = q
    BY <1>1, <1>2, <1>9, <2>2, Sizes DEF CountersType
  <2>3. CASE p # q
    BY <1>1, <1>9, <2>3 DEF CountersType
  <2> QED
    BY <2>2, <2>3
<1>11. dropped' = dropped
  BY DEF Pop
<1> QED
  BY <1>8, <1>10, <1>11 DEF CountersType

LEMMA CountersInit == Init => CountersType
<1> SUFFICES ASSUME Init PROVE CountersType
  OBVIOUS
<1>1. /\ queue = [q \in Queues |-> <<>>] /\ dropped = [q \in Queues |-> 0]
      /\ missed = [q \in Queues |-> 0]
  BY DEF Init
<1>2. \A q \in Queues : Len(queue[q]) = 0 /\ Capacity[q] \in Nat
  BY <1>1, Sizes
<1> QED
  BY <1>1, <1>2 DEF CountersType

LEMMA CountersNext ==
  /\ TablesType /\ Numbering /\ NumberedInOrder
  /\ CountersType /\ [Next]_vars
  => CountersType'
<1> SUFFICES ASSUME TablesType, Numbering, NumberedInOrder, CountersType, [Next]_vars
             PROVE  CountersType'
  OBVIOUS
<1>1. OrderInv
  BY DEF OrderInv
<1>2. ASSUME UNCHANGED <<queue, dropped, missed>> PROVE CountersType'
  BY <1>2 DEF CountersType
<1>3. CASE PollSensor
  <2>1. CASE Publish(at)
    <3>1. at \in 1..Len(slots) /\ missed' = missed
      BY <1>3, LenProperties DEF PollSensor, TablesType, Idle, consumers
    <3> QED
      BY <1>1, <2>1, <3>1, PublishCounters
  <2>2. CASE UNCHANGED <<slots, queue, dropped>>
    BY <1>2, <1>3, <2>2 DEF PollSensor, consumers
  <2> QED
    BY <1>3, <2>1, <2>2 DEF PollSensor
<1>4. CASE PollStart \/ ResetStart \/ ResetDriver
  BY <1>2, <1>4 DEF PollStart, ResetStart, ResetDriver, consumers
<1>5. ASSUME NEW id \in Ids, NEW q \in Queues, Subscribe(id, q)
      PROVE  UNCHANGED <<queue, dropped, missed>>
  BY <1>5 DEF Subscribe, consumers
<1>6. ASSUME NEW id \in Ids, NEW driver \in Drivers, Register(id, driver)
      PROVE  UNCHANGED <<queue, dropped, missed>>
  BY <1>6 DEF Register, consumers
<1>7. CASE UNCHANGED vars
  BY <1>2, <1>7 DEF vars, consumers
<1>8. ASSUME NEW id \in Ids, RegisterFails(id) PROVE UNCHANGED <<queue, dropped, missed>>
  BY <1>8 DEF RegisterFails, consumers
<1> QED
  BY <1>1, <1>2, <1>3, <1>4, <1>5, <1>6, <1>7, <1>8, PopCounters DEF Next

-----------------------------------------------------------------------------
(* The drivers still to be deinitialised, of the tables sl in which reset has  *)
(* come to r.                                                                 *)
Due(sl, r) ==
  {<<sl[i].id, sl[i].driver>> :
     i \in {j \in 1..Len(sl) : sl[j].driver \in Removable /\ j >= r}}

LEMMA DueDef == DriversReleased <=> live = Due(slots, resetAt)
  BY DEF DriversReleased, WithDeinit, Due

(* Only ids and drivers of the slots matter.                                  *)
LEMMA DueKept ==
  ASSUME NEW sl, NEW tl, NEW r, Len(sl) = Len(tl),
         \A i \in 1..Len(sl) : sl[i].id = tl[i].id /\ sl[i].driver = tl[i].driver
  PROVE  Due(sl, r) = Due(tl, r)
  BY DEF Due

LEMMA DueAppended ==
  ASSUME NEW sl \in Seq(Slots), NEW slot \in Slots
  PROVE  Due(Append(sl, slot), 0) = Due(sl, 0) \cup ({slot.id} \X ({slot.driver} \cap Removable))
<1>1. /\ Len(Append(sl, slot)) = Len(sl) + 1 /\ Len(sl) \in Nat
      /\ \A i \in 1..Len(sl) : Append(sl, slot)[i] = sl[i]
      /\ Append(sl, slot)[Len(sl) + 1] = slot
  BY AppendProperties
<1>2. 1..Len(Append(sl, slot)) = (1..Len(sl)) \cup {Len(sl) + 1}
  BY <1>1
<1> QED
  BY <1>1, <1>2 DEF Due

(* As ids are distinct, a step of reset takes out its own driver and no other. *)
LEMMA DueNext ==
  ASSUME NEW sl \in Seq(Slots), NEW r \in 1..Len(sl),
         \A i, j \in 1..Len(sl) : sl[i].id = sl[j].id => i = j
  PROVE  Due(sl, r) \ {<<sl[r].id, sl[r].driver>>} = Due(sl, r + 1)
<1>1. Len(sl) \in Nat
  OBVIOUS
<1>2. \A i \in 1..Len(sl) : i >= r + 1 <=> i >= r /\ i # r
  BY <1>1
<1>3. \A i \in 1..Len(sl) : <<sl[i].id, sl[i].driver>> = <<sl[r].id, sl[r].driver>> <=> i = r
  OBVIOUS
<1> QED
  BY <1>2, <1>3 DEF Due

LEMMA DueBehind ==
  ASSUME NEW sl \in Seq(Slots) PROVE Due(sl, Len(sl) + 1) = {} /\ Due(<<>>, 0) = {}
<1>1. Len(sl) \in Nat /\ \A i \in 1..Len(sl) : ~(i >= Len(sl) + 1)
  OBVIOUS
<1>2. \A i : i \notin 1..Len(<<>>)
  OBVIOUS
<1> QED
  BY <1>1, <1>2 DEF Due

LEMMA DueStart ==
  ASSUME NEW sl PROVE Due(sl, 1) = Due(sl, 0)
<1>1. \A i \in 1..Len(sl) : i >= 1 /\ i >= 0
  OBVIOUS
<1> QED
  BY <1>1 DEF Due

LEMMA ReleasedNext ==
  TablesType /\ Numbering /\ DriversReleased /\ [Next]_vars => DriversReleased'
<1> SUFFICES ASSUME TablesType, Numbering, DriversReleased, [Next]_vars
             PROVE  live' = Due(slots', resetAt')
  BY DEF DriversReleased, WithDeinit, Due
<1>1. live = Due(slots, resetAt) /\ slots \in Seq(Slots)
  BY DueDef DEF TablesType
<1>2. ASSUME UNCHANGED <<live, slots, resetAt>> PROVE live' = Due(slots', resetAt')
  BY <1>1, <1>2
<1>3. ASSUME NEW id \in Ids, NEW driver \in Drivers, Register(id, driver)
      PROVE  live' = Due(slots', resetAt')
  <2>1. /\ resetAt = 0 /\ resetAt' = 0
        /\ slots' = Append(slots, [id |-> id, driver |-> driver, next |-> 0])
        /\ live' = live \cup ({id} \X ({driver} \cap Removable))
    BY <1>3 DEF Register, CanRegister, Idle
  <2>2. PICK slot \in Slots : slot = [id |-> id, driver |-> driver, next |-> 0]
    <3>1. [id |-> id, driver |-> driver, next |-> 0] \in Slots
      BY Sizes DEF Slots
    <3> QED
      BY <3>1
  <2>3. Due(Append(slots, slot), 0) = Due(slots, 0) \cup ({slot.id} \X ({slot.driver} \cap Removable))
    BY <1>1, DueAppended
  <2>4. slot.id = id /\ slot.driver = driver
    BY <2>2
  <2> QED
    BY <1>1, <2>1, <2>2, <2>3, <2>4
<1>4. CASE PollSensor
  <2>1. UNCHANGED <<live, resetAt>> /\ at \in 1..Len(slots)
    BY <1>4 DEF PollSensor, TablesType
  <2>2. CASE Publish(at)
    <3>1. /\ Len(slots) = Len(slots')
          /\ \A i \in 1..Len(slots) :
               slots[i].id = slots'[i].id /\ slots[i].driver = slots'[i].driver
      BY <2>1, <2>2, PublishTables
    <3> QED
      BY <1>1, <2>1, <3>1, DueKept
  <2>3. CASE UNCHANGED slots
    BY <1>1, <2>1, <2>3
  <2> QED
    BY <1>4, <2>2, <2>3 DEF PollSensor
<1>5. CASE ResetStart
  <2>1. UNCHANGED <<live, slots>> /\ resetAt = 0 /\ resetAt' = 1
    BY <1>5 DEF ResetStart, Idle, tables
  <2> QED
    BY <1>1, <2>1, DueStart
<1>6. CASE ResetDriver
  <2>1. resetAt \in 1..Len(slots)
    BY <1>6 DEF ResetDriver, TablesType
  <2>2. live' = Due(slots, resetAt + 1)
    <3>1. live' = live \ {<<slots[resetAt].id, slots[resetAt].driver>>}
      BY <1>6 DEF ResetDriver
    <3>2. \A i, j \in 1..Len(slots) : slots[i].id = slots[j].id => i = j
      BY DEF Numbering, IdsDistinct
    <3> QED
      BY <1>1, <2>1, <3>1, <3>2, DueNext
  <2>3. CASE UNCHANGED slots /\ resetAt' = resetAt + 1
    BY <2>2, <2>3
  <2>4. CASE slots' = <<>> /\ resetAt' = 0 /\ resetAt = Len(slots)
    BY <1>1, <2>2, <2>4, DueBehind
  <2> QED
    BY <1>6, <2>3, <2>4 DEF ResetDriver, LastRelease
<1>7. CASE PollStart \/ UNCHANGED vars
  BY <1>2, <1>7 DEF PollStart, vars, tables
<1>8. ASSUME NEW id \in Ids, NEW q \in Queues, Subscribe(id, q)
      PROVE  live' = Due(slots', resetAt')
  BY <1>2, <1>8 DEF Subscribe
<1>9. ASSUME NEW id \in Ids, RegisterFails(id) PROVE live' = Due(slots', resetAt')
  BY <1>2, <1>9 DEF RegisterFails, tables
<1>10. ASSUME NEW q \in Queues, Pop(q) PROVE live' = Due(slots', resetAt')
  BY <1>2, <1>10 DEF Pop, tables
<1> QED
  BY <1>3, <1>4, <1>5, <1>6, <1>7, <1>8, <1>9, <1>10 DEF Next

(* Every driver that can be deinitialised is in the table or, in reset, still  *)
(* to come, until it is deinitialised: no failing init or deinit of another    *)
(* driver leaves one that nobody will deinitialise.                           *)
THEOREM DriversCorrect == Spec => []DriversReleased
<1>1. Init => DriversReleased
  <2> SUFFICES ASSUME Init PROVE live = Due(slots, resetAt)
    BY DueDef
  <2>1. live = {} /\ slots = <<>> /\ resetAt = 0 /\ <<>> \in Seq(Slots)
    BY DEF Init
  <2> QED
    BY <2>1, DueBehind
<1> QED
  BY <1>1, TablesInit, TablesNext, OrderInit, OrderNext, ReleasedNext, PTL DEF Spec

(* Every variable is well typed: no queue outgrows its storage, no table its   *)
(* size, no number its bound.                                                 *)
THEOREM TypeCorrect == Spec => []TypeOK
<1>1. TablesType /\ Numbering /\ CountersType => TypeOK
  BY DEF TablesType, Numbering, QueuesType, CountersType, TypeOK
<1> QED
  BY <1>1, TablesInit, TablesNext, OrderInit, OrderNext, CountersInit, CountersNext, PTL
     DEF Spec
-----------------------------------------------------------------------------
(* The last number of a source among the first n events that wait, or the one *)
(* its consumer saw before them.                                              *)
LastOf(s, f, n, source) ==
  LET earlier == {i \in 1..n : SourceOf(s[i]) = source}
  IN IF earlier = {} THEN f[source] ELSE s[Max(earlier)].sequence

NoneIn(s, least, greatest, source) == \A i \in least..greatest : SourceOf(s[i]) # source
LatestAt(s, n, source, m) ==
  m \in 1..n /\ SourceOf(s[m]) = source /\ NoneIn(s, m + 1, n, source)
LastIs(s, f, n, source, m) ==
  LatestAt(s, n, source, m) /\ LastOf(s, f, n, source) = s[m].sequence

LEMMA MaxOfRange ==
  ASSUME NEW n \in Nat, NEW S, S \subseteq 1..n, S # {}
  PROVE  Max(S) \in S /\ \A x \in S : x <= Max(S)
<1> DEFINE T == {n - x : x \in S}
<1>1. T \subseteq Nat /\ T # {}
  <2>1. \A x \in S : n - x \in Nat
    OBVIOUS
  <2>2. T \subseteq Nat
    BY <2>1
  <2>3. T # {}
    OBVIOUS
  <2> QED
    BY <2>2, <2>3
<1>2. PICK t \in T : \A u \in T : t <= u
  BY <1>1, LeastNumber
<1>3. PICK m \in S : t = n - m
  BY <1>2
<1>4. ASSUME NEW x \in S PROVE m >= x
  <2>1. n - m <= n - x
    BY <1>2, <1>3
  <2>2. m \in Int /\ x \in Int
    OBVIOUS
  <2> QED
    BY <2>1, <2>2
<1>5. Max(S) \in S /\ \A y \in S : Max(S) >= y
  BY <1>4 DEF Max
<1> QED
  BY <1>5

LEMMA LastNone ==
  ASSUME NEW s, NEW f, NEW n \in Nat, NEW source, NoneIn(s, 1, n, source)
  PROVE  LastOf(s, f, n, source) = f[source]
BY DEF NoneIn, LastOf

LEMMA LastFound ==
  ASSUME NEW s, NEW f, NEW n \in Nat, NEW source, ~NoneIn(s, 1, n, source)
  PROVE  \E m \in 1..n : LastIs(s, f, n, source, m)
<1> DEFINE earlier == {i \in 1..n : SourceOf(s[i]) = source}
<1>1. earlier \subseteq 1..n /\ earlier # {}
  BY DEF NoneIn
<1>2. PICK m \in earlier : m = Max(earlier) /\ \A i \in earlier : i <= m
  BY <1>1, MaxOfRange
<1>3. LastOf(s, f, n, source) = s[m].sequence
  BY <1>1, <1>2 DEF LastOf
<1>4. NoneIn(s, m + 1, n, source)
  <2> SUFFICES ASSUME NEW i \in m + 1..n PROVE SourceOf(s[i]) # source
    BY DEF NoneIn
  <2>1. i \in 1..n /\ ~(i <= m)
    BY <1>1
  <2> QED
    BY <1>2, <2>1
<1> QED
  BY <1>1, <1>3, <1>4 DEF LatestAt, LastIs

LEMMA LastUnique ==
  ASSUME NEW s, NEW f, NEW n \in Nat, NEW source, NEW m, LatestAt(s, n, source, m)
  PROVE  LastIs(s, f, n, source, m)
<1>1. m \in 1..n /\ SourceOf(s[m]) = source /\ \A i \in m + 1..n : SourceOf(s[i]) # source
  BY DEF LatestAt, NoneIn
<1>2. ~NoneIn(s, 1, n, source)
  BY <1>1 DEF NoneIn
<1>3. PICK k \in 1..n : LastIs(s, f, n, source, k)
  BY <1>2, LastFound
<1>4. SourceOf(s[k]) = source /\ \A i \in k + 1..n : SourceOf(s[i]) # source
  BY <1>3 DEF LastIs, LatestAt, NoneIn
<1>5. ~(k < m) /\ ~(m < k)
  BY <1>1, <1>4
<1>6. k = m
  BY <1>1, <1>5
<1> QED
  BY <1>3, <1>6

LEMMA LastType ==
  ASSUME NEW s \in Seq(Events), NEW f \in [Sources -> Int], NEW n \in 0..Len(s),
         NEW source \in Sources
  PROVE  LastOf(s, f, n, source) \in Int
<1>0. n \in Nat /\ Len(s) \in Nat
  BY LenProperties
<1>1. CASE NoneIn(s, 1, n, source)
  BY <1>0, <1>1, LastNone
<1>2. CASE ~NoneIn(s, 1, n, source)
  <2>1. PICK m \in 1..n : LastIs(s, f, n, source, m)
    BY <1>0, <1>2, LastFound
  <2>2. s[m] \in Events
    BY <1>0, ElementOfSeq
  <2> QED
    BY <2>1, <2>2, EventFields DEF LastIs
<1> QED
  BY <1>1, <1>2

(* An event more, at the end.                                                *)
LEMMA LastKept ==
  ASSUME NEW s \in Seq(Events), NEW event \in Events, NEW f, NEW source, NEW n \in 0..Len(s)
  PROVE  LastOf(Append(s, event), f, n, source) = LastOf(s, f, n, source)
<1>1. PICK t : t = Append(s, event)
  OBVIOUS
<1>2. n \in Nat /\ \A i \in 1..n : t[i] = s[i]
  <2>1. Len(s) \in Nat /\ \A i \in 1..Len(s) : Append(s, event)[i] = s[i]
    BY AppendProperties, LenProperties
  <2> QED
    BY <1>1, <2>1
<1>3. CASE NoneIn(s, 1, n, source)
  <2>1. NoneIn(t, 1, n, source)
    BY <1>2, <1>3 DEF NoneIn
  <2> QED
    BY <1>1, <1>2, <1>3, <2>1, LastNone
<1>4. CASE ~NoneIn(s, 1, n, source)
  <2>1. PICK m \in 1..n : LastIs(s, f, n, source, m)
    BY <1>2, <1>4, LastFound
  <2>2. LatestAt(t, n, source, m)
    BY <1>2, <2>1 DEF LatestAt, LastIs, NoneIn
  <2>3. LastIs(t, f, n, source, m)
    BY <1>2, <2>2, LastUnique
  <2> QED
    BY <1>1, <1>2, <2>1, <2>3 DEF LastIs
<1> QED
  BY <1>3, <1>4

LEMMA LastAppended ==
  ASSUME NEW s \in Seq(Events), NEW event \in Events, NEW f, NEW source
  PROVE  LastOf(Append(s, event), f, Len(s) + 1, source) =
           IF source = SourceOf(event) THEN event.sequence ELSE LastOf(s, f, Len(s), source)
<1>1. /\ Len(s) \in Nat
      /\ \A i \in 1..Len(s) : Append(s, event)[i] = s[i]
      /\ Append(s, event)[Len(s) + 1] = event
  BY AppendProperties, LenProperties
<1>2. PICK t : t = Append(s, event)
  OBVIOUS
<1>5. CASE source = SourceOf(event)
  <2>1. LatestAt(t, Len(s) + 1, source, Len(s) + 1)
    BY <1>1, <1>2, <1>5 DEF LatestAt, NoneIn
  <2>2. LastIs(t, f, Len(s) + 1, source, Len(s) + 1)
    BY <1>1, <2>1, LastUnique
  <2> QED
    BY <1>1, <1>2, <1>5, <2>2 DEF LastIs
<1>6. CASE source # SourceOf(event)
  <2>0. PICK n \in Nat : n = Len(s)
    BY <1>1
  <2>1. \A i \in 1..n + 1 : (i \in 1..n /\ t[i] = s[i]) \/ (i = n + 1 /\ SourceOf(t[i]) # source)
    BY <1>1, <1>2, <1>6, <2>0
  <2>2. CASE NoneIn(s, 1, n, source)
    <3>1. NoneIn(t, 1, n + 1, source)
      BY <2>1, <2>2 DEF NoneIn
    <3>2. LastOf(t, f, n + 1, source) = LastOf(s, f, n, source)
      BY <2>2, <3>1, LastNone
    <3> QED
      BY <1>2, <1>6, <2>0, <3>2
  <2>3. CASE ~NoneIn(s, 1, n, source)
    <3>1. PICK m \in 1..n : LastIs(s, f, n, source, m)
      BY <2>3, LastFound
    <3>2. t[m] = s[m]
      BY <1>1, <1>2, <2>0
    <3>3. LatestAt(t, n + 1, source, m)
      BY <2>1, <3>1, <3>2 DEF LatestAt, LastIs, NoneIn
    <3>4. LastIs(t, f, n + 1, source, m)
      BY <3>3, LastUnique
    <3> QED
      BY <1>2, <1>6, <2>0, <3>1, <3>2, <3>4 DEF LastIs
  <2> QED
    BY <2>2, <2>3
<1> QED
  BY <1>5, <1>6

(* What a consumer has seen after it popped the oldest event.                 *)
After(s, f) == [f EXCEPT ![SourceOf(Head(s))] = Head(s).sequence]

LEMMA TailEvents ==
  ASSUME NEW s \in Seq(Events), s # <<>>
  PROVE  /\ Head(s) \in Events /\ Head(s) = s[1] /\ SourceOf(Head(s)) \in Sources
         /\ Tail(s) \in Seq(Events) /\ Len(s) \in Nat \ {0} /\ Len(Tail(s)) = Len(s) - 1
         /\ \A i \in 1..Len(s) - 1 : Tail(s)[i] = s[i + 1]
<1>1. /\ Head(s) \in Events /\ Head(s) = s[1]
      /\ Tail(s) \in Seq(Events) /\ Len(Tail(s)) = Len(s) - 1
      /\ \A i \in 1..Len(Tail(s)) : Tail(s)[i] = s[i + 1]
  BY HeadTailProperties
<1>2. Len(s) \in Nat \ {0}
  BY EmptySeq, LenProperties
<1> QED
  BY <1>1, <1>2, EventFields

(* Where the last event of a source is, once the oldest event is gone.        *)
LEMMA LatestInTail ==
  ASSUME NEW s \in Seq(Events), s # <<>>, NEW n \in 0..Len(s) - 1, NEW source,
         NEW m, LatestAt(Tail(s), n, source, m)
  PROVE  m \in 1..n /\ LatestAt(s, n + 1, source, m + 1) /\ Tail(s)[m] = s[m + 1]
<1>1. Len(s) \in Nat \ {0} /\ \A i \in 1..Len(s) - 1 : Tail(s)[i] = s[i + 1]
  BY TailEvents
<1>2. /\ m \in 1..n /\ SourceOf(Tail(s)[m]) = source
      /\ \A i \in m + 1..n : SourceOf(Tail(s)[i]) # source
  BY DEF LatestAt, NoneIn
<1>3. ASSUME NEW i \in m + 2..n + 1 PROVE SourceOf(s[i]) # source
  <2>1. i - 1 \in m + 1..n /\ i - 1 \in 1..Len(s) - 1 /\ (i - 1) + 1 = i
    BY <1>1, <1>2
  <2> QED
    BY <1>1, <1>2, <2>1
<1>4. (m + 1) + 1 = m + 2 /\ m \in 1..Len(s) - 1 /\ m + 1 \in 1..n + 1
  BY <1>1, <1>2
<1> QED
  BY <1>1, <1>2, <1>3, <1>4 DEF LatestAt, NoneIn

LEMMA NoneInTail ==
  ASSUME NEW s \in Seq(Events), s # <<>>, NEW n \in 0..Len(s) - 1, NEW source,
         NoneIn(Tail(s), 1, n, source)
  PROVE  /\ n + 1 \in Nat /\ n \in Nat
         /\ source = SourceOf(Head(s)) => LatestAt(s, n + 1, source, 1)
         /\ source # SourceOf(Head(s)) => NoneIn(s, 1, n + 1, source)
<1>1. /\ Len(s) \in Nat \ {0} /\ \A i \in 1..Len(s) - 1 : Tail(s)[i] = s[i + 1]
      /\ Head(s) = s[1]
  BY TailEvents
<1>2. ASSUME NEW i \in 2..n + 1 PROVE SourceOf(s[i]) # source
  <2>1. i - 1 \in 1..n /\ i - 1 \in 1..Len(s) - 1 /\ (i - 1) + 1 = i
    BY <1>1
  <2> QED
    BY <1>1, <2>1 DEF NoneIn
<1>3. n \in Nat /\ \A i \in 1..n + 1 : i = 1 \/ i \in 2..n + 1
  BY <1>1
<1> QED
  BY <1>1, <1>2, <1>3 DEF LatestAt, NoneIn

(* The consumer pops the oldest event.                                       *)
LEMMA LastPopped ==
  ASSUME NEW s \in Seq(Events), s # <<>>, NEW f \in [Sources -> Int],
         NEW n \in 0..Len(s) - 1, NEW source \in Sources
  PROVE  LastOf(Tail(s), After(s, f), n, source) = LastOf(s, f, n + 1, source)
<1>0. n \in Nat /\ n + 1 \in Nat /\ SourceOf(Head(s)) \in Sources /\ Head(s) = s[1]
  BY TailEvents
<1>1. CASE NoneIn(Tail(s), 1, n, source)
  <2>1. LastOf(Tail(s), After(s, f), n, source) = After(s, f)[source]
    BY <1>0, <1>1, LastNone
  <2>2. CASE source = SourceOf(Head(s))
    <3>0. LastIs(s, f, n + 1, source, 1)
      BY <1>0, <1>1, <2>2, NoneInTail, LastUnique
    <3>1. LastOf(s, f, n + 1, source) = s[1].sequence
      BY <3>0 DEF LastIs
    <3>2. After(s, f)[source] = Head(s).sequence
      BY <2>2 DEF After
    <3> QED
      BY <1>0, <2>1, <3>1, <3>2
  <2>3. CASE source # SourceOf(Head(s))
    <3>1. LastOf(s, f, n + 1, source) = f[source]
      BY <1>0, <1>1, <2>3, NoneInTail, LastNone
    <3>2. After(s, f)[source] = f[source]
      BY <2>3 DEF After
    <3> QED
      BY <2>1, <3>1, <3>2
  <2> QED
    BY <2>2, <2>3
<1>2. CASE ~NoneIn(Tail(s), 1, n, source)
  <2>1. PICK m \in 1..n : LastIs(Tail(s), After(s, f), n, source, m)
    BY <1>0, <1>2, LastFound
  <2>2. LatestAt(s, n + 1, source, m + 1) /\ Tail(s)[m] = s[m + 1]
    BY <2>1, LatestInTail DEF LastIs
  <2>3. LastIs(s, f, n + 1, source, m + 1)
    BY <1>0, <2>2, LastUnique
  <2> QED
    BY <2>1, <2>2, <2>3 DEF LastIs
<1> QED
  BY <1>1, <1>2

(* The oldest event is dropped unseen: its number is not the last of its      *)
(* source any more for what comes before the next event of that source.       *)
LEMMA LastDropped ==
  ASSUME NEW s \in Seq(Events), s # <<>>, NEW f, NEW n \in 0..Len(s) - 1, NEW source
  PROVE  IF source = SourceOf(Head(s)) /\ NoneIn(Tail(s), 1, n, source)
         THEN /\ LastOf(Tail(s), f, n, source) = f[source]
              /\ LastOf(s, f, n + 1, source) = Head(s).sequence
         ELSE LastOf(Tail(s), f, n, source) = LastOf(s, f, n + 1, source)
<1>0. n \in Nat /\ n + 1 \in Nat /\ Head(s) = s[1]
  BY TailEvents
<1>1. CASE NoneIn(Tail(s), 1, n, source)
  <2>1. LastOf(Tail(s), f, n, source) = f[source]
    BY <1>0, <1>1, LastNone
  <2>2. CASE source = SourceOf(Head(s))
    <3>0. LastIs(s, f, n + 1, source, 1)
      BY <1>0, <1>1, <2>2, NoneInTail, LastUnique
    <3>1. LastOf(s, f, n + 1, source) = s[1].sequence
      BY <3>0 DEF LastIs
    <3> QED
      BY <1>0, <1>1, <2>1, <2>2, <3>1
  <2>3. CASE source # SourceOf(Head(s))
    <3>1. LastOf(s, f, n + 1, source) = f[source]
      BY <1>0, <1>1, <2>3, NoneInTail, LastNone
    <3> QED
      BY <2>1, <2>3, <3>1
  <2> QED
    BY <2>2, <2>3
<1>2. CASE ~NoneIn(Tail(s), 1, n, source)
  <2>1. PICK m \in 1..n : LastIs(Tail(s), f, n, source, m)
    BY <1>0, <1>2, LastFound
  <2>2. LatestAt(s, n + 1, source, m + 1) /\ Tail(s)[m] = s[m + 1]
    BY <2>1, LatestInTail DEF LastIs
  <2>3. LastIs(s, f, n + 1, source, m + 1)
    BY <1>0, <2>2, LastUnique
  <2> QED
    BY <1>2, <2>1, <2>2, <2>3 DEF LastIs
<1> QED
  BY <1>1, <1>2

-----------------------------------------------------------------------------
(* What a consumer has not seen of a source, and never will: the numbers      *)
(* skipped between the events that wait, and those a registration used up     *)
(* after the last event of its that waits or was seen.                        *)
Latest(s, f, source) == LastOf(s, f, Len(s), source)
Span(last, n) == IF last = -1 THEN 0 ELSE n - last - 1
GapAt(s, f, j) == Span(LastOf(s, f, j - 1, SourceOf(s[j])), s[j].sequence)
Gaps(s, f) == [j \in 1..Len(s) |-> GapAt(s, f, j)]
Owed(s, f, slot, e) == Span(Latest(s, f, <<slot.id, e>>), slot.next)
AllOwed(s, f, sl, e) == [i \in 1..Len(sl) |-> Owed(s, f, sl[i], e)]
Cost(s, f, sl, e) == Total(Gaps(s, f)) + Total(AllOwed(s, f, sl, e))

LEMMA GapsType ==
  ASSUME NEW s \in Seq(Events), NEW f \in [Sources -> Int]
  PROVE  Gaps(s, f) \in Seq(Int) /\ Len(Gaps(s, f)) = Len(s) /\ Len(s) \in Nat
<1>0. Len(s) \in Nat
  BY LenProperties
<1>1. ASSUME NEW j \in 1..Len(s) PROVE GapAt(s, f, j) \in Int
  <2>1. s[j] \in Events /\ j - 1 \in 0..Len(s)
    BY <1>0, ElementOfSeq
  <2>2. SourceOf(s[j]) \in Sources /\ s[j].sequence \in Int
    BY <2>1, EventFields
  <2>3. LastOf(s, f, j - 1, SourceOf(s[j])) \in Int
    BY <2>1, <2>2, LastType
  <2> QED
    BY <2>2, <2>3 DEF GapAt, Span
<1>2. Gaps(s, f) \in Seq(Int)
  BY <1>0, <1>1, IsASeq DEF Gaps
<1>3. DOMAIN Gaps(s, f) = 1..Len(s)
  BY DEF Gaps
<1> QED
  BY <1>0, <1>2, <1>3, LenProperties

SlotFields(slot) ==
  slot.id \in Ids /\ slot.next \in Nat /\ \A e \in 0..MaxEras : <<slot.id, e>> \in Sources

LEMMA FieldsOfSlot ==
  ASSUME NEW slot \in Slots PROVE SlotFields(slot)
  BY Sizes DEF Slots, Sources, SlotFields

OwedTyped(s, f, sl, e) ==
  /\ Len(AllOwed(s, f, sl, e)) = Len(sl) /\ Len(sl) \in Nat
  /\ \A i \in 1..Len(sl) : /\ Owed(s, f, sl[i], e) \in Int
                           /\ AllOwed(s, f, sl, e)[i] = Owed(s, f, sl[i], e)
                           /\ SlotFields(sl[i])
                           /\ Latest(s, f, <<sl[i].id, e>>) \in Int

LEMMA OwedType ==
  ASSUME NEW s \in Seq(Events), NEW f \in [Sources -> Int], NEW sl \in Seq(Slots),
         NEW e \in 0..MaxEras
  PROVE  AllOwed(s, f, sl, e) \in Seq(Int) /\ OwedTyped(s, f, sl, e)
<1>0. Len(sl) \in Nat /\ Len(s) \in Nat /\ Len(s) \in 0..Len(s)
  BY LenProperties
<1>1. ASSUME NEW i \in 1..Len(sl)
      PROVE  /\ Owed(s, f, sl[i], e) \in Int /\ SlotFields(sl[i])
             /\ Latest(s, f, <<sl[i].id, e>>) \in Int
  <2>1. SlotFields(sl[i])
    BY <1>0, ElementOfSeq, FieldsOfSlot
  <2>2. PICK source \in Sources : source = <<sl[i].id, e>>
    BY <2>1 DEF SlotFields
  <2>3. Latest(s, f, source) \in Int
    BY <1>0, LastType DEF Latest
  <2> QED
    BY <2>1, <2>2, <2>3 DEF Owed, Span, SlotFields
<1>2. AllOwed(s, f, sl, e) \in Seq(Int)
  <2>1. \A i \in 1..Len(sl) : Owed(s, f, sl[i], e) \in Int
    BY <1>1
  <2> QED
    BY <1>0, <2>1, IsASeq DEF AllOwed
<1>3. DOMAIN AllOwed(s, f, sl, e) = 1..Len(sl)
  BY DEF AllOwed
<1>4. \A i \in 1..Len(sl) : AllOwed(s, f, sl, e)[i] = Owed(s, f, sl[i], e)
  BY DEF AllOwed
<1> QED
  BY <1>0, <1>1, <1>2, <1>3, <1>4, LenProperties DEF OwedTyped

(* An event more, at the end, adds one gap.                                  *)
LEMMA GapsAppended ==
  ASSUME NEW s \in Seq(Events), NEW event \in Events, NEW f \in [Sources -> Int]
  PROVE  Gaps(Append(s, event), f) =
           Append(Gaps(s, f), Span(Latest(s, f, SourceOf(event)), event.sequence))
<1> DEFINE t == Append(s, event)
           last == Span(Latest(s, f, SourceOf(event)), event.sequence)
<1>1. /\ t \in Seq(Events) /\ Len(t) = Len(s) + 1 /\ Len(s) \in Nat
      /\ \A i \in 1..Len(s) : t[i] = s[i]
      /\ t[Len(s) + 1] = event
  BY AppendProperties, LenProperties
<1>2. ASSUME NEW n \in 0..Len(s), NEW source
      PROVE  LastOf(t, f, n, source) = LastOf(s, f, n, source)
  BY LastKept
<1> HIDE DEF t
<1>3. Gaps(t, f) \in Seq(Int) /\ Len(Gaps(t, f)) = Len(s) + 1
  BY <1>1, GapsType
<1>4. Gaps(s, f) \in Seq(Int) /\ Len(Gaps(s, f)) = Len(s)
  BY GapsType
<1>5. last \in Int
  <2>1. SourceOf(event) \in Sources /\ event.sequence \in Int /\ Len(s) \in 0..Len(s)
    BY <1>1, EventFields
  <2>2. Latest(s, f, SourceOf(event)) \in Int
    BY <2>1, LastType DEF Latest
  <2> QED
    BY <2>1, <2>2 DEF Span
<1> HIDE DEF last
<1>6. /\ Append(Gaps(s, f), last) \in Seq(Int) /\ Len(Append(Gaps(s, f), last)) = Len(s) + 1
      /\ \A j \in 1..Len(s) : Append(Gaps(s, f), last)[j] = Gaps(s, f)[j]
      /\ Append(Gaps(s, f), last)[Len(s) + 1] = last
  BY <1>4, <1>5, AppendProperties
<1>7. ASSUME NEW j \in 1..Len(s) + 1 PROVE Gaps(t, f)[j] = Append(Gaps(s, f), last)[j]
  <2>1. Gaps(t, f)[j] = GapAt(t, f, j)
    BY <1>1 DEF Gaps
  <2>2. CASE j \in 1..Len(s)
    <3>1. t[j] = s[j] /\ j - 1 \in 0..Len(s)
      BY <1>1, <2>2
    <3>2. GapAt(t, f, j) = GapAt(s, f, j)
      BY <1>2, <3>1 DEF GapAt
    <3>3. Gaps(s, f)[j] = GapAt(s, f, j)
      BY <2>2 DEF Gaps
    <3> QED
      BY <1>6, <2>1, <2>2, <3>2, <3>3
  <2>3. CASE j = Len(s) + 1
    <3>1. t[j] = event /\ j - 1 = Len(s) /\ Len(s) \in 0..Len(s)
      BY <1>1, <2>3
    <3>2. GapAt(t, f, j) = last
      BY <1>2, <3>1 DEF GapAt, Latest, last
    <3> QED
      BY <1>6, <2>1, <2>3, <3>2
  <2>4. j \in 1..Len(s) \/ j = Len(s) + 1
    BY <1>1
  <2> QED
    BY <2>2, <2>3, <2>4
<1>8. Gaps(t, f) = Append(Gaps(s, f), last)
  BY <1>3, <1>6, <1>7, SeqEqual
<1> QED
  BY <1>8 DEF t, last

(* An event popped takes its gap with it.                                    *)
LEMMA GapsPopped ==
  ASSUME NEW s \in Seq(Events), s # <<>>, NEW f \in [Sources -> Int]
  PROVE  /\ Gaps(s, f) # <<>> /\ Gaps(s, f)[1] = Span(f[SourceOf(Head(s))], Head(s).sequence)
         /\ Gaps(Tail(s), After(s, f)) = Tail(Gaps(s, f))
         /\ Tail(Gaps(s, f)) \in Seq(Int) /\ Len(Tail(Gaps(s, f))) = Len(s) - 1
         /\ \A j \in 1..Len(s) - 1 : Tail(Gaps(s, f))[j] = GapAt(s, f, j + 1)
<1>1. /\ Head(s) \in Events /\ Head(s) = s[1] /\ SourceOf(Head(s)) \in Sources
      /\ Tail(s) \in Seq(Events) /\ Len(s) \in Nat \ {0} /\ Len(Tail(s)) = Len(s) - 1
      /\ \A i \in 1..Len(s) - 1 : Tail(s)[i] = s[i + 1]
  BY TailEvents
<1>2. Gaps(s, f) \in Seq(Int) /\ Len(Gaps(s, f)) = Len(s) /\ Gaps(s, f) # <<>>
  BY <1>1, GapsType, EmptySeq
<1>3. After(s, f) \in [Sources -> Int]
  BY <1>1, EventFields DEF After
<1>4. /\ Gaps(Tail(s), After(s, f)) \in Seq(Int)
      /\ Len(Gaps(Tail(s), After(s, f))) = Len(s) - 1
  BY <1>1, <1>3, GapsType
<1>5. /\ Tail(Gaps(s, f)) \in Seq(Int) /\ Len(Tail(Gaps(s, f))) = Len(s) - 1
      /\ \A j \in 1..Len(s) - 1 : Tail(Gaps(s, f))[j] = Gaps(s, f)[j + 1]
  BY <1>2, HeadTailProperties
<1>6. ASSUME NEW j \in 1..Len(s) - 1
      PROVE  /\ Tail(Gaps(s, f))[j] = GapAt(s, f, j + 1)
             /\ Gaps(Tail(s), After(s, f))[j] = GapAt(s, f, j + 1)
  <2>1. j + 1 \in 1..Len(s) /\ j - 1 \in 0..Len(s) - 1 /\ (j - 1) + 1 = j /\ (j + 1) - 1 = j
    BY <1>1
  <2>2. Tail(Gaps(s, f))[j] = GapAt(s, f, j + 1)
    BY <1>5, <2>1 DEF Gaps
  <2>3. Gaps(Tail(s), After(s, f))[j] = GapAt(Tail(s), After(s, f), j)
    BY <1>1 DEF Gaps
  <2>4. Tail(s)[j] = s[j + 1] /\ s[j + 1] \in Events
    BY <1>1, <2>1, ElementOfSeq
  <2>5. PICK source \in Sources : source = SourceOf(s[j + 1])
    BY <2>4, EventFields
  <2>6. LastOf(Tail(s), After(s, f), j - 1, source) = LastOf(s, f, j, source)
    BY <2>1, LastPopped
  <2>7. GapAt(Tail(s), After(s, f), j) = GapAt(s, f, j + 1)
    BY <2>1, <2>4, <2>5, <2>6 DEF GapAt
  <2> QED
    BY <2>2, <2>3, <2>7
<1>7. Gaps(Tail(s), After(s, f)) = Tail(Gaps(s, f))
  BY <1>4, <1>5, <1>6, SeqEqual
<1>8. Gaps(s, f)[1] = Span(f[SourceOf(Head(s))], Head(s).sequence)
  <2>1. Gaps(s, f)[1] = GapAt(s, f, 1) /\ 1 - 1 = 0
    BY <1>1 DEF Gaps
  <2>2. LastOf(s, f, 0, SourceOf(s[1])) = f[SourceOf(s[1])]
    <3>1. NoneIn(s, 1, 0, SourceOf(s[1])) /\ 0 \in Nat
      BY DEF NoneIn
    <3> QED
      BY <3>1, LastNone
  <2> QED
    BY <1>1, <2>1, <2>2 DEF GapAt
<1> QED
  BY <1>2, <1>5, <1>6, <1>7, <1>8

LEMMA CostType ==
  ASSUME NEW s \in Seq(Events), NEW f \in [Sources -> Int], NEW e \in 0..MaxEras, NEW sl,
         sl \in Seq(Slots) \/ sl = <<>>
  PROVE  Cost(s, f, sl, e) \in Int
<1>1. sl \in Seq(Slots)
  BY EmptySeq
<1> QED
  BY <1>1, GapsType, OwedType, TotalType DEF Cost

(* The registrations sl2 are sl after the i-th has used up one more number.   *)
Advanced(sl, sl2, i) ==
  /\ Len(sl2) = Len(sl) /\ i \in 1..Len(sl)
  /\ \A j \in 1..Len(sl) : sl2[j].id = sl[j].id
  /\ \A j \in 1..Len(sl) : sl2[j].next = IF j = i THEN sl[i].next + 1 ELSE sl[j].next
Distinct(sl) == \A i, j \in 1..Len(sl) : sl[i].id = sl[j].id => i = j
(* Every number in the queue or seen is below the next one of its source.     *)
Ahead(s, f, sl, e) == \A i \in 1..Len(sl) : Latest(s, f, <<sl[i].id, e>>) < sl[i].next

LEMMA LatestAppended ==
  ASSUME NEW s \in Seq(Events), NEW event \in Events, NEW f, NEW source
  PROVE  Latest(Append(s, event), f, source) =
           IF source = SourceOf(event) THEN event.sequence ELSE Latest(s, f, source)
<1>1. Len(Append(s, event)) = Len(s) + 1
  BY AppendProperties
<1> QED
  BY <1>1, LastAppended DEF Latest

(* What is owed of one registration becomes a gap in the queue.               *)
LEMMA CostAppended ==
  ASSUME NEW s \in Seq(Events), NEW event \in Events, NEW f \in [Sources -> Int],
         NEW sl \in Seq(Slots), NEW sl2 \in Seq(Slots), NEW e \in 0..MaxEras, NEW i,
         Advanced(sl, sl2, i), Distinct(sl),
         event.id = sl[i].id, event.era = e, event.sequence = sl[i].next
  PROVE  Cost(Append(s, event), f, sl2, e) <= Cost(s, f, sl, e)
<1>0. PICK t \in Seq(Events) : t = Append(s, event) /\ Len(t) = Len(s) + 1
  BY AppendProperties
<1>1. AllOwed(s, f, sl, e) \in Seq(Int) /\ OwedTyped(s, f, sl, e)
  BY OwedType
<1>2. AllOwed(t, f, sl2, e) \in Seq(Int) /\ OwedTyped(t, f, sl2, e)
  BY OwedType
<1>3. /\ Len(sl2) = Len(sl) /\ i \in 1..Len(sl)
      /\ \A j \in 1..Len(sl) : sl2[j].id = sl[j].id
      /\ \A j \in 1..Len(sl) : sl2[j].next = IF j = i THEN sl[i].next + 1 ELSE sl[j].next
  BY DEF Advanced
<1>4. PICK d \in Int : d = Owed(s, f, sl[i], e)
  BY <1>1, <1>3 DEF OwedTyped
<1>5. SourceOf(event) = <<sl[i].id, e>>
  BY DEF SourceOf
<1>6. Gaps(t, f) = Append(Gaps(s, f), d)
  BY <1>0, <1>4, <1>5, GapsAppended DEF Owed
<1>7. Total(Gaps(t, f)) = Total(Gaps(s, f)) + d /\ Total(Gaps(s, f)) \in Int
  <2>1. Gaps(s, f) \in Seq(Int)
    BY GapsType
  <2> QED
    BY <1>6, <2>1, TotalAppend
<1>8. ASSUME NEW j \in 1..Len(sl)
      PROVE  Owed(t, f, sl2[j], e) <= Owed(s, f, sl[j], e) + IF j = i THEN -d ELSE 0
  <2>1. Latest(t, f, <<sl[j].id, e>>) =
          IF <<sl[j].id, e>> = <<sl[i].id, e>> THEN event.sequence
          ELSE Latest(s, f, <<sl[j].id, e>>)
    <3>1. PICK source : source = <<sl[j].id, e>>
      OBVIOUS
    <3>2. Latest(t, f, source) =
            IF source = SourceOf(event) THEN event.sequence ELSE Latest(s, f, source)
      BY <1>0, LatestAppended
    <3> QED
      BY <1>5, <3>1, <3>2
  <2>2. sl2[j].id = sl[j].id
    BY <1>3
  <2>3. CASE j = i
    <3>1. Latest(t, f, <<sl2[j].id, e>>) = sl[i].next /\ sl2[j].next = sl[i].next + 1
      BY <1>3, <2>1, <2>2, <2>3
    <3>2. sl[i].next \in Nat
      BY <1>1, <1>3 DEF OwedTyped, SlotFields
    <3>3. Owed(t, f, sl2[j], e) = 0
      BY <3>1, <3>2 DEF Owed, Span
    <3> QED
      BY <1>4, <2>3, <3>3
  <2>4. CASE j # i
    <3>1. sl[j].id # sl[i].id
      BY <1>3, <2>4 DEF Distinct
    <3>2. Latest(t, f, <<sl2[j].id, e>>) = Latest(s, f, <<sl[j].id, e>>)
      BY <2>1, <2>2, <3>1
    <3>3. sl2[j].next = sl[j].next
      BY <1>3, <2>4
    <3>4. Owed(t, f, sl2[j], e) = Owed(s, f, sl[j], e)
      BY <3>2, <3>3 DEF Owed
    <3>5. Owed(s, f, sl[j], e) \in Int
      BY <1>1 DEF OwedTyped
    <3> QED
      BY <2>4, <3>4, <3>5
  <2> QED
    BY <2>3, <2>4
<1>9. BoundedBut(AllOwed(t, f, sl2, e), AllOwed(s, f, sl, e), i, -d)
  BY <1>1, <1>2, <1>3, <1>8 DEF OwedTyped, BoundedBut
<1>10. Total(AllOwed(t, f, sl2, e)) <= Total(AllOwed(s, f, sl, e)) + (-d)
  <2>1. i \in Int /\ -d \in Int
    BY <1>3, <1>4
  <2> QED
    BY <1>1, <1>2, <1>9, <2>1, TotalBounded
<1>11. Total(AllOwed(t, f, sl2, e)) \in Int /\ Total(AllOwed(s, f, sl, e)) \in Int
  BY <1>1, <1>2, TotalType
<1> QED
  BY <1>0, <1>4, <1>7, <1>10, <1>11 DEF Cost

(* A number is used up and the queue does not take the event: if the consumer *)
(* knows the source, it is owed one more.                                     *)
LEMMA CostRefused ==
  ASSUME NEW s \in Seq(Events), NEW f \in [Sources -> Int],
         NEW sl \in Seq(Slots), NEW sl2 \in Seq(Slots), NEW e \in 0..MaxEras, NEW i,
         Advanced(sl, sl2, i)
  PROVE  Cost(s, f, sl2, e) <=
           Cost(s, f, sl, e) + IF Latest(s, f, <<sl[i].id, e>>) = -1 THEN 0 ELSE 1
<1> DEFINE d == IF Latest(s, f, <<sl[i].id, e>>) = -1 THEN 0 ELSE 1
<1>1. AllOwed(s, f, sl, e) \in Seq(Int) /\ OwedTyped(s, f, sl, e)
  BY OwedType
<1>2. AllOwed(s, f, sl2, e) \in Seq(Int) /\ OwedTyped(s, f, sl2, e)
  BY OwedType
<1>3. /\ Len(sl2) = Len(sl) /\ i \in 1..Len(sl)
      /\ \A j \in 1..Len(sl) : sl2[j].id = sl[j].id
      /\ \A j \in 1..Len(sl) : sl2[j].next = IF j = i THEN sl[i].next + 1 ELSE sl[j].next
  BY DEF Advanced
<1>4. ASSUME NEW j \in 1..Len(sl)
      PROVE  Owed(s, f, sl2[j], e) <= Owed(s, f, sl[j], e) + IF j = i THEN d ELSE 0
  <2>1. sl2[j].id = sl[j].id
    BY <1>3
  <2>2. sl[j].next \in Nat /\ Latest(s, f, <<sl[j].id, e>>) \in Int
    BY <1>1 DEF OwedTyped, SlotFields
  <2>3. CASE j = i
    <3>1. sl2[j].next = sl[j].next + 1
      BY <1>3, <2>3
    <3>2. Owed(s, f, sl2[j], e) = Span(Latest(s, f, <<sl[j].id, e>>), sl[j].next + 1)
      BY <2>1, <3>1 DEF Owed
    <3>3. Owed(s, f, sl[j], e) = Span(Latest(s, f, <<sl[j].id, e>>), sl[j].next)
      BY DEF Owed
    <3> QED
      BY <2>2, <2>3, <3>2, <3>3 DEF Span
  <2>4. CASE j # i
    <3>1. sl2[j].next = sl[j].next
      BY <1>3, <2>4
    <3>2. Owed(s, f, sl2[j], e) = Owed(s, f, sl[j], e)
      BY <2>1, <3>1 DEF Owed
    <3>3. Owed(s, f, sl[j], e) \in Int
      BY <1>1 DEF OwedTyped
    <3> QED
      BY <2>4, <3>2, <3>3
  <2> QED
    BY <2>3, <2>4
<1>5. d \in Int /\ d >= 0 /\ i \in Int
  BY <1>3
<1> HIDE DEF d
<1>6. BoundedBut(AllOwed(s, f, sl2, e), AllOwed(s, f, sl, e), i, d)
  BY <1>1, <1>2, <1>3, <1>4, <1>5 DEF OwedTyped, BoundedBut
<1>7. Total(AllOwed(s, f, sl2, e)) <= Total(AllOwed(s, f, sl, e)) + d
  BY <1>1, <1>2, <1>5, <1>6, TotalBounded
<1>8. /\ Total(AllOwed(s, f, sl2, e)) \in Int /\ Total(AllOwed(s, f, sl, e)) \in Int
      /\ Total(Gaps(s, f)) \in Int
  BY <1>1, <1>2, GapsType, TotalType
<1>9. Cost(s, f, sl2, e) <= Cost(s, f, sl, e) + d
  BY <1>5, <1>7, <1>8 DEF Cost
<1> QED
  BY <1>9 DEF d

(* The oldest event is popped: its gap is counted as missed instead.          *)
LEMMA CostPopped ==
  ASSUME NEW s \in Seq(Events), s # <<>>, NEW f \in [Sources -> Int],
         NEW sl \in Seq(Slots), NEW e \in 0..MaxEras
  PROVE  /\ Cost(Tail(s), After(s, f), sl, e) =
              Cost(s, f, sl, e) - Span(f[SourceOf(Head(s))], Head(s).sequence)
         /\ \A source \in Sources : Latest(Tail(s), After(s, f), source) = Latest(s, f, source)
<1>1. Len(s) \in Nat \ {0} /\ Len(Tail(s)) = Len(s) - 1
  BY TailEvents
<1>2. ASSUME NEW source \in Sources
      PROVE  Latest(Tail(s), After(s, f), source) = Latest(s, f, source)
  <2>1. PICK n \in 0..Len(s) - 1 : n = Len(Tail(s)) /\ n + 1 = Len(s)
    <3>1. Len(s) - 1 \in 0..Len(s) - 1 /\ (Len(s) - 1) + 1 = Len(s)
      BY <1>1
    <3> QED
      BY <1>1, <3>1
  <2>2. LastOf(Tail(s), After(s, f), n, source) = LastOf(s, f, n + 1, source)
    BY LastPopped
  <2> QED
    BY <2>1, <2>2 DEF Latest
<1>3. \A i \in 1..Len(sl) : <<sl[i].id, e>> \in Sources
  <2>1. OwedTyped(s, f, sl, e)
    BY OwedType
  <2> QED
    BY <2>1 DEF OwedTyped, SlotFields
<1>4. AllOwed(Tail(s), After(s, f), sl, e) = AllOwed(s, f, sl, e)
  <2>1. \A i \in 1..Len(sl) :
          Owed(Tail(s), After(s, f), sl[i], e) = Owed(s, f, sl[i], e)
    BY <1>2, <1>3 DEF Owed
  <2> QED
    BY <2>1 DEF AllOwed
<1>5. Total(Tail(Gaps(s, f))) = Total(Gaps(s, f)) - Gaps(s, f)[1]
  <2>1. Gaps(s, f) \in Seq(Int) /\ Gaps(s, f) # <<>>
    BY GapsType, GapsPopped
  <2> QED
    BY <2>1, TotalTail
<1>6. Gaps(Tail(s), After(s, f)) = Tail(Gaps(s, f))
  BY GapsPopped
<1>7. Gaps(s, f)[1] = Span(f[SourceOf(Head(s))], Head(s).sequence)
  BY GapsPopped
<1>8. /\ Total(Gaps(s, f)) \in Int /\ Total(AllOwed(s, f, sl, e)) \in Int
      /\ Gaps(s, f)[1] \in Int
  <2>1. Gaps(s, f) \in Seq(Int) /\ AllOwed(s, f, sl, e) \in Seq(Int) /\ Len(Gaps(s, f)) = Len(s)
    BY GapsType, OwedType
  <2>2. 1 \in 1..Len(Gaps(s, f))
    BY <1>1, <2>1
  <2>3. Gaps(s, f)[1] \in Int
    BY <2>1, <2>2, ElementOfSeq
  <2> QED
    BY <2>1, <2>3, TotalType
<1>9. Cost(Tail(s), After(s, f), sl, e) = Cost(s, f, sl, e) - Gaps(s, f)[1]
  <2>1. Cost(Tail(s), After(s, f), sl, e) =
          (Total(Gaps(s, f)) - Gaps(s, f)[1]) + Total(AllOwed(s, f, sl, e))
    BY <1>4, <1>5, <1>6 DEF Cost
  <2>2. Cost(s, f, sl, e) = Total(Gaps(s, f)) + Total(AllOwed(s, f, sl, e))
    BY DEF Cost
  <2> QED
    BY <1>8, <2>1, <2>2
<1> QED
  BY <1>2, <1>7, <1>9

(* The first event of a source, or zero when there is none.                   *)
FirstIn(t, source, k) ==
  \/ k = 0 /\ NoneIn(t, 1, Len(t), source)
  \/ k \in 1..Len(t) /\ SourceOf(t[k]) = source /\ NoneIn(t, 1, k - 1, source)

LEMMA FirstExists ==
  ASSUME NEW t \in Seq(Events), NEW source
  PROVE  \E k \in Nat : FirstIn(t, source, k)
<1>0. Len(t) \in Nat
  BY LenProperties
<1>1. CASE NoneIn(t, 1, Len(t), source)
  BY <1>1 DEF FirstIn
<1>2. CASE ~NoneIn(t, 1, Len(t), source)
  <2> DEFINE T == {k \in 1..Len(t) : SourceOf(t[k]) = source}
  <2>1. T \subseteq Nat /\ T # {}
    BY <1>0, <1>2 DEF NoneIn
  <2>2. PICK k \in T : \A i \in T : k <= i
    BY <2>1, LeastNumber
  <2>3. NoneIn(t, 1, k - 1, source)
    <3> SUFFICES ASSUME NEW i \in 1..k - 1 PROVE SourceOf(t[i]) # source
      BY DEF NoneIn
    <3>1. i \in 1..Len(t) /\ ~(k <= i)
      BY <1>0
    <3> QED
      BY <2>2, <3>1
  <2> QED
    BY <1>0, <2>3 DEF FirstIn
<1> QED
  BY <1>1, <1>2

(* A number that drops out between two others adds itself to the gap.         *)
LEMMA SpanSplit ==
  ASSUME NEW last \in Int, NEW h \in Nat, NEW n \in Int, last < h, h < n
  PROVE  /\ Span(last, h) \in Nat
         /\ Span(last, n) <= Span(h, n) + (Span(last, h) + 1)
BY DEF Span

LEMMA HeadFirst ==
  ASSUME NEW s \in Seq(Events), s # <<>>, NEW f \in [Sources -> Int], InOrder(s, f)
  PROVE  /\ Head(s).sequence \in Nat /\ f[SourceOf(Head(s))] \in Int
         /\ f[SourceOf(Head(s))] < Head(s).sequence
         /\ \A j \in 1..Len(s) - 1 : SourceOf(s[j + 1]) = SourceOf(Head(s)) =>
              Head(s).sequence < s[j + 1].sequence /\ s[j + 1].sequence \in Int
<1>1. /\ Head(s) \in Events /\ Head(s) = s[1] /\ SourceOf(Head(s)) \in Sources
      /\ Len(s) \in Nat \ {0} /\ 1 \in 1..Len(s)
  BY TailEvents
<1>2. Head(s).sequence \in Nat
  BY <1>1, EventFields
<1>3. f[SourceOf(Head(s))] < Head(s).sequence
  <2>1. s[1].sequence > f[SourceOf(s[1])]
    BY <1>1 DEF InOrder
  <2> QED
    BY <1>1, <1>2, <2>1
<1>4. ASSUME NEW j \in 1..Len(s) - 1, SourceOf(s[j + 1]) = SourceOf(Head(s))
      PROVE  Head(s).sequence < s[j + 1].sequence /\ s[j + 1].sequence \in Int
  <2>1. j + 1 \in 1..Len(s) /\ 1 \in 1..(j + 1) - 1
    BY <1>1
  <2>2. s[j + 1] \in Events
    BY <2>1, ElementOfSeq
  <2>3. SameSource(s[1], s[j + 1])
    BY <1>1, <1>4 DEF SameSource, SourceOf
  <2> QED
    BY <1>1, <2>1, <2>2, <2>3, EventFields DEF InOrder
<1> QED
  BY <1>1, <1>2, <1>3, <1>4

LEMMA GapsDropped ==
  ASSUME NEW s \in Seq(Events), s # <<>>, NEW f \in [Sources -> Int], InOrder(s, f),
         NEW k \in Nat, FirstIn(Tail(s), SourceOf(Head(s)), k), NEW j \in 1..Len(s) - 1
  PROVE  GapAt(Tail(s), f, j) <= GapAt(s, f, j + 1) +
           IF j = k THEN Span(f[SourceOf(Head(s))], Head(s).sequence) + 1 ELSE 0
<1> DEFINE source == SourceOf(s[j + 1])
           h == Head(s).sequence
           x == s[j + 1].sequence
           last == f[SourceOf(Head(s))]
<1>1. /\ Tail(s) \in Seq(Events) /\ Len(s) \in Nat \ {0} /\ Len(Tail(s)) = Len(s) - 1
      /\ Tail(s)[j] = s[j + 1] /\ (j + 1) - 1 = j
      /\ j - 1 \in 0..Len(s) - 1 /\ (j - 1) + 1 = j /\ j + 1 \in 1..Len(s) /\ j \in 0..Len(s)
  BY TailEvents
<1>2. GapAt(Tail(s), f, j) = Span(LastOf(Tail(s), f, j - 1, source), x)
  BY <1>1 DEF GapAt
<1>3. GapAt(s, f, j + 1) = Span(LastOf(s, f, j, source), x)
  BY <1>1 DEF GapAt
<1>4. h \in Nat /\ last \in Int /\ last < h
  BY HeadFirst
<1>5. Span(last, h) \in Nat
  BY <1>4 DEF Span
<1>6. x \in Int /\ LastOf(s, f, j, source) \in Int
  <2>1. s[j + 1] \in Events
    BY <1>1, ElementOfSeq
  <2>2. source \in Sources /\ x \in Int
    BY <2>1, EventFields
  <2> QED
    BY <1>1, <2>2, LastType
<1>7. CASE source = SourceOf(Head(s)) /\ NoneIn(Tail(s), 1, j - 1, source)
  <2>1. LastOf(Tail(s), f, j - 1, source) = last /\ LastOf(s, f, j, source) = h
    BY <1>1, <1>7, LastDropped
  <2>2. h < x
    BY <1>7, HeadFirst
  <2>3. j = k
    <3>1. SourceOf(Tail(s)[j]) = SourceOf(Head(s)) /\ j \in 1..Len(Tail(s))
      BY <1>1, <1>7
    <3>2. k \in 1..Len(Tail(s)) /\ SourceOf(Tail(s)[k]) = SourceOf(Head(s))
          /\ NoneIn(Tail(s), 1, k - 1, SourceOf(Head(s)))
      BY <3>1 DEF FirstIn, NoneIn
    <3>3. ~(k < j)
      BY <1>7, <3>2 DEF NoneIn
    <3>4. ~(j < k)
      BY <3>1, <3>2 DEF NoneIn
    <3> QED
      BY <3>3, <3>4
  <2>4. Span(last, x) <= Span(h, x) + (Span(last, h) + 1)
    BY <1>4, <1>6, <2>2, SpanSplit
  <2> QED
    BY <1>2, <1>3, <2>1, <2>3, <2>4
<1>8. CASE ~(source = SourceOf(Head(s)) /\ NoneIn(Tail(s), 1, j - 1, source))
  <2>1. LastOf(Tail(s), f, j - 1, source) = LastOf(s, f, j, source)
    BY <1>1, <1>8, LastDropped
  <2>2. GapAt(Tail(s), f, j) = GapAt(s, f, j + 1) /\ GapAt(s, f, j + 1) \in Int
    BY <1>2, <1>3, <1>6, <2>1 DEF Span
  <2> QED
    BY <1>5, <2>2
<1> QED
  BY <1>7, <1>8

LEMMA LatestDropped ==
  ASSUME NEW s \in Seq(Events), s # <<>>, NEW f, NEW source
  PROVE  IF source = SourceOf(Head(s)) /\ NoneIn(Tail(s), 1, Len(Tail(s)), source)
         THEN Latest(Tail(s), f, source) = f[source] /\ Latest(s, f, source) = Head(s).sequence
         ELSE Latest(Tail(s), f, source) = Latest(s, f, source)
<1>1. Len(s) \in Nat \ {0} /\ Len(Tail(s)) = Len(s) - 1
  BY TailEvents
<1>2. Len(Tail(s)) \in 0..Len(s) - 1 /\ Len(Tail(s)) + 1 = Len(s)
  BY <1>1
<1>3. PICK n \in 0..Len(s) - 1 : n = Len(Tail(s)) /\ n + 1 = Len(s)
  BY <1>2
<1>4. IF source = SourceOf(Head(s)) /\ NoneIn(Tail(s), 1, n, source)
      THEN /\ LastOf(Tail(s), f, n, source) = f[source]
           /\ LastOf(s, f, n + 1, source) = Head(s).sequence
      ELSE LastOf(Tail(s), f, n, source) = LastOf(s, f, n + 1, source)
  BY LastDropped
<1> QED
  BY <1>3, <1>4 DEF Latest

(* The oldest event is dropped unseen: one number more goes missing.          *)
LEMMA CostDropped ==
  ASSUME NEW s \in Seq(Events), s # <<>>, NEW f \in [Sources -> Int], InOrder(s, f),
         NEW sl \in Seq(Slots), NEW e \in 0..MaxEras, Distinct(sl), Ahead(s, f, sl, e)
  PROVE  Cost(Tail(s), f, sl, e) <= Cost(s, f, sl, e) + 1
<1> DEFINE origin == SourceOf(Head(s))
           g == Span(f[origin], Head(s).sequence)
<1>1. /\ Tail(s) \in Seq(Events) /\ Len(s) \in Nat \ {0} /\ Len(Tail(s)) = Len(s) - 1
      /\ origin \in Sources
  BY TailEvents
<1>2. PICK k \in Nat : FirstIn(Tail(s), origin, k)
  BY <1>1, FirstExists
<1>3. PICK t \in Seq(Int) : t = Tail(Gaps(s, f)) /\ Len(t) = Len(s) - 1
  BY GapsPopped
<1>4. \A j \in 1..Len(s) - 1 : t[j] = GapAt(s, f, j + 1)
  BY <1>3, GapsPopped
<1>5. PICK u \in Seq(Int) : u = Gaps(Tail(s), f) /\ Len(u) = Len(s) - 1
  BY <1>1, GapsType
<1>6. g \in Nat
  <2>1. Head(s).sequence \in Nat /\ f[origin] \in Int /\ f[origin] < Head(s).sequence
    BY HeadFirst
  <2> QED
    BY <2>1 DEF Span
<1>7. \A j \in 1..Len(s) - 1 : u[j] <= t[j] + IF j = k THEN g + 1 ELSE 0
  <2>1. TAKE j \in 1..Len(s) - 1
  <2>2. u[j] = GapAt(Tail(s), f, j)
    BY <1>1, <1>5 DEF Gaps
  <2>3. GapAt(Tail(s), f, j) <= GapAt(s, f, j + 1) + IF j = k THEN g + 1 ELSE 0
    BY <1>2, GapsDropped
  <2> QED
    BY <1>4, <2>2, <2>3
<1>8. Total(t) = Total(Gaps(s, f)) - g /\ Total(Gaps(s, f)) \in Int
  <2>1. Gaps(s, f) \in Seq(Int) /\ Gaps(s, f) # <<>>
    BY GapsType, GapsPopped
  <2>2. Total(Tail(Gaps(s, f))) = Total(Gaps(s, f)) - Gaps(s, f)[1]
    BY <2>1, TotalTail
  <2>3. Gaps(s, f)[1] = g
    BY GapsPopped
  <2> QED
    BY <1>3, <2>1, <2>2, <2>3, TotalType
<1>9. AllOwed(s, f, sl, e) \in Seq(Int) /\ OwedTyped(s, f, sl, e)
  BY OwedType
<1>10. AllOwed(Tail(s), f, sl, e) \in Seq(Int) /\ OwedTyped(Tail(s), f, sl, e)
  BY <1>1, OwedType
<1>11. /\ Total(AllOwed(s, f, sl, e)) \in Int /\ Total(AllOwed(Tail(s), f, sl, e)) \in Int
       /\ Total(t) \in Int /\ Total(u) \in Int
  BY <1>9, <1>10, TotalType
<1>12. CASE k = 0
  <2>1. NoneIn(Tail(s), 1, Len(Tail(s)), origin)
    BY <1>1, <1>2, <1>12 DEF FirstIn
  <2>2. BoundedBut(u, t, 0, 0)
    <3>1. \A j \in 1..Len(s) - 1 : u[j] <= t[j] + IF j = 0 THEN 0 ELSE 0
      BY <1>7, <1>12
    <3> QED
      BY <1>3, <1>5, <3>1 DEF BoundedBut
  <2>3. Total(u) <= Total(t) + 0
    BY <2>2, TotalBounded
  <2>4. ASSUME NEW i \in 1..Len(sl), <<sl[i].id, e>> = origin
        PROVE  Owed(Tail(s), f, sl[i], e) <= Owed(s, f, sl[i], e) + (g + 1)
    <3>1. Latest(Tail(s), f, origin) = f[origin] /\ Latest(s, f, origin) = Head(s).sequence
      BY <2>1, LatestDropped
    <3>0. SlotFields(sl[i])
      BY <1>9 DEF OwedTyped
    <3>2. sl[i].next \in Int
      BY <3>0 DEF SlotFields
    <3>3. Head(s).sequence < sl[i].next
      BY <2>4, <3>1 DEF Ahead
    <3>4. Head(s).sequence \in Nat /\ f[origin] \in Int /\ f[origin] < Head(s).sequence
      BY HeadFirst
    <3>5. Span(f[origin], sl[i].next) <= Span(Head(s).sequence, sl[i].next) + (g + 1)
      BY <3>2, <3>3, <3>4, SpanSplit
    <3> QED
      BY <2>4, <3>1, <3>5 DEF Owed
  <2>5. ASSUME NEW i \in 1..Len(sl), <<sl[i].id, e>> # origin
        PROVE  Owed(Tail(s), f, sl[i], e) = Owed(s, f, sl[i], e)
    <3>1. PICK source : source = <<sl[i].id, e>>
      OBVIOUS
    <3>2. Latest(Tail(s), f, source) = Latest(s, f, source)
      BY <2>5, <3>1, LatestDropped
    <3> QED
      BY <3>1, <3>2 DEF Owed
  <2>6. PICK m \in Int : \A i \in 1..Len(sl) : <<sl[i].id, e>> = origin <=> i = m
    <3>1. CASE \E i \in 1..Len(sl) : <<sl[i].id, e>> = origin
      <4>1. PICK m \in 1..Len(sl) : <<sl[m].id, e>> = origin
        BY <3>1
      <4>2. \A i \in 1..Len(sl) : <<sl[i].id, e>> = origin <=> i = m
        BY <4>1 DEF Distinct
      <4> WITNESS m \in Int
      <4> QED
        BY <4>2
    <3>2. CASE ~\E i \in 1..Len(sl) : <<sl[i].id, e>> = origin
      <4>1. \A i \in 1..Len(sl) : i # 0
        OBVIOUS
      <4> WITNESS 0 \in Int
      <4> QED
        BY <3>2, <4>1
    <3> QED
      BY <3>1, <3>2
  <2>7. BoundedBut(AllOwed(Tail(s), f, sl, e), AllOwed(s, f, sl, e), m, g + 1)
    <3>1. ASSUME NEW i \in 1..Len(sl)
          PROVE  Owed(Tail(s), f, sl[i], e) <= Owed(s, f, sl[i], e) + IF i = m THEN g + 1 ELSE 0
      <4>1. Owed(s, f, sl[i], e) \in Int
        BY <1>9 DEF OwedTyped
      <4> QED
        BY <2>4, <2>5, <2>6, <4>1
    <3>2. g + 1 >= 0
      BY <1>6
    <3> QED
      BY <1>9, <1>10, <3>1, <3>2 DEF BoundedBut, OwedTyped
  <2>8. Total(AllOwed(Tail(s), f, sl, e)) <= Total(AllOwed(s, f, sl, e)) + (g + 1)
    BY <1>6, <1>9, <1>10, <2>7, TotalBounded
  <2>9. Total(u) + Total(AllOwed(Tail(s), f, sl, e))
          <= Total(Gaps(s, f)) + Total(AllOwed(s, f, sl, e)) + 1
    BY <1>6, <1>8, <1>11, <2>3, <2>8
  <2> QED
    BY <1>5, <2>9 DEF Cost
<1>13. CASE k # 0
  <2>1. ~NoneIn(Tail(s), 1, Len(Tail(s)), origin)
    BY <1>2, <1>13 DEF FirstIn, NoneIn
  <2>2. \A i \in 1..Len(sl) : Owed(Tail(s), f, sl[i], e) = Owed(s, f, sl[i], e)
    <3>1. TAKE i \in 1..Len(sl)
    <3>2. PICK source : source = <<sl[i].id, e>>
      OBVIOUS
    <3>3. Latest(Tail(s), f, source) = Latest(s, f, source)
      BY <2>1, LatestDropped
    <3> QED
      BY <3>2, <3>3 DEF Owed
  <2>3. AllOwed(Tail(s), f, sl, e) = AllOwed(s, f, sl, e)
    BY <2>2 DEF AllOwed
  <2>4. BoundedBut(u, t, k, g + 1)
    <3>1. g + 1 >= 0
      BY <1>6
    <3> QED
      BY <1>3, <1>5, <1>7, <3>1 DEF BoundedBut
  <2>5. Total(u) <= Total(t) + (g + 1)
    BY <1>6, <2>4, TotalBounded
  <2>6. Total(u) + Total(AllOwed(Tail(s), f, sl, e))
          <= Total(Gaps(s, f)) + Total(AllOwed(s, f, sl, e)) + 1
    BY <1>6, <1>8, <1>11, <2>3, <2>5
  <2> QED
    BY <1>5, <2>6 DEF Cost
<1> QED
  BY <1>12, <1>13

(* A new registration owes nothing, and after a reset none owes anything.     *)
LEMMA CostRegistered ==
  ASSUME NEW s \in Seq(Events), NEW f \in [Sources -> Int], NEW sl \in Seq(Slots),
         NEW slot \in Slots, NEW e \in 0..MaxEras, Latest(s, f, <<slot.id, e>>) = -1
  PROVE  Cost(s, f, Append(sl, slot), e) = Cost(s, f, sl, e)
<1>1. PICK sl2 \in Seq(Slots) : sl2 = Append(sl, slot)
  BY AppendProperties
<1>2. /\ Len(sl) \in Nat /\ Len(sl2) = Len(sl) + 1
      /\ \A i \in 1..Len(sl) : sl2[i] = sl[i]
      /\ sl2[Len(sl) + 1] = slot
  BY <1>1, AppendProperties, LenProperties
<1>3. AllOwed(s, f, sl, e) \in Seq(Int) /\ OwedTyped(s, f, sl, e)
  BY OwedType
<1>4. AllOwed(s, f, sl2, e) \in Seq(Int) /\ OwedTyped(s, f, sl2, e)
  BY OwedType
<1>5. PICK a \in Seq(Int) :
        /\ a = AllOwed(s, f, sl, e) /\ Len(a) = Len(sl)
        /\ \A i \in 1..Len(sl) : a[i] = Owed(s, f, sl[i], e)
  BY <1>3 DEF OwedTyped
<1>6. PICK b \in Seq(Int) :
        /\ b = AllOwed(s, f, sl2, e) /\ Len(b) = Len(sl) + 1
        /\ \A i \in 1..Len(sl) + 1 : b[i] = Owed(s, f, sl2[i], e)
  BY <1>2, <1>4 DEF OwedTyped
<1>7. b[Len(sl) + 1] = 0
  BY <1>2, <1>6 DEF Owed, Span
<1>8. /\ Append(a, 0) \in Seq(Int) /\ Len(Append(a, 0)) = Len(sl) + 1
      /\ \A i \in 1..Len(sl) : Append(a, 0)[i] = a[i]
      /\ Append(a, 0)[Len(sl) + 1] = 0
  <2>1. 0 \in Int
    OBVIOUS
  <2> QED
    BY <1>5, <2>1, AppendProperties
<1>9. ASSUME NEW i \in 1..Len(sl) + 1 PROVE b[i] = Append(a, 0)[i]
  <2>1. i \in 1..Len(sl) \/ i = Len(sl) + 1
    BY <1>2
  <2> QED
    BY <1>2, <1>5, <1>6, <1>7, <1>8, <2>1
<1>10. b = Append(a, 0)
  BY <1>6, <1>8, <1>9, SeqEqual
<1>11. Total(b) = Total(a)
  <2>1. 0 \in Int /\ Total(a) \in Int
    BY TotalType
  <2>2. Total(Append(a, 0)) = Total(a) + 0
    BY <2>1, TotalAppend
  <2> QED
    BY <1>10, <2>1, <2>2
<1> QED
  BY <1>1, <1>5, <1>6, <1>11 DEF Cost

LEMMA CostReset ==
  ASSUME NEW s \in Seq(Events), NEW f \in [Sources -> Int], NEW sl \in Seq(Slots),
         NEW e \in 0..MaxEras, NEW e2 \in 0..MaxEras, Ahead(s, f, sl, e)
  PROVE  /\ Cost(s, f, <<>>, e2) <= Cost(s, f, sl, e)
         /\ Total(Gaps(s, f)) <= Cost(s, f, sl, e)
<1>1. AllOwed(s, f, sl, e) \in Seq(Int) /\ OwedTyped(s, f, sl, e)
  BY OwedType
<1>2. ASSUME NEW i \in 1..Len(sl) PROVE AllOwed(s, f, sl, e)[i] >= 0
  <2>1. /\ AllOwed(s, f, sl, e)[i] = Owed(s, f, sl[i], e) /\ SlotFields(sl[i])
        /\ Latest(s, f, <<sl[i].id, e>>) \in Int
    BY <1>1 DEF OwedTyped
  <2>2. Latest(s, f, <<sl[i].id, e>>) < sl[i].next /\ sl[i].next \in Nat
    BY <2>1 DEF Ahead, SlotFields
  <2> QED
    BY <2>1, <2>2 DEF Owed, Span
<1>3. Total(AllOwed(s, f, sl, e)) >= 0
  <2>1. \A i \in 1..Len(AllOwed(s, f, sl, e)) : AllOwed(s, f, sl, e)[i] >= 0
    BY <1>1, <1>2 DEF OwedTyped
  <2> QED
    BY <1>1, <2>1, TotalNatural
<1>4. Total(AllOwed(s, f, <<>>, e2)) = 0
  <2>1. <<>> \in Seq(Int) /\ Len(<<>>) = 0 /\ AllOwed(s, f, <<>>, e2) = <<>>
    BY DEF AllOwed
  <2>2. PICK g : IsPart(g, <<>>, Len(<<>>)) /\ Total(<<>>) = g[Len(<<>>)]
    BY <2>1, TotalIsPart
  <2> QED
    BY <2>1, <2>2 DEF IsPart
<1>5. Total(AllOwed(s, f, sl, e)) \in Int /\ Total(Gaps(s, f)) \in Int
  BY <1>1, GapsType, TotalType
<1> QED
  BY <1>3, <1>4, <1>5 DEF Cost

-----------------------------------------------------------------------------
(* The drop counter of each queue covers what its consumer missed and what it  *)
(* is going to miss; and a consumer that knows a registration is subscribed.   *)
Covered == \A q \in Queues : missed[q] + Cost(queue[q], seen[q], slots, era) <= dropped[q]
KnownSubscribed == \A q \in Queues, id \in Ids :
  Latest(queue[q], seen[q], <<id, era>>) # -1 => <<id, q>> \in subscriptions
CountInv == Covered /\ KnownSubscribed

LEMMA Consumer ==
  ASSUME OrderInv, CountersType, NEW q \in Queues
  PROVE  /\ queue[q] \in Seq(Events) /\ seen[q] \in [Sources -> Int]
         /\ InOrder(queue[q], seen[q])
         /\ slots \in Seq(Slots) /\ era \in 0..MaxEras /\ Distinct(slots)
         /\ missed[q] \in Nat /\ dropped[q] \in Nat
<1>1. queue[q] \in Seq(Events) /\ seen[q] \in [Sources -> -1..MaxSequence]
  BY DEF OrderInv, Numbering, QueuesType
<1>2. seen[q] \in [Sources -> Int]
  BY <1>1, Sizes
<1>3. InOrder(queue[q], seen[q])
  BY InOrderDef DEF OrderInv
<1> QED
  BY <1>1, <1>2, <1>3
     DEF OrderInv, TablesType, Numbering, IdsDistinct, Distinct, CountersType

LEMMA LatestGivenOut ==
  ASSUME OrderInv, NEW q \in Queues, NEW id \in Ids, NEW e \in 0..MaxEras,
         Latest(queue[q], seen[q], <<id, e>>) # -1
  PROVE  GivenOut(id, e, Latest(queue[q], seen[q], <<id, e>>))
<1>0. queue[q] \in Seq(Events) /\ Len(queue[q]) \in Nat
  BY LenProperties DEF OrderInv, Numbering, QueuesType
<1>1. PICK source : source = <<id, e>>
  OBVIOUS
<1>2. CASE NoneIn(queue[q], 1, Len(queue[q]), source)
  <2>1. Latest(queue[q], seen[q], source) = seen[q][source]
    BY <1>0, <1>2, LastNone DEF Latest
  <2> QED
    BY <1>1, <2>1 DEF OrderInv, Numbering, Past
<1>3. CASE ~NoneIn(queue[q], 1, Len(queue[q]), source)
  <2>1. PICK m \in 1..Len(queue[q]) : LastIs(queue[q], seen[q], Len(queue[q]), source, m)
    BY <1>0, <1>3, LastFound
  <2>2. /\ SourceOf(queue[q][m]) = source
        /\ Latest(queue[q], seen[q], source) = queue[q][m].sequence
    BY <2>1 DEF LastIs, LatestAt, Latest
  <2>3. queue[q][m].id = id /\ queue[q][m].era = e
    BY <1>1, <2>2 DEF SourceOf
  <2>4. GivenOut(queue[q][m].id, queue[q][m].era, queue[q][m].sequence)
    BY DEF OrderInv, Numbering, Past
  <2> QED
    BY <1>1, <2>2, <2>3, <2>4
<1> QED
  BY <1>2, <1>3

LEMMA AllAhead ==
  ASSUME OrderInv, CountersType, NEW q \in Queues
  PROVE  Ahead(queue[q], seen[q], slots, era)
<1>1. queue[q] \in Seq(Events) /\ seen[q] \in [Sources -> Int] /\ slots \in Seq(Slots)
      /\ era \in 0..MaxEras
  BY Consumer
<1>2. OwedTyped(queue[q], seen[q], slots, era)
  BY <1>1, OwedType
<1> SUFFICES ASSUME NEW i \in 1..Len(slots)
             PROVE  Latest(queue[q], seen[q], <<slots[i].id, era>>) < slots[i].next
  BY DEF Ahead
<1>3. SlotFields(slots[i])
  BY <1>2 DEF OwedTyped
<1>4. PICK id \in Ids : id = slots[i].id
  BY <1>3 DEF SlotFields
<1>5. slots[i].next \in Nat
  BY <1>3 DEF SlotFields
<1>6. CASE Latest(queue[q], seen[q], <<id, era>>) = -1
  BY <1>4, <1>5, <1>6
<1>7. CASE Latest(queue[q], seen[q], <<id, era>>) # -1
  <2>1. GivenOut(id, era, Latest(queue[q], seen[q], <<id, era>>))
    BY <1>1, <1>7, LatestGivenOut
  <2>2. PICK j \in 1..Len(slots) :
          slots[j].id = id /\ Latest(queue[q], seen[q], <<id, era>>) < slots[j].next
    BY <2>1 DEF GivenOut, Used
  <2>3. j = i
    BY <1>4, <2>2 DEF OrderInv, Numbering, IdsDistinct
  <2> QED
    BY <1>4, <2>2, <2>3
<1> QED
  BY <1>6, <1>7

LEMMA RegisterCount ==
  ASSUME OrderInv, CountersType, CountInv, NEW id \in Ids, NEW driver \in Drivers,
         Register(id, driver)
  PROVE  CountInv'
<1> DEFINE slot == [id |-> id, driver |-> driver, next |-> 0]
<1>1. slot \in Slots /\ slot.id = id
  BY Sizes DEF Slots
<1>2. slots' = Append(slots, slot) /\ UNCHANGED <<queue, dropped, subscriptions, era>>
      /\ seen' = seen /\ missed' = missed
  BY DEF Register, consumers
<1>3. \A i \in 1..Len(slots) : slots[i].id # id
  BY DEF Register, CanRegister, Find
<1> HIDE DEF slot
<1>4. Covered'
  <2> SUFFICES ASSUME NEW q \in Queues
               PROVE  missed[q] + Cost(queue[q], seen[q], Append(slots, slot), era) <= dropped[q]
    BY <1>2 DEF Covered
  <2>1. queue[q] \in Seq(Events) /\ seen[q] \in [Sources -> Int] /\ slots \in Seq(Slots)
        /\ era \in 0..MaxEras
    BY Consumer
  <2>2. Latest(queue[q], seen[q], <<id, era>>) = -1
    <3> SUFFICES ASSUME Latest(queue[q], seen[q], <<id, era>>) # -1 PROVE FALSE
      OBVIOUS
    <3>1. GivenOut(id, era, Latest(queue[q], seen[q], <<id, era>>))
      BY <2>1, LatestGivenOut
    <3> QED
      BY <1>3, <3>1 DEF GivenOut, Used
  <2>3. Cost(queue[q], seen[q], Append(slots, slot), era) = Cost(queue[q], seen[q], slots, era)
    BY <1>1, <2>1, <2>2, CostRegistered
  <2> QED
    BY <2>3 DEF CountInv, Covered
<1>5. KnownSubscribed'
  BY <1>2 DEF CountInv, KnownSubscribed
<1> QED
  BY <1>4, <1>5 DEF CountInv

LEMMA ResetCount ==
  ASSUME OrderInv, CountersType, CountInv, Forgets PROVE CountInv'
<1>1. slots' = <<>> /\ era' = era + 1 /\ UNCHANGED <<queue, dropped>>
      /\ seen' = seen /\ missed' = missed
  BY DEF Forgets
<1>2. era + 1 \in 0..MaxEras /\ era \in Nat
  BY Sizes DEF Forgets, OrderInv, TablesType
<1>3. Covered'
  <2> SUFFICES ASSUME NEW q \in Queues
               PROVE  missed[q] + Cost(queue[q], seen[q], <<>>, era + 1) <= dropped[q]
    BY <1>1 DEF Covered
  <2>1. queue[q] \in Seq(Events) /\ seen[q] \in [Sources -> Int] /\ slots \in Seq(Slots)
        /\ era \in 0..MaxEras /\ missed[q] \in Nat /\ dropped[q] \in Nat
    BY Consumer
  <2>2. Ahead(queue[q], seen[q], slots, era)
    BY AllAhead
  <2>3. Cost(queue[q], seen[q], <<>>, era + 1) <= Cost(queue[q], seen[q], slots, era)
    BY <1>2, <2>1, <2>2, CostReset
  <2>4. missed[q] + Cost(queue[q], seen[q], slots, era) <= dropped[q]
    BY DEF CountInv, Covered
  <2>5. /\ Cost(queue[q], seen[q], <<>>, era + 1) \in Int
        /\ Cost(queue[q], seen[q], slots, era) \in Int
    BY <1>2, <2>1, CostType
  <2> QED
    BY <2>1, <2>3, <2>4, <2>5
<1>4. KnownSubscribed'
  <2> SUFFICES ASSUME NEW q \in Queues, NEW id \in Ids,
                      Latest(queue[q], seen[q], <<id, era + 1>>) # -1
               PROVE  FALSE
    BY <1>1 DEF KnownSubscribed
  <2>1. GivenOut(id, era + 1, Latest(queue[q], seen[q], <<id, era + 1>>))
    BY <1>2, LatestGivenOut
  <2> QED
    BY <1>2, <2>1 DEF GivenOut
<1> QED
  BY <1>3, <1>4 DEF CountInv

(* An event of a registration goes to a queue: what it costs its consumer, and *)
(* which other registrations the consumer knows.                              *)
LEMMA ServedCost ==
  ASSUME OrderInv, CountersType, NEW q \in Queues, NEW event \in Events,
         NEW i, NEW sl \in Seq(Slots), Advanced(slots, sl, i),
         event.id = slots[i].id, event.era = era, event.sequence = slots[i].next
  PROVE  Cost(Pushed(q, event), seen[q], sl, era) <=
           Cost(queue[q], seen[q], slots, era) + IF Full(q) THEN 1 ELSE 0
<1> DEFINE s == queue[q]
           f == seen[q]
<1>1. s \in Seq(Events) /\ f \in [Sources -> Int] /\ slots \in Seq(Slots)
      /\ era \in 0..MaxEras /\ InOrder(s, f) /\ Distinct(slots)
  BY Consumer
<1>2. Ahead(s, f, slots, era)
  BY AllAhead
<1>3. PICK c \in Int : c = Cost(s, f, slots, era)
  BY <1>1, CostType
<1>4. CASE ~Full(q)
  <2>1. Pushed(q, event) = Append(s, event)
    BY <1>4 DEF Pushed
  <2>2. Cost(Append(s, event), f, sl, era) <= Cost(s, f, slots, era)
    BY <1>1, CostAppended
  <2> QED
    BY <1>3, <1>4, <2>1, <2>2
<1>5. CASE Full(q) /\ Policy[q] = "DROP_OLDEST"
  <2>1. Pushed(q, event) = Append(Tail(s), event)
    BY <1>5 DEF Pushed
  <2>2. s # <<>>
    BY <1>5, Sizes, EmptySeq DEF Full
  <2>3. PICK t \in Seq(Events) : t = Tail(s)
    BY <1>1, <2>2, TailEvents
  <2>4. Cost(t, f, slots, era) <= c + 1 /\ Cost(t, f, slots, era) \in Int
    BY <1>1, <1>2, <1>3, <2>2, <2>3, CostDropped, CostType
  <2>5. Cost(Append(t, event), f, sl, era) <= Cost(t, f, slots, era)
    BY <1>1, CostAppended
  <2>6. Cost(Append(t, event), f, sl, era) \in Int
    <3>1. Append(t, event) \in Seq(Events)
      BY AppendProperties
    <3> QED
      BY <1>1, <3>1, CostType
  <2> QED
    BY <1>3, <1>5, <2>1, <2>3, <2>4, <2>5, <2>6
<1>6. CASE Full(q) /\ Policy[q] # "DROP_OLDEST"
  <2>1. Pushed(q, event) = s
    BY <1>6 DEF Pushed
  <2>2. Cost(s, f, sl, era) <= c + IF Latest(s, f, <<slots[i].id, era>>) = -1 THEN 0 ELSE 1
    BY <1>1, <1>3, CostRefused
  <2>3. Cost(s, f, sl, era) \in Int
    BY <1>1, CostType
  <2> QED
    BY <1>3, <1>6, <2>1, <2>2, <2>3
<1> QED
  BY <1>4, <1>5, <1>6

LEMMA ServedKnown ==
  ASSUME OrderInv, CountersType, NEW q \in Queues, NEW event \in Events, NEW source,
         source # SourceOf(event), Latest(Pushed(q, event), seen[q], source) # -1
  PROVE  Latest(queue[q], seen[q], source) # -1
<1>1. queue[q] \in Seq(Events) /\ InOrder(queue[q], seen[q]) /\ seen[q] \in [Sources -> Int]
  BY Consumer
<1>2. CASE Pushed(q, event) = Append(queue[q], event)
  BY <1>1, <1>2, LatestAppended
<1>3. CASE queue[q] # <<>> /\ Pushed(q, event) = Append(Tail(queue[q]), event)
  <2>1. PICK t \in Seq(Events) : t = Tail(queue[q])
    BY <1>1, <1>3, TailEvents
  <2>2. Latest(Tail(queue[q]), seen[q], source) # -1
    <3>1. Latest(Append(t, event), seen[q], source) = Latest(t, seen[q], source)
      BY LatestAppended
    <3>2. Pushed(q, event) = Append(t, event)
      BY <1>3, <2>1
    <3> QED
      BY <2>1, <3>1, <3>2
  <2>3. \/ Latest(queue[q], seen[q], source) = Latest(Tail(queue[q]), seen[q], source)
        \/ Latest(queue[q], seen[q], source) = Head(queue[q]).sequence
    BY <1>1, <1>3, LatestDropped
  <2>4. Head(queue[q]).sequence \in Nat
    BY <1>1, <1>3, HeadFirst
  <2> QED
    BY <2>2, <2>3, <2>4
<1>4. CASE Pushed(q, event) = queue[q]
  BY <1>4
<1> QED
  BY <1>1, <1>2, <1>3, <1>4, PushedCases

LEMMA PublishCount ==
  ASSUME OrderInv, CountersType, CountInv, NEW i \in 1..Len(slots), Publish(i),
         UNCHANGED <<subscriptions, era, seen, missed>>
  PROVE  CountInv'
<1>1. /\ slots' \in Seq(Slots) /\ Len(slots') = Len(slots)
      /\ \A j \in 1..Len(slots) :
           /\ slots'[j].id = slots[j].id
           /\ slots'[j].next = IF j = i THEN slots[i].next + 1 ELSE slots[j].next
  BY PublishTables DEF OrderInv
<1>2. PICK sl \in Seq(Slots) : sl = slots'
  BY <1>1
<1>3. Advanced(slots, sl, i)
  BY <1>1, <1>2 DEF Advanced
<1>4. slots \in Seq(Slots) /\ era \in 0..MaxEras
  BY DEF OrderInv, TablesType
<1>5. slots[i] \in Slots
  BY <1>4, ElementOfSeq
<1>6. PICK event \in Events :
        event = [id |-> slots[i].id, sequence |-> slots[i].next, era |-> era]
  BY <1>4, <1>5 DEF Events, Slots
<1>7. event.id = slots[i].id /\ event.sequence = slots[i].next /\ event.era = era
  BY <1>6
<1>8. /\ queue' = [q \in Queues |->
                     IF q \in Served(slots[i].id) THEN Pushed(q, event) ELSE queue[q]]
      /\ dropped' = [q \in Queues |->
                       dropped[q] + IF q \in Served(slots[i].id) /\ Full(q) THEN 1 ELSE 0]
  BY <1>6 DEF Publish
<1>9. SlotFields(slots[i])
  BY <1>5, FieldsOfSlot
<1>10. Covered'
  <2> SUFFICES ASSUME NEW q \in Queues
               PROVE  missed[q] + Cost(queue'[q], seen[q], sl, era) <= dropped'[q]
    BY <1>2 DEF Covered
  <2>1. /\ queue[q] \in Seq(Events) /\ seen[q] \in [Sources -> Int]
        /\ missed[q] \in Nat /\ dropped[q] \in Nat
    BY Consumer
  <2>2. missed[q] + Cost(queue[q], seen[q], slots, era) <= dropped[q]
    BY DEF CountInv, Covered
  <2>3. Cost(queue[q], seen[q], slots, era) \in Int
    BY <1>4, <2>1, CostType
  <2>4. CASE q \in Served(slots[i].id)
    <3>1. /\ queue'[q] = Pushed(q, event)
          /\ dropped'[q] = dropped[q] + IF Full(q) THEN 1 ELSE 0
      BY <1>8, <2>4
    <3>2. Cost(Pushed(q, event), seen[q], sl, era) <=
            Cost(queue[q], seen[q], slots, era) + IF Full(q) THEN 1 ELSE 0
      BY <1>3, <1>7, ServedCost
    <3>3. Cost(Pushed(q, event), seen[q], sl, era) \in Int
      <4>1. Pushed(q, event) \in Seq(Events)
        <5>1. CASE Pushed(q, event) = Append(queue[q], event)
          BY <2>1, <5>1, AppendProperties
        <5>2. CASE queue[q] # <<>> /\ Pushed(q, event) = Append(Tail(queue[q]), event)
          <6>1. PICK t \in Seq(Events) : t = Tail(queue[q])
            BY <2>1, <5>2, TailEvents
          <6>2. Append(t, event) \in Seq(Events)
            BY AppendProperties
          <6> QED
            BY <5>2, <6>1, <6>2
        <5>3. CASE Pushed(q, event) = queue[q]
          BY <2>1, <5>3
        <5> QED
          BY <2>1, <5>1, <5>2, <5>3, PushedCases
      <4> QED
        BY <1>4, <2>1, <4>1, CostType
    <3>4. CASE Full(q)
      BY <2>1, <2>2, <2>3, <3>1, <3>2, <3>3, <3>4
    <3>5. CASE ~Full(q)
      BY <2>1, <2>2, <2>3, <3>1, <3>2, <3>3, <3>5
    <3> QED
      BY <3>4, <3>5
  <2>5. CASE q \notin Served(slots[i].id)
    <3>1. queue'[q] = queue[q] /\ dropped'[q] = dropped[q]
      BY <1>8, <2>1, <2>5
    <3>2. Latest(queue[q], seen[q], <<slots[i].id, era>>) = -1
      <4>1. <<slots[i].id, q>> \notin subscriptions
        BY <2>5 DEF Served, Subscribers
      <4>2. slots[i].id \in Ids
        BY <1>9 DEF SlotFields
      <4> QED
        BY <4>1, <4>2 DEF CountInv, KnownSubscribed
    <3>3. Cost(queue[q], seen[q], sl, era) <= Cost(queue[q], seen[q], slots, era) +
            IF Latest(queue[q], seen[q], <<slots[i].id, era>>) = -1 THEN 0 ELSE 1
      BY <1>3, <1>4, <2>1, CostRefused
    <3>4. Cost(queue[q], seen[q], sl, era) \in Int
      BY <1>4, <2>1, CostType
    <3> QED
      BY <2>1, <2>2, <2>3, <3>1, <3>2, <3>3, <3>4
  <2> QED
    BY <2>4, <2>5
<1>11. KnownSubscribed'
  <2> SUFFICES ASSUME NEW q \in Queues, NEW id \in Ids,
                      Latest(queue'[q], seen[q], <<id, era>>) # -1
               PROVE  <<id, q>> \in subscriptions
    BY DEF KnownSubscribed
  <2>1. PICK source : source = <<id, era>>
    OBVIOUS
  <2>2. CASE q \notin Served(slots[i].id)
    <3>1. queue'[q] = queue[q]
      BY <1>8, <2>2
    <3> QED
      BY <3>1 DEF CountInv, KnownSubscribed
  <2>3. CASE q \in Served(slots[i].id) /\ id = slots[i].id
    BY <2>3 DEF Served, Subscribers
  <2>4. CASE q \in Served(slots[i].id) /\ id # slots[i].id
    <3>1. queue'[q] = Pushed(q, event)
      BY <1>8, <2>4
    <3>2. source # SourceOf(event)
      BY <1>7, <2>1, <2>4 DEF SourceOf
    <3>3. Latest(queue[q], seen[q], source) # -1
      BY <2>1, <3>1, <3>2, ServedKnown
    <3> QED
      BY <2>1, <3>3 DEF CountInv, KnownSubscribed
  <2> QED
    BY <2>2, <2>3, <2>4
<1> QED
  BY <1>10, <1>11 DEF CountInv

LEMMA PopCount ==
  ASSUME OrderInv, CountersType, CountInv, NEW q \in Queues, Pop(q) PROVE CountInv'
<1> DEFINE event == Head(queue[q])
           gap == Span(seen[q][SourceOf(event)], event.sequence)
<1>1. /\ queue[q] # <<>> /\ UNCHANGED <<slots, subscriptions, dropped, era>>
      /\ queue' = [queue EXCEPT ![q] = Tail(queue[q])]
      /\ missed' = [missed EXCEPT ![q] = missed[q] + gap]
      /\ seen' = [seen EXCEPT ![q] = After(queue[q], seen[q])]
  <2>1. seen' = [seen EXCEPT ![q][SourceOf(event)] = event.sequence]
    BY DEF Pop, SourceOf
  <2>2. seen' = [seen EXCEPT ![q] = After(queue[q], seen[q])]
    BY <2>1 DEF After
  <2> QED
    BY <2>2 DEF Pop, SourceOf, Gap, Span, tables
<1>2. /\ queue \in [Queues -> Seq(Events)] /\ missed \in [Queues -> Nat]
      /\ seen \in [Queues -> [Sources -> -1..MaxSequence]]
  BY DEF OrderInv, Numbering, QueuesType, CountersType
<1>3. /\ queue'[q] = Tail(queue[q]) /\ missed'[q] = missed[q] + gap
      /\ seen'[q] = After(queue[q], seen[q])
      /\ \A p \in Queues : p # q =>
           queue'[p] = queue[p] /\ missed'[p] = missed[p] /\ seen'[p] = seen[p]
  BY <1>1, <1>2
<1>4. queue[q] \in Seq(Events) /\ seen[q] \in [Sources -> Int] /\ slots \in Seq(Slots)
      /\ era \in 0..MaxEras /\ missed[q] \in Nat /\ dropped[q] \in Nat
      /\ InOrder(queue[q], seen[q])
  BY Consumer
<1>5. gap \in Int
  <2>1. event.sequence \in Nat /\ seen[q][SourceOf(event)] \in Int
    BY <1>1, <1>4, HeadFirst
  <2> QED
    BY <2>1 DEF Span
<1>6. Cost(Tail(queue[q]), After(queue[q], seen[q]), slots, era) =
        Cost(queue[q], seen[q], slots, era) - gap
  BY <1>1, <1>4, CostPopped
<1>7. \A source \in Sources :
        Latest(Tail(queue[q]), After(queue[q], seen[q]), source) = Latest(queue[q], seen[q], source)
  BY <1>1, <1>4, CostPopped
<1> HIDE DEF gap
<1>8. Covered'
  <2> SUFFICES ASSUME NEW p \in Queues
               PROVE  missed'[p] + Cost(queue'[p], seen'[p], slots, era) <= dropped[p]
    BY <1>1 DEF Covered
  <2>1. missed[p] + Cost(queue[p], seen[p], slots, era) <= dropped[p]
    BY DEF CountInv, Covered
  <2>2. CASE p # q
    BY <1>3, <2>1, <2>2
  <2>3. CASE p = q
    <3>1. Cost(queue[q], seen[q], slots, era) \in Int
      BY <1>4, CostType
    <3>2. missed'[q] + Cost(queue'[q], seen'[q], slots, era) =
            (missed[q] + gap) + (Cost(queue[q], seen[q], slots, era) - gap)
      BY <1>3, <1>6
    <3> QED
      BY <1>4, <1>5, <2>1, <2>3, <3>1, <3>2
  <2> QED
    BY <2>2, <2>3
<1>9. KnownSubscribed'
  <2> SUFFICES ASSUME NEW p \in Queues, NEW id \in Ids,
                      Latest(queue'[p], seen'[p], <<id, era>>) # -1
               PROVE  <<id, p>> \in subscriptions
    BY <1>1 DEF KnownSubscribed
  <2>1. CASE p # q
    BY <1>3, <2>1 DEF CountInv, KnownSubscribed
  <2>2. CASE p = q
    <3>1. PICK source \in Sources : source = <<id, era>>
      BY <1>4 DEF Sources
    <3>2. Latest(queue'[q], seen'[q], source) = Latest(queue[q], seen[q], source)
      BY <1>3, <1>7
    <3> QED
      BY <2>2, <3>1, <3>2 DEF CountInv, KnownSubscribed
  <2> QED
    BY <2>1, <2>2
<1> QED
  BY <1>8, <1>9 DEF CountInv

LEMMA CountInit == Init => CountInv
<1> SUFFICES ASSUME Init PROVE CountInv
  OBVIOUS
<1>1. OrderInv /\ CountersType
  BY TablesInit, OrderInit, CountersInit DEF OrderInv
<1>2. /\ slots = <<>> /\ queue = [q \in Queues |-> <<>>] /\ dropped = [q \in Queues |-> 0]
      /\ missed = [q \in Queues |-> 0] /\ seen = [q \in Queues |-> [source \in Sources |-> -1]]
  BY DEF Init
<1>3. Total(<<>>) = 0
  <2>1. <<>> \in Seq(Int) /\ Len(<<>>) = 0
    OBVIOUS
  <2>2. PICK g : IsPart(g, <<>>, Len(<<>>)) /\ Total(<<>>) = g[Len(<<>>)]
    BY <2>1, TotalIsPart
  <2> QED
    BY <2>1, <2>2 DEF IsPart
<1>4. Covered
  <2> SUFFICES ASSUME NEW q \in Queues
               PROVE  missed[q] + Cost(queue[q], seen[q], slots, era) <= dropped[q]
    BY DEF Covered
  <2>1. queue[q] = <<>> /\ slots = <<>> /\ missed[q] = 0 /\ dropped[q] = 0
    BY <1>2
  <2>2. Gaps(queue[q], seen[q]) = <<>> /\ AllOwed(queue[q], seen[q], slots, era) = <<>>
    BY <2>1 DEF Gaps, AllOwed
  <2> QED
    BY <1>3, <2>1, <2>2 DEF Cost
<1>5. KnownSubscribed
  <2> SUFFICES ASSUME NEW q \in Queues, NEW id \in Ids,
                      Latest(queue[q], seen[q], <<id, era>>) # -1
               PROVE  FALSE
    BY DEF KnownSubscribed
  <2>1. era \in 0..MaxEras
    BY <1>1 DEF OrderInv, TablesType
  <2>2. GivenOut(id, era, Latest(queue[q], seen[q], <<id, era>>))
    BY <1>1, <2>1, LatestGivenOut
  <2> QED
    BY <1>2, <2>2 DEF GivenOut, Used
<1> QED
  BY <1>4, <1>5 DEF CountInv

LEMMA CountNext ==
  TablesType /\ Numbering /\ NumberedInOrder /\ CountersType /\ CountInv /\ [Next]_vars
    => CountInv'
<1> SUFFICES ASSUME TablesType, Numbering, NumberedInOrder, CountersType, CountInv, [Next]_vars
             PROVE  CountInv'
  OBVIOUS
<1>1. OrderInv
  BY DEF OrderInv
<1>2. ASSUME UNCHANGED <<queue, dropped, missed, seen, slots, era>>,
             subscriptions \subseteq subscriptions'
      PROVE  CountInv'
  BY <1>2 DEF CountInv, Covered, KnownSubscribed
<1>3. CASE PollSensor
  <2>1. CASE Publish(at)
    <3>1. /\ at \in 1..Len(slots)
          /\ UNCHANGED <<subscriptions, era, seen, missed>>
      BY <1>3, LenProperties DEF PollSensor, TablesType, Idle, consumers
    <3> QED
      BY <1>1, <2>1, <3>1, PublishCount
  <2>2. CASE UNCHANGED <<slots, queue, dropped>>
    BY <1>2, <1>3, <2>2 DEF PollSensor, consumers
  <2> QED
    BY <1>3, <2>1, <2>2 DEF PollSensor
<1>4. CASE PollStart \/ ResetStart
  BY <1>2, <1>4 DEF PollStart, ResetStart, consumers, tables
<1>5. ASSUME NEW id \in Ids, NEW q \in Queues, Subscribe(id, q) PROVE CountInv'
  BY <1>2, <1>5 DEF Subscribe, consumers
<1>6. CASE UNCHANGED vars
  BY <1>2, <1>6 DEF vars, consumers, tables
<1>7. CASE ResetDriver
  BY <1>1, <1>2, <1>7, ResetForgets, ResetCount
<1>8. ASSUME NEW id \in Ids, RegisterFails(id) PROVE CountInv'
  BY <1>2, <1>8 DEF RegisterFails, consumers, tables
<1> QED
  BY <1>1, <1>3, <1>4, <1>5, <1>6, <1>7, <1>8, RegisterCount, PopCount DEF Next

(* Whatever happens on the other queues, the drop counter of a consumer's own  *)
(* queue explains every gap in the numbers it has seen or will see.           *)
THEOREM GapsCorrect == Spec => []GapsCounted
<1>1. TablesType /\ Numbering /\ NumberedInOrder /\ CountersType /\ CountInv => GapsCounted
  <2> SUFFICES ASSUME TablesType, Numbering, NumberedInOrder, CountersType, CountInv,
                      NEW q \in Queues
               PROVE  missed[q] + Total([j \in 1..Len(queue[q]) |->
                                           Gap(Before(q, j), queue[q][j])]) <= dropped[q]
    BY DEF GapsCounted
  <2>1. OrderInv
    BY DEF OrderInv
  <2>2. queue[q] \in Seq(Events) /\ seen[q] \in [Sources -> Int] /\ slots \in Seq(Slots)
        /\ era \in 0..MaxEras /\ missed[q] \in Nat /\ dropped[q] \in Nat
    BY <2>1, Consumer
  <2>3. ASSUME NEW j \in 1..Len(queue[q])
        PROVE  Gap(Before(q, j), queue[q][j]) = GapAt(queue[q], seen[q], j)
    <3>1. \A x, y : SameSource(x, y) <=> SourceOf(x) = SourceOf(y)
      BY DEF SameSource, SourceOf
    <3>2. Before(q, j) = LastOf(queue[q], seen[q], j - 1, SourceOf(queue[q][j]))
      BY <3>1 DEF Before, LastOf, SourceOf
    <3> QED
      BY <3>2 DEF Gap, GapAt, Span
  <2>4. [j \in 1..Len(queue[q]) |-> Gap(Before(q, j), queue[q][j])] = Gaps(queue[q], seen[q])
    BY <2>3 DEF Gaps
  <2>5. Total(Gaps(queue[q], seen[q])) <= Cost(queue[q], seen[q], slots, era)
    <3>1. Ahead(queue[q], seen[q], slots, era)
      BY <2>1, AllAhead
    <3> QED
      BY <2>2, <3>1, CostReset
  <2>6. missed[q] + Cost(queue[q], seen[q], slots, era) <= dropped[q]
    BY DEF CountInv, Covered
  <2>7. Cost(queue[q], seen[q], slots, era) \in Int /\ Total(Gaps(queue[q], seen[q])) \in Int
    BY <2>2, CostType, GapsType, TotalType
  <2> QED
    BY <2>2, <2>4, <2>5, <2>6, <2>7
<1> QED
  BY <1>1, TablesInit, TablesNext, OrderInit, OrderNext, CountersInit, CountersNext,
     CountInit, CountNext, PTL DEF Spec
=============================================================================
