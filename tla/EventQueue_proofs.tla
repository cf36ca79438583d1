-------------------------- MODULE EventQueue_proofs --------------------------
(* Theorems about EventQueue and the ring buffer beside it, for every value   *)
(* of their constants.                                                       *)
EXTENDS RingBuf, CommonLemmas

Indexes == 0..Capacity - 1
Entry(st, r, k) == st[Position(r, k)]

-----------------------------------------------------------------------------
(* Type correctness.                                                         *)

LEMMA QueueNextType ==
  ASSUME NEW i \in Indexes PROVE QueueNext(i) \in Indexes
  BY QueueAssumption DEF Indexes, QueueNext

LEMMA CountDroppedType ==
  ASSUME dropped \in Nat, CountDropped PROVE dropped' \in 0..CounterMod - 1
  BY QueueAssumption DEF CountDropped

(* Nothing is lost that was not pushed.                                      *)
Balance == lost + Len(popped) + count = pushed

LEMMA PopType ==
  ASSUME TypeOK, Balance, Pop PROVE TypeOK' /\ Balance'
  <1>1. /\ count \in 1..Capacity /\ popped \in Seq(Nat) /\ storage[readIndex] \in Nat
        /\ Len(popped) \in Nat /\ Capacity \in Nat /\ lost \in Nat /\ pushed \in Nat
    <2>1. /\ count \in 0..Capacity /\ popped \in Seq(Nat)
          /\ storage[readIndex] \in 0..MaxPushed
          /\ lost \in 0..MaxPushed /\ pushed \in 0..MaxPushed
      BY DEF TypeOK
    <2>2. count # 0
      BY DEF Pop
    <2> QED
      BY <2>1, <2>2, QueueAssumption
  <1>2. popped' \in Seq(Nat) /\ Len(popped') = Len(popped) + 1
    <2>1. popped' = Append(popped, storage[readIndex])
      BY DEF Pop
    <2> QED
      BY <1>1, <2>1
  <1>3. readIndex' \in 0..Capacity - 1
    BY QueueNextType DEF TypeOK, Pop, Indexes
  <1>4. count' \in 0..Capacity /\ count' = count - 1
    <2>1. count' = count - 1
      BY DEF Pop
    <2> QED
      BY <1>1, <2>1
  <1>5. UNCHANGED <<policy, storage, writeIndex, dropped, pushed, lost>>
    BY DEF Pop
  <1>6. lost' + Len(popped') + count' = pushed'
    <2>1. lost + Len(popped) + count = pushed /\ count \in Nat
      BY <1>1 DEF Balance
    <2>2. lost + (Len(popped) + 1) + (count - 1) = pushed
      BY <1>1, <2>1
    <2> QED
      BY <1>2, <1>4, <1>5, <2>2
  <1> QED
    BY <1>2, <1>3, <1>4, <1>5, <1>6 DEF TypeOK, Balance

LEMMA StoreType ==
  ASSUME TypeOK, NEW left \in 0..Capacity - 1, Store(left), pushed < MaxPushed
  PROVE  /\ storage' \in [0..Capacity - 1 -> 0..MaxPushed]
         /\ writeIndex' \in 0..Capacity - 1 /\ count' \in 0..Capacity /\ count' = left + 1
  <1>1. pushed + 1 \in 0..MaxPushed
    BY QueueAssumption DEF TypeOK
  <1>2. storage' \in [0..Capacity - 1 -> 0..MaxPushed]
    BY <1>1 DEF TypeOK, Store
  <1>3. writeIndex' \in 0..Capacity - 1
    BY QueueNextType DEF TypeOK, Store, Indexes
  <1> QED
    BY <1>2, <1>3, QueueAssumption DEF Store

LEMMA PushType ==
  ASSUME TypeOK, Balance, Push PROVE TypeOK' /\ Balance'
  <1>1. /\ pushed \in Nat /\ pushed < MaxPushed /\ lost \in Nat /\ count \in Nat
        /\ Len(popped) \in Nat /\ pushed' = pushed + 1 /\ popped' = popped
        /\ policy' = policy /\ popped \in Seq(Nat) /\ dropped \in Nat /\ Capacity \in Nat
        /\ MaxPushed \in Nat
    BY QueueAssumption DEF TypeOK, Push
  <1>2. pushed' \in 0..MaxPushed
    BY <1>1
  <1>3. CASE PushFree
    <2>1. count \in 0..Capacity - 1
      BY <1>3, QueueAssumption DEF PushFree, TypeOK
    <2>2. /\ storage' \in [0..Capacity - 1 -> 0..MaxPushed]
          /\ writeIndex' \in 0..Capacity - 1 /\ count' \in 0..Capacity /\ count' = count + 1
      BY <1>1, <1>3, <2>1, StoreType DEF PushFree
    <2>3. UNCHANGED <<readIndex, dropped, lost>>
      BY <1>3 DEF PushFree
    <2>4. lost' + Len(popped') + count' = pushed'
      BY <1>1, <2>2, <2>3 DEF Balance
    <2> QED
      BY <1>1, <1>2, <2>2, <2>3, <2>4 DEF TypeOK, Balance
  <1>4. CASE PushRefused
    <2>1. lost' = lost + 1 /\ dropped' \in 0..CounterMod - 1 /\ UNCHANGED ring
      BY <1>1, <1>4, CountDroppedType DEF PushRefused, CountDropped
    <2>2. lost' + Len(popped') + count' = pushed'
      BY <1>1, <2>1 DEF Balance, ring
    <2>3. lost' \in 0..MaxPushed
      BY <1>1, <1>2, <2>1, <2>2 DEF ring
    <2> QED
      BY <1>1, <1>2, <2>1, <2>2, <2>3 DEF TypeOK, Balance, ring
  <1>5. CASE PushEvicting
    <2>1. count - 1 \in 0..Capacity - 1 /\ count = Capacity
      BY <1>5, QueueAssumption DEF PushEvicting, TypeOK
    <2>2. /\ storage' \in [0..Capacity - 1 -> 0..MaxPushed]
          /\ writeIndex' \in 0..Capacity - 1 /\ count' \in 0..Capacity
          /\ count' = (count - 1) + 1
      BY <1>1, <1>5, <2>1, StoreType DEF PushEvicting
    <2>3. lost' = lost + 1 /\ dropped' \in 0..CounterMod - 1
      BY <1>1, <1>5, CountDroppedType DEF PushEvicting, CountDropped
    <2>4. readIndex' \in 0..Capacity - 1
      BY <1>5, QueueNextType DEF PushEvicting, TypeOK, Indexes
    <2>5. lost' + Len(popped') + count' = pushed'
      BY <1>1, <2>2, <2>3 DEF Balance
    <2>6. lost' \in 0..MaxPushed
      BY <1>1, <1>2, <2>2, <2>3, <2>5
    <2> QED
      BY <1>1, <1>2, <2>2, <2>3, <2>4, <2>5, <2>6 DEF TypeOK, Balance
  <1> QED
    BY <1>3, <1>4, <1>5 DEF Push

LEMMA InitType == Init => TypeOK /\ Balance
  <1> SUFFICES ASSUME Init PROVE TypeOK /\ Balance
    OBVIOUS
  <1>1. popped \in Seq(Nat) /\ Len(popped) = 0
    BY DEF Init
  <1> QED
    BY <1>1, QueueAssumption DEF Init, TypeOK, Balance

(* Every reachable state is well typed: no index leaves the storage, the      *)
(* count never exceeds the capacity.                                         *)
THEOREM TypeCorrect == Spec => [](TypeOK /\ Balance)
  <1>1. TypeOK /\ Balance /\ [Next]_vars => TypeOK' /\ Balance'
    <2> SUFFICES ASSUME TypeOK, Balance, [Next]_vars PROVE TypeOK' /\ Balance'
      OBVIOUS
    <2>1. CASE UNCHANGED vars
      BY <2>1 DEF vars, ring, TypeOK, Balance
    <2> QED
      BY <2>1, PushType, PopType DEF Next
  <1> QED
    BY <1>1, InitType, PTL DEF Spec

-----------------------------------------------------------------------------
(* What the ring holds after a step.                                         *)

LEMMA Positions ==
  ASSUME NEW r \in Indexes
  PROVE  /\ Position(r, 0) = r
         /\ \A k \in 0..Capacity : Position(r, k) \in Indexes
         /\ Position(r, Capacity) = r
         /\ \A k \in 0..Capacity - 1 :
              /\ QueueNext(Position(r, k)) = Position(r, k + 1)
              /\ Position(QueueNext(r), k) = Position(r, k + 1)
         /\ \A j, k \in 0..Capacity - 1 : j # k => Position(r, j) # Position(r, k)
  <1>1. Capacity \in Nat /\ Capacity > 0 /\ r \in Int /\ 0 <= r /\ r < Capacity
    BY QueueAssumption DEF Indexes
  <1>2. Position(r, 0) = r /\ Position(r, Capacity) = r
    BY <1>1 DEF Position
  <1>3. \A k \in 0..Capacity : Position(r, k) \in Indexes
    BY <1>1 DEF Position, Indexes
  <1>4. \A k \in 0..Capacity - 1 : QueueNext(Position(r, k)) = Position(r, k + 1)
    BY <1>1 DEF Position, QueueNext
  <1>5. \A k \in 0..Capacity - 1 : Position(QueueNext(r), k) = Position(r, k + 1)
    BY <1>1 DEF Position, QueueNext
  <1>6. \A j, k \in 0..Capacity - 1 : j # k => Position(r, j) # Position(r, k)
    BY <1>1 DEF Position
  <1> QED
    BY <1>2, <1>3, <1>4, <1>5, <1>6

LEMMA Typed ==
  ASSUME TypeOK
  PROVE  /\ storage \in [Indexes -> 0..MaxPushed] /\ readIndex \in Indexes
         /\ writeIndex \in Indexes /\ count \in 0..Capacity /\ count \in Nat
         /\ Capacity \in Nat /\ Capacity > 0 /\ pushed \in Nat /\ popped \in Seq(Nat)
         /\ Len(popped) \in Nat
  BY QueueAssumption DEF TypeOK, Indexes

Behind == writeIndex = Position(readIndex, count)

LEMMA FreeEntries ==
  ASSUME TypeOK, Behind, PushFree
  PROVE  /\ count < Capacity /\ count' = count + 1
         /\ Behind'
         /\ \A k \in 0..count - 1 : Entry(storage', readIndex', k) = Entry(storage, readIndex, k)
         /\ Entry(storage', readIndex', count) = pushed + 1
  <1>1. /\ count < Capacity /\ count' = count + 1 /\ readIndex' = readIndex
        /\ storage' = [storage EXCEPT ![writeIndex] = pushed + 1]
        /\ writeIndex' = QueueNext(writeIndex) /\ count \in 0..Capacity - 1
    BY Typed DEF PushFree, Store
  <1>2. writeIndex' = Position(readIndex', count')
    BY <1>1, Typed, Positions DEF Behind
  <1>3. Entry(storage', readIndex', count) = pushed + 1
    BY <1>1, Typed DEF Behind, Entry
  <1>4. ASSUME NEW k \in 0..count - 1
        PROVE  Entry(storage', readIndex', k) = Entry(storage, readIndex, k)
    <2>1. k \in 0..Capacity - 1 /\ k \in 0..Capacity /\ k # count
      BY <1>1, Typed
    <2>2. Position(readIndex, k) # writeIndex /\ Position(readIndex, k) \in Indexes
      BY <1>1, <2>1, Typed, Positions DEF Behind
    <2> QED
      BY <1>1, <2>2, Typed DEF Entry
  <1> QED
    BY <1>1, <1>2, <1>3, <1>4 DEF Behind

LEMMA EvictedEntries ==
  ASSUME TypeOK, Behind, PushEvicting
  PROVE  /\ count = Capacity /\ count' = count
         /\ Behind'
         /\ \A k \in 0..count - 2 :
              Entry(storage', readIndex', k) = Entry(storage, readIndex, k + 1)
         /\ Entry(storage', readIndex', count - 1) = pushed + 1
  <1>1. /\ count = Capacity /\ count' = (count - 1) + 1 /\ readIndex' = QueueNext(readIndex)
        /\ storage' = [storage EXCEPT ![writeIndex] = pushed + 1]
        /\ writeIndex' = QueueNext(writeIndex)
    BY DEF PushEvicting, Store
  <1>2. writeIndex = readIndex /\ count' = count /\ count - 1 \in 0..Capacity - 1
        /\ readIndex' \in Indexes /\ (count - 1) + 1 = Capacity
    BY <1>1, Typed, Positions, QueueNextType DEF Behind
  <1>3. writeIndex' = Position(readIndex', count')
    BY <1>1, <1>2, Positions
  <1>4. \A k \in 0..count - 1 : Position(readIndex', k) = Position(readIndex, k + 1)
    BY <1>1, Typed, Positions
  <1>5. Position(readIndex', count - 1) = writeIndex
    BY <1>1, <1>2, <1>4, Typed, Positions
  <1>6. Entry(storage', readIndex', count - 1) = pushed + 1
    BY <1>1, <1>5, Typed DEF Entry
  <1>7. ASSUME NEW k \in 0..count - 2
        PROVE  Entry(storage', readIndex', k) = Entry(storage, readIndex, k + 1)
    <2>1. /\ k \in 0..count - 1 /\ k + 1 \in 0..Capacity - 1 /\ k + 1 \in 0..Capacity
          /\ 0 \in 0..Capacity - 1 /\ k + 1 # 0
      BY <1>1, Typed
    <2>2. Position(readIndex, k + 1) # writeIndex /\ Position(readIndex, k + 1) \in Indexes
      BY <1>2, <2>1, Typed, Positions
    <2> QED
      BY <1>1, <1>4, <2>1, <2>2, Typed DEF Entry
  <1> QED
    BY <1>1, <1>2, <1>3, <1>6, <1>7 DEF Behind

LEMMA PoppedEntries ==
  ASSUME TypeOK, Behind, Pop
  PROVE  /\ count > 0 /\ count' = count - 1
         /\ Behind'
         /\ \A k \in 0..count - 2 :
              Entry(storage', readIndex', k) = Entry(storage, readIndex, k + 1)
         /\ popped' = Append(popped, Entry(storage, readIndex, 0))
  <1>1. /\ count > 0 /\ count' = count - 1 /\ readIndex' = QueueNext(readIndex)
        /\ storage' = storage /\ writeIndex' = writeIndex
        /\ popped' = Append(popped, storage[readIndex])
    BY Typed DEF Pop
  <1>2. \A k \in 0..count - 1 : Position(readIndex', k) = Position(readIndex, k + 1)
    BY <1>1, Typed, Positions
  <1>3. count - 1 \in 0..count - 1 /\ (count - 1) + 1 = count
    BY <1>1, Typed
  <1>4. writeIndex' = Position(readIndex', count')
    BY <1>1, <1>2, <1>3 DEF Behind
  <1>5. \A k \in 0..count - 2 : k \in 0..count - 1
    BY Typed
  <1> QED
    BY <1>1, <1>2, <1>4, <1>5, Typed, Positions DEF Behind, Entry

-----------------------------------------------------------------------------
(* The events waiting come in order, after those popped, and are the newest   *)
(* ones when the oldest are given up.                                        *)

Waiting(k) == Entry(storage, readIndex, k)

Ordered ==
  /\ \A k \in 0..count - 1 : Waiting(k) \in 1..pushed
  /\ \A j, k \in 0..count - 1 : j < k => Waiting(j) < Waiting(k)

Newest == policy = "DROP_OLDEST" =>
            \A k \in 0..count - 1 : Waiting(k) = pushed - count + k + 1

PoppedOrdered ==
  /\ \A i \in 1..Len(popped) : popped[i] \in 1..pushed
  /\ \A i, j \in 1..Len(popped) : i < j => popped[i] < popped[j]
  /\ \A i \in 1..Len(popped), k \in 0..count - 1 : popped[i] < Waiting(k)

RingInv == Behind /\ Ordered /\ Newest /\ PoppedOrdered

LEMMA PushFreeInv ==
  ASSUME TypeOK, RingInv, Push, PushFree PROVE RingInv'
  <1>1. /\ pushed' = pushed + 1 /\ popped' = popped /\ policy' = policy
        /\ Behind /\ Ordered /\ Newest /\ PoppedOrdered
    BY DEF Push, RingInv
  <1>2. /\ count' = count + 1 /\ Behind' /\ count \in Nat /\ pushed \in Nat
        /\ \A k \in 0..count - 1 : Entry(storage', readIndex', k) = Waiting(k)
        /\ Entry(storage', readIndex', count) = pushed + 1
    BY <1>1, FreeEntries, Typed DEF Waiting
  <1>3. \A k \in 0..count' - 1 : k \in 0..count - 1 \/ k = count
    BY <1>2
  <1>4. Ordered'
    <2>1. \A k \in 0..count' - 1 : Entry(storage', readIndex', k) \in 1..pushed'
      BY <1>1, <1>2, <1>3 DEF Ordered
    <2>2. ASSUME NEW j \in 0..count' - 1, NEW k \in 0..count' - 1, j < k
          PROVE  Entry(storage', readIndex', j) < Entry(storage', readIndex', k)
      <3>1. j \in 0..count - 1
        BY <1>2, <2>2
      <3>2. CASE k \in 0..count - 1
        BY <1>1, <1>2, <2>2, <3>1, <3>2 DEF Ordered
      <3>3. CASE k = count
        <4>1. Entry(storage', readIndex', j) \in 1..pushed
          BY <1>1, <1>2, <3>1 DEF Ordered
        <4> QED
          BY <1>2, <3>3, <4>1
      <3> QED
        BY <1>3, <3>2, <3>3
    <2> QED
      BY <2>1, <2>2 DEF Ordered, Waiting
  <1>5. Newest'
    <2>1. ASSUME policy = "DROP_OLDEST", NEW k \in 0..count' - 1
          PROVE  Entry(storage', readIndex', k) = pushed' - count' + k + 1
      <3>1. CASE k \in 0..count - 1
        <4>1. Waiting(k) = pushed - count + k + 1
          BY <1>1, <2>1, <3>1 DEF Newest
        <4> QED
          BY <1>1, <1>2, <3>1, <4>1
      <3>2. CASE k = count
        BY <1>1, <1>2, <3>2
      <3> QED
        BY <1>3, <3>1, <3>2
    <2> QED
      BY <1>1, <2>1 DEF Newest, Waiting
  <1>6. PoppedOrdered'
    <2>1. ASSUME NEW i \in 1..Len(popped), NEW k \in 0..count' - 1
          PROVE  popped[i] < Entry(storage', readIndex', k)
      BY <1>1, <1>2, <1>3 DEF PoppedOrdered
    <2>2. \A i \in 1..Len(popped) : popped[i] \in 1..pushed'
      BY <1>1, <1>2 DEF PoppedOrdered
    <2> QED
      BY <1>1, <2>1, <2>2 DEF PoppedOrdered, Waiting
  <1> QED
    BY <1>2, <1>4, <1>5, <1>6 DEF RingInv

LEMMA PushRefusedInv ==
  ASSUME TypeOK, RingInv, Push, PushRefused PROVE RingInv'
  <1>1. /\ pushed' = pushed + 1 /\ popped' = popped /\ policy' = policy
        /\ policy # "DROP_OLDEST" /\ UNCHANGED ring /\ pushed \in Nat
        /\ Behind /\ Ordered /\ PoppedOrdered
    BY Typed DEF Push, PushRefused, RingInv
  <1>2. Behind' /\ Newest'
    BY <1>1 DEF Behind, Newest, ring
  <1>3. Ordered'
    BY <1>1 DEF Ordered, Waiting, ring
  <1>4. PoppedOrdered'
    BY <1>1 DEF PoppedOrdered, Waiting, ring
  <1> QED
    BY <1>2, <1>3, <1>4 DEF RingInv

LEMMA PushEvictingInv ==
  ASSUME TypeOK, RingInv, Push, PushEvicting PROVE RingInv'
  <1>1. /\ pushed' = pushed + 1 /\ popped' = popped /\ policy' = policy
        /\ Behind /\ Ordered /\ Newest /\ PoppedOrdered
    BY DEF Push, RingInv
  <1>2. /\ count' = count /\ Behind' /\ count \in Nat /\ pushed \in Nat
        /\ \A k \in 0..count - 2 : Entry(storage', readIndex', k) = Waiting(k + 1)
        /\ Entry(storage', readIndex', count - 1) = pushed + 1
    BY <1>1, EvictedEntries, Typed DEF Waiting
  <1>3. \A k \in 0..count' - 1 : (k \in 0..count - 2 /\ k + 1 \in 0..count - 1) \/ k = count - 1
    BY <1>2
  <1>4. Ordered'
    <2>1. \A k \in 0..count' - 1 : Entry(storage', readIndex', k) \in 1..pushed'
      BY <1>1, <1>2, <1>3 DEF Ordered
    <2>2. ASSUME NEW j \in 0..count' - 1, NEW k \in 0..count' - 1, j < k
          PROVE  Entry(storage', readIndex', j) < Entry(storage', readIndex', k)
      <3>1. j \in 0..count - 2 /\ j + 1 \in 0..count - 1
        BY <1>2, <2>2
      <3>2. CASE k \in 0..count - 2 /\ k + 1 \in 0..count - 1
        <4>1. j + 1 < k + 1
          BY <2>2
        <4>2. Waiting(j + 1) < Waiting(k + 1)
          BY <1>1, <3>1, <3>2, <4>1 DEF Ordered
        <4> QED
          BY <1>2, <3>1, <3>2, <4>2
      <3>3. CASE k = count - 1
        <4>1. Entry(storage', readIndex', j) \in 1..pushed
          BY <1>1, <1>2, <3>1 DEF Ordered
        <4> QED
          BY <1>2, <3>3, <4>1
      <3> QED
        BY <1>3, <3>2, <3>3
    <2> QED
      BY <2>1, <2>2 DEF Ordered, Waiting
  <1>5. Newest'
    <2>1. ASSUME policy = "DROP_OLDEST", NEW k \in 0..count' - 1
          PROVE  Entry(storage', readIndex', k) = pushed' - count' + k + 1
      <3>1. CASE k \in 0..count - 2 /\ k + 1 \in 0..count - 1
        <4>1. Waiting(k + 1) = pushed - count + (k + 1) + 1
          BY <1>1, <2>1, <3>1 DEF Newest
        <4> QED
          BY <1>1, <1>2, <3>1, <4>1
      <3>2. CASE k = count - 1
        BY <1>1, <1>2, <3>2
      <3> QED
        BY <1>3, <3>1, <3>2
    <2> QED
      BY <1>1, <2>1 DEF Newest, Waiting
  <1>6. PoppedOrdered'
    <2>1. ASSUME NEW i \in 1..Len(popped), NEW k \in 0..count' - 1
          PROVE  popped[i] < Entry(storage', readIndex', k)
      <3>1. CASE k \in 0..count - 2 /\ k + 1 \in 0..count - 1
        BY <1>1, <1>2, <3>1 DEF PoppedOrdered
      <3>2. CASE k = count - 1
        BY <1>1, <1>2, <3>2 DEF PoppedOrdered
      <3> QED
        BY <1>3, <3>1, <3>2
    <2>2. \A i \in 1..Len(popped) : popped[i] \in 1..pushed'
      BY <1>1, <1>2 DEF PoppedOrdered
    <2> QED
      BY <1>1, <2>1, <2>2 DEF PoppedOrdered, Waiting
  <1> QED
    BY <1>2, <1>4, <1>5, <1>6 DEF RingInv

LEMMA PopInv ==
  ASSUME TypeOK, RingInv, Pop PROVE RingInv'
  <1>1. /\ pushed' = pushed /\ policy' = policy
        /\ Behind /\ Ordered /\ Newest /\ PoppedOrdered
    BY DEF Pop, RingInv
  <1>2. /\ count > 0 /\ count' = count - 1 /\ Behind' /\ count \in Nat /\ pushed \in Nat
        /\ \A k \in 0..count - 2 : Entry(storage', readIndex', k) = Waiting(k + 1)
        /\ popped' = Append(popped, Waiting(0))
        /\ popped \in Seq(Nat) /\ Len(popped) \in Nat
    BY <1>1, PoppedEntries, Typed DEF Waiting
  <1>3. \A k \in 0..count' - 1 : k \in 0..count - 2 /\ k + 1 \in 0..count - 1
    BY <1>2
  <1>4. Waiting(0) \in 1..pushed /\ 0 \in 0..count - 1
    BY <1>1, <1>2 DEF Ordered
  <1>5. /\ Len(popped') = Len(popped) + 1
        /\ \A i \in 1..Len(popped) : popped'[i] = popped[i]
        /\ popped'[Len(popped) + 1] = Waiting(0)
    BY <1>2, <1>4
  <1>6. \A i \in 1..Len(popped') : i \in 1..Len(popped) \/ i = Len(popped) + 1
    BY <1>2, <1>5
  <1>7. Ordered'
    <2>1. \A k \in 0..count' - 1 : Entry(storage', readIndex', k) \in 1..pushed'
      BY <1>1, <1>2, <1>3 DEF Ordered
    <2>2. ASSUME NEW j \in 0..count' - 1, NEW k \in 0..count' - 1, j < k
          PROVE  Entry(storage', readIndex', j) < Entry(storage', readIndex', k)
      <3>1. j + 1 < k + 1
        BY <1>2, <2>2
      <3>2. Waiting(j + 1) < Waiting(k + 1)
        BY <1>1, <1>3, <3>1 DEF Ordered
      <3> QED
        BY <1>2, <1>3, <3>2
    <2> QED
      BY <2>1, <2>2 DEF Ordered, Waiting
  <1>8. Newest'
    <2>1. ASSUME policy = "DROP_OLDEST", NEW k \in 0..count' - 1
          PROVE  Entry(storage', readIndex', k) = pushed' - count' + k + 1
      <3>1. Waiting(k + 1) = pushed - count + (k + 1) + 1
        BY <1>1, <1>3, <2>1 DEF Newest
      <3>2. k \in Nat /\ pushed - count + (k + 1) + 1 = pushed - (count - 1) + k + 1
        BY <1>2
      <3> QED
        BY <1>1, <1>2, <1>3, <3>1, <3>2
    <2> QED
      BY <1>1, <2>1 DEF Newest, Waiting
  <1>9. PoppedOrdered'
    <2>1. \A i \in 1..Len(popped') : popped'[i] \in 1..pushed'
      BY <1>1, <1>4, <1>5, <1>6 DEF PoppedOrdered
    <2>2. ASSUME NEW i \in 1..Len(popped'), NEW j \in 1..Len(popped'), i < j
          PROVE  popped'[i] < popped'[j]
      <3>1. i \in 1..Len(popped)
        BY <1>2, <1>5, <2>2
      <3>2. CASE j \in 1..Len(popped)
        BY <1>1, <1>5, <2>2, <3>1, <3>2 DEF PoppedOrdered
      <3>3. CASE j = Len(popped) + 1
        BY <1>1, <1>4, <1>5, <3>1, <3>3 DEF PoppedOrdered
      <3> QED
        BY <1>6, <3>2, <3>3
    <2>3. ASSUME NEW i \in 1..Len(popped'), NEW k \in 0..count' - 1
          PROVE  popped'[i] < Entry(storage', readIndex', k)
      <3>1. Entry(storage', readIndex', k) = Waiting(k + 1) /\ k + 1 \in 0..count - 1 /\ 0 < k + 1
        BY <1>2, <1>3
      <3>2. CASE i \in 1..Len(popped)
        BY <1>1, <1>5, <3>1, <3>2 DEF PoppedOrdered
      <3>3. CASE i = Len(popped) + 1
        BY <1>1, <1>4, <1>5, <3>1, <3>3 DEF Ordered
      <3> QED
        BY <1>6, <3>2, <3>3
    <2> QED
      BY <2>1, <2>2, <2>3 DEF PoppedOrdered, Waiting
  <1> QED
    BY <1>2, <1>7, <1>8, <1>9 DEF RingInv

IInv == TypeOK /\ Balance /\ RingInv

LEMMA InitInv == Init => IInv
  <1> SUFFICES ASSUME Init PROVE IInv
    OBVIOUS
  <1>1. TypeOK /\ Balance
    BY InitType
  <1>2. Behind
    BY <1>1, Typed, Positions DEF Init, Behind
  <1>3. Len(popped) = 0 /\ count = 0
    BY DEF Init
  <1>4. Ordered /\ Newest /\ PoppedOrdered
    BY <1>3 DEF Ordered, Newest, PoppedOrdered
  <1> QED
    BY <1>1, <1>2, <1>4 DEF IInv, RingInv

LEMMA NextInv == IInv /\ [Next]_vars => IInv'
  <1> SUFFICES ASSUME IInv, [Next]_vars PROVE IInv'
    OBVIOUS
  <1>1. TypeOK /\ Balance /\ RingInv
    BY DEF IInv
  <1>2. TypeOK' /\ Balance'
    BY <1>1, PushType, PopType DEF Next, vars, ring, TypeOK, Balance
  <1>3. RingInv'
    <2>1. CASE Push
      BY <1>1, <2>1, PushFreeInv, PushRefusedInv, PushEvictingInv DEF Push
    <2>2. CASE Pop
      BY <1>1, <2>2, PopInv
    <2>3. CASE UNCHANGED vars
      BY <1>1, <2>3 DEF vars, ring, RingInv, Behind, Ordered, Newest, PoppedOrdered, Waiting
    <2> QED
      BY <2>1, <2>2, <2>3 DEF Next
  <1> QED
    BY <1>2, <1>3 DEF IInv

(* Positions, order and freshness of the entries hold in every state.         *)
THEOREM Inductive == Spec => []IInv
  BY InitInv, NextInv, PTL DEF Spec

(* What a reader of the queue's contents sees.                               *)
LEMMA ContentsValue ==
  ASSUME IInv
  PROVE  /\ Contents = [k \in 1..count |-> Waiting(k - 1)]
         /\ Contents \in Seq(Nat) /\ Len(Contents) = count
  <1>1. Contents = [k \in 1..count |-> Waiting(k - 1)]
    BY DEF Contents, Waiting, Entry
  <1>2. count \in Nat
    BY Typed DEF IInv
  <1>3. \A k \in 1..count : Waiting(k - 1) \in Nat
    <2>1. \A k \in 1..count : k - 1 \in 0..count - 1
      BY <1>2
    <2> QED
      BY <2>1 DEF IInv, RingInv, Ordered
  <1>4. [k \in 1..count |-> Waiting(k - 1)] \in Seq(Nat)
    BY <1>2, <1>3, IsASeq
  <1>5. DOMAIN Contents = 1..count /\ DOMAIN Contents = 1..Len(Contents)
    BY <1>1, <1>4, LenProperties
  <1>6. Len(Contents) = count
    BY <1>1, <1>2, <1>4, <1>5, LenProperties
  <1> QED
    BY <1>1, <1>4, <1>6

(* A full DROP_OLDEST queue gives up history and never the present.          *)
THEOREM KeepsNewest == Spec => []NewestKept
  <1>1. ASSUME IInv PROVE NewestKept
    <2>1. SUFFICES ASSUME policy = "DROP_OLDEST"
                   PROVE  Contents = [k \in 1..count |-> pushed - count + k]
      BY DEF NewestKept
    <2>2. count \in Nat /\ pushed \in Nat
      BY <1>1, Typed DEF IInv
    <2>3. ASSUME NEW k \in 1..count PROVE Waiting(k - 1) = pushed - count + k
      <3>1. k - 1 \in 0..count - 1
        BY <2>2
      <3>2. Waiting(k - 1) = pushed - count + (k - 1) + 1
        BY <1>1, <2>1, <3>1 DEF IInv, RingInv, Newest
      <3> QED
        BY <2>2, <3>2
    <2> QED
      BY <1>1, <2>3, ContentsValue
  <1>2. IInv => NewestKept
    BY <1>1
  <1> QED
    BY <1>2, Inductive, PTL

(* The consumer sees no event twice, out of order or that was not pushed.    *)
THEOREM ReadsInOrder == Spec => []InOrder
  <1>1. ASSUME IInv PROVE InOrder
    <2> DEFINE seen == popped \o Contents
    <2>1. /\ popped \in Seq(Nat) /\ Len(popped) \in Nat /\ count \in Nat /\ pushed \in Nat
          /\ Ordered /\ PoppedOrdered
      BY <1>1, Typed DEF IInv, RingInv
    <2>2. /\ Contents \in Seq(Nat) /\ Len(Contents) = count
          /\ \A k \in 1..count : Contents[k] = Waiting(k - 1)
      BY <1>1, ContentsValue
    <2>3. /\ Len(seen) = Len(popped) + count
          /\ \A i \in 1..Len(popped) + count :
               seen[i] = IF i <= Len(popped) THEN popped[i]
                         ELSE Contents[i - Len(popped)]
      BY <2>1, <2>2, ConcatProperties
    <2>4. \A i \in 1..Len(popped) : seen[i] = popped[i]
      BY <2>1, <2>3
    <2>5. ASSUME NEW i \in 1..Len(seen), i > Len(popped)
          PROVE  seen[i] = Waiting(i - Len(popped) - 1) /\ i - Len(popped) - 1 \in 0..count - 1
      <3>1. i - Len(popped) \in 1..count /\ ~(i <= Len(popped))
        BY <2>1, <2>3, <2>5
      <3>2. seen[i] = Contents[i - Len(popped)]
        BY <2>3, <3>1
      <3> QED
        BY <2>1, <2>2, <3>1, <3>2
    <2>6. ASSUME NEW i \in 1..Len(seen)
          PROVE  seen[i] \in 1..pushed
      <3>1. CASE i <= Len(popped)
        BY <2>1, <2>4, <3>1 DEF PoppedOrdered
      <3>2. CASE i > Len(popped)
        BY <2>1, <2>5, <3>2 DEF Ordered
      <3> QED
        BY <2>1, <2>3, <3>1, <3>2
    <2>7. ASSUME NEW i \in 1..Len(seen), i # 1
          PROVE  seen[i - 1] < seen[i]
      <3>1. i - 1 \in 1..Len(seen) /\ i \in Nat
        BY <2>1, <2>3, <2>7
      <3>2. CASE i <= Len(popped)
        <4>1. i - 1 \in 1..Len(popped) /\ i \in 1..Len(popped) /\ i - 1 < i
          BY <2>1, <3>1, <3>2
        <4> QED
          BY <2>1, <2>4, <4>1 DEF PoppedOrdered
      <3>3. CASE i - 1 <= Len(popped) /\ i > Len(popped)
        <4>1. i - 1 \in 1..Len(popped)
          BY <2>1, <3>1, <3>3
        <4> QED
          BY <2>1, <2>4, <2>5, <3>3, <4>1 DEF PoppedOrdered
      <3>4. CASE i - 1 > Len(popped)
        <4>1. i > Len(popped) /\ (i - 1) - Len(popped) - 1 < i - Len(popped) - 1
          BY <2>1, <3>1, <3>4
        <4>2. /\ seen[i] = Waiting(i - Len(popped) - 1)
              /\ i - Len(popped) - 1 \in 0..count - 1
              /\ seen[i - 1] = Waiting((i - 1) - Len(popped) - 1)
              /\ (i - 1) - Len(popped) - 1 \in 0..count - 1
          BY <2>5, <3>1, <3>4, <4>1
        <4> QED
          BY <2>1, <4>1, <4>2 DEF Ordered
      <3> QED
        BY <2>1, <3>1, <3>2, <3>3, <3>4
    <2>8. \A i \in 1..Len(seen) : seen[i] <= pushed /\ seen[i] > 0
      BY <2>1, <2>6
    <2> QED
      BY <2>1, <2>3, <2>6, <2>7, <2>8 DEF InOrder
  <1>2. IInv => InOrder
    BY <1>1
  <1> QED
    BY <1>2, Inductive, PTL

-----------------------------------------------------------------------------
(* The counter of dropped events wraps, and still tells how many were lost.  *)

Counted == dropped = lost % CounterMod

(* No event vanishes uncounted, none is counted twice, in any capacity and    *)
(* however often the counter wrapped.                                        *)
THEOREM DropsCounted == Spec => []AllAccounted
  <1>1. Init => Counted
    <2>1. 0 % CounterMod = 0
      <3>1. 0 \in 0..CounterMod - 1 /\ 0 = 0 * CounterMod + 0
        BY QueueAssumption
      <3> QED
        BY <3>1, Remainder, QueueAssumption
    <2> QED
      BY <2>1 DEF Init, Counted
  <1>2. IInv /\ Counted /\ [Next]_vars => Counted'
    <2> SUFFICES ASSUME IInv, Counted, [Next]_vars PROVE Counted'
      OBVIOUS
    <2>1. lost \in Nat
      BY QueueAssumption DEF IInv, TypeOK
    <2>2. CASE UNCHANGED <<dropped, lost>>
      BY <2>2 DEF Counted
    <2>3. CASE CountDropped
      <3>1. ((lost % CounterMod) + 1) % CounterMod = (lost + 1) % CounterMod
        <4> DEFINE m == CounterMod
        <4>1. m \in Nat \ {0} /\ lost \in Int
          BY <2>1, QueueAssumption
        <4> HIDE DEF m
        <4>2. ((lost % m) + 1) % m = (lost + 1) % m
          BY <4>1, NextRemainder, Zenon
        <4> QED
          BY <4>2 DEF m
      <3> QED
        BY <2>3, <3>1 DEF CountDropped, Counted
    <2> QED
      BY <2>2, <2>3 DEF Next, Push, Pop, PushFree, PushRefused, PushEvicting, vars
  <1>3. IInv /\ Counted => AllAccounted
    <2> SUFFICES ASSUME IInv, Counted PROVE AllAccounted
      OBVIOUS
    <2>1. lost \in Nat /\ pushed \in Nat /\ count \in Nat /\ Len(popped) \in Nat
      BY Typed, QueueAssumption DEF IInv, TypeOK
    <2>2. lost = pushed - Len(popped) - count
      BY <2>1 DEF IInv, Balance
    <2> QED
      BY <2>2 DEF Counted, AllAccounted
  <1> QED
    BY <1>1, <1>2, <1>3, Inductive, PTL DEF Spec

-----------------------------------------------------------------------------
(* The ring implements the bounded queue.                                    *)
Exposed == /\ Contents = [k \in 1..count |-> Waiting(k - 1)]
           /\ Contents \in Seq(Nat) /\ Len(Contents) = count

LEMMA FifoStep ==
  ASSUME IInv, Exposed, Exposed', [Next]_vars
  PROVE  [Promise!Next]_(Promise!fifo)
  <1> USE DEF Promise!Next, Promise!fifo
  <1>1. TypeOK /\ Behind /\ Ordered
    BY DEF IInv, RingInv
  <1>2. /\ Contents \in Seq(Nat) /\ Len(Contents) = count
        /\ Contents' \in Seq(Nat) /\ Len(Contents') = count'
        /\ count \in Nat /\ pushed \in Nat
        /\ \A k \in 1..count : Contents[k] = Waiting(k - 1)
        /\ \A k \in 1..count' : Contents'[k] = Entry(storage', readIndex', k - 1)
    BY <1>1, Typed DEF Exposed, Waiting
  <1>3. CASE Push /\ PushFree
    <2>1. /\ count < Capacity /\ count' = count + 1 /\ pushed' = pushed + 1
          /\ popped' = popped /\ lost' = lost
          /\ \A k \in 0..count - 1 : Entry(storage', readIndex', k) = Waiting(k)
          /\ Entry(storage', readIndex', count) = pushed + 1
      BY <1>1, <1>3, FreeEntries DEF Push, PushFree, Waiting
    <2>2. /\ Append(Contents, pushed + 1) \in Seq(Nat)
          /\ Len(Append(Contents, pushed + 1)) = count + 1
          /\ \A k \in 1..count + 1 : Append(Contents, pushed + 1)[k] =
               IF k = count + 1 THEN pushed + 1 ELSE Contents[k]
      BY <1>2
    <2>3. ASSUME NEW k \in 1..count + 1
          PROVE  Contents'[k] = Append(Contents, pushed + 1)[k]
      <3>1. CASE k = count + 1
        BY <1>2, <2>1, <2>2, <3>1
      <3>2. CASE k # count + 1
        <4>1. k \in 1..count /\ k - 1 \in 0..count - 1 /\ k \in 1..count'
          BY <1>2, <2>1, <3>2
        <4> QED
          BY <1>2, <2>1, <2>2, <3>2, <4>1
      <3> QED
        BY <3>1, <3>2
    <2>4. Contents' = Append(Contents, pushed + 1)
      BY <1>2, <2>1, <2>2, <2>3, SeqEqual
    <2> QED
      BY <1>2, <2>1, <2>4 DEF Promise!Put
  <1>4. CASE Push /\ PushRefused
    <2>1. /\ count = Capacity /\ pushed' = pushed + 1 /\ popped' = popped
          /\ lost' = lost + 1 /\ Contents' = Contents
      BY <1>4 DEF Push, PushRefused, CountDropped, ring, Contents
    <2> QED
      BY <1>2, <2>1 DEF Promise!RefuseNewest, Promise!Lose
  <1>5. CASE Push /\ PushEvicting
    <2>1. /\ count = Capacity /\ count' = count /\ pushed' = pushed + 1
          /\ popped' = popped /\ lost' = lost + 1
          /\ \A k \in 0..count - 2 : Entry(storage', readIndex', k) = Waiting(k + 1)
          /\ Entry(storage', readIndex', count - 1) = pushed + 1
      BY <1>1, <1>5, EvictedEntries DEF Push, PushEvicting, CountDropped, Waiting
    <2>2. count > 0 /\ Contents # <<>>
      BY <1>1, <1>2, <2>1, Typed
    <2>3. /\ Tail(Contents) \in Seq(Nat) /\ Len(Tail(Contents)) = count - 1
          /\ \A k \in 1..count - 1 : Tail(Contents)[k] = Contents[k + 1]
      BY <1>2, <2>2, HeadTailProperties
    <2> DEFINE new == Append(Tail(Contents), pushed + 1)
    <2>4. /\ new \in Seq(Nat) /\ Len(new) = count
          /\ \A k \in 1..count : new[k] = IF k = count THEN pushed + 1
                                          ELSE Tail(Contents)[k]
      BY <1>2, <2>2, <2>3
    <2>5. ASSUME NEW k \in 1..count PROVE Contents'[k] = new[k]
      <3>1. CASE k = count
        BY <1>2, <2>1, <2>4, <3>1
      <3>2. CASE k # count
        <4>1. /\ k \in 1..count - 1 /\ k + 1 \in 1..count /\ k - 1 \in 0..count - 2
              /\ (k + 1) - 1 = k /\ (k - 1) + 1 = k
          BY <1>2, <3>2
        <4>2. Contents'[k] = Waiting(k)
          BY <1>2, <2>1, <4>1
        <4>3. new[k] = Contents[k + 1]
          BY <2>3, <2>4, <3>2, <4>1
        <4> QED
          BY <1>2, <4>1, <4>2, <4>3
      <3> QED
        BY <3>1, <3>2
    <2>6. Contents' = new
      BY <1>2, <2>1, <2>4, <2>5, SeqEqual
    <2> QED
      BY <1>2, <2>1, <2>6 DEF Promise!GiveUpOldest, Promise!Lose
  <1>6. CASE Pop
    <2>1. /\ count > 0 /\ count' = count - 1 /\ pushed' = pushed /\ lost' = lost
          /\ \A k \in 0..count - 2 : Entry(storage', readIndex', k) = Waiting(k + 1)
          /\ popped' = Append(popped, Waiting(0))
      BY <1>1, <1>6, PoppedEntries DEF Pop, Waiting
    <2>2. Contents # <<>>
      BY <1>2, <2>1
    <2>3. /\ Tail(Contents) \in Seq(Nat) /\ Len(Tail(Contents)) = count - 1
          /\ \A k \in 1..count - 1 : Tail(Contents)[k] = Contents[k + 1]
      BY <1>2, <2>2, HeadTailProperties
    <2>4. Head(Contents) = Waiting(0)
      <3>1. 1 \in 1..count /\ 1 - 1 = 0
        BY <1>2, <2>1
      <3>2. Contents[1] = Waiting(1 - 1)
        BY <1>2, <3>1
      <3> QED
        BY <1>2, <3>2
    <2>5. ASSUME NEW k \in 1..count - 1 PROVE Contents'[k] = Tail(Contents)[k]
      <3>1. /\ k \in 1..count' /\ k + 1 \in 1..count /\ k - 1 \in 0..count - 2
            /\ (k + 1) - 1 = k /\ (k - 1) + 1 = k
        BY <1>2, <2>1
      <3>2. Contents'[k] = Waiting(k)
        BY <1>2, <2>1, <3>1
      <3>3. Contents[k + 1] = Waiting(k)
        BY <1>2, <3>1
      <3> QED
        BY <2>3, <3>2, <3>3
    <2>6. Contents' = Tail(Contents)
      BY <1>2, <2>1, <2>3, <2>5, SeqEqual
    <2> QED
      BY <2>1, <2>2, <2>4, <2>6 DEF Promise!Take
  <1>7. CASE UNCHANGED vars
    BY <1>7 DEF vars, ring, Contents
  <1> QED
    BY <1>3, <1>4, <1>5, <1>6, <1>7 DEF Next, Push

(* Producer and consumer may rely on the bounded queue: nothing is reordered, *)
(* duplicated or lost but by the declared overflow.                          *)
THEOREM RefinesFifo == Spec => ImplementsFifo
  <1>1. Init => Promise!Init
    <2> SUFFICES ASSUME Init PROVE Promise!Init
      OBVIOUS
    <2>1. Contents \in Seq(Nat) /\ Len(Contents) = 0
      BY InitInv, ContentsValue DEF Init
    <2>2. Contents = <<>>
      BY <2>1
    <2> QED
      BY <2>2 DEF Init, Promise!Init
  <1>2. IInv => Exposed
    BY ContentsValue DEF Exposed
  <1>3. IInv /\ Exposed /\ Exposed' /\ [Next]_vars => [Promise!Next]_(Promise!fifo)
    BY FifoStep
  <1> QED
    BY <1>1, <1>2, <1>3, Inductive, PTL DEF Spec, ImplementsFifo, Promise!Spec
-----------------------------------------------------------------------------
(* The ring buffer of util_ringbuf.c beside the event queue.                 *)

Bytes == 0..Capacity * ItemSize - 1
ByteOf(i, k) == i * ItemSize + k

(* The items lie apart from each other and inside the storage.               *)
LEMMA BytesApart ==
  ASSUME NEW i \in Indexes, NEW j \in Indexes,
         NEW k \in 0..ItemSize - 1, NEW l \in 0..ItemSize - 1
  PROVE  /\ ByteOf(i, k) \in Bytes
         /\ ByteOf(i, k) = ByteOf(j, l) => i = j /\ k = l
  <1>0. /\ i \in Nat /\ j \in Nat /\ k \in Nat /\ l \in Nat /\ k < ItemSize /\ l < ItemSize
        /\ ItemSize \in Nat /\ Capacity \in Nat /\ i < Capacity
    BY QueueAssumption, ItemAssumption DEF Indexes
  <1>1. ASSUME NEW a \in Nat, NEW b \in Nat, a < b
        PROVE  a * ItemSize + ItemSize <= b * ItemSize
    <2>1. PICK d \in Nat : b = a + 1 + d
      <3>1. b - a - 1 \in Nat /\ b = a + 1 + (b - a - 1)
        BY <1>1
      <3> QED
        BY <3>1
    <2>2. b * ItemSize = a * ItemSize + ItemSize + d * ItemSize /\ d * ItemSize \in Nat
      BY <1>0, <2>1
    <2> QED
      BY <1>0, <2>2
  <1>2. i * ItemSize \in Nat /\ j * ItemSize \in Nat /\ Capacity * ItemSize \in Nat
    BY <1>0
  <1>3. i * ItemSize + ItemSize <= Capacity * ItemSize
    BY <1>0, <1>1
  <1>4. ByteOf(i, k) \in Bytes
    BY <1>0, <1>2, <1>3 DEF ByteOf, Bytes
  <1>5. ASSUME ByteOf(i, k) = ByteOf(j, l) PROVE i = j
    <2>1. i * ItemSize + k = j * ItemSize + l
      BY <1>5 DEF ByteOf
    <2>2. ~(i < j)
      BY <1>0, <1>1, <1>2, <2>1
    <2>3. ~(j < i)
      BY <1>0, <1>1, <1>2, <2>1
    <2> QED
      BY <1>0, <2>2, <2>3
  <1>6. ASSUME ByteOf(i, k) = ByteOf(j, l) PROVE k = l
    <2>1. i * ItemSize + k = i * ItemSize + l
      BY <1>5, <1>6 DEF ByteOf
    <2> QED
      BY <1>0, <1>2, <2>1
  <1> QED
    BY <1>4, <1>5, <1>6

(* The storage after a copy of an item into a slot, and what a slot holds.    *)
Written(bs, i, item) ==
  [b \in DOMAIN bs |-> IF \E k \in DOMAIN item : ItemAt(i)[k] = b
                       THEN item[CHOOSE k \in DOMAIN item : ItemAt(i)[k] = b] ELSE bs[b]]
Copied(bs, i) == [k \in 0..ItemSize - 1 |-> bs[ItemAt(i)[k]]]

(* A copied item is read back whole, and no other slot is touched.            *)
LEMMA CopyKeepsOthers ==
  ASSUME NEW bs, DOMAIN bs = Bytes, NEW i \in Indexes, NEW n
  PROVE  /\ DOMAIN Written(bs, i, Item(n)) = Bytes
         /\ Copied(Written(bs, i, Item(n)), i) = Item(n)
         /\ \A j \in Indexes : j # i =>
              Copied(Written(bs, i, Item(n)), j) = Copied(bs, j)
  <1> DEFINE item == Item(n)
             new == Written(bs, i, item)
  <1>1. DOMAIN item = 0..ItemSize - 1
    BY DEF Item
  <1>2. \A j \in Indexes : \A k \in 0..ItemSize - 1 : ItemAt(j)[k] = ByteOf(j, k)
    BY DEF ItemAt, ByteOf
  <1>3. DOMAIN new = Bytes
    BY DEF Written
  <1>4. ASSUME NEW k \in 0..ItemSize - 1 PROVE new[ItemAt(i)[k]] = item[k]
    <2> DEFINE b == ItemAt(i)[k]
    <2>1. b \in DOMAIN bs
      BY <1>2, BytesApart
    <2>2. \E l \in DOMAIN item : ItemAt(i)[l] = b
      BY <1>1
    <2>3. PICK c : c = CHOOSE l \in DOMAIN item : ItemAt(i)[l] = b
      OBVIOUS
    <2>4. c \in DOMAIN item /\ ItemAt(i)[c] = b
      BY <2>2, <2>3
    <2>5. c = k
      BY <1>1, <1>2, <2>4, BytesApart
    <2>6. new[b] = item[c]
      BY <2>1, <2>2, <2>3 DEF Written
    <2> QED
      BY <2>5, <2>6
  <1>5. ASSUME NEW j \in Indexes, j # i, NEW k \in 0..ItemSize - 1
        PROVE  new[ItemAt(j)[k]] = bs[ItemAt(j)[k]]
    <2>1. ItemAt(j)[k] \in DOMAIN bs
      BY <1>2, BytesApart
    <2>2. ~\E l \in DOMAIN item : ItemAt(i)[l] = ItemAt(j)[k]
      BY <1>1, <1>2, <1>5, BytesApart
    <2> QED
      BY <2>1, <2>2 DEF Written
  <1> HIDE DEF new
  <1>6. Copied(new, i) = item
    BY <1>4 DEF Copied, Item
  <1>7. ASSUME NEW j \in Indexes, j # i PROVE Copied(new, j) = Copied(bs, j)
    BY <1>5, <1>7 DEF Copied
  <1> QED
    BY <1>3, <1>6, <1>7 DEF new

(* The two rings are at the same place, and slot for slot the buffer holds    *)
(* the item of the number in the queue.                                      *)
SameIndexes ==
  fill = count /\ overflows = dropped /\ head = readIndex /\ tail = writeIndex
SameItems ==
  \A k \in 0..count - 1 : Copied(bytes, Position(readIndex, k)) = Item(Waiting(k))
SameTaken == taken = [i \in 1..Len(popped) |-> Item(popped[i])]
Twin == SameIndexes /\ DOMAIN bytes = Bytes /\ SameItems /\ SameTaken

LEMMA TwinCopy ==
  ASSUME IInv, Twin, CopyIn(tail, Item(pushed + 1))
  PROVE  /\ DOMAIN bytes' = Bytes
         /\ Copied(bytes', writeIndex) = Item(pushed + 1)
         /\ \A j \in Indexes : j # writeIndex => Copied(bytes', j) = Copied(bytes, j)
  <1>1. DOMAIN bytes = Bytes /\ tail = writeIndex /\ writeIndex \in Indexes
    BY Typed DEF IInv, Twin, SameIndexes
  <1>2. bytes' = Written(bytes, writeIndex, Item(pushed + 1))
    BY <1>1 DEF CopyIn, Written
  <1> QED
    BY <1>1, <1>2, CopyKeepsOthers

LEMMA TwinFree ==
  ASSUME IInv, Twin, Push, PushFree, BufferPush(Item(pushed + 1)) PROVE Twin'
  <1>1. TypeOK /\ Behind /\ count \in Nat /\ Capacity \in Nat
    BY Typed DEF IInv, RingInv
  <1>2. /\ count < Capacity /\ count' = count + 1 /\ readIndex' = readIndex
        /\ dropped' = dropped /\ popped' = popped /\ writeIndex' = QueueNext(writeIndex)
        /\ \A k \in 0..count - 1 : Entry(storage', readIndex', k) = Waiting(k)
        /\ Entry(storage', readIndex', count) = pushed + 1
    BY <1>1, FreeEntries DEF Push, PushFree, Store, Waiting
  <1>3. /\ fill = count /\ overflows = dropped /\ head = readIndex /\ tail = writeIndex
        /\ fill # Capacity
    BY <1>1, <1>2 DEF Twin, SameIndexes
  <1>4. /\ overflows' = overflows /\ head' = head /\ tail' = NextIndex(tail)
        /\ fill' = fill + 1 /\ taken' = taken /\ CopyIn(tail, Item(pushed + 1))
    BY <1>3 DEF BufferPush
  <1>5. SameIndexes'
    BY <1>2, <1>3, <1>4 DEF SameIndexes, NextIndex, QueueNext
  <1>6. /\ DOMAIN bytes' = Bytes
        /\ Copied(bytes', writeIndex) = Item(pushed + 1)
        /\ \A j \in Indexes : j # writeIndex => Copied(bytes', j) = Copied(bytes, j)
    BY <1>4, TwinCopy
  <1>7. ASSUME NEW k \in 0..count' - 1
        PROVE  Copied(bytes', Position(readIndex', k)) = Item(Entry(storage', readIndex', k))
    <2>1. CASE k = count
      BY <1>1, <1>2, <1>6, <2>1 DEF Behind
    <2>2. CASE k \in 0..count - 1
      <3>1. k \in 0..Capacity - 1 /\ count \in 0..Capacity - 1 /\ k # count /\ k \in 0..Capacity
        BY <1>1, <1>2, <2>2
      <3>2. Position(readIndex, k) \in Indexes /\ Position(readIndex, k) # writeIndex
        BY <1>1, <3>1, Typed, Positions DEF Behind
      <3>3. Copied(bytes, Position(readIndex, k)) = Item(Waiting(k))
        BY <2>2 DEF Twin, SameItems
      <3> QED
        BY <1>2, <1>6, <2>2, <3>2, <3>3
    <2> QED
      BY <1>1, <1>2, <2>1, <2>2
  <1>8. SameItems'
    BY <1>7 DEF SameItems, Waiting
  <1>9. SameTaken'
    BY <1>2, <1>4 DEF Twin, SameTaken
  <1> QED
    BY <1>5, <1>6, <1>8, <1>9 DEF Twin

LEMMA TwinEvicting ==
  ASSUME IInv, Twin, Push, PushEvicting, BufferPush(Item(pushed + 1)) PROVE Twin'
  <1>1. TypeOK /\ Behind /\ count \in Nat /\ Capacity \in Nat /\ Capacity > 0
    BY Typed DEF IInv, RingInv
  <1>2. /\ count = Capacity /\ count' = count /\ readIndex' = QueueNext(readIndex)
        /\ dropped' = (dropped + 1) % CounterMod /\ popped' = popped
        /\ writeIndex' = QueueNext(writeIndex) /\ policy = "DROP_OLDEST"
        /\ \A k \in 0..count - 2 : Entry(storage', readIndex', k) = Waiting(k + 1)
        /\ Entry(storage', readIndex', count - 1) = pushed + 1
    BY <1>1, EvictedEntries DEF Push, PushEvicting, CountDropped, Store, Waiting
  <1>3. fill = count /\ overflows = dropped /\ head = readIndex /\ tail = writeIndex
    BY DEF Twin, SameIndexes
  <1>4. /\ overflows' = (overflows + 1) % CounterMod
        /\ head' = NextIndex(head) /\ tail' = NextIndex(tail)
        /\ fill' = fill /\ taken' = taken /\ CopyIn(tail, Item(pushed + 1))
    BY <1>2, <1>3 DEF BufferPush
  <1>5. SameIndexes'
    BY <1>2, <1>3, <1>4 DEF SameIndexes, NextIndex, QueueNext
  <1>6. /\ DOMAIN bytes' = Bytes
        /\ Copied(bytes', writeIndex) = Item(pushed + 1)
        /\ \A j \in Indexes : j # writeIndex => Copied(bytes', j) = Copied(bytes, j)
    BY <1>4, TwinCopy
  <1>7. writeIndex = readIndex
    BY <1>1, <1>2, Typed, Positions DEF Behind
  <1>8. ASSUME NEW k \in 0..count' - 1
        PROVE  Copied(bytes', Position(readIndex', k)) = Item(Entry(storage', readIndex', k))
    <2>0. k \in 0..Capacity - 1
      BY <1>2
    <2>1. Position(readIndex', k) = Position(readIndex, k + 1)
      BY <1>1, <1>2, <2>0, Typed, Positions
    <2>2. CASE k = count - 1
      <3>1. k + 1 = Capacity
        BY <1>1, <1>2, <2>2
      <3>2. Position(readIndex, k + 1) = writeIndex
        BY <1>1, <1>7, <3>1, Typed, Positions
      <3> QED
        BY <1>2, <1>6, <2>1, <2>2, <3>2
    <2>3. CASE k \in 0..count - 2
      <3>1. /\ k + 1 \in 0..Capacity - 1 /\ k + 1 \in 0..Capacity /\ 0 \in 0..Capacity - 1
            /\ k + 1 # 0 /\ k + 1 \in 0..count - 1
        BY <1>1, <1>2, <2>3
      <3>2. Position(readIndex, k + 1) \in Indexes /\ Position(readIndex, k + 1) # writeIndex
        BY <1>1, <1>7, <3>1, Typed, Positions
      <3>3. Copied(bytes, Position(readIndex, k + 1)) = Item(Waiting(k + 1))
        BY <3>1 DEF Twin, SameItems
      <3> QED
        BY <1>2, <1>6, <2>1, <2>3, <3>2, <3>3
    <2> QED
      BY <1>1, <1>2, <2>2, <2>3
  <1>9. SameItems'
    BY <1>8 DEF SameItems, Waiting
  <1>10. SameTaken'
    BY <1>2, <1>4 DEF Twin, SameTaken
  <1> QED
    BY <1>5, <1>6, <1>9, <1>10 DEF Twin

LEMMA TwinRefused ==
  ASSUME IInv, Twin, Push, PushRefused, BufferPush(Item(pushed + 1)) PROVE Twin'
  <1>1. /\ count = Capacity /\ policy = "DROP_NEWEST" /\ UNCHANGED ring /\ popped' = popped
        /\ dropped' = (dropped + 1) % CounterMod /\ fill = count /\ overflows = dropped
    BY DEF Push, PushRefused, CountDropped, Twin, SameIndexes
  <1>2. /\ overflows' = (overflows + 1) % CounterMod
        /\ UNCHANGED <<bytes, head, tail, fill, taken>>
    BY <1>1 DEF BufferPush
  <1>3. SameIndexes'
    BY <1>1, <1>2 DEF Twin, SameIndexes, ring
  <1>4. SameItems' /\ SameTaken' /\ DOMAIN bytes' = Bytes
    BY <1>1, <1>2 DEF Twin, SameItems, SameTaken, Waiting, ring
  <1> QED
    BY <1>3, <1>4 DEF Twin

LEMMA TwinPop ==
  ASSUME IInv, Twin, Pop, BufferPop PROVE Twin'
  <1>1. TypeOK /\ Behind /\ count \in Nat /\ popped \in Seq(Nat) /\ Len(popped) \in Nat
    BY Typed DEF IInv, RingInv
  <1>2. /\ count > 0 /\ count' = count - 1 /\ readIndex' = QueueNext(readIndex)
        /\ UNCHANGED <<storage, writeIndex, dropped>>
        /\ popped' = Append(popped, Waiting(0))
        /\ \A k \in 0..count - 2 : Entry(storage', readIndex', k) = Waiting(k + 1)
    BY <1>1, PoppedEntries DEF Pop, Waiting
  <1>3. /\ fill' = fill - 1 /\ head' = NextIndex(head) /\ UNCHANGED <<bytes, tail, overflows>>
        /\ taken' = Append(taken, Copied(bytes, head))
    BY DEF BufferPop, CopyOut, Copied
  <1>4. SameIndexes'
    BY <1>2, <1>3 DEF Twin, SameIndexes, NextIndex, QueueNext
  <1>5. ASSUME NEW k \in 0..count' - 1
        PROVE  Copied(bytes', Position(readIndex', k)) = Item(Entry(storage', readIndex', k))
    <2>1. k \in 0..count - 2 /\ k + 1 \in 0..count - 1 /\ k \in 0..Capacity - 1
      BY <1>1, <1>2, Typed
    <2>2. Position(readIndex', k) = Position(readIndex, k + 1)
      BY <1>1, <1>2, <2>1, Typed, Positions
    <2> QED
      BY <1>2, <1>3, <2>1, <2>2 DEF Twin, SameItems
  <1>6. SameItems'
    BY <1>5 DEF SameItems, Waiting
  <1>7. Copied(bytes, head) = Item(Waiting(0))
    <2>1. 0 \in 0..count - 1 /\ Position(readIndex, 0) = head
      BY <1>1, <1>2, Typed, Positions DEF Twin, SameIndexes
    <2> QED
      BY <2>1 DEF Twin, SameItems
  <1>8. SameTaken'
    <2> DEFINE items == {Item(m) : m \in Nat}
               new == [i \in 1..Len(popped') |-> Item(popped'[i])]
    <2>1. Waiting(0) \in Nat
      BY <1>1, <1>2 DEF IInv, RingInv, Ordered
    <2>2. /\ popped' \in Seq(Nat) /\ Len(popped') = Len(popped) + 1
          /\ \A i \in 1..Len(popped) : popped'[i] = popped[i]
          /\ popped'[Len(popped) + 1] = Waiting(0)
      BY <1>1, <1>2, <2>1, AppendProperties
    <2>3. taken = [i \in 1..Len(popped) |-> Item(popped[i])]
      BY DEF Twin, SameTaken
    <2>4. taken \in Seq(items) /\ Len(taken) = Len(popped)
      <3>1. \A i \in 1..Len(popped) : Item(popped[i]) \in items
        BY <1>1, ElementOfSeq
      <3>2. taken \in Seq(items)
        BY <1>1, <2>3, <3>1, IsASeq
      <3>3. DOMAIN taken = 1..Len(popped)
        BY <2>3
      <3> QED
        BY <1>1, <3>2, <3>3, LenProperties
    <2>5. /\ taken' \in Seq(items) /\ Len(taken') = Len(popped) + 1
          /\ \A i \in 1..Len(popped) : taken'[i] = Item(popped[i])
          /\ taken'[Len(popped) + 1] = Item(Waiting(0))
      <3>1. taken' = Append(taken, Item(Waiting(0))) /\ Item(Waiting(0)) \in items
        BY <1>3, <1>7, <2>1
      <3>2. \A i \in 1..Len(popped) : taken[i] = Item(popped[i])
        BY <2>3
      <3> HIDE DEF items
      <3> QED
        BY <2>4, <3>1, <3>2, AppendProperties
    <2>6. ASSUME NEW i \in 1..Len(popped) + 1 PROVE taken'[i] = new[i]
      <3>1. i \in 1..Len(popped) \/ i = Len(popped) + 1
        BY <1>1
      <3> QED
        BY <2>2, <2>5, <3>1
    <2>7. /\ DOMAIN taken' = 1..Len(popped) + 1
          /\ taken' = [i \in 1..Len(popped) + 1 |-> taken'[i]]
      BY <2>5, LenProperties
    <2> QED
      BY <2>2, <2>6, <2>7 DEF SameTaken
  <1>9. DOMAIN bytes' = Bytes
    BY <1>3 DEF Twin
  <1> QED
    BY <1>4, <1>6, <1>8, <1>9 DEF Twin

(* The ring buffer is the same queue as the event queue, for items of any     *)
(* size: it hands out the same items, whole, and drops as many.              *)
THEOREM SameCorrect == BothSpec => []SameQueue
  <1>1. BothInit => IInv /\ Twin
    <2> SUFFICES ASSUME BothInit PROVE IInv /\ Twin
      OBVIOUS
    <2>1. IInv
      BY InitInv DEF BothInit
    <2>2. SameIndexes /\ SameItems /\ DOMAIN bytes = Bytes
      BY DEF BothInit, Init, SameIndexes, SameItems, Bytes
    <2>3. SameTaken
      <3>1. taken = <<>> /\ popped = <<>> /\ Len(popped) = 0
        BY DEF BothInit, Init
      <3>2. [i \in 1..0 |-> Item(popped[i])] = <<>>
        OBVIOUS
      <3> QED
        BY <3>1, <3>2 DEF SameTaken
    <2> QED
      BY <2>1, <2>2, <2>3 DEF Twin
  <1>2. IInv /\ Twin /\ [BothNext]_bvars => IInv' /\ Twin'
    <2> SUFFICES ASSUME IInv, Twin, [BothNext]_bvars PROVE IInv' /\ Twin'
      OBVIOUS
    <2>1. IInv'
      BY NextInv DEF BothNext, BothPush, BothPop, Next, bvars
    <2>2. CASE BothPush
      BY <2>1, <2>2, TwinFree, TwinEvicting, TwinRefused DEF BothPush, Push
    <2>3. CASE BothPop
      BY <2>1, <2>3, TwinPop DEF BothPop
    <2>4. CASE UNCHANGED bvars
      BY <2>1, <2>4 DEF bvars, vars, ring, buffer, Twin, SameIndexes, SameItems, SameTaken, Waiting
    <2> QED
      BY <2>1, <2>2, <2>3, <2>4 DEF BothNext
  <1>3. IInv /\ Twin => SameQueue
    <2> SUFFICES ASSUME IInv, Twin PROVE SameQueue
      OBVIOUS
    <2>1. /\ count \in Nat
          /\ \A k \in 1..count : Contents[k] = Waiting(k - 1)
      BY ContentsValue, Typed DEF IInv
    <2>2. ASSUME NEW k \in 1..count
          PROVE  CopyOut(Position(head, k - 1)) = Item(Contents[k])
      <3>1. k - 1 \in 0..count - 1
        BY <2>1
      <3>2. Copied(bytes, Position(readIndex, k - 1)) = Item(Waiting(k - 1))
        BY <3>1 DEF Twin, SameItems
      <3>3. head = readIndex
        BY DEF Twin, SameIndexes
      <3> QED
        BY <2>1, <3>2, <3>3 DEF CopyOut, Copied
    <2> QED
      BY <2>2 DEF SameQueue, Twin, SameIndexes, SameTaken
  <1> QED
    BY <1>1, <1>2, <1>3, PTL DEF BothSpec
=============================================================================
