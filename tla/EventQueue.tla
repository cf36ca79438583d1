------------------------------ MODULE EventQueue ------------------------------
(***************************************************************************)
(* The event ring of func_event_queue.c: storage of the caller, a read and *)
(* a write index, a count and a counter of events dropped on overflow.     *)
(* A call is one step: the main loop is the only caller.  The n-th event   *)
(* pushed is represented by n.                                             *)
(***************************************************************************)
EXTENDS Integers, Sequences

CONSTANTS
  Capacity,    \* events the storage holds
  CounterMod,  \* 2^32: where the counter of dropped events wraps
  MaxPushed    \* bound: events pushed

ASSUME QueueAssumption ==
  /\ Capacity \in Nat \ {0}
  /\ CounterMod \in Nat \ {0}
  /\ MaxPushed \in Nat

VARIABLES policy,   \* FUNC_QUEUE_DROP_NEWEST or FUNC_QUEUE_DROP_OLDEST
          storage, readIndex, writeIndex, count, dropped,
          pushed,   \* events pushed so far, dropped ones included
          lost,     \* how many of them were dropped
          popped    \* events popped, in order

ring == <<storage, readIndex, writeIndex, count>>
vars == <<policy, ring, dropped, pushed, lost, popped>>

QueueNext(i) == IF i = Capacity - 1 THEN 0 ELSE i + 1

(* The event is stored behind the newest one; left is what the queue still  *)
(* holds of the others.                                                     *)
Store(left) ==
  /\ storage' = [storage EXCEPT ![writeIndex] = pushed + 1]
  /\ writeIndex' = QueueNext(writeIndex)
  /\ count' = left + 1

PushFree ==
  /\ count # Capacity
  /\ Store(count)
  /\ UNCHANGED <<readIndex, dropped, lost>>

CountDropped ==
  /\ dropped' = (dropped + 1) % CounterMod
  /\ lost' = lost + 1

PushRefused ==
  /\ count = Capacity /\ policy = "DROP_NEWEST"
  /\ CountDropped
  /\ UNCHANGED ring

(* Mutant: the slot of the oldest event is reused but stays the oldest.      *)
PushEvictingKeepsIndex ==
  /\ count = Capacity /\ policy = "DROP_OLDEST"
  /\ CountDropped
  /\ UNCHANGED readIndex
  /\ Store(count - 1)
(* Mutant: the newest event is overwritten instead of the oldest.            *)
PushEvictingNewest ==
  /\ count = Capacity /\ policy = "DROP_OLDEST"
  /\ CountDropped
  /\ storage' = [storage EXCEPT ![(writeIndex - 1) % Capacity] = pushed + 1]
  /\ UNCHANGED <<readIndex, writeIndex, count>>
(* Mutant: only refused events are counted.                                  *)
PushEvictingUncounted ==
  /\ count = Capacity /\ policy = "DROP_OLDEST"
  /\ UNCHANGED dropped /\ lost' = lost + 1
  /\ readIndex' = QueueNext(readIndex)
  /\ Store(count - 1)
PushEvicting ==
  /\ count = Capacity /\ policy = "DROP_OLDEST"
  /\ CountDropped
  /\ readIndex' = QueueNext(readIndex)
  /\ Store(count - 1)

Push ==
  /\ pushed < MaxPushed
  /\ pushed' = pushed + 1
  /\ PushFree \/ PushRefused \/ PushEvicting
  /\ UNCHANGED <<policy, popped>>

Pop ==
  /\ count # 0
  /\ popped' = Append(popped, storage[readIndex])
  /\ readIndex' = QueueNext(readIndex)
  /\ count' = count - 1
  /\ UNCHANGED <<policy, storage, writeIndex, dropped, pushed, lost>>

Policies == {"DROP_NEWEST", "DROP_OLDEST"}

(* func_event_queue_init leaves the caller's storage as it is: anything.    *)
Init ==
  /\ policy \in Policies
  /\ storage \in [0..Capacity - 1 -> 0..MaxPushed]
  /\ readIndex = 0 /\ writeIndex = 0 /\ count = 0 /\ dropped = 0
  /\ pushed = 0 /\ lost = 0 /\ popped = <<>>

Next == Push \/ Pop

Spec == Init /\ [][Next]_vars

-----------------------------------------------------------------------------
(* Every variable has its type; no index leaves the storage.                 *)
TypeOK ==
  /\ policy \in Policies
  /\ storage \in [0..Capacity - 1 -> 0..MaxPushed]
  /\ readIndex \in 0..Capacity - 1 /\ writeIndex \in 0..Capacity - 1
  /\ count \in 0..Capacity
  /\ dropped \in 0..CounterMod - 1
  /\ pushed \in 0..MaxPushed /\ lost \in 0..MaxPushed
  /\ popped \in Seq(Nat)

(* The events waiting, oldest first.                                         *)
Position(i, k) == IF i + k < Capacity THEN i + k ELSE i + k - Capacity
Contents == [k \in 1..count |-> storage[Position(readIndex, k - 1)]]

(* The counter the application reads tells, up to its wrap, exactly how many  *)
(* pushed events were neither popped nor are waiting: none vanishes           *)
(* uncounted, none is counted twice.                                         *)
AllAccounted == dropped = (pushed - Len(popped) - count) % CounterMod

(* Under DROP_OLDEST the queue always holds the newest events without a gap,  *)
(* whatever index wrapped when: a consumer that reads late loses history but  *)
(* never the present.                                                        *)
NewestKept ==
  policy = "DROP_OLDEST" => Contents = [k \in 1..count |-> pushed - count + k]

(* Whatever is dropped, the consumer never sees an event twice, out of order  *)
(* or one that was not pushed (the storage starts with anything in it).       *)
InOrder ==
  LET seen == popped \o Contents IN
  \A i \in 1..Len(seen) :
    seen[i] <= pushed /\ seen[i] > IF i = 1 THEN 0 ELSE seen[i - 1]

(* The ring implements the bounded queue.                                    *)
Promise == INSTANCE BoundedFifo WITH contents <- Contents, taken <- popped,
                                     offered <- pushed
ImplementsFifo == Promise!Spec
=============================================================================
