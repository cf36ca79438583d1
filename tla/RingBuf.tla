------------------------------- MODULE RingBuf -------------------------------
(***************************************************************************)
(* The ring buffer of util_ringbuf.c beside the event queue.  Both are     *)
(* written out in full in the repository; the ring buffer takes items of   *)
(* any size and copies them byte by byte.  Here both get the same calls.   *)
(* The n-th item is ItemSize bytes, the k-th of which is <<n, k>>.         *)
(***************************************************************************)
EXTENDS EventQueue

CONSTANT ItemSize   \* item_size

ASSUME ItemAssumption == ItemSize \in Nat \ {0}

VARIABLES bytes,    \* storage
          head, tail, fill, overflows,   \* head, tail, count, dropped
          taken     \* items popped, in order

buffer == <<bytes, head, tail, fill, overflows, taken>>
bvars == <<vars, buffer>>

Item(n) == [k \in 0..ItemSize - 1 |-> <<n, k>>]

NextIndex(i) == IF i = Capacity - 1 THEN 0 ELSE i + 1

(* The bytes of the item at an index.  Mutant: items are a byte apart.       *)
ItemAtUnscaled(i) == [k \in 0..ItemSize - 1 |-> i + k]
ItemAt(i) == [k \in 0..ItemSize - 1 |-> i * ItemSize + k]

CopyIn(i, item) ==
  bytes' = [b \in DOMAIN bytes |->
              IF \E k \in DOMAIN item : ItemAt(i)[k] = b
              THEN item[CHOOSE k \in DOMAIN item : ItemAt(i)[k] = b] ELSE bytes[b]]
CopyOut(i) == [k \in 0..ItemSize - 1 |-> bytes[ItemAt(i)[k]]]

BufferPush(item) ==
  /\ overflows' = IF fill = Capacity THEN (overflows + 1) % CounterMod ELSE overflows
  /\ \/ /\ fill = Capacity /\ policy = "DROP_NEWEST"
        /\ UNCHANGED <<bytes, head, tail, fill>>
     \/ /\ fill = Capacity => policy = "DROP_OLDEST"
        /\ head' = IF fill = Capacity THEN NextIndex(head) ELSE head
        /\ CopyIn(tail, item)
        /\ tail' = NextIndex(tail)
        /\ fill' = IF fill = Capacity THEN fill ELSE fill + 1
  /\ UNCHANGED taken

BufferPop ==
  /\ fill # 0
  /\ taken' = Append(taken, CopyOut(head))
  /\ head' = NextIndex(head)
  /\ fill' = fill - 1
  /\ UNCHANGED <<bytes, tail, overflows>>

BothPush == Push /\ BufferPush(Item(pushed + 1))
BothPop == Pop /\ BufferPop

(* util_ringbuf_init does not touch the caller's storage either.             *)
BothInit ==
  /\ Init
  /\ bytes = [b \in 0..Capacity * ItemSize - 1 |-> Item(0)[b % ItemSize]]
  /\ head = 0 /\ tail = 0 /\ fill = 0 /\ overflows = 0
  /\ taken = <<>>

BothNext == BothPush \/ BothPop

BothSpec == BothInit /\ [][BothNext]_bvars

-----------------------------------------------------------------------------
(* The ring buffer is the same queue: it hands out the items the event queue  *)
(* does, whole, drops as many, and takes and gives whenever that one does,    *)
(* whatever the size of its items.                                           *)
SameQueue ==
  /\ fill = count /\ overflows = dropped
  /\ taken = [i \in 1..Len(popped) |-> Item(popped[i])]
  /\ \A k \in 1..count : CopyOut(Position(head, k - 1)) = Item(Contents[k])
=============================================================================
