----------------------------- MODULE BoundedFifo -----------------------------
(***************************************************************************)
(* What an event queue promises producer and consumer: a bounded           *)
(* first-in first-out queue that, when full, either refuses the newest     *)
(* event or gives up the oldest one.  Events are numbered as offered.      *)
(***************************************************************************)
EXTENDS Naturals, Sequences

CONSTANT Capacity

VARIABLES contents,   \* events waiting, oldest first
          taken,      \* events consumed, in order
          offered,    \* events offered so far
          lost        \* how many of them were refused or given up

fifo == <<contents, taken, offered, lost>>

Init == contents = <<>> /\ taken = <<>> /\ offered = 0 /\ lost = 0

Put ==
  /\ Len(contents) < Capacity
  /\ contents' = Append(contents, offered + 1)
  /\ offered' = offered + 1
  /\ UNCHANGED <<taken, lost>>

Lose ==
  /\ Len(contents) = Capacity
  /\ offered' = offered + 1
  /\ lost' = lost + 1
  /\ UNCHANGED taken

RefuseNewest == Lose /\ UNCHANGED contents
GiveUpOldest == Lose /\ contents' = Append(Tail(contents), offered + 1)

Take ==
  /\ contents # <<>>
  /\ taken' = Append(taken, Head(contents))
  /\ contents' = Tail(contents)
  /\ UNCHANGED <<offered, lost>>

Next == Put \/ RefuseNewest \/ GiveUpOldest \/ Take

Spec == Init /\ [][Next]_fifo
=============================================================================
