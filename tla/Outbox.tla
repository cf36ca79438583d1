------------------------------- MODULE Outbox -------------------------------
(***************************************************************************)
(* What the MQTT client promises the application about its messages:       *)
(* a bounded first-in first-out outbox.  Messages are numbered in the      *)
(* order of acceptance.  While a session with the broker is open the       *)
(* oldest message may leave, once and for good; sessions open and close    *)
(* at any time and never touch the messages.                               *)
(***************************************************************************)
EXTENDS Naturals, Sequences

CONSTANT Capacity        \* messages the outbox holds

VARIABLES pending,       \* accepted and not yet delivered, oldest first
          delivered,     \* delivered, in order
          open           \* a session with the broker is open

outbox == <<pending, delivered, open>>

Init == pending = <<>> /\ delivered = <<>> /\ open = FALSE

Accept ==
  /\ Len(pending) < Capacity
  /\ pending' = Append(pending, Len(delivered) + Len(pending) + 1)
  /\ UNCHANGED <<delivered, open>>

Deliver ==
  /\ open
  /\ pending # <<>>
  /\ delivered' = Append(delivered, Head(pending))
  /\ pending' = Tail(pending)
  /\ UNCHANGED open

OpenOrClose == open' = ~open /\ UNCHANGED <<pending, delivered>>

Next == Accept \/ Deliver \/ OpenOrClose

Spec == Init /\ [][Next]_outbox
=============================================================================
