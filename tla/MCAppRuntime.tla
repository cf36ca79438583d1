----------------------------- MODULE MCAppRuntime -----------------------------
(* Two sensors and queues of two, so that one iteration can fill a queue; a   *)
(* GUI that takes one event per poll, and two transmit slots.                 *)
EXTENDS AppRuntime
MCCapacity == [c \in Consumers |-> 2]
MCPolicy == [c \in Consumers |-> IF c = "biz" THEN "DROP_OLDEST" ELSE "DROP_NEWEST"]
MCBudget == [c \in Consumers |-> IF c = "gui" THEN 1 ELSE 2]
=============================================================================
