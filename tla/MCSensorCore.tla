----------------------------- MODULE MCSensorCore -----------------------------
(* Two consumers with room for one event each, one with either overflow      *)
(* policy.  There is one id more than fits the sensor table and more pairs    *)
(* than fit the subscription table; of the two drivers, which may be          *)
(* registered more than once, one has a deinit.  Either the queues are filled *)
(* often enough for gaps, or the core is reset while events of the old        *)
(* registrations wait.                                                        *)
EXTENDS SensorCore, TLC
CONSTANTS newest, oldest
MCCapacity == [q \in Queues |-> 1]
MCPolicy == [q \in Queues |-> IF q = newest THEN "DROP_NEWEST" ELSE "DROP_OLDEST"]
Symmetry == Permutations(Ids)
=============================================================================
