---------------------------- MODULE MCEventQueue ----------------------------
(* Three slots and eight events: the ring wraps twice and both overflow      *)
(* branches are taken at every index; the counter wraps at four.  Items of   *)
(* two bytes, so that a neighbour's byte would be seen.                      *)
EXTENDS RingBuf
=============================================================================
