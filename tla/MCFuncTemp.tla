----------------------------- MODULE MCFuncTemp -----------------------------
(* Steps below and at the publish change of 2, polls faster and       *)
(* slower than the period, a clock that wraps within a few samples, and an   *)
(* error counter that saturates at the threshold.                            *)
EXTENDS FuncTemp
MCValues == {-1, 0, 1}
MCGaps == {1, 3}
=============================================================================
