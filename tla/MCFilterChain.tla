---------------------------- MODULE MCFilterChain ----------------------------
(* All four filters in a row, windows of odd and even length that wrap, an    *)
(* average whose steps fall on either side of a half, and a slew limit that   *)
(* binds within the clamp.                                                    *)
EXTENDS FilterChain
MCChain == <<[kind |-> "median", window |-> 2], [kind |-> "ma", window |-> 3],
             [kind |-> "limit", min |-> -2, max |-> 3, change |-> 2],
             [kind |-> "ema", alpha |-> 8192]>>
MCValues == {-5, 0, 6}
MCLeast == -8
=============================================================================
