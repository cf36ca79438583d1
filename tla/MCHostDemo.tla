----------------------------- MODULE MCHostDemo -----------------------------
(* An instance of HostDemo for TLC.                                         *)
EXTENDS HostDemo

(* An accepting CONNACK, a PINGRESP, both in one packet that is larger than  *)
(* the work buffer, and a packet without bytes.                              *)
Connack == <<32, 2, 0, 0>>
Pingresp == <<208, 0>>
Pushable == {Connack, Pingresp, Connack \o Pingresp, <<>>}
(* What a ring of two packets may hold.                                      *)
RingContents == Pushable \cup {a \o b : a, b \in Pushable}

(* No time, or a whole keepalive period.                                     *)
MCGaps == {0, 10000}
OneOrTwo == {1, 2}
=============================================================================
