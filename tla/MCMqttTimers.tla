---------------------------- MODULE MCMqttTimers ----------------------------
(* An instance of MqttTimers for TLC.                                       *)
EXTENDS MqttTimers

(* A session accepted, alone or with a packet it does not expect, and a      *)
(* PINGRESP.                                                                 *)
Connack == <<32, 2, 0, 0>>
TimerPackets == {Connack, Connack \o <<48>>, <<208, 0>>}
(* A peer that may also stop in the middle of a PINGRESP.                    *)
StrayPackets == {Connack, Connack \o <<208>>}
MCGaps == {0, 1, 2}
(* A socket offers nothing that was sent on an earlier connection.           *)
NothingLeft == {<<>>}
=============================================================================
