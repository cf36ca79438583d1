---------------------------- MODULE MCMqttClient ----------------------------
(* Instances of MqttClient for TLC.                                         *)
EXTENDS MqttClient

Connack == <<32, 2, 0, 0>>
Pingresp == <<208, 0>>

(* A session accepted, refused, accepted with a PINGRESP stuck to it, a      *)
(* PINGRESP, and a packet the client does not expect.                        *)
MixedPackets == {Connack, <<32, 2, 0, 5>>, Connack \o Pingresp, Pingresp,
                 <<48, 1>>}

MCGaps == {0, 1}
(* A socket offers nothing that was sent on an earlier connection.           *)
NothingLeft == {<<>>}
=============================================================================
