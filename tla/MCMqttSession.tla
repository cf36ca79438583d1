--------------------------- MODULE MCMqttSession ---------------------------
(* An instance of MqttSession for TLC.                                      *)
EXTENDS MqttSession

NoPackets == {}
MCGaps == {1}
(* A socket offers nothing that was sent on an earlier connection.           *)
NothingLeft == {<<>>}
=============================================================================
