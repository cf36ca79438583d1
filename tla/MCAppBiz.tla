------------------------------- MODULE MCAppBiz -------------------------------
(* Three sensors on one bus, two of them evaluated, with windows of three    *)
(* and one.  The registers hold minus one, one and two sixteenths of a       *)
(* degree (the first with unused bits set), and one just beyond each end of  *)
(* the range.  With a gain of eight in a thousand (the scale is reduced to   *)
(* fit TLC's integers) and an offset of one the readings are -63, the lower  *)
(* alarm limit, 65, between the limits, and 127, the upper one.              *)
EXTENDS SensorPath
CONSTANTS s1, s2, s3
MCStates == {s1, s2}
MCIds == {s1, s2, s3}
MCValues == {-63, 65, 127}
MCCapacity == [id \in {s1, s2} |-> IF id = s1 THEN 3 ELSE 1]
MCAddresses == {72, 73}
MCAddressOf == [id \in MCIds |-> IF id = s1 THEN 72 ELSE 73]
MCRegisters == {<<0, 16>>, <<0, 32>>, <<255, 255>>, <<125, 16>>, <<200, 255>>}
MCAlarmOff == -63
MCLeast == -200000
=============================================================================
