----------------------------- MODULE MqttTimers -----------------------------
(***************************************************************************)
(* MqttClient observed with a clock that does not wrap.  The client keeps  *)
(* uint32_t timestamps and compares them modulo 2^32; the observer counts  *)
(* the milliseconds that really passed.                                    *)
(***************************************************************************)
EXTENDS MqttClient

VARIABLES
  failures,   \* failed connections in a row, since a session or connect()
  rested,     \* milliseconds since the last failure, up to BackoffMax
  silence     \* milliseconds since the client wrote or was answered

observer == <<failures, rested, silence>>
tvars == <<vars, observer>>

Least(a, b) == IF a < b THEN a ELSE b

(* The delay after n failures in a row: the initial one, doubled each time,  *)
(* never above the maximum.                                                  *)
Doubled(k) ==
  LET doubled[i \in 0..k] == IF i = 0 THEN BackoffInitial ELSE 2 * doubled[i - 1]
  IN doubled[k]
ReferenceDelay(n) == Least(Doubled(n - 1), BackoffMax)

(* A poll that opens a connection, or fails to; one that ends without one;   *)
(* and one that reads a good CONNACK.                                        *)
Reconnects(t) == \E halOk \in BOOLEAN : PollReconnect(t, halOk)
Fails(t) == state' = "DISCONNECTED" /\ (state # "DISCONNECTED" \/ Reconnects(t))
ReadsConnack(t) ==
  /\ WaitsForConnack(t)
  /\ \E n \in Receivable : Len(Received(n)) >= 4 /\ ~ConnackBad(Received(n))

Wrote ==
  \/ wire' # wire
  \/ delivered' # delivered
  \/ awaiting' /\ ~awaiting
Consumed == Len(rx') + Len(inbound') < Len(rx) + Len(inbound)

(* A session dropped in the poll that accepted it has failed once.          *)
ObservePoll(d, served) ==
  /\ failures' = IF connected' THEN 0
                 ELSE IF ~Fails(Clock(now + d)) THEN failures
                 ELSE IF served /\ ReadsConnack(Clock(now + d)) THEN 1
                 ELSE Least(failures + 1, BackoffMax)
  /\ rested' = IF Fails(Clock(now + d)) THEN 0 ELSE Least(rested + d, BackoffMax)
  /\ silence' = IF Wrote \/ Consumed THEN 0 ELSE Least(silence + d, 2 * Keepalive)

ObserveConnect ==
  /\ failures' = IF linkUp' THEN 0 ELSE 1
  /\ rested' = 0
  /\ silence' = 0

TimersInit == Init /\ failures = 0 /\ rested = 0 /\ silence = 0

TimersNext ==
  \/ \E d \in PollGaps :
       \/ PollServed(Clock(now + d)) /\ ObservePoll(d, TRUE)
       \/ PollFailed(Clock(now + d)) /\ ObservePoll(d, FALSE)
  \/ \E halOk \in BOOLEAN, d \in PollGaps :
       Connect(TRUE, halOk, Clock(now + d)) /\ ObserveConnect
  \/ PublishEnqueue /\ UNCHANGED observer
  \/ \E p \in PeerPackets : PeerSend(p) /\ UNCHANGED observer

TimersSpec == TimersInit /\ [][TimersNext]_tvars

-----------------------------------------------------------------------------
(* The n-th retry in a row waits exactly the doubled and clamped delay: no   *)
(* poll retries before it has really passed and none that comes later holds  *)
(* back, wherever the 32-bit clock wraps in between.                         *)
RetriesOnTime ==
  [][\A d \in PollGaps :
       configured /\ state = "DISCONNECTED" /\ now' = Clock(now + d) =>
         /\ Reconnects(now') => rested + d >= ReferenceDelay(failures)
         /\ rested + d >= ReferenceDelay(failures) => ~PollTooEarly(now')]_tvars

(* A session never stays silent for a keepalive period of real time after a  *)
(* poll, wherever the clock wraps, unless half a PINGRESP was left behind.   *)
NeverSilent == connected /\ rx = <<>> => silence < Keepalive

(* What the guide says of the keepalive (line 430): idle for one period the  *)
(* client sends a PINGREQ, and when another passes without the whole         *)
(* PINGRESP it disconnects.  So no session stays silent for two periods.     *)
IdleSessionEnds == connected => silence < 2 * Keepalive
=============================================================================
