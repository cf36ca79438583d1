---------------------------- MODULE MqttSession ----------------------------
(***************************************************************************)
(* MqttClient with a broker that follows the protocol: it answers a whole  *)
(* CONNECT with a CONNACK and a whole PINGREQ with a PINGRESP, and sends   *)
(* nothing else.  Two things may happen to it.  It may die, and then never *)
(* answers again although the HAL keeps accepting bytes (a half-open       *)
(* connection).  Or the network may become stable: from then on the HAL    *)
(* does not fail and the broker accepts every session and answers before   *)
(* the client's next poll.  The application may publish for ever.          *)
(***************************************************************************)
EXTENDS MqttClient

VARIABLES
  owed,     \* the answer the broker owes on this connection
  alive,    \* the broker still answers
  stable    \* the network works from now on

broker == <<owed, alive, stable>>
svars == <<vars, broker>>

ConnackOf(code) == <<ConnackType, 2, 0, code>>
PingrespBytes == <<PingrespType, 0>>
RefusedCode == 5

(* What the broker owes after a step of the client.                         *)
OwedAfter ==
  IF ~linkUp' \/ state' = "SENDING_CONNECT" THEN "NONE"
  ELSE IF state = "SENDING_CONNECT" THEN "CONNACK"
  ELSE IF control' = "NONE" /\ awaiting' /\ (control = "PINGREQ" \/ ~awaiting)
       THEN "PINGRESP"
  ELSE owed

(* The main loop polls with the time d since the last poll.                 *)
LoopPoll(d) ==
  /\ stable => owed = "NONE"
  /\ \/ PollServed(Clock(now + d))
     \/ ~stable /\ PollFailed(Clock(now + d))
  /\ owed' = OwedAfter
  /\ UNCHANGED <<alive, stable>>

(* The application connects once, as the host demo does, and publishes at    *)
(* any time; what reconnects is the client.                                  *)
LoopApplication ==
  /\ \/ PublishEnqueue
     \/ ~configured /\ \E halOk \in BOOLEAN : Connect(TRUE, halOk, now)
  /\ owed' = IF linkUp' /\ state' = state THEN owed ELSE "NONE"
  /\ UNCHANGED <<alive, stable>>

(* The observers number the messages afresh once all are delivered, so that  *)
(* MaxMsgs bounds what is under way and not what the application publishes.  *)
NumberAfresh ==
  /\ count = 0 /\ accepted > 0
  /\ accepted' = 0 /\ delivered' = <<>>
  /\ UNCHANGED <<configured, idFits, session, control_, rx, timers, queue, dropped, now,
                 network, broker>>

BrokerAnswers ==
  /\ alive
  /\ \/ /\ owed = "CONNACK"
        /\ \E code \in {0, RefusedCode} :
             (stable => code = 0) /\ PeerSend(ConnackOf(code))
     \/ /\ owed = "PINGRESP"
        /\ PeerSend(PingrespBytes)
  /\ owed' = "NONE"
  /\ UNCHANGED <<alive, stable>>

BrokerDies ==
  /\ alive /\ ~stable
  /\ alive' = FALSE
  /\ UNCHANGED <<vars, owed, stable>>

NetworkStabilises ==
  /\ alive /\ ~stable /\ configured
  /\ stable' = TRUE
  /\ UNCHANGED <<vars, owed, alive>>

SessionInit ==
  Init /\ owed = "NONE" /\ alive = TRUE /\ stable = FALSE

SessionNext ==
  \/ \E d \in PollGaps : LoopPoll(d)
  \/ LoopApplication
  \/ NumberAfresh
  \/ BrokerAnswers
  \/ BrokerDies
  \/ NetworkStabilises

(* The main loop polls forever and its clock advances; a stable broker       *)
(* answers.  Nothing is assumed of the network before it is stable.          *)
SessionSpec ==
  /\ SessionInit /\ [][SessionNext]_svars
  /\ WF_svars(\E d \in PollGaps \ {0} : LoopPoll(d))
  /\ WF_svars(stable /\ BrokerAnswers)

-----------------------------------------------------------------------------
(* A broker that died is noticed, although every write still succeeds, and    *)
(* the client never believes in a session again, unless the application       *)
(* publishes again and again.  That limit is the code's: every write restarts *)
(* the keepalive, and a PINGREQ waits for an empty queue, so that an          *)
(* application that publishes within every keepalive hides the death.         *)
DeadBrokerNoticed ==
  \/ []<><<accepted' > accepted>>_svars
  \/ ~alive ~> [](~connected)

(* Once the network is stable every accepted message is delivered, from      *)
(* whatever state (backoff, half sent packet, late CONNACK) it finds the     *)
(* client in, those behind it and those published later too.                 *)
EveryMessageDelivered ==
  \A m \in 1..MaxMsgs :
    (stable /\ accepted >= m) ~> (Len(delivered) >= m)
=============================================================================
