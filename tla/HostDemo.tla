------------------------------ MODULE HostDemo ------------------------------
(***************************************************************************)
(* The two kinds of program that run the MQTT client on the simulated      *)
(* network: a test harness, which may make any call at any time, and the   *)
(* script of examples/host_demo/main.c, one call after the other.  The     *)
(* script's sensors, event queue and MQTT application are reduced to the   *)
(* number of events in the queue; the client and the network are whole.    *)
(*                                                                         *)
(* The script stops with an error as soon as a call answers anything but   *)
(* what it expects.  It also moves its clock: 1400 ms and later to wait    *)
(* out the reconnect delay in the middle, then back to 500 ms.             *)
(***************************************************************************)
EXTENDS HostNet

CONSTANTS
  EventsPerStep,   \* events one func_sensor_poll_all may publish
  EventCapacity,   \* of the MQTT application's event queue
  FlushLimit,      \* polls one demo_mqtt_flush may make
  DrainRounds,     \* rounds of demo_mqtt_drain_app
  TesterMsgs,      \* bound: publishes of a test harness
  TesterPushes     \* bound: pushes of a test harness

ASSUME DemoAssumption ==
  /\ EventsPerStep \subseteq Nat
  /\ EventCapacity \in Nat \ {0}
  /\ FlushLimit \in Nat /\ DrainRounds \in Nat \ {0}
  /\ TesterMsgs \in Nat /\ TesterPushes \in Nat

VARIABLES
  caller,          \* "tester" or "main"
  pc,              \* the next call of main
  step,            \* its loop variable step
  round, attempts, \* of demo_mqtt_drain_app and demo_mqtt_flush
  full,            \* func_app_mqtt_poll answered SNS_ERR_NO_SPACE
  waiting,         \* events in the MQTT event queue
  produced,        \* events published by the sensors so far
  overflowed,      \* events the queue dropped
  openedAt         \* packets pushed when the connection was opened

drain == <<round, attempts, full>>
events == <<waiting, produced, overflowed>>
dvars == <<hvars, caller, pc, step, drain, events, openedAt>>

StepMs == 100
Accepted == <<ConnackType, 2, 0, 0>>

NotesOpening == openedAt' = IF linkUp' /\ ~linkUp THEN pushed ELSE openedAt

-----------------------------------------------------------------------------
(* The shapes of main's calls.                                              *)

(* demo_require(proto_mqtt_poll(..., t, 5U)): on to next, or out.            *)
PollThen(t, next) ==
  /\ \/ PollOk(t) /\ pc' = next
     \/ PollNotOk(t) /\ pc' = "failed"
  /\ NotesOpening
  /\ UNCHANGED <<step, drain, events>>

PushAccepted(next) ==
  /\ ReceivePush(Accepted)
  /\ pc' = next
  /\ UNCHANGED <<step, drain, events, openedAt>>

(* The calls before the first sensor step.                                  *)
StartUp ==
  \/ /\ pc = "connect"
     /\ HostConnect(0)
     /\ pc' = "hello"
     /\ NotesOpening
     /\ UNCHANGED <<step, drain, events>>
  \/ pc = "hello" /\ PollThen(0, "answer")
  \/ pc = "answer" /\ PushAccepted("greeted")
  \/ pc = "greeted" /\ PollThen(1, IF connected' THEN "sense" ELSE "failed")

(* func_sensor_poll_all: the queue keeps what fits and drops the newest.     *)
Sense ==
  /\ pc = "sense"
  /\ \E n \in EventsPerStep :
       LET room == EventCapacity - waiting IN
       /\ produced' = produced + n
       /\ waiting' = waiting + (IF n < room THEN n ELSE room)
       /\ overflowed' = overflowed + (IF n < room THEN 0 ELSE n - room)
  /\ IF step < 2 THEN step' = step + 1 /\ pc' = pc
     ELSE step' = step /\ pc' = "app"
  /\ UNCHANGED <<hvars, drain, openedAt>>

(* The event that was popped is gone, whether it was enqueued or refused.    *)
(* Mutant: a refused event is kept for the next poll.                        *)
LeftWaitingRetried == IF dropped' > dropped THEN waiting ELSE waiting - 1
LeftWaiting == waiting - 1

(* func_app_mqtt_poll pops an event and enqueues it; it stops at the first   *)
(* event that does not fit, which is gone, or when the queue is empty (its   *)
(* budget of 8 exceeds the queue).  Only in step 4 must every event fit.     *)
AppPoll ==
  /\ pc = "app"
  /\ \/ /\ waiting > 0
        /\ Publish
        /\ waiting' = LeftWaiting
        /\ full' = (dropped' > dropped)
        /\ pc' = IF ~full' THEN "app" ELSE IF step = 4 THEN "failed" ELSE "flush"
     \/ /\ waiting = 0
        /\ full' = FALSE
        /\ pc' = IF step = 4 THEN "unplug" ELSE "flush"
        /\ UNCHANGED <<hvars, waiting>>
  /\ UNCHANGED <<step, round, attempts, produced, overflowed, openedAt>>

(* Step 4: the port is closed under the client, whose next poll must notice; *)
(* then the backoff is waited out and the session accepted again.            *)
(* Mutant: the answer is injected before the client has reconnected.         *)
OutageCallsAnsweredEarly ==
  <<"unplug", "notice", "answer_again", "reconnect", "resume", "greeted_again",
    "flush">>
OutageCalls ==
  <<"unplug", "notice", "reconnect", "resume", "answer_again", "greeted_again",
    "flush">>
AfterCall(p) ==
  OutageCalls[1 + CHOOSE i \in DOMAIN OutageCalls : OutageCalls[i] = p]

Outage ==
  \/ /\ pc = "unplug"
     /\ HalClose
     /\ pc' = AfterCall("unplug")
     /\ UNCHANGED <<step, drain, events, openedAt>>
  \/ /\ pc = "notice"
     /\ PollRefused(step * StepMs) /\ hostUp' = linkUp'
     /\ pc' = IF count > 0 THEN AfterCall("notice") ELSE "failed"
     /\ UNCHANGED <<step, drain, events, openedAt>>
  \/ pc = "reconnect" /\ PollThen(1400, AfterCall("reconnect"))
  \/ pc = "resume" /\ PollThen(1401, AfterCall("resume"))
  \/ pc = "answer_again" /\ PushAccepted(AfterCall("answer_again"))
  \/ pc = "greeted_again" /\ PollThen(1402, AfterCall("greeted_again"))

(* demo_mqtt_flush polls while messages are pending and attempts are left.   *)
FlushTime ==
  attempts + (IF step = 4 THEN 1403 ELSE step * StepMs + round * 20)
(* Mutant: the last message is not waited for.                               *)
PendingButOne == count > 1
PendingLeft == count > 0

Flush ==
  /\ pc = "flush"
  /\ PendingLeft
  /\ IF attempts < FlushLimit
     THEN /\ \/ PollOk(FlushTime) /\ pc' = pc
             \/ PollNotOk(FlushTime) /\ pc' = "failed"
          /\ NotesOpening
          /\ attempts' = attempts + 1
     ELSE UNCHANGED <<hvars, attempts, openedAt>> /\ pc' = "failed"
  /\ UNCHANGED <<step, round, full, events>>

(* The queue is flushed: another round when the application could not place  *)
(* everything, else the next step.                                           *)
Flushed ==
  /\ pc = "flush"
  /\ ~PendingLeft
  /\ attempts' = 0
  /\ IF full
     THEN /\ pc' = IF round + 1 < DrainRounds THEN "app" ELSE "failed"
          /\ round' = round + 1
          /\ step' = step
     ELSE /\ pc' = IF step = 5 THEN "close" ELSE "sense"
          /\ round' = 0
          /\ step' = step + 1
  /\ UNCHANGED <<hvars, full, events, openedAt>>

Shutdown ==
  /\ pc = "close"
  /\ HostClose
  /\ pc' = "done"
  /\ UNCHANGED <<step, drain, events, openedAt>>

Main ==
  /\ caller = "main"
  /\ StartUp \/ Sense \/ AppPoll \/ Outage \/ Flush \/ Flushed \/ Shutdown
  /\ UNCHANGED caller

Ended ==
  /\ caller = "main" /\ pc \in {"done", "failed"}
  /\ UNCHANGED dvars

Tester ==
  /\ caller = "tester"
  /\ HostNext
  /\ accepted' + dropped' <= TesterMsgs /\ pushed' <= TesterPushes
  /\ UNCHANGED <<caller, pc, step, drain, events, openedAt>>

DemoInit ==
  /\ HostInit
  /\ caller \in {"tester", "main"}
  /\ pc = "connect" /\ step = 0
  /\ round = 0 /\ attempts = 0 /\ full = FALSE
  /\ waiting = 0 /\ produced = 0 /\ overflowed = 0
  /\ openedAt = 0

DemoNext == Main \/ Ended \/ Tester

(* main is a program that is run to its end.                                *)
DemoSpec == DemoInit /\ [][DemoNext]_dvars /\ WF_dvars(Main)

-----------------------------------------------------------------------------
(* Properties.                                                              *)

(* The demo reaches its end: no call on the way answers what the script does *)
(* not expect, no drain runs out of rounds or attempts, the capture list     *)
(* suffices, the reconnect delay is over at 1400 ms to the millisecond, and  *)
(* the clock that then runs backwards starts no PINGREQ and no timeout.      *)
DemoFinishes == (caller = "main") ~> (pc = "done")

(* Where the demo's events are: only the burst of the first three steps is   *)
(* more than the two packet slots and the queue take, and costs one or two   *)
(* events; every later event is delivered, also those that were queued when  *)
(* the port was closed.                                                      *)
OnlyTheBurstLoses ==
  caller = "main" =>
    /\ produced = waiting + overflowed + dropped + accepted
    /\ step >= 3 => overflowed + dropped \in 1..2
    /\ pc = "done" => Len(delivered) = produced - overflowed - dropped

(* Both sessions of the demo are accepted by a CONNACK that was pushed while *)
(* that connection was open, although the ring of the host survives a        *)
(* closed connection and would hand an old answer to the new one.            *)
AnswersFresh == caller = "main" /\ connected => handed > openedAt
=============================================================================
