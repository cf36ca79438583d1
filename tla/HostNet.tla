------------------------------ MODULE HostNet ------------------------------
(***************************************************************************)
(* MqttClient over the simulated network of ports/host_sim/host_net.c: the *)
(* port the tests and the demo run the client on.  A send is captured      *)
(* whole or refused, a receive hands over one whole packet of a ring that  *)
(* the harness fills, and connect always succeeds.  The ring belongs to    *)
(* the host and not to a connection: it survives close and connect.  The   *)
(* harness may also close the port under the client.                       *)
(*                                                                         *)
(* The client's steps are those of MqttClient with the choices of the HAL  *)
(* fixed to what the simulation does; inbound is what of the ring an open  *)
(* connection will be handed.                                              *)
(***************************************************************************)
EXTENDS MqttClient, SequencesExt

CONSTANTS
  MaxCaptures,     \* HAL_CFG_HOST_NET_MAX_CAPTURES
  RxDepth          \* HAL_CFG_HOST_NET_RX_QUEUE_DEPTH

ASSUME HostAssumption ==
  /\ MaxCaptures \in Nat
  /\ RxDepth \in Nat \ {0}

VARIABLES
  hostUp,          \* host->connected
  captures,        \* capture_count: packets sent since the last reset
  rxQueue, rxRead, rxWrite, rxCount,
  pushed,          \* packets pushed so far; packet n is the n-th
  handed           \* number of the last packet handed to the client

rxRing == <<rxQueue, rxRead, rxWrite, rxCount, pushed, handed>>
hvars == <<vars, hostUp, captures, rxRing>>

-----------------------------------------------------------------------------
(* The ring of packets to receive.                                          *)

NoRxPacket == [bytes |-> <<>>, number |-> 0]

(* Mutant: the index wraps one slot early.                                   *)
RxNextEarly(i) == IF i + 2 >= RxDepth THEN 0 ELSE i + 1
RxNext(i) == IF i + 1 = RxDepth THEN 0 ELSE i + 1
RxAt(k) == IF rxRead + k < RxDepth THEN rxRead + k ELSE rxRead + k - RxDepth
Queued == [k \in 1..rxCount |-> rxQueue[RxAt(k - 1)]]
Unread == FlattenSeq([k \in 1..rxCount |-> Queued[k].bytes])
HeadLen == Len(rxQueue[rxRead].bytes)

(* host_net_receive_push; an open connection sees the bytes at once.        *)
ReceivePush(p) ==
  /\ rxCount < RxDepth
  /\ rxQueue' = [rxQueue EXCEPT ![rxWrite] = [bytes |-> p, number |-> pushed + 1]]
  /\ rxWrite' = RxNext(rxWrite)
  /\ rxCount' = rxCount + 1
  /\ pushed' = pushed + 1
  /\ IF linkUp THEN PeerSend(p) ELSE UNCHANGED vars
  /\ UNCHANGED <<hostUp, captures, rxRead, handed>>

(* host_net_recv that succeeds.                                              *)
(* Mutant: the packet stays in the ring.                                     *)
HandOverKept ==
  /\ handed' = rxQueue[rxRead].number
  /\ UNCHANGED <<rxQueue, rxRead, rxWrite, rxCount, pushed>>
HandOver ==
  /\ rxRead' = RxNext(rxRead)
  /\ rxCount' = rxCount - 1
  /\ handed' = rxQueue[rxRead].number
  /\ UNCHANGED <<rxQueue, rxWrite, pushed>>

-----------------------------------------------------------------------------
(* proto_mqtt_poll at time t on this port.                                  *)

(* What the poll asks of the port.                                          *)
Sends(t) ==
  \/ state = "SENDING_CONNECT"
  \/ /\ Serves(t)
     /\ control # "NONE" \/ (~AnswerDue /\ (count > 0 \/ IdleFor(t)))
Reads(t) == WaitsForConnack(t) \/ LooksForBytes(t)

PollSends(t) ==
  /\ Sends(t) /\ hostUp /\ captures < MaxCaptures
  /\ PollServed(t)
  /\ wire'.got = 0
  /\ captures' = captures + 1
  /\ UNCHANGED rxRing

(* A packet without bytes is handed over too, and the client takes it for a *)
(* failure.                                                                 *)
PollReceives(t) ==
  /\ Reads(t) /\ hostUp /\ rxCount > 0
  /\ HeadLen <= WorkCapacity - Len(rx)
  /\ HandOver
  /\ \/ HeadLen = 0 /\ PollFailed(t)
     \/ /\ HeadLen > 0
        /\ now' = t
        /\ \/ WaitsForConnack(t) /\ TakeConnack(HeadLen, t)
           \/ LooksForBytes(t) /\ TakeConnected(HeadLen, t)
        /\ UNCHANGED producer
  /\ UNCHANGED captures

PollFindsNothing(t) ==
  /\ Reads(t) /\ hostUp /\ rxCount = 0
  /\ PollServed(t)
  /\ UNCHANGED <<captures, rxRing>>

(* The port is closed, the capture list full, or the next packet does not   *)
(* fit what is left of the work buffer: it stays in the ring.               *)
PollRefused(t) ==
  /\ \/ Sends(t) /\ (~hostUp \/ captures >= MaxCaptures)
     \/ Reads(t) /\ (~hostUp \/ (rxCount > 0 /\ HeadLen > WorkCapacity - Len(rx)))
  /\ PollFailed(t)
  /\ UNCHANGED <<captures, rxRing>>

(* No send and no receive: unconfigured, too early, reconnect, or a timeout. *)
PollElse(t) ==
  /\ ~Sends(t) /\ ~Reads(t)
  /\ PollServed(t)
  /\ linkUp' => inbound' = Unread
  /\ UNCHANGED <<captures, rxRing>>

(* proto_mqtt_poll answers SNS_OK when it sent, received or connected and    *)
(* the connection is still there.                                            *)
PollOk(t) ==
  /\ PollSends(t) \/ PollReceives(t) \/ PollElse(t)
  /\ linkUp'
  /\ hostUp' = linkUp'
PollNotOk(t) ==
  /\ \/ (PollReceives(t) \/ PollElse(t)) /\ ~linkUp'
     \/ PollFindsNothing(t)
     \/ PollRefused(t)
  /\ hostUp' = linkUp'

-----------------------------------------------------------------------------
(* The other calls of the harness.                                          *)

HostConnect(t) ==
  /\ Connect(TRUE, TRUE, t)
  /\ inbound' = Unread
  /\ hostUp' = TRUE
  /\ UNCHANGED <<captures, rxRing>>

HostClose == Close /\ hostUp' = FALSE /\ UNCHANGED <<captures, rxRing>>

Publish == PublishEnqueue /\ UNCHANGED <<hostUp, captures, rxRing>>

(* hal_net close called past the client, as the tests and the demo do.      *)
HalClose ==
  /\ hostUp
  /\ hostUp' = FALSE
  /\ UNCHANGED <<vars, captures, rxRing>>

ResetCaptures ==
  /\ captures > 0
  /\ captures' = 0
  /\ UNCHANGED <<vars, hostUp, rxRing>>

HostInit ==
  /\ now = 0 /\ Init
  /\ hostUp = FALSE /\ captures = 0
  /\ rxQueue = [i \in 0..RxDepth - 1 |-> NoRxPacket]
  /\ rxRead = 0 /\ rxWrite = 0 /\ rxCount = 0
  /\ pushed = 0 /\ handed = 0

HostNext ==
  \/ HostConnect(now)
  \/ HostClose
  \/ Publish
  \/ HalClose
  \/ ResetCaptures
  \/ \E d \in PollGaps : PollOk(Clock(now + d)) \/ PollNotOk(Clock(now + d))
  \/ \E p \in PeerPackets : ReceivePush(p)

HostSpec == HostInit /\ [][HostNext]_hvars

-----------------------------------------------------------------------------
(* Properties.                                                              *)

(* Every packet the harness pushed is handed to the client once, whole and   *)
(* in the order of the pushes, or is still in the ring: however connections  *)
(* opened and closed meanwhile, and also when it was refused because it did  *)
(* not fit.                                                                  *)
HandedInOrder ==
  /\ handed + rxCount = pushed
  /\ \A k \in 1..rxCount : Queued[k].number = handed + k
  /\ linkUp => inbound = Unread
=============================================================================
