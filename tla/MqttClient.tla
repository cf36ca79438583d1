----------------------------- MODULE MqttClient -----------------------------
(***************************************************************************)
(* The MQTT 3.1.1 QoS 0 client of proto_mqtt.c over the HAL network port:  *)
(* a non-blocking state machine advanced by proto_mqtt_poll, a ring of     *)
(* packet slots, and one work buffer shared by control packets and         *)
(* received bytes.                                                         *)
(*                                                                         *)
(* Every call is one step, as the main loop is the only caller.  A call    *)
(* of proto_mqtt_poll carries the time that passed since the last one; the *)
(* HAL answers nondeterministically (connection refused, part of the bytes *)
(* written, nothing to read yet, error) and the peer is an arbitrary       *)
(* source of packets.  Packets to the peer are (kind, length) pairs of     *)
(* which any part may be written; bytes from the peer are real bytes.      *)
(***************************************************************************)
EXTENDS Integers, Sequences

CONSTANTS
  SlotCount,       \* packet slots given to proto_mqtt_init
  ConnectLen,      \* length of an encoded CONNECT
  PublishLen,      \* length of an encoded PUBLISH
  WorkCapacity,    \* bytes in the work buffer
  Keepalive,       \* keepalive_seconds * 1000
  ConnectTimeout,  \* connect_timeout_ms
  BackoffInitial,  \* PROTO_MQTT_RECONNECT_INITIAL_MS
  BackoffMax,      \* PROTO_MQTT_RECONNECT_MAX_MS
  ClockMod,        \* 2^32: the clock and every timestamp wrap here
  PollGaps,        \* times that may pass between two polls
  PeerPackets,     \* byte sequences the peer may send
  Leftovers,       \* what a new connection may find already there to read:
                   \* nothing but <<>>, unless the port keeps old bytes
  MaxInbound,      \* bound: bytes in flight from the peer
  MaxMsgs,         \* bound: messages accepted by publish_enqueue
  MaxDropped       \* bound: messages refused by publish_enqueue

ConnackType == 32   \* 0x20
PingrespType == 208 \* 0xD0
PingLen == 2        \* a PINGREQ, and a PINGRESP, is two bytes
Half == ClockMod \div 2
Bytes == 0..255

ASSUME SizesAssumption ==
  /\ SlotCount \in Nat \ {0}
  /\ ConnectLen \in Nat \ {0}
  /\ PublishLen \in Nat \ {0}
  /\ WorkCapacity \in Nat /\ WorkCapacity >= 4
  /\ MaxInbound \in Nat /\ MaxMsgs \in Nat /\ MaxDropped \in Nat
  /\ PeerPackets \subseteq Seq(Bytes)
  /\ Leftovers \subseteq Seq(Bytes)

ASSUME TimersAssumption ==
  /\ ClockMod \in Nat \ {0}
  /\ Keepalive \in Nat \ {0}
  /\ ConnectTimeout \in Nat \ {0}
  /\ BackoffInitial \in Nat \ {0}
  /\ BackoffMax \in Nat /\ BackoffMax >= BackoffInitial
  /\ PollGaps \subseteq Nat

-----------------------------------------------------------------------------
VARIABLES
  configured,      \* proto_mqtt_connect was called and not close
  idFits,          \* the configured client id fits the work buffer
  state,           \* PROTO_MQTT_STATE_*
  connected,       \* the flag proto_mqtt_is_connected reads
  awaiting,        \* awaiting_ping_response
  control,         \* the control packet in the work buffer, if any
  controlSent,     \* control_sent
  rx,              \* the first receive_length bytes of the work buffer
  lastIo, reconnectAt, backoff, connackDeadline,
  slots, head, tail, count,
  dropped,
  accepted,        \* messages accepted so far; message n is the n-th
  now,             \* the clock the main loop reads
  linkUp,          \* the HAL holds an open connection
  inbound,         \* bytes on their way from the peer
  wire,            \* what the peer parsed of this connection's bytes
  opening,         \* the first four bytes this connection offers to read
  delivered        \* messages whose last byte was written, in order

session   == <<configured, idFits, state, connected, awaiting>>
control_  == <<control, controlSent>>
timers    == <<lastIo, reconnectAt, backoff, connackDeadline>>
queue     == <<slots, head, tail, count>>
producer  == <<dropped, accepted>>
network   == <<linkUp, inbound, wire, opening>>
vars == <<session, control_, rx, timers, queue, producer, now, network,
          delivered>>

-----------------------------------------------------------------------------
(* The bytes of this connection as the peer sees them.                      *)

NoPacket == <<"NONE", 0>>
FreshWire == [greeted |-> FALSE, packet |-> NoPacket, got |-> 0, intact |-> TRUE]

(* The peer's parser after bytes from .. from + n - 1 of packet p, whose     *)
(* length is len.  A packet must start where the previous one ended, and     *)
(* the first one, and no other, is the CONNECT.                              *)
Written(p, from, n, len) ==
  [greeted |-> wire.greeted \/ from + n = len,
   packet  |-> IF from + n = len THEN NoPacket ELSE p,
   got     |-> IF from + n = len THEN 0 ELSE from + n,
   intact  |-> /\ wire.intact
               /\ IF from = 0 THEN wire.packet = NoPacket
                  ELSE wire.packet = p /\ wire.got = from
               /\ p[1] = "CONNECT" <=> ~wire.greeted]

-----------------------------------------------------------------------------
(* Clock arithmetic on uint32_t.                                            *)

Clock(t) == t % ClockMod
Elapsed(t, since) == (t - since) % ClockMod
TimeReached(t, deadline) == Elapsed(t, deadline) < Half

(* Exponential backoff after an attempt that failed at time t with backoff  *)
(* b: double, and clamp at the maximum instead of overshooting it.          *)
(* Mutant: the maximum is only looked at before doubling.                    *)
NextBackoffOvershoots(b) == IF b > BackoffMax THEN b ELSE 2 * b
NextBackoff(b) ==
  IF b >= BackoffMax THEN b
  ELSE IF b > BackoffMax \div 2 THEN BackoffMax ELSE 2 * b

ScheduleReconnect(b, t) ==
  /\ reconnectAt' = Clock(t + b)
  /\ backoff' = NextBackoff(b)

-----------------------------------------------------------------------------
(* The packet ring.  An index runs modulo slot_count.                       *)

EmptySlot == [msg |-> 0, sent |-> 0]
(* Mutant: the index wraps one slot early.                                   *)
SuccessorWrapsEarly(i) == IF i + 2 >= SlotCount THEN 0 ELSE i + 1
Successor(i) == IF i + 1 = SlotCount THEN 0 ELSE i + 1
(* Mutant: a broken connection leaves the head slot half sent.               *)
RewoundHeadKept == slots
RewoundHead == IF count > 0 THEN [slots EXCEPT ![head].sent = 0] ELSE slots

(* A packet longer than a slot is refused as well, but only where there is    *)
(* room, and then nothing changes, not even the counter: a stuttering step.   *)
PublishEnqueue ==
  /\ \/ /\ count >= SlotCount
        /\ dropped < MaxDropped
        /\ dropped' = dropped + 1
        /\ UNCHANGED <<queue, accepted>>
     \/ /\ count < SlotCount
        /\ accepted < MaxMsgs
        /\ accepted' = accepted + 1
        /\ slots' = [slots EXCEPT ![tail] = [msg |-> accepted + 1, sent |-> 0]]
        /\ tail' = Successor(tail)
        /\ count' = count + 1
        /\ UNCHANGED <<head, dropped>>
  /\ UNCHANGED <<session, control_, rx, timers, now, network, delivered>>

-----------------------------------------------------------------------------
(* Leaving and entering a connection.                                       *)

CloseLink ==
  /\ linkUp' = FALSE
  /\ inbound' = <<>>
  /\ wire' = FreshWire
  /\ opening' = <<>>

(* mark_disconnected at time t with backoff b.  lastIo is the caller's.     *)
MarkDisconnected(b, t) ==
  /\ CloseLink
  /\ connected' = FALSE
  /\ state' = "DISCONNECTED"
  /\ awaiting' = FALSE
  /\ control' = "NONE"
  /\ controlSent' = 0
  /\ rx' = <<>>
  /\ slots' = RewoundHead
  /\ ScheduleReconnect(b, t)
  /\ UNCHANGED <<configured, idFits, connackDeadline, head, tail, count,
                 delivered>>

FirstFour(b) == IF Len(b) > 4 THEN SubSeq(b, 1, 4) ELSE b

(* attempt_connect: the HAL opens a connection and CONNECT is encoded.      *)
ConnectionOpened(t) ==
  /\ linkUp' = TRUE
  /\ inbound' \in Leftovers
  /\ wire' = FreshWire
  /\ opening' = FirstFour(inbound')
  /\ connected' = FALSE
  /\ state' = "SENDING_CONNECT"
  /\ awaiting' = FALSE
  /\ control' = "CONNECT"
  /\ controlSent' = 0
  /\ rx' = <<>>
  /\ lastIo' = t
  /\ UNCHANGED <<reconnectAt, connackDeadline>>

(* Mutant: a CONNECT that does not fit leaves the connection open.           *)
ConnectionRefusedLeaks(b, t) ==
  /\ linkUp' = TRUE
  /\ inbound' = <<>> /\ wire' = FreshWire /\ opening' = <<>>
  /\ connected' = FALSE
  /\ ScheduleReconnect(b, t)
  /\ UNCHANGED <<lastIo, connackDeadline>>

(* attempt_connect: the HAL refuses, or CONNECT does not fit the work       *)
(* buffer and the connection just opened is closed again.                   *)
ConnectionRefused(b, t) ==
  /\ CloseLink
  /\ connected' = FALSE
  /\ ScheduleReconnect(b, t)
  /\ UNCHANGED <<lastIo, connackDeadline>>

-----------------------------------------------------------------------------
(* proto_mqtt_connect at time t, and proto_mqtt_close.                      *)

Connect(fits, halOk, t) ==
  LET live == state # "DISCONNECTED" IN
  /\ now' = t
  /\ configured' = TRUE
  /\ idFits' = fits
  /\ slots' = IF live THEN RewoundHead ELSE slots
  /\ \/ /\ halOk /\ fits
        /\ ConnectionOpened(t)
        /\ backoff' = BackoffInitial
     \/ /\ ~(halOk /\ fits)
        /\ ConnectionRefused(BackoffInitial, t)
        /\ state' = "DISCONNECTED"
        /\ control' = IF live THEN "NONE" ELSE control
        /\ controlSent' = IF live THEN 0 ELSE controlSent
        /\ rx' = IF live THEN <<>> ELSE rx
        /\ UNCHANGED awaiting
  /\ UNCHANGED <<head, tail, count, producer, delivered>>

Close ==
  /\ CloseLink
  /\ connected' = FALSE
  /\ configured' = FALSE
  /\ state' = "DISCONNECTED"
  /\ awaiting' = FALSE
  /\ control' = "NONE"
  /\ controlSent' = 0
  /\ rx' = <<>>
  /\ slots' = RewoundHead
  /\ UNCHANGED <<idFits, timers, head, tail, count, producer, now, delivered>>

-----------------------------------------------------------------------------
(* Branches of proto_mqtt_poll at time t.                                   *)

(* Disconnected: nothing before reconnect_at, then one attempt.             *)
PollTooEarly(t) ==
  /\ state = "DISCONNECTED"
  /\ ~TimeReached(t, reconnectAt)
  /\ UNCHANGED <<session, control_, rx, timers, queue, network, delivered>>

PollReconnect(t, halOk) ==
  /\ state = "DISCONNECTED"
  /\ TimeReached(t, reconnectAt)
  /\ \/ /\ halOk /\ idFits
        /\ ConnectionOpened(t)
        /\ UNCHANGED backoff
     \/ /\ ~(halOk /\ idFits)
        /\ ConnectionRefused(backoff, t)
        /\ UNCHANGED <<state, awaiting, control_, rx>>
  /\ UNCHANGED <<configured, idFits, queue, delivered>>

(* send_bytes for control packet c of which from bytes are already out: the *)
(* HAL takes n more.                                                        *)
SendControl(c, from, len, n, t) ==
  /\ wire' = Written(<<c, 0>>, from, n, len)
  /\ lastIo' = t
  /\ control' = IF from + n = len THEN "NONE" ELSE c
  /\ controlSent' = IF from + n = len THEN 0 ELSE from + n
  /\ UNCHANGED <<linkUp, inbound, opening, configured, idFits, connected,
                 reconnectAt, backoff, queue, delivered>>

SendConnect(t) ==
  /\ state = "SENDING_CONNECT"
  /\ \E n \in 1..(ConnectLen - controlSent) :
       /\ SendControl("CONNECT", controlSent, ConnectLen, n, t)
       /\ IF controlSent + n = ConnectLen
          THEN /\ state' = "WAITING_CONNACK"
               /\ connackDeadline' = Clock(t + ConnectTimeout)
               /\ rx' = <<>>
          ELSE UNCHANGED <<state, connackDeadline, rx>>
  /\ UNCHANGED awaiting

(* process_connected_receive on the received bytes b: every whole pair must *)
(* be a PINGRESP and a lone last byte must be the start of one.             *)
IsPingresp(b, i) == b[i] = PingrespType /\ b[i + 1] = 0
OnlyPingresps(b) ==
  /\ \A i \in 1..Len(b) : i % 2 = 1 => b[i] = PingrespType
  /\ \A i \in 1..Len(b) : i % 2 = 0 => b[i] = 0
SomePingresp(b) == Len(b) >= 2 /\ IsPingresp(b, 1)
LoneByte(b) == IF Len(b) % 2 = 1 THEN <<b[Len(b)]>> ELSE <<>>

(* receive_append: the HAL hands over the first n bytes in flight.          *)
Receivable == 1..(IF WorkCapacity - Len(rx) < Len(inbound)
                  THEN WorkCapacity - Len(rx) ELSE Len(inbound))
(* Mutant: the bytes already there are overwritten.                          *)
ReceivedAfresh(n) == SubSeq(inbound, 1, n)
Received(n) == rx \o SubSeq(inbound, 1, n)
Unreceived(n) == SubSeq(inbound, n + 1, Len(inbound))

(* Mutant: the return code is not looked at.                                 *)
ConnackBadIgnoresCode(b) == b[1] # ConnackType \/ (Len(b) >= 2 /\ b[2] # 2)
ConnackBad(b) ==
  \/ b[1] # ConnackType
  \/ Len(b) >= 2 /\ b[2] # 2
  \/ Len(b) >= 4 /\ (b[3] # 0 \/ b[4] # 0)
AfterConnack(b) == SubSeq(b, 5, Len(b))

ConnackTimeout(t) ==
  /\ state = "WAITING_CONNACK"
  /\ TimeReached(t, connackDeadline)
  /\ MarkDisconnected(backoff, t)
  /\ UNCHANGED lastIo

WaitsForConnack(t) ==
  /\ state = "WAITING_CONNACK"
  /\ ~TimeReached(t, connackDeadline)

(* process_connack on the n bytes just read and those before: wait for four *)
(* bytes, refuse, or enter CONNECTED and treat what follows the CONNACK as  *)
(* connected traffic.                                                       *)
TakeConnack(n, t) ==
  LET b == Received(n) IN
  \/ /\ ConnackBad(b)
     /\ MarkDisconnected(backoff, t)
     /\ UNCHANGED lastIo
  \/ /\ ~ConnackBad(b) /\ Len(b) < 4
     /\ rx' = b
     /\ inbound' = Unreceived(n)
     /\ UNCHANGED <<session, control_, timers, queue, linkUp, wire, opening,
                    delivered>>
  \/ /\ ~ConnackBad(b) /\ Len(b) >= 4
     /\ OnlyPingresps(AfterConnack(b))
     /\ state' = "CONNECTED"
     /\ connected' = TRUE
     /\ backoff' = BackoffInitial
     /\ lastIo' = t
     /\ awaiting' = IF SomePingresp(AfterConnack(b)) THEN FALSE ELSE awaiting
     /\ rx' = LoneByte(AfterConnack(b))
     /\ inbound' = Unreceived(n)
     /\ UNCHANGED <<configured, idFits, control_, reconnectAt, connackDeadline,
                    queue, linkUp, wire, opening, delivered>>
  \/ /\ ~ConnackBad(b) /\ Len(b) >= 4
     /\ ~OnlyPingresps(AfterConnack(b))
     /\ MarkDisconnected(BackoffInitial, t)
     /\ lastIo' = t

ReceiveConnack(t) ==
  /\ WaitsForConnack(t)
  /\ \E n \in Receivable : TakeConnack(n, t)

(* Connected: first the PINGRESP timeout, then the rest of a PINGREQ, then  *)
(* the peer's answer if one is awaited or half read, then the head slot,    *)
(* then a PINGREQ when idle for a keepalive period, else a look for bytes.  *)
(* Mutants: a period that is one millisecond longer, and a comparison that   *)
(* forgets that the clock wraps.                                             *)
IdleForLonger(t) == Elapsed(t, lastIo) > Keepalive
IdleForUnwrapped(t) == t - lastIo >= Keepalive
IdleFor(t) == Elapsed(t, lastIo) >= Keepalive

PingTimeout(t) ==
  /\ state = "CONNECTED"
  /\ awaiting /\ IdleFor(t)
  /\ MarkDisconnected(backoff, t)
  /\ UNCHANGED lastIo

(* Mutant: publishes while the CONNACK is awaited.                           *)
ServesOptimistically(t) ==
  /\ state \in {"WAITING_CONNACK", "CONNECTED"}
  /\ ~(awaiting /\ IdleFor(t))
Serves(t) == state = "CONNECTED" /\ ~(awaiting /\ IdleFor(t))

SendPingRest(t) ==
  /\ Serves(t)
  /\ control # "NONE"
  /\ \E n \in 1..(PingLen - controlSent) :
       SendControl(control, controlSent, PingLen, n, t)
  /\ UNCHANGED <<state, awaiting, rx, connackDeadline>>

AnswerDue == rx # <<>> \/ awaiting

(* Mutant: reads over a half sent PINGREQ.                                   *)
LooksForBytesAlways(t) ==
  /\ Serves(t)
  /\ AnswerDue \/ (count = 0 /\ ~IdleFor(t))
LooksForBytes(t) ==
  /\ Serves(t)
  /\ control = "NONE"
  /\ AnswerDue \/ (count = 0 /\ ~IdleFor(t))

TakeConnected(n, t) ==
  LET b == Received(n) IN
  /\ lastIo' = IF SomePingresp(b) THEN t ELSE lastIo
  /\ \/ /\ OnlyPingresps(b)
        /\ rx' = LoneByte(b)
        /\ awaiting' = IF SomePingresp(b) THEN FALSE ELSE awaiting
        /\ inbound' = Unreceived(n)
        /\ UNCHANGED <<configured, idFits, state, connected, control_,
                       reconnectAt, backoff, connackDeadline, queue, linkUp,
                       wire, opening, delivered>>
     \/ /\ ~OnlyPingresps(b)
        /\ MarkDisconnected(backoff, t)

ReceiveConnected(t) ==
  /\ LooksForBytes(t)
  /\ \E n \in Receivable : TakeConnected(n, t)

(* The HAL has nothing to read: SNS_ERR_NOT_READY.                          *)
NothingToRead(t) ==
  /\ WaitsForConnack(t) \/ LooksForBytes(t)
  /\ inbound = <<>>
  /\ UNCHANGED <<session, control_, rx, timers, queue, network, delivered>>

(* The HAL takes n bytes of the head slot; a slot wholly written is freed.  *)
SendPublish(t) ==
  /\ Serves(t)
  /\ control = "NONE" /\ ~AnswerDue
  /\ count > 0
  /\ \E n \in 1..(PublishLen - slots[head].sent) :
       LET sent == slots[head].sent + n IN
       /\ wire' = Written(<<"PUBLISH", slots[head].msg>>, slots[head].sent, n,
                          PublishLen)
       /\ \/ /\ sent < PublishLen
             /\ slots' = [slots EXCEPT ![head].sent = sent]
             /\ UNCHANGED <<head, count, delivered>>
          \/ /\ sent = PublishLen
             /\ slots' = [slots EXCEPT ![head] = EmptySlot]
             /\ head' = Successor(head)
             /\ count' = count - 1
             /\ delivered' = Append(delivered, slots[head].msg)
  /\ lastIo' = t
  /\ UNCHANGED <<session, control_, rx, reconnectAt, backoff, connackDeadline,
                 tail, linkUp, inbound, opening>>

(* Mutant: the answer to a PINGREQ is not awaited.                           *)
StartPingUnanswered(t) ==
  /\ Serves(t)
  /\ control = "NONE" /\ ~AnswerDue
  /\ count = 0 /\ IdleFor(t)
  /\ \E n \in 1..PingLen : SendControl("PINGREQ", 0, PingLen, n, t)
  /\ UNCHANGED <<state, awaiting, rx, connackDeadline>>
StartPing(t) ==
  /\ Serves(t)
  /\ control = "NONE" /\ ~AnswerDue
  /\ count = 0 /\ IdleFor(t)
  /\ awaiting' = TRUE
  /\ \E n \in 1..PingLen : SendControl("PINGREQ", 0, PingLen, n, t)
  /\ UNCHANGED <<state, rx, connackDeadline>>

(* A HAL call fails, or reports an impossible length.  Every branch above   *)
(* that makes one ends in mark_disconnected then.                           *)
HalFault(t) ==
  /\ \/ state = "SENDING_CONNECT"
     \/ WaitsForConnack(t)
     \/ Serves(t)
  /\ MarkDisconnected(backoff, t)
  /\ UNCHANGED lastIo

PollUnconfigured ==
  /\ ~configured
  /\ UNCHANGED <<session, control_, rx, timers, queue, network, delivered>>

(* proto_mqtt_poll when the HAL does its work, and when it does not.        *)
PollServed(t) ==
  /\ now' = t
  /\ UNCHANGED producer
  /\ \/ PollUnconfigured
     \/ /\ configured
        /\ \/ PollTooEarly(t)
           \/ PollReconnect(t, TRUE)
           \/ SendConnect(t)
           \/ ConnackTimeout(t)
           \/ ReceiveConnack(t)
           \/ PingTimeout(t)
           \/ SendPingRest(t)
           \/ ReceiveConnected(t)
           \/ NothingToRead(t)
           \/ SendPublish(t)
           \/ StartPing(t)

PollFailed(t) ==
  /\ now' = t
  /\ UNCHANGED producer
  /\ configured
  /\ PollReconnect(t, FALSE) \/ HalFault(t)

Application ==
  \/ PublishEnqueue
  \/ \E fits, halOk \in BOOLEAN, d \in PollGaps :
       Connect(fits, halOk, Clock(now + d))
  \/ Close

(* The peer: any of its packets, as long as the connection is open.         *)
PeerSend(p) ==
  /\ linkUp
  /\ Len(inbound) + Len(p) <= MaxInbound
  /\ inbound' = inbound \o p
  /\ opening' = FirstFour(opening \o p)
  /\ UNCHANGED <<session, control_, rx, timers, queue, producer, now, linkUp,
                 wire, delivered>>

Init ==
  /\ configured = FALSE /\ idFits = TRUE
  /\ state = "DISCONNECTED" /\ connected = FALSE /\ awaiting = FALSE
  /\ control = "NONE" /\ controlSent = 0 /\ rx = <<>>
  /\ lastIo = 0 /\ reconnectAt = 0 /\ connackDeadline = 0
  /\ backoff = BackoffInitial
  /\ slots = [i \in 0..SlotCount - 1 |-> EmptySlot]
  /\ head = 0 /\ tail = 0 /\ count = 0
  /\ dropped = 0 /\ accepted = 0
  /\ now \in 0..ClockMod - 1
  /\ linkUp = FALSE /\ inbound = <<>> /\ wire = FreshWire /\ opening = <<>>
  /\ delivered = <<>>

Next ==
  \/ Application
  \/ \E d \in PollGaps : PollServed(Clock(now + d)) \/ PollFailed(Clock(now + d))
  \/ \E p \in PeerPackets : PeerSend(p)

Spec == Init /\ [][Next]_vars

-----------------------------------------------------------------------------
(* Properties.                                                              *)

States == {"DISCONNECTED", "SENDING_CONNECT", "WAITING_CONNACK", "CONNECTED"}
Controls == {"NONE", "CONNECT", "PINGREQ"}
Packets == {NoPacket} \cup ({"CONNECT", "PINGREQ", "PUBLISH"} \X Nat)

SlotType == [msg : Nat, sent : 0..PublishLen - 1]
WireType == [greeted : BOOLEAN, packet : Packets, got : Nat, intact : BOOLEAN]

SessionType ==
  /\ configured \in BOOLEAN /\ idFits \in BOOLEAN
  /\ state \in States /\ connected \in BOOLEAN /\ awaiting \in BOOLEAN

WorkBufferType ==
  /\ control \in Controls /\ controlSent \in Nat
  /\ rx \in Seq(Bytes)

TimersType ==
  /\ now \in Int /\ lastIo \in Int /\ reconnectAt \in Int
  /\ connackDeadline \in Int
  /\ backoff \in BackoffInitial..BackoffMax

QueueType ==
  /\ slots \in [0..SlotCount - 1 -> SlotType]
  /\ head \in 0..SlotCount - 1 /\ tail \in 0..SlotCount - 1
  /\ count \in 0..SlotCount
  /\ dropped \in 0..MaxDropped /\ accepted \in 0..MaxMsgs
  /\ delivered \in Seq(Nat)

NetworkType ==
  /\ linkUp \in BOOLEAN
  /\ inbound \in Seq(Bytes) /\ opening \in Seq(Bytes)
  /\ wire \in WireType

(* Every variable has its type; the backoff in particular never leaves its   *)
(* range, and no index leaves the ring.                                      *)
TypeOK ==
  SessionType /\ WorkBufferType /\ TimersType /\ QueueType /\ NetworkType

(* The client and the HAL agree on whether there is a connection, whatever   *)
(* failed on the way: no return path of connect, poll or close leaves an     *)
(* open connection the client does not know of, and the connected flag the   *)
(* application reads is set exactly in a session.                            *)
LinkMatchesState ==
  /\ linkUp <=> state # "DISCONNECTED"
  /\ connected <=> state = "CONNECTED"
  /\ linkUp => configured

(* The byte stream of every connection is a CONNECT followed by whole        *)
(* packets, none torn, interleaved or continued from an earlier connection,  *)
(* although the HAL takes any part of a packet and connections break inside  *)
(* packets.                                                                  *)
StreamIntact == wire.intact

(* The client believes in a session, and writes a byte of a PUBLISH or       *)
(* PINGREQ, only when the peer has got the whole CONNECT of this connection  *)
(* and the first thing it sent on it, in however many pieces it arrived, is  *)
(* a CONNACK that accepts.                                                   *)
Accepting == <<ConnackType, 2, 0, 0>>
SessionOnlyIfAccepted ==
  /\ connected => wire.greeted /\ opening = Accepting
  /\ wire.packet[1] \in {"PUBLISH", "PINGREQ"} => connected

(* Control packets and received bytes share the work buffer: a half sent     *)
(* control packet never has received bytes over it, and between two polls at *)
(* most an incomplete CONNACK, or half a PINGRESP, stays in the buffer.      *)
WorkBufferExclusive ==
  /\ control # "NONE" => rx = <<>>
  /\ Len(rx) <= IF state = "WAITING_CONNACK" THEN 3 ELSE 1

(* The messages in the ring, oldest first.                                   *)
SlotAt(k) == IF head + k < SlotCount THEN head + k ELSE head + k - SlotCount
Pending == [k \in 1..count |-> slots[SlotAt(k - 1)].msg]

(* Every accepted message is either in the ring or was wholly written once,  *)
(* in the order of acceptance: across disconnections nothing is lost,        *)
(* duplicated or reordered.                                                  *)
ExactlyOnceInOrder == delivered \o Pending = [k \in 1..accepted |-> k]

(* After a call the client has been silent for less than a keepalive period, *)
(* and waits for a CONNACK only before its deadline: whatever mixture of     *)
(* partial sends, answers and publishes came before.  A client that holds    *)
(* half of an unsolicited PINGRESP is exempt: see MqttTimers.                *)
DeadlinesHonoured ==
  /\ state = "CONNECTED" /\ rx = <<>> => Elapsed(now, lastIo) < Keepalive
  /\ state = "WAITING_CONNACK" => Elapsed(now, connackDeadline) >= Half

(* The client implements the outbox: only whole writes of the oldest message *)
(* in an open session deliver, and a broken connection never touches the     *)
(* messages.                                                                 *)
Promise == INSTANCE Outbox WITH Capacity <- SlotCount, pending <- Pending,
                                open <- connected
ImplementsOutbox == Promise!Spec
=============================================================================
