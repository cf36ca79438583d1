-------------------------- MODULE MqttClient_proofs --------------------------
(* Theorems about MqttClient, its timers and the network it runs on, for     *)
(* every value of the constants.                                             *)
EXTENDS MqttTimers, HostDemo, CommonLemmas

SlotIndex == 0..SlotCount - 1

-----------------------------------------------------------------------------
(* Helpers.                                                                  *)

LEMMA ClockInt == ASSUME NEW t \in Int PROVE Clock(t) \in Int
  BY TimersAssumption DEF Clock

LEMMA NextBackoffType ==
  ASSUME NEW b \in BackoffInitial..BackoffMax
  PROVE  NextBackoff(b) \in BackoffInitial..BackoffMax
  BY TimersAssumption DEF NextBackoff

LEMMA BackoffInitialType == BackoffInitial \in BackoffInitial..BackoffMax
  BY TimersAssumption

LEMMA ReconnectType ==
  ASSUME NEW b \in BackoffInitial..BackoffMax, NEW t \in Int, ScheduleReconnect(b, t)
  PROVE  reconnectAt' \in Int /\ backoff' \in BackoffInitial..BackoffMax
  <1>1. t + b \in Int
    BY TimersAssumption
  <1> QED
    BY <1>1, ClockInt, NextBackoffType DEF ScheduleReconnect

LEMMA SuccessorType ==
  ASSUME NEW i \in 0..SlotCount - 1 PROVE Successor(i) \in 0..SlotCount - 1
  BY SizesAssumption DEF Successor

LEMMA EmptyType == <<>> \in Seq(Bytes) /\ <<>> \in Seq(Nat)
  OBVIOUS

LEMMA ConcatType ==
  ASSUME NEW a \in Seq(Bytes), NEW b \in Seq(Bytes) PROVE a \o b \in Seq(Bytes)
  OBVIOUS

LEMMA ReceivedType ==
  ASSUME TypeOK, NEW n \in Receivable
  PROVE  /\ n \in Nat /\ n >= 1 /\ n <= Len(inbound)
         /\ Received(n) \in Seq(Bytes)
         /\ Len(Received(n)) = Len(rx) + n
         /\ Unreceived(n) \in Seq(Bytes)
  BY SizesAssumption
     DEF TypeOK, WorkBufferType, NetworkType, Receivable, Received, Unreceived

LEMMA LoneByteType ==
  ASSUME NEW b \in Seq(Bytes)
  PROVE  LoneByte(b) \in Seq(Bytes) /\ Len(LoneByte(b)) <= 1
  <1>1. CASE Len(b) % 2 = 1
    <2>1. Len(b) \in 1..Len(b)
      BY <1>1
    <2> QED BY <1>1, <2>1 DEF LoneByte
  <1>2. CASE Len(b) % 2 # 1
    BY <1>2 DEF LoneByte
  <1> QED BY <1>1, <1>2

LEMMA AfterConnackType ==
  ASSUME NEW b \in Seq(Bytes) PROVE AfterConnack(b) \in Seq(Bytes)
  BY DEF AfterConnack

LEMMA FirstFourType ==
  ASSUME NEW b \in Seq(Bytes) PROVE FirstFour(b) \in Seq(Bytes)
  BY DEF FirstFour

(* Setting one field of one slot changes that field of that slot.            *)
LEMMA SlotSent ==
  ASSUME NEW s \in [SlotIndex -> SlotType], NEW h \in SlotIndex,
         NEW v \in 0..PublishLen - 1
  PROVE  /\ [s EXCEPT ![h].sent = v] \in [SlotIndex -> SlotType]
         /\ [s EXCEPT ![h].sent = v][h] = [msg |-> s[h].msg, sent |-> v]
         /\ \A i \in SlotIndex : i # h => [s EXCEPT ![h].sent = v][i] = s[i]
  <1> DEFINE r == [s[h] EXCEPT !.sent = v]
  <1>1. s[h] \in SlotType
    OBVIOUS
  <1>2. r = [msg |-> s[h].msg, sent |-> v] /\ r \in SlotType
    BY <1>1 DEF SlotType
  <1>3. [s EXCEPT ![h].sent = v] = [s EXCEPT ![h] = r]
    OBVIOUS
  <1> QED
    BY <1>2, <1>3

LEMMA RewoundHeadType ==
  ASSUME TypeOK
  PROVE  RewoundHead \in [SlotIndex -> SlotType]
  <1>1. 0 \in 0..PublishLen - 1 /\ slots \in [SlotIndex -> SlotType] /\ head \in SlotIndex
    BY SizesAssumption DEF TypeOK, QueueType, SlotIndex
  <1> QED
    BY <1>1, SlotSent DEF RewoundHead

LEMMA FreshWireType == FreshWire \in WireType
  BY DEF FreshWire, WireType, Packets, NoPacket

LEMMA WrittenType ==
  ASSUME TypeOK, NEW p \in Packets, NEW from \in Nat, NEW n \in Nat, NEW len \in Nat
  PROVE  Written(p, from, n, len) \in WireType
  BY DEF TypeOK, NetworkType, WireType, Written, Packets, NoPacket

-----------------------------------------------------------------------------
(* Type correctness, part by part and action by action.                      *)

(* A lost connection leaves the client well typed.                           *)
LEMMA MarkDisconnectedType ==
  ASSUME TypeOK, NEW b \in BackoffInitial..BackoffMax, NEW t \in Int,
         MarkDisconnected(b, t), UNCHANGED producer, lastIo' \in Int, now' \in Int
  PROVE  TypeOK'
  <1> USE DEF TypeOK, MarkDisconnected
  <1>1. SessionType'
    BY DEF SessionType, States
  <1>2. WorkBufferType'
    BY EmptyType DEF WorkBufferType, Controls
  <1>3. TimersType'
    BY ReconnectType DEF TimersType
  <1>4. QueueType'
    BY RewoundHeadType DEF QueueType, producer, SlotIndex
  <1>5. NetworkType'
    BY EmptyType, FreshWireType DEF NetworkType, CloseLink
  <1> QED
    BY <1>1, <1>2, <1>3, <1>4, <1>5

LEMMA SendControlType ==
  ASSUME TypeOK, NEW c \in {"CONNECT", "PINGREQ"}, NEW from \in Nat, NEW n \in Nat,
         NEW len \in Nat, NEW t \in Int, SendControl(c, from, len, n, t),
         UNCHANGED producer, now' \in Int,
         state' \in States, awaiting' \in BOOLEAN, rx' \in Seq(Bytes),
         connackDeadline' \in Int
  PROVE  TypeOK'
  <1> USE DEF TypeOK, SendControl
  <1>1. SessionType'
    BY DEF SessionType
  <1>2. WorkBufferType'
    BY DEF WorkBufferType, Controls
  <1>3. TimersType'
    BY DEF TimersType
  <1>4. QueueType'
    BY DEF QueueType, producer, queue
  <1>5. NetworkType'
    <2>1. <<c, 0>> \in Packets
      BY DEF Packets
    <2>2. wire' \in WireType
      BY <2>1, WrittenType
    <2> QED
      BY <2>2 DEF NetworkType
  <1> QED
    BY <1>1, <1>2, <1>3, <1>4, <1>5

LEMMA PublishEnqueueType == TypeOK /\ PublishEnqueue => TypeOK'
  <1> SUFFICES ASSUME TypeOK, PublishEnqueue PROVE TypeOK'
    OBVIOUS
  <1> USE DEF TypeOK, PublishEnqueue
  <1>1. SessionType' /\ WorkBufferType' /\ TimersType' /\ NetworkType'
    BY DEF SessionType, WorkBufferType, TimersType, NetworkType, session, control_,
           timers, network
  <1>2. QueueType'
    <2>1. CASE count >= SlotCount
      BY <2>1, SizesAssumption DEF QueueType, queue
    <2>2. CASE count < SlotCount
      <3>1. [msg |-> accepted + 1, sent |-> 0] \in SlotType
        BY SizesAssumption DEF QueueType, SlotType
      <3>2. tail' \in 0..SlotCount - 1
        BY <2>2, SuccessorType, SizesAssumption DEF QueueType
      <3>3. slots' \in [0..SlotCount - 1 -> SlotType]
        BY <2>2, <3>1, SizesAssumption DEF QueueType
      <3> QED
        BY <2>2, <3>2, <3>3, SizesAssumption DEF QueueType
    <2> QED
      BY <2>1, <2>2
  <1> QED
    BY <1>1, <1>2

LEMMA OpenedNetwork ==
  ASSUME NEW t, ConnectionOpened(t) PROVE NetworkType'
  <1>1. inbound' \in Seq(Bytes)
    BY SizesAssumption DEF ConnectionOpened
  <1>2. opening' \in Seq(Bytes)
    BY <1>1, FirstFourType DEF ConnectionOpened
  <1> QED
    BY <1>1, <1>2, FreshWireType DEF ConnectionOpened, NetworkType

LEMMA ConnectType ==
  ASSUME TypeOK, NEW fits \in BOOLEAN, NEW halOk \in BOOLEAN, NEW t \in Int,
         Connect(fits, halOk, t)
  PROVE  TypeOK'
  <1> USE DEF TypeOK, Connect
  <1>1. QueueType'
    BY RewoundHeadType DEF QueueType, SlotIndex, producer
  <1>2. CASE halOk /\ fits /\ ConnectionOpened(t) /\ backoff' = BackoffInitial
    <2> USE DEF ConnectionOpened
    <2>1. SessionType'
      BY <1>2 DEF SessionType, States
    <2>2. WorkBufferType'
      BY <1>2, EmptyType DEF WorkBufferType, Controls
    <2>3. TimersType'
      BY <1>2, BackoffInitialType DEF TimersType
    <2>4. NetworkType'
      BY <1>2, OpenedNetwork
    <2> QED
      BY <1>1, <2>1, <2>2, <2>3, <2>4
  <1>3. CASE /\ ConnectionRefused(BackoffInitial, t)
             /\ state' = "DISCONNECTED" /\ UNCHANGED awaiting
             /\ control' = "NONE" \/ control' = control
             /\ controlSent' = 0 \/ controlSent' = controlSent
             /\ rx' = <<>> \/ rx' = rx
    <2> USE DEF ConnectionRefused
    <2>1. SessionType'
      BY <1>3 DEF SessionType, States
    <2>2. WorkBufferType'
      <3>1. control' \in Controls /\ controlSent' \in Nat
        BY <1>3 DEF WorkBufferType, Controls
      <3>2. rx' \in Seq(Bytes)
        BY <1>3, EmptyType DEF WorkBufferType
      <3> QED
        BY <3>1, <3>2 DEF WorkBufferType
    <2>3. TimersType'
      <3>1. ScheduleReconnect(BackoffInitial, t)
        BY <1>3
      <3>2. reconnectAt' \in Int /\ backoff' \in BackoffInitial..BackoffMax
        BY <3>1, ReconnectType, BackoffInitialType
      <3> QED
        BY <1>3, <3>2 DEF TimersType
    <2>4. NetworkType'
      BY <1>3, EmptyType, FreshWireType DEF NetworkType, CloseLink
    <2> QED
      BY <1>1, <2>1, <2>2, <2>3, <2>4
  <1> QED
    BY <1>2, <1>3

LEMMA CloseType == TypeOK /\ Close => TypeOK'
  <1> SUFFICES ASSUME TypeOK, Close PROVE TypeOK'
    OBVIOUS
  <1> USE DEF TypeOK, Close
  <1>1. SessionType'
    BY DEF SessionType, States
  <1>2. WorkBufferType'
    BY EmptyType DEF WorkBufferType, Controls
  <1>3. TimersType'
    BY DEF TimersType, timers
  <1>4. QueueType'
    BY RewoundHeadType DEF QueueType, SlotIndex, producer
  <1>5. NetworkType'
    BY EmptyType, FreshWireType DEF NetworkType, CloseLink
  <1> QED
    BY <1>1, <1>2, <1>3, <1>4, <1>5

LEMMA PeerSendType ==
  ASSUME TypeOK, NEW p \in Seq(Bytes), PeerSend(p) PROVE TypeOK'
  <1>1. inbound \o p \in Seq(Bytes) /\ FirstFour(opening \o p) \in Seq(Bytes)
    BY ConcatType, FirstFourType DEF TypeOK, NetworkType
  <1>2. SessionType' /\ WorkBufferType' /\ TimersType' /\ QueueType'
    BY DEF TypeOK, PeerSend, SessionType, WorkBufferType, TimersType, QueueType,
           session, control_, timers, queue, producer
  <1>3. NetworkType'
    BY <1>1 DEF TypeOK, PeerSend, NetworkType
  <1> QED
    BY <1>2, <1>3 DEF TypeOK

(* The branches of proto_mqtt_poll, at a time t that is an integer.          *)
LEMMA UnchangedType ==
  ASSUME TypeOK, now' \in Int, UNCHANGED producer,
         UNCHANGED <<session, control_, rx, timers, queue, network, delivered>>
  PROVE  TypeOK'
  <1>1. SessionType' /\ WorkBufferType' /\ TimersType'
    BY DEF TypeOK, SessionType, WorkBufferType, TimersType, session, control_, timers
  <1>2. QueueType' /\ NetworkType'
    BY DEF TypeOK, QueueType, NetworkType, queue, producer, network
  <1> QED
    BY <1>1, <1>2 DEF TypeOK

LEMMA PollReconnectType ==
  ASSUME TypeOK, NEW t \in Int, NEW halOk \in BOOLEAN, PollReconnect(t, halOk),
         UNCHANGED producer, now' \in Int
  PROVE  TypeOK'
  <1> USE DEF TypeOK, PollReconnect
  <1>1. QueueType'
    BY DEF QueueType, queue, producer
  <1>2. CASE ConnectionOpened(t) /\ UNCHANGED backoff
    <2> USE DEF ConnectionOpened
    <2>1. SessionType'
      BY <1>2 DEF SessionType, States
    <2>2. WorkBufferType'
      BY <1>2, EmptyType DEF WorkBufferType, Controls
    <2>3. TimersType'
      BY <1>2 DEF TimersType
    <2>4. NetworkType'
      BY <1>2, OpenedNetwork
    <2> QED
      BY <1>1, <2>1, <2>2, <2>3, <2>4
  <1>3. CASE ConnectionRefused(backoff, t) /\ UNCHANGED <<state, awaiting, control_, rx>>
    <2> USE DEF ConnectionRefused
    <2>1. SessionType'
      BY <1>3 DEF SessionType
    <2>2. WorkBufferType'
      BY <1>3 DEF WorkBufferType, control_
    <2>3. TimersType'
      <3>1. ScheduleReconnect(backoff, t) /\ backoff \in BackoffInitial..BackoffMax
        BY <1>3 DEF TimersType
      <3>2. reconnectAt' \in Int /\ backoff' \in BackoffInitial..BackoffMax
        BY <3>1, ReconnectType
      <3> QED
        BY <1>3, <3>2 DEF TimersType
    <2>4. NetworkType'
      BY <1>3, EmptyType, FreshWireType DEF NetworkType, CloseLink
    <2> QED
      BY <1>1, <2>1, <2>2, <2>3, <2>4
  <1> QED
    BY <1>2, <1>3

LEMMA SendConnectType ==
  ASSUME TypeOK, NEW t \in Int, SendConnect(t), UNCHANGED producer, now' \in Int
  PROVE  TypeOK'
  <1>1. PICK n \in 1..(ConnectLen - controlSent) :
          /\ SendControl("CONNECT", controlSent, ConnectLen, n, t)
          /\ IF controlSent + n = ConnectLen
             THEN /\ state' = "WAITING_CONNACK"
                  /\ connackDeadline' = Clock(t + ConnectTimeout)
                  /\ rx' = <<>>
             ELSE UNCHANGED <<state, connackDeadline, rx>>
    BY DEF SendConnect
  <1>2. controlSent \in Nat /\ n \in Nat /\ ConnectLen \in Nat
    BY SizesAssumption DEF TypeOK, WorkBufferType
  <1>3. t + ConnectTimeout \in Int
    BY TimersAssumption
  <1>4. connackDeadline' \in Int
    BY <1>1, <1>3, ClockInt DEF TypeOK, TimersType
  <1>5. state' \in States
    BY <1>1 DEF TypeOK, SessionType, States
  <1>6. rx' \in Seq(Bytes)
    BY <1>1, EmptyType DEF TypeOK, WorkBufferType
  <1>7. awaiting' \in BOOLEAN
    BY DEF SendConnect, TypeOK, SessionType
  <1> QED
    BY <1>1, <1>2, <1>4, <1>5, <1>6, <1>7, SendControlType

LEMMA ReceiveConnackType ==
  ASSUME TypeOK, NEW t \in Int, ReceiveConnack(t), UNCHANGED producer, now' = t
  PROVE  TypeOK'
  <1>1. PICK n \in Receivable :
          LET b == Received(n) IN
          \/ MarkDisconnected(backoff, t) /\ UNCHANGED lastIo
          \/ /\ rx' = b
             /\ inbound' = Unreceived(n)
             /\ UNCHANGED <<session, control_, timers, queue, linkUp, wire,
                            opening, delivered>>
          \/ /\ state' = "CONNECTED"
             /\ connected' = TRUE
             /\ backoff' = BackoffInitial
             /\ lastIo' = t
             /\ awaiting' = IF SomePingresp(AfterConnack(b)) THEN FALSE ELSE awaiting
             /\ rx' = LoneByte(AfterConnack(b))
             /\ inbound' = Unreceived(n)
             /\ UNCHANGED <<configured, idFits, control_, reconnectAt,
                            connackDeadline, queue, linkUp, wire, opening,
                            delivered>>
          \/ MarkDisconnected(BackoffInitial, t) /\ lastIo' = t
    BY DEF ReceiveConnack, TakeConnack
  <1> DEFINE b == Received(n)
  <1>2. b \in Seq(Bytes) /\ Unreceived(n) \in Seq(Bytes)
    BY ReceivedType
  <1>3. AfterConnack(b) \in Seq(Bytes)
    BY <1>2, AfterConnackType
  <1>4. LoneByte(AfterConnack(b)) \in Seq(Bytes)
    BY <1>3, LoneByteType
  <1>5. backoff \in BackoffInitial..BackoffMax /\ lastIo \in Int
    BY DEF TypeOK, TimersType
  <1>6. CASE MarkDisconnected(backoff, t) /\ UNCHANGED lastIo
    BY <1>5, <1>6, MarkDisconnectedType
  <1>7. CASE MarkDisconnected(BackoffInitial, t) /\ lastIo' = t
    BY <1>7, BackoffInitialType, MarkDisconnectedType
  <1>8. CASE /\ rx' = b
             /\ inbound' = Unreceived(n)
             /\ UNCHANGED <<session, control_, timers, queue, linkUp, wire,
                            opening, delivered>>
    <2> USE DEF TypeOK
    <2>1. SessionType'
      BY <1>8 DEF SessionType, session
    <2>2. WorkBufferType'
      BY <1>2, <1>8 DEF WorkBufferType, control_
    <2>3. TimersType'
      BY <1>8 DEF TimersType, timers
    <2>4. QueueType'
      BY <1>8 DEF QueueType, queue, producer
    <2>5. NetworkType'
      BY <1>2, <1>8 DEF NetworkType
    <2> QED
      BY <2>1, <2>2, <2>3, <2>4, <2>5
  <1>9. CASE /\ state' = "CONNECTED"
             /\ connected' = TRUE
             /\ backoff' = BackoffInitial
             /\ lastIo' = t
             /\ awaiting' = IF SomePingresp(AfterConnack(b)) THEN FALSE ELSE awaiting
             /\ rx' = LoneByte(AfterConnack(b))
             /\ inbound' = Unreceived(n)
             /\ UNCHANGED <<configured, idFits, control_, reconnectAt,
                            connackDeadline, queue, linkUp, wire, opening,
                            delivered>>
    <2> USE DEF TypeOK
    <2>1. SessionType'
      BY <1>9 DEF SessionType, States
    <2>2. WorkBufferType'
      BY <1>4, <1>9 DEF WorkBufferType, control_
    <2>3. TimersType'
      BY <1>9, BackoffInitialType DEF TimersType
    <2>4. QueueType'
      BY <1>9 DEF QueueType, queue, producer
    <2>5. NetworkType'
      BY <1>2, <1>9 DEF NetworkType
    <2> QED
      BY <2>1, <2>2, <2>3, <2>4, <2>5
  <1> QED
    BY <1>1, <1>6, <1>7, <1>8, <1>9

LEMMA ReceiveConnectedType ==
  ASSUME TypeOK, NEW t \in Int, ReceiveConnected(t), UNCHANGED producer, now' = t
  PROVE  TypeOK'
  <1>1. PICK n \in Receivable :
          LET b == Received(n) IN
          /\ lastIo' = IF SomePingresp(b) THEN t ELSE lastIo
          /\ \/ /\ rx' = LoneByte(b)
                /\ awaiting' = IF SomePingresp(b) THEN FALSE ELSE awaiting
                /\ inbound' = Unreceived(n)
                /\ UNCHANGED <<configured, idFits, state, connected, control_,
                               reconnectAt, backoff, connackDeadline, queue,
                               linkUp, wire, opening, delivered>>
             \/ MarkDisconnected(backoff, t)
    BY DEF ReceiveConnected, TakeConnected
  <1> DEFINE b == Received(n)
  <1>2. b \in Seq(Bytes) /\ Unreceived(n) \in Seq(Bytes)
    BY ReceivedType
  <1>3. LoneByte(b) \in Seq(Bytes)
    BY <1>2, LoneByteType
  <1>4. backoff \in BackoffInitial..BackoffMax /\ lastIo' \in Int
    BY <1>1 DEF TypeOK, TimersType
  <1>5. CASE MarkDisconnected(backoff, t)
    BY <1>4, <1>5, MarkDisconnectedType
  <1>6. CASE /\ rx' = LoneByte(b)
             /\ awaiting' = IF SomePingresp(b) THEN FALSE ELSE awaiting
             /\ inbound' = Unreceived(n)
             /\ UNCHANGED <<configured, idFits, state, connected, control_,
                            reconnectAt, backoff, connackDeadline, queue,
                            linkUp, wire, opening, delivered>>
    <2> USE DEF TypeOK
    <2>1. SessionType'
      BY <1>6 DEF SessionType
    <2>2. WorkBufferType'
      BY <1>3, <1>6 DEF WorkBufferType, control_
    <2>3. TimersType'
      BY <1>4, <1>6 DEF TimersType
    <2>4. QueueType'
      BY <1>6 DEF QueueType, queue, producer
    <2>5. NetworkType'
      BY <1>2, <1>6 DEF NetworkType
    <2> QED
      BY <2>1, <2>2, <2>3, <2>4, <2>5
  <1> QED
    BY <1>1, <1>5, <1>6

LEMMA SendPingRestType ==
  ASSUME TypeOK, NEW t \in Int, SendPingRest(t), UNCHANGED producer, now' \in Int
  PROVE  TypeOK'
  <1>1. PICK n \in 1..(PingLen - controlSent) :
          SendControl(control, controlSent, PingLen, n, t)
    BY DEF SendPingRest
  <1>2. controlSent \in Nat /\ n \in Nat /\ PingLen \in Nat
    BY DEF TypeOK, WorkBufferType, PingLen
  <1>3. control \in {"CONNECT", "PINGREQ"}
    BY DEF SendPingRest, TypeOK, WorkBufferType, Controls
  <1>4. /\ state' \in States /\ awaiting' \in BOOLEAN
        /\ rx' \in Seq(Bytes) /\ connackDeadline' \in Int
    BY DEF SendPingRest, TypeOK, SessionType, WorkBufferType, TimersType
  <1> QED
    BY <1>1, <1>2, <1>3, <1>4, SendControlType

LEMMA StartPingType ==
  ASSUME TypeOK, NEW t \in Int, StartPing(t), UNCHANGED producer, now' \in Int
  PROVE  TypeOK'
  <1>1. PICK n \in 1..PingLen : SendControl("PINGREQ", 0, PingLen, n, t)
    BY DEF StartPing
  <1>2. n \in Nat /\ PingLen \in Nat
    BY DEF PingLen
  <1>3. /\ state' \in States /\ awaiting' \in BOOLEAN
        /\ rx' \in Seq(Bytes) /\ connackDeadline' \in Int
    BY DEF StartPing, TypeOK, SessionType, WorkBufferType, TimersType
  <1> QED
    BY <1>1, <1>2, <1>3, SendControlType

LEMMA SendPublishType ==
  ASSUME TypeOK, NEW t \in Int, SendPublish(t), UNCHANGED producer, now' \in Int
  PROVE  TypeOK'
  <1>1. PICK n \in 1..(PublishLen - slots[head].sent) :
          /\ wire' = Written(<<"PUBLISH", slots[head].msg>>, slots[head].sent, n,
                             PublishLen)
          /\ \/ /\ slots[head].sent + n < PublishLen
                /\ slots' = [slots EXCEPT ![head].sent = slots[head].sent + n]
                /\ UNCHANGED <<head, count, delivered>>
             \/ /\ slots' = [slots EXCEPT ![head] = EmptySlot]
                /\ head' = Successor(head)
                /\ count' = count - 1
                /\ delivered' = Append(delivered, slots[head].msg)
    BY DEF SendPublish
  <1>2. /\ slots \in [SlotIndex -> SlotType] /\ head \in SlotIndex
        /\ slots[head] \in SlotType
    BY DEF TypeOK, QueueType, SlotIndex
  <1>3. /\ slots[head].msg \in Nat /\ slots[head].sent \in Nat
        /\ n \in Nat /\ n >= 1 /\ PublishLen \in Nat
    BY <1>2, SizesAssumption DEF SlotType
  <1>4. SessionType' /\ WorkBufferType' /\ TimersType'
    BY DEF TypeOK, SendPublish, SessionType, WorkBufferType, TimersType, session,
           control_
  <1>5. NetworkType'
    <2>1. <<"PUBLISH", slots[head].msg>> \in Packets
      BY <1>3 DEF Packets
    <2>2. wire' \in WireType
      BY <1>1, <1>3, <2>1, WrittenType
    <2> QED
      BY <2>2 DEF TypeOK, SendPublish, NetworkType
  <1>6. QueueType'
    <2>1. tail' \in 0..SlotCount - 1 /\ dropped' \in 0..MaxDropped
          /\ accepted' \in 0..MaxMsgs
      BY DEF TypeOK, QueueType, SendPublish, producer
    <2>2. CASE /\ slots[head].sent + n < PublishLen
               /\ slots' = [slots EXCEPT ![head].sent = slots[head].sent + n]
               /\ UNCHANGED <<head, count, delivered>>
      <3>1. slots[head].sent + n \in 0..PublishLen - 1
        BY <1>3, <2>2
      <3>2. slots' \in [SlotIndex -> SlotType]
        BY <1>2, <2>2, <3>1, SlotSent
      <3> QED
        BY <2>1, <2>2, <3>2 DEF TypeOK, QueueType, SlotIndex
    <2>3. CASE /\ slots' = [slots EXCEPT ![head] = EmptySlot]
               /\ head' = Successor(head)
               /\ count' = count - 1
               /\ delivered' = Append(delivered, slots[head].msg)
      <3>1. EmptySlot \in SlotType
        BY SizesAssumption DEF EmptySlot, SlotType
      <3>2. slots' \in [SlotIndex -> SlotType]
        BY <1>2, <2>3, <3>1
      <3>3. head' \in 0..SlotCount - 1
        BY <1>2, <2>3, SuccessorType DEF SlotIndex
      <3>4. count' \in 0..SlotCount
        <4>1. count > 0 /\ count \in 0..SlotCount
          BY DEF TypeOK, QueueType, SendPublish
        <4> QED
          BY <2>3, <4>1, SizesAssumption
      <3>5. delivered' \in Seq(Nat)
        BY <1>3, <2>3 DEF TypeOK, QueueType
      <3> QED
        BY <2>1, <3>2, <3>3, <3>4, <3>5 DEF QueueType, SlotIndex
    <2> QED
      BY <1>1, <2>2, <2>3
  <1> QED
    BY <1>4, <1>5, <1>6 DEF TypeOK

(* Every poll, whatever the HAL does.                                        *)
LEMMA PollType ==
  ASSUME TypeOK, NEW t \in Int, PollServed(t) \/ PollFailed(t)
  PROVE  TypeOK'
  <1> USE DEF PollServed, PollFailed
  <1>1. now' = t /\ UNCHANGED producer
    OBVIOUS
  <1>2. backoff \in BackoffInitial..BackoffMax /\ lastIo \in Int
    BY DEF TypeOK, TimersType
  <1>3. CASE PollUnconfigured \/ PollTooEarly(t) \/ NothingToRead(t)
    BY <1>1, <1>3, UnchangedType DEF PollUnconfigured, PollTooEarly, NothingToRead
  <1>4. CASE PollReconnect(t, TRUE) \/ PollReconnect(t, FALSE)
    BY <1>1, <1>4, PollReconnectType
  <1>5. CASE SendConnect(t)
    BY <1>1, <1>5, SendConnectType
  <1>6. CASE ConnackTimeout(t) \/ PingTimeout(t) \/ HalFault(t)
    BY <1>1, <1>2, <1>6, MarkDisconnectedType DEF ConnackTimeout, PingTimeout, HalFault
  <1>7. CASE ReceiveConnack(t)
    BY <1>1, <1>7, ReceiveConnackType
  <1>8. CASE ReceiveConnected(t)
    BY <1>1, <1>8, ReceiveConnectedType
  <1>9. CASE SendPingRest(t)
    BY <1>1, <1>9, SendPingRestType
  <1>10. CASE SendPublish(t)
    BY <1>1, <1>10, SendPublishType
  <1>11. CASE StartPing(t)
    BY <1>1, <1>11, StartPingType
  <1> QED
    BY <1>3, <1>4, <1>5, <1>6, <1>7, <1>8, <1>9, <1>10, <1>11

LEMMA ClockGap == ASSUME TypeOK, NEW d \in PollGaps PROVE Clock(now + d) \in Int
  <1>1. now + d \in Int
    BY TimersAssumption DEF TypeOK, TimersType
  <1> QED
    BY <1>1, ClockInt

LEMMA InitType == Init => TypeOK
  <1> SUFFICES ASSUME Init PROVE TypeOK
    OBVIOUS
  <1>1. SessionType /\ WorkBufferType
    BY EmptyType DEF Init, SessionType, WorkBufferType, States, Controls
  <1>2. TimersType
    BY TimersAssumption, BackoffInitialType DEF Init, TimersType
  <1>3. QueueType
    <2>1. EmptySlot \in SlotType
      BY SizesAssumption DEF EmptySlot, SlotType
    <2>2. slots \in [0..SlotCount - 1 -> SlotType]
      BY <2>1 DEF Init
    <2>3. /\ head \in 0..SlotCount - 1 /\ tail \in 0..SlotCount - 1
          /\ count \in 0..SlotCount
          /\ dropped \in 0..MaxDropped /\ accepted \in 0..MaxMsgs
      BY SizesAssumption DEF Init
    <2>4. delivered \in Seq(Nat)
      BY EmptyType DEF Init
    <2> QED
      BY <2>2, <2>3, <2>4 DEF QueueType
  <1>4. NetworkType
    BY EmptyType, FreshWireType DEF Init, NetworkType
  <1> QED
    BY <1>1, <1>2, <1>3, <1>4 DEF TypeOK

LEMMA NextType == TypeOK /\ [Next]_vars => TypeOK'
  <1> SUFFICES ASSUME TypeOK, [Next]_vars PROVE TypeOK'
    OBVIOUS
  <1>1. CASE PublishEnqueue
    BY <1>1, PublishEnqueueType
  <1>2. ASSUME NEW fits \in BOOLEAN, NEW halOk \in BOOLEAN, NEW d \in PollGaps,
               Connect(fits, halOk, Clock(now + d))
        PROVE  TypeOK'
    BY <1>2, ClockGap, ConnectType
  <1>3. CASE Close
    BY <1>3, CloseType
  <1>4. ASSUME NEW d \in PollGaps,
               PollServed(Clock(now + d)) \/ PollFailed(Clock(now + d))
        PROVE  TypeOK'
    BY <1>4, ClockGap, PollType
  <1>5. ASSUME NEW p \in PeerPackets, PeerSend(p) PROVE TypeOK'
    BY <1>5, PeerSendType, SizesAssumption
  <1>6. CASE UNCHANGED vars
    BY <1>6, UnchangedType DEF vars, TypeOK, TimersType
  <1> QED
    BY <1>1, <1>2, <1>3, <1>4, <1>5, <1>6 DEF Next, Application

(* Every reachable state is well typed: the backoff stays in its range, no    *)
(* ring index leaves the ring, and no slot claims to be sent in full.         *)
THEOREM TypeCorrect == Spec => []TypeOK
  <1>1. Init => TypeOK
    BY InitType
  <1>2. TypeOK /\ [Next]_vars => TypeOK'
    BY NextType
  <1> QED
    BY <1>1, <1>2, PTL DEF Spec

-----------------------------------------------------------------------------
(* The stage invariant: in each state of the protocol machine, what the      *)
(* client holds agrees with what the peer has got.  The part of a packet the *)
(* peer has is exactly the part the client counts as sent.                   *)

PartOf(packet, sent) ==
  IF sent = 0 THEN wire.packet = NoPacket
  ELSE wire.packet = packet /\ wire.got = sent

NothingInFlight == \A i \in SlotIndex : slots[i].sent = 0
OnlyHeadInFlight == \A i \in SlotIndex : i # head => slots[i].sent = 0

StageDisconnected ==
  /\ ~linkUp /\ ~connected /\ wire = FreshWire
  /\ control = "NONE" /\ rx = <<>>
  /\ NothingInFlight

StageSending ==
  /\ linkUp /\ ~connected /\ configured /\ ~wire.greeted /\ wire.intact
  /\ control = "CONNECT" /\ controlSent < ConnectLen /\ rx = <<>>
  /\ PartOf(<<"CONNECT", 0>>, controlSent)
  /\ NothingInFlight

StageWaiting ==
  /\ linkUp /\ ~connected /\ configured /\ wire.greeted /\ wire.intact
  /\ control = "NONE" /\ Len(rx) <= 3
  /\ wire.packet = NoPacket
  /\ NothingInFlight

StageConnected ==
  /\ linkUp /\ connected /\ configured /\ wire.greeted /\ wire.intact
  /\ Len(rx) <= 1
  /\ \/ /\ control = "NONE"
        /\ wire.packet = NoPacket
        /\ NothingInFlight
     \/ /\ control = "NONE" /\ rx = <<>> /\ ~awaiting
        /\ count > 0 /\ slots[head].sent > 0
        /\ PartOf(<<"PUBLISH", slots[head].msg>>, slots[head].sent)
        /\ OnlyHeadInFlight
     \/ /\ control = "PINGREQ" /\ rx = <<>> /\ awaiting
        /\ controlSent > 0 /\ controlSent < PingLen
        /\ PartOf(<<"PINGREQ", 0>>, controlSent)
        /\ NothingInFlight

StageInv ==
  /\ state = "DISCONNECTED" => StageDisconnected
  /\ state = "SENDING_CONNECT" => StageSending
  /\ state = "WAITING_CONNACK" => StageWaiting
  /\ state = "CONNECTED" => StageConnected

(* The ring invariant: messages are numbered as accepted, those delivered    *)
(* come first, and the ring holds the rest from head on.                     *)
Position(h, k) == IF h + k < SlotCount THEN h + k ELSE h + k - SlotCount

RingInv ==
  /\ tail = Position(head, count)
  /\ Len(delivered) + count = accepted
  /\ \A k \in 1..Len(delivered) : delivered[k] = k
  /\ \A k \in 0..count - 1 : slots[Position(head, k)].msg = Len(delivered) + k + 1

LEMMA StageFlight ==
  ASSUME TypeOK, StageInv
  PROVE  OnlyHeadInFlight /\ (count = 0 => NothingInFlight)
  <1> USE DEF NothingInFlight, OnlyHeadInFlight
  <1>1. state \in States
    BY DEF TypeOK, SessionType
  <1>2. CASE state # "CONNECTED"
    BY <1>1, <1>2 DEF StageInv, States, StageDisconnected, StageSending, StageWaiting
  <1>3. CASE state = "CONNECTED"
    BY <1>3 DEF StageInv, StageConnected
  <1> QED
    BY <1>2, <1>3

(* Rewinding the head slot leaves no slot in flight.                          *)
LEMMA RewoundFlight ==
  ASSUME TypeOK, StageInv
  PROVE  \A i \in SlotIndex : RewoundHead[i].sent = 0
  <1>1. OnlyHeadInFlight /\ (count = 0 => NothingInFlight)
    BY StageFlight
  <1>2. /\ 0 \in 0..PublishLen - 1 /\ slots \in [SlotIndex -> SlotType]
        /\ head \in SlotIndex /\ count \in Nat
    BY SizesAssumption DEF TypeOK, QueueType, SlotIndex
  <1>3. CASE count > 0
    <2> DEFINE r == [slots EXCEPT ![head].sent = 0]
    <2>1. r[head] = [msg |-> slots[head].msg, sent |-> 0]
      BY <1>2, SlotSent
    <2>2. \A i \in SlotIndex : i # head => r[i] = slots[i]
      BY <1>2, SlotSent
    <2>3. \A i \in SlotIndex : r[i].sent = 0
      BY <1>1, <2>1, <2>2 DEF OnlyHeadInFlight
    <2> QED
      BY <1>3, <2>3 DEF RewoundHead
  <1>4. CASE ~(count > 0)
    BY <1>1, <1>2, <1>4 DEF RewoundHead, NothingInFlight
  <1> QED
    BY <1>3, <1>4

(* Writing the next part of the packet the peer has part of keeps the stream *)
(* intact.                                                                   *)
LEMMA WrittenNext ==
  ASSUME NEW p, NEW from \in Nat, NEW n \in Nat, NEW len \in Nat,
         n >= 1, from + n <= len, wire.intact, PartOf(p, from),
         p[1] = "CONNECT" <=> ~wire.greeted,
         wire' = Written(p, from, n, len)
  PROVE  /\ wire'.intact
         /\ wire'.greeted <=> (wire.greeted \/ from + n = len)
         /\ from + n = len => wire'.packet = NoPacket
         /\ from + n # len => wire'.packet = p /\ wire'.got = from + n
  BY DEF Written, PartOf

LEMMA MarkDisconnectedStage ==
  ASSUME TypeOK, StageInv, NEW b, NEW t, MarkDisconnected(b, t)
  PROVE  StageInv'
  <1>1. NothingInFlight'
    BY RewoundFlight DEF NothingInFlight, MarkDisconnected
  <1>2. StageDisconnected' /\ state' = "DISCONNECTED"
    BY <1>1 DEF StageDisconnected, MarkDisconnected, CloseLink
  <1> QED
    BY <1>2 DEF StageInv

LEMMA OpenedStage ==
  ASSUME ConnectionOpened(now'), configured', NothingInFlight'
  PROVE  StageInv'
  <1>1. StageSending' /\ state' = "SENDING_CONNECT"
    BY SizesAssumption DEF ConnectionOpened, StageSending, FreshWire, PartOf
  <1> QED
    BY <1>1 DEF StageInv

LEMMA RefusedStage ==
  ASSUME NEW b, NEW t, ConnectionRefused(b, t), state' = "DISCONNECTED",
         NothingInFlight', control' = "NONE", rx' = <<>>
  PROVE  StageInv'
  <1>1. StageDisconnected'
    BY DEF StageDisconnected, ConnectionRefused, CloseLink
  <1> QED
    BY <1>1 DEF StageInv

LEMMA ConnectStage ==
  ASSUME TypeOK, StageInv, NEW fits \in BOOLEAN, NEW halOk \in BOOLEAN, NEW t \in Int,
         Connect(fits, halOk, t)
  PROVE  StageInv'
  <1>1. NothingInFlight'
    <2>1. CASE state # "DISCONNECTED"
      BY <2>1, RewoundFlight DEF Connect, NothingInFlight
    <2>2. CASE state = "DISCONNECTED"
      BY <2>2 DEF Connect, StageInv, StageDisconnected, NothingInFlight
    <2> QED
      BY <2>1, <2>2
  <1>2. now' = t /\ configured'
    BY DEF Connect
  <1>3. CASE ConnectionOpened(t)
    BY <1>1, <1>2, <1>3, OpenedStage
  <1>4. CASE ~ConnectionOpened(t)
    <2>1. ConnectionRefused(BackoffInitial, t) /\ state' = "DISCONNECTED"
      BY <1>4 DEF Connect
    <2>2. control' = "NONE" /\ rx' = <<>>
      BY <1>4 DEF Connect, StageInv, StageDisconnected
    <2> QED
      BY <1>1, <2>1, <2>2, RefusedStage
  <1> QED
    BY <1>3, <1>4

LEMMA PollReconnectStage ==
  ASSUME TypeOK, StageInv, NEW t \in Int, NEW halOk \in BOOLEAN,
         PollReconnect(t, halOk), now' = t, configured
  PROVE  StageInv'
  <1>1. StageDisconnected
    BY DEF PollReconnect, StageInv
  <1>2. NothingInFlight'
    BY <1>1 DEF PollReconnect, StageDisconnected, NothingInFlight, queue
  <1>3. CASE ConnectionOpened(t)
    BY <1>2, <1>3, OpenedStage DEF PollReconnect
  <1>4. CASE ~ConnectionOpened(t)
    BY <1>1, <1>2, <1>4, RefusedStage DEF PollReconnect, StageDisconnected, control_
  <1> QED
    BY <1>3, <1>4

LEMMA CloseStage == TypeOK /\ StageInv /\ Close => StageInv'
  <1> SUFFICES ASSUME TypeOK, StageInv, Close PROVE StageInv'
    OBVIOUS
  <1>1. NothingInFlight'
    BY RewoundFlight DEF NothingInFlight, Close
  <1>2. StageDisconnected' /\ state' = "DISCONNECTED"
    BY <1>1 DEF StageDisconnected, Close, CloseLink
  <1> QED
    BY <1>2 DEF StageInv

(* Steps that leave alone all that the stages speak of.                      *)
LEMMA UnchangedStage ==
  ASSUME StageInv,
         UNCHANGED <<configured, state, connected, awaiting, control, controlSent,
                     rx, slots, head, count, linkUp, wire>>
  PROVE  StageInv'
  BY DEF StageInv, StageDisconnected, StageSending, StageWaiting, StageConnected,
         NothingInFlight, OnlyHeadInFlight, PartOf

(* A message enters a free slot, which is not the one being sent.            *)
LEMMA PublishEnqueueStage ==
  ASSUME TypeOK, StageInv, RingInv, PublishEnqueue PROVE StageInv'
  <1>1. CASE UNCHANGED queue
    BY <1>1, UnchangedStage DEF PublishEnqueue, session, control_, queue, network
  <1>2. CASE /\ count < SlotCount
             /\ slots' = [slots EXCEPT ![tail] = [msg |-> accepted + 1, sent |-> 0]]
             /\ count' = count + 1 /\ head' = head
    <2>1. /\ slots \in [SlotIndex -> SlotType] /\ head \in SlotIndex
          /\ tail \in SlotIndex /\ count \in Nat
      BY SizesAssumption DEF TypeOK, QueueType, SlotIndex
    <2>2. \A i \in SlotIndex : slots[i].sent = 0 => slots'[i].sent = 0
      BY <1>2, <2>1
    <2>3. count > 0 => slots'[head] = slots[head]
      <3>1. count > 0 => tail # head
        BY <1>2, <2>1, SizesAssumption DEF RingInv, Position, SlotIndex
      <3> QED
        BY <1>2, <2>1, <3>1
    <2>4. /\ NothingInFlight => NothingInFlight'
          /\ OnlyHeadInFlight => OnlyHeadInFlight'
          /\ count > 0 => count' > 0
      BY <1>2, <2>1, <2>2 DEF NothingInFlight, OnlyHeadInFlight
    <2>5. UNCHANGED <<configured, state, connected, awaiting, control, controlSent,
                      rx, linkUp, wire>>
      BY DEF PublishEnqueue, session, control_, network
    <2> QED
      BY <1>2, <2>3, <2>4, <2>5
         DEF StageInv, StageDisconnected, StageSending, StageWaiting, StageConnected,
             PartOf
  <1> QED
    BY <1>1, <1>2 DEF PublishEnqueue

LEMMA SendConnectStage ==
  ASSUME TypeOK, StageInv, NEW t \in Int, SendConnect(t) PROVE StageInv'
  <1>1. PICK n \in 1..(ConnectLen - controlSent) :
          /\ SendControl("CONNECT", controlSent, ConnectLen, n, t)
          /\ IF controlSent + n = ConnectLen
             THEN /\ state' = "WAITING_CONNACK"
                  /\ connackDeadline' = Clock(t + ConnectTimeout)
                  /\ rx' = <<>>
             ELSE UNCHANGED <<state, connackDeadline, rx>>
    BY DEF SendConnect
  <1>2. StageSending /\ state = "SENDING_CONNECT"
    BY DEF SendConnect, StageInv
  <1>3. /\ controlSent \in Nat /\ ConnectLen \in Nat /\ n \in Nat
        /\ n >= 1 /\ controlSent + n <= ConnectLen
    BY SizesAssumption DEF TypeOK, WorkBufferType
  <1>4. wire' = Written(<<"CONNECT", 0>>, controlSent, n, ConnectLen)
    BY <1>1 DEF SendControl
  <1>5. <<"CONNECT", 0>>[1] = "CONNECT"
    OBVIOUS
  <1>6. wire.intact /\ ~wire.greeted /\ PartOf(<<"CONNECT", 0>>, controlSent)
    BY <1>2 DEF StageSending
  <1>7. /\ wire'.intact
        /\ wire'.greeted <=> controlSent + n = ConnectLen
        /\ controlSent + n = ConnectLen => wire'.packet = NoPacket
        /\ controlSent + n # ConnectLen =>
             wire'.packet = <<"CONNECT", 0>> /\ wire'.got = controlSent + n
    BY <1>3, <1>4, <1>5, <1>6, WrittenNext
  <1>8. NothingInFlight' /\ UNCHANGED <<linkUp, connected, configured>>
    BY <1>1, <1>2 DEF SendControl, StageSending, NothingInFlight, queue
  <1>9. CASE controlSent + n = ConnectLen
    <2>1. state' = "WAITING_CONNACK" /\ rx' = <<>> /\ control' = "NONE"
      BY <1>1, <1>9 DEF SendControl
    <2>2. StageWaiting'
      BY <1>2, <1>7, <1>8, <1>9, <2>1 DEF StageWaiting, StageSending
    <2> QED
      BY <2>1, <2>2 DEF StageInv
  <1>10. CASE controlSent + n # ConnectLen
    <2>1. /\ state' = state /\ rx' = rx /\ control' = "CONNECT"
          /\ controlSent' = controlSent + n
      BY <1>1, <1>10 DEF SendControl
    <2>2. PartOf(<<"CONNECT", 0>>, controlSent)'
      BY <1>3, <1>7, <1>10, <2>1 DEF PartOf
    <2>3. StageSending'
      BY <1>2, <1>3, <1>7, <1>8, <1>10, <2>1, <2>2 DEF StageSending
    <2> QED
      BY <1>2, <2>1, <2>3 DEF StageInv
  <1> QED
    BY <1>9, <1>10

LEMMA ReceiveConnackStage ==
  ASSUME TypeOK, StageInv, NEW t \in Int, ReceiveConnack(t) PROVE StageInv'
  <1>1. state = "WAITING_CONNACK" /\ StageWaiting
    BY DEF ReceiveConnack, WaitsForConnack, StageInv
  <1>2. PICK n \in Receivable :
          LET b == Received(n) IN
          \/ \E bk : MarkDisconnected(bk, t)
          \/ /\ Len(b) < 4 /\ rx' = b
             /\ UNCHANGED <<session, control_, timers, queue, linkUp, wire,
                            opening, delivered>>
          \/ /\ state' = "CONNECTED" /\ connected' = TRUE
             /\ rx' = LoneByte(AfterConnack(b))
             /\ UNCHANGED <<configured, idFits, control_, reconnectAt,
                            connackDeadline, queue, linkUp, wire, opening,
                            delivered>>
    BY DEF ReceiveConnack, TakeConnack
  <1> DEFINE b == Received(n)
  <1>3. b \in Seq(Bytes) /\ Len(b) \in Nat
    BY ReceivedType
  <1>4. CASE \E bk : MarkDisconnected(bk, t)
    BY <1>4, MarkDisconnectedStage
  <1>5. CASE /\ Len(b) < 4 /\ rx' = b
             /\ UNCHANGED <<session, control_, timers, queue, linkUp, wire,
                            opening, delivered>>
    <2>1. Len(rx') <= 3
      BY <1>3, <1>5
    <2>2. StageWaiting' /\ state' = "WAITING_CONNACK"
      BY <1>1, <1>5, <2>1 DEF StageWaiting, NothingInFlight, session, control_, queue
    <2> QED
      BY <2>2 DEF StageInv
  <1>6. CASE /\ state' = "CONNECTED" /\ connected' = TRUE
             /\ rx' = LoneByte(AfterConnack(b))
             /\ UNCHANGED <<configured, idFits, control_, reconnectAt,
                            connackDeadline, queue, linkUp, wire, opening,
                            delivered>>
    <2>1. Len(rx') <= 1
      BY <1>3, <1>6, AfterConnackType, LoneByteType
    <2>2. StageConnected'
      BY <1>1, <1>6, <2>1 DEF StageWaiting, StageConnected, NothingInFlight,
                              control_, queue
    <2> QED
      BY <1>6, <2>2 DEF StageInv
  <1> QED
    BY <1>2, <1>4, <1>5, <1>6

LEMMA ReceiveConnectedStage ==
  ASSUME TypeOK, StageInv, NEW t \in Int, ReceiveConnected(t) PROVE StageInv'
  <1>1. /\ state = "CONNECTED" /\ StageConnected /\ control = "NONE"
        /\ AnswerDue \/ count = 0
    BY DEF ReceiveConnected, LooksForBytes, Serves, StageInv
  <1>2. wire.packet = NoPacket /\ NothingInFlight
    BY <1>1 DEF StageConnected, AnswerDue, TypeOK, QueueType
  <1>3. PICK n \in Receivable :
          LET b == Received(n) IN
          \/ MarkDisconnected(backoff, t)
          \/ /\ rx' = LoneByte(b)
             /\ UNCHANGED <<configured, idFits, state, connected, control_,
                            reconnectAt, backoff, connackDeadline, queue,
                            linkUp, wire, opening, delivered>>
    BY DEF ReceiveConnected, TakeConnected
  <1>4. CASE MarkDisconnected(backoff, t)
    BY <1>4, MarkDisconnectedStage
  <1>5. CASE /\ rx' = LoneByte(Received(n))
             /\ UNCHANGED <<configured, idFits, state, connected, control_,
                            reconnectAt, backoff, connackDeadline, queue,
                            linkUp, wire, opening, delivered>>
    <2>1. Len(rx') <= 1
      BY <1>5, ReceivedType, LoneByteType
    <2>2. StageConnected'
      BY <1>1, <1>2, <1>5, <2>1 DEF StageConnected, NothingInFlight, control_, queue
    <2> QED
      BY <1>1, <1>5, <2>2 DEF StageInv
  <1> QED
    BY <1>3, <1>4, <1>5

(* A part of a PINGREQ goes out in a session in which no PUBLISH is half     *)
(* sent.                                                                     *)
LEMMA PingSentStage ==
  ASSUME TypeOK, StageInv, NEW t \in Int, NEW from \in Nat, NEW n \in Nat,
         n >= 1, from + n <= PingLen,
         state = "CONNECTED", state' = state, awaiting', rx = <<>>, rx' = rx,
         PartOf(<<"PINGREQ", 0>>, from), NothingInFlight,
         SendControl("PINGREQ", from, PingLen, n, t)
  PROVE  StageInv'
  <1>1. StageConnected
    BY DEF StageInv
  <1>2. wire' = Written(<<"PINGREQ", 0>>, from, n, PingLen) /\ PingLen \in Nat
    BY DEF SendControl, PingLen
  <1>3. wire.intact /\ wire.greeted /\ <<"PINGREQ", 0>>[1] # "CONNECT"
    BY <1>1 DEF StageConnected
  <1>4. /\ wire'.intact /\ wire'.greeted
        /\ from + n = PingLen => wire'.packet = NoPacket
        /\ from + n # PingLen =>
             wire'.packet = <<"PINGREQ", 0>> /\ wire'.got = from + n
    BY <1>2, <1>3, WrittenNext
  <1>5. /\ linkUp' /\ connected' /\ configured' /\ NothingInFlight'
        /\ Len(rx') <= 1
    BY <1>1 DEF SendControl, StageConnected, NothingInFlight, queue
  <1>6. CASE from + n = PingLen
    BY <1>4, <1>5, <1>6 DEF SendControl, StageConnected, StageInv
  <1>7. CASE from + n # PingLen
    <2>1. control' = "PINGREQ" /\ controlSent' = from + n
      BY <1>7 DEF SendControl
    <2>2. controlSent' > 0 /\ controlSent' < PingLen
      BY <1>2, <1>7, <2>1
    <2>3. PartOf(<<"PINGREQ", 0>>, controlSent)'
      BY <1>4, <1>7, <2>1 DEF PartOf
    <2> QED
      BY <1>4, <1>5, <2>1, <2>2, <2>3 DEF StageConnected, StageInv
  <1> QED
    BY <1>6, <1>7

LEMMA SendPingRestStage ==
  ASSUME TypeOK, StageInv, NEW t \in Int, SendPingRest(t) PROVE StageInv'
  <1>1. state = "CONNECTED" /\ StageConnected /\ control # "NONE"
    BY DEF SendPingRest, Serves, StageInv
  <1>2. /\ control = "PINGREQ" /\ rx = <<>> /\ awaiting /\ NothingInFlight
        /\ PartOf(<<"PINGREQ", 0>>, controlSent)
    BY <1>1 DEF StageConnected
  <1>3. PICK n \in 1..(PingLen - controlSent) :
          SendControl("PINGREQ", controlSent, PingLen, n, t)
    BY <1>2 DEF SendPingRest
  <1>4. /\ controlSent \in Nat /\ n \in Nat /\ n >= 1
        /\ controlSent + n <= PingLen
    BY DEF TypeOK, WorkBufferType, PingLen
  <1>5. state' = state /\ awaiting' /\ rx' = rx
    BY <1>2 DEF SendPingRest
  <1> QED
    BY <1>1, <1>2, <1>3, <1>4, <1>5, PingSentStage

LEMMA StartPingStage ==
  ASSUME TypeOK, StageInv, NEW t \in Int, StartPing(t) PROVE StageInv'
  <1>1. /\ state = "CONNECTED" /\ StageConnected /\ control = "NONE"
        /\ rx = <<>> /\ ~awaiting /\ count = 0
    BY DEF StartPing, Serves, AnswerDue, StageInv
  <1>2. wire.packet = NoPacket /\ NothingInFlight
    BY <1>1 DEF StageConnected
  <1>3. PICK n \in 1..PingLen : SendControl("PINGREQ", 0, PingLen, n, t)
    BY DEF StartPing
  <1>4. n \in Nat /\ n >= 1 /\ 0 + n <= PingLen
    BY DEF PingLen
  <1>5. PartOf(<<"PINGREQ", 0>>, 0)
    BY <1>2 DEF PartOf
  <1>6. state' = state /\ awaiting' /\ rx' = rx
    BY DEF StartPing
  <1> QED
    BY <1>1, <1>2, <1>3, <1>4, <1>5, <1>6, PingSentStage

LEMMA SendPublishStage ==
  ASSUME TypeOK, StageInv, NEW t \in Int, SendPublish(t) PROVE StageInv'
  <1> DEFINE p == <<"PUBLISH", slots[head].msg>>
             from == slots[head].sent
  <1>1. /\ state = "CONNECTED" /\ StageConnected /\ control = "NONE"
        /\ rx = <<>> /\ ~awaiting /\ count > 0
    BY DEF SendPublish, Serves, AnswerDue, StageInv
  <1>2. /\ slots \in [SlotIndex -> SlotType] /\ head \in SlotIndex
        /\ from \in 0..PublishLen - 1 /\ slots[head].msg \in Nat
    BY DEF TypeOK, QueueType, SlotIndex, SlotType
  <1>3. PartOf(p, from) /\ OnlyHeadInFlight
    BY <1>1, <1>2 DEF StageConnected, PartOf, NothingInFlight, OnlyHeadInFlight
  <1>4. PICK n \in 1..(PublishLen - from) :
          /\ wire' = Written(p, from, n, PublishLen)
          /\ \/ /\ from + n < PublishLen
                /\ slots' = [slots EXCEPT ![head].sent = from + n]
                /\ UNCHANGED <<head, count>>
             \/ /\ from + n = PublishLen
                /\ slots' = [slots EXCEPT ![head] = EmptySlot]
    BY DEF SendPublish
  <1>5. /\ from \in Nat /\ n \in Nat /\ PublishLen \in Nat
        /\ n >= 1 /\ from + n <= PublishLen
    BY <1>2, SizesAssumption
  <1>6. wire.intact /\ wire.greeted /\ p[1] # "CONNECT"
    BY <1>1 DEF StageConnected
  <1>7. /\ wire'.intact /\ wire'.greeted
        /\ from + n = PublishLen => wire'.packet = NoPacket
        /\ from + n # PublishLen => wire'.packet = p /\ wire'.got = from + n
    BY <1>3, <1>4, <1>5, <1>6, WrittenNext
  <1>8. /\ state' = "CONNECTED" /\ linkUp' /\ connected' /\ configured'
        /\ control' = "NONE" /\ rx' = <<>> /\ ~awaiting'
    BY <1>1 DEF SendPublish, session, control_, StageConnected
  <1>9. CASE /\ from + n < PublishLen
             /\ slots' = [slots EXCEPT ![head].sent = from + n]
             /\ UNCHANGED <<head, count>>
    <2>1. from + n \in 0..PublishLen - 1
      BY <1>5, <1>9
    <2>2. slots'[head] = [msg |-> slots[head].msg, sent |-> from + n]
      BY <1>2, <1>9, <2>1, SlotSent
    <2>3. \A i \in SlotIndex : i # head => slots'[i] = slots[i]
      BY <1>2, <1>9, <2>1, SlotSent
    <2>4. OnlyHeadInFlight'
      BY <1>3, <1>9, <2>3 DEF OnlyHeadInFlight
    <2>5. /\ count' > 0 /\ slots'[head'].sent > 0
          /\ PartOf(<<"PUBLISH", slots[head].msg>>, slots[head].sent)'
      BY <1>1, <1>5, <1>7, <1>9, <2>2 DEF PartOf
    <2> QED
      BY <1>7, <1>8, <2>4, <2>5 DEF StageConnected, StageInv
  <1>10. CASE /\ from + n = PublishLen
              /\ slots' = [slots EXCEPT ![head] = EmptySlot]
    <2>1. NothingInFlight'
      BY <1>2, <1>3, <1>10 DEF NothingInFlight, OnlyHeadInFlight, EmptySlot
    <2> QED
      BY <1>7, <1>8, <1>10, <2>1 DEF StageConnected, StageInv
  <1> QED
    BY <1>4, <1>9, <1>10

(* Every poll, whatever the HAL does.                                        *)
LEMMA PollStage ==
  ASSUME TypeOK, StageInv, NEW t \in Int, PollServed(t) \/ PollFailed(t)
  PROVE  StageInv'
  <1> USE DEF PollServed, PollFailed
  <1>1. CASE PollUnconfigured \/ PollTooEarly(t) \/ NothingToRead(t)
    BY <1>1, UnchangedStage DEF PollUnconfigured, PollTooEarly, NothingToRead, session,
                                control_, queue, network
  <1>2. CASE configured /\ (PollReconnect(t, TRUE) \/ PollReconnect(t, FALSE))
    BY <1>2, PollReconnectStage
  <1>3. CASE SendConnect(t)
    BY <1>3, SendConnectStage
  <1>4. CASE ConnackTimeout(t) \/ PingTimeout(t) \/ HalFault(t)
    BY <1>4, MarkDisconnectedStage DEF ConnackTimeout, PingTimeout, HalFault
  <1>5. CASE ReceiveConnack(t)
    BY <1>5, ReceiveConnackStage
  <1>6. CASE ReceiveConnected(t)
    BY <1>6, ReceiveConnectedStage
  <1>7. CASE SendPingRest(t)
    BY <1>7, SendPingRestStage
  <1>8. CASE SendPublish(t)
    BY <1>8, SendPublishStage
  <1>9. CASE StartPing(t)
    BY <1>9, StartPingStage
  <1> QED
    BY <1>1, <1>2, <1>3, <1>4, <1>5, <1>6, <1>7, <1>8, <1>9

LEMMA PeerSendStage ==
  ASSUME StageInv, NEW p, PeerSend(p) PROVE StageInv'
  BY UnchangedStage DEF PeerSend, session, control_, queue

-----------------------------------------------------------------------------
(* The ring.                                                                 *)

(* A position wraps at most once, distinct positions are distinct indexes,   *)
(* and moving the head by one moves every position by one.                   *)
LEMMA Positions ==
  ASSUME NEW h \in SlotIndex
  PROVE  /\ Position(h, 0) = h
         /\ \A k \in 0..SlotCount : Position(h, k) \in SlotIndex
         /\ \A k \in 0..SlotCount - 1 :
              /\ Successor(Position(h, k)) = Position(h, k + 1)
              /\ Position(Successor(h), k) = Position(h, k + 1)
         /\ \A j, k \in 0..SlotCount - 1 : j # k => Position(h, j) # Position(h, k)
  <1>1. SlotCount \in Nat /\ SlotCount > 0 /\ h \in Int /\ 0 <= h /\ h < SlotCount
    BY SizesAssumption DEF SlotIndex
  <1>2. Position(h, 0) = h
    BY <1>1 DEF Position
  <1>3. \A k \in 0..SlotCount : Position(h, k) \in SlotIndex
    BY <1>1 DEF Position, SlotIndex
  <1>4. \A k \in 0..SlotCount - 1 : Successor(Position(h, k)) = Position(h, k + 1)
    BY <1>1 DEF Position, Successor
  <1>5. \A k \in 0..SlotCount - 1 : Position(Successor(h), k) = Position(h, k + 1)
    BY <1>1 DEF Position, Successor
  <1>6. \A j, k \in 0..SlotCount - 1 : j # k => Position(h, j) # Position(h, k)
    BY <1>1 DEF Position
  <1> QED
    BY <1>2, <1>3, <1>4, <1>5, <1>6

LEMMA RingType ==
  ASSUME TypeOK
  PROVE  /\ slots \in [SlotIndex -> SlotType] /\ head \in SlotIndex /\ tail \in SlotIndex
         /\ count \in 0..SlotCount /\ count \in Nat /\ SlotCount \in Nat
         /\ SlotCount > 0 /\ accepted \in Nat /\ delivered \in Seq(Nat)
         /\ Len(delivered) \in Nat
  <1>1. /\ slots \in [SlotIndex -> SlotType] /\ head \in SlotIndex /\ tail \in SlotIndex
        /\ count \in 0..SlotCount /\ accepted \in 0..MaxMsgs /\ delivered \in Seq(Nat)
    BY DEF TypeOK, QueueType, SlotIndex
  <1> QED
    BY <1>1, SizesAssumption

(* Steps that may rewind a slot but leave every message where it is.         *)
LEMMA SameMessagesRing ==
  ASSUME TypeOK, RingInv,
         \A i \in SlotIndex : slots'[i].msg = slots[i].msg,
         UNCHANGED <<head, tail, count, accepted, delivered>>
  PROVE  RingInv'
  <1>1. \A k \in 0..count - 1 : k \in 0..SlotCount
    BY RingType
  <1>2. \A k \in 0..count - 1 : Position(head, k) \in SlotIndex
    BY <1>1, RingType, Positions
  <1> QED
    BY <1>2 DEF RingInv

LEMMA RewoundMessages ==
  ASSUME TypeOK
  PROVE  \A i \in SlotIndex : RewoundHead[i].msg = slots[i].msg
  <1>1. /\ 0 \in 0..PublishLen - 1 /\ slots \in [SlotIndex -> SlotType]
        /\ head \in SlotIndex
    BY SizesAssumption DEF TypeOK, QueueType, SlotIndex
  <1> QED
    BY <1>1, SlotSent DEF RewoundHead

LEMMA PublishEnqueueRing ==
  ASSUME TypeOK, RingInv, PublishEnqueue PROVE RingInv'
  <1>1. CASE UNCHANGED <<queue, accepted>>
    BY <1>1, SameMessagesRing DEF PublishEnqueue, queue
  <1>2. CASE /\ count < SlotCount
             /\ accepted' = accepted + 1
             /\ slots' = [slots EXCEPT ![tail] = [msg |-> accepted + 1, sent |-> 0]]
             /\ tail' = Successor(tail)
             /\ count' = count + 1
             /\ head' = head
    <2>1. delivered' = delivered
      BY DEF PublishEnqueue
    <2>2. tail = Position(head, count) /\ Len(delivered) + count = accepted
      BY DEF RingInv
    <2>3. count \in 0..SlotCount - 1 /\ count' \in Nat
      BY <1>2, RingType
    <2>4. tail' = Position(head, count + 1)
      BY <1>2, <2>2, <2>3, Positions, RingType
    <2>5. ASSUME NEW k \in 0..count' - 1
          PROVE  slots'[Position(head, k)].msg = Len(delivered) + k + 1
      <3>1. CASE k = count
        BY <1>2, <2>2, <3>1, RingType
      <3>2. CASE k # count
        <4>1. k \in 0..count - 1 /\ k \in 0..SlotCount - 1 /\ k \in 0..SlotCount
          BY <1>2, <3>2, RingType
        <4>2. Position(head, k) # tail /\ Position(head, k) \in SlotIndex
          BY <2>2, <2>3, <3>2, <4>1, Positions, RingType
        <4>3. slots'[Position(head, k)] = slots[Position(head, k)]
          BY <1>2, <4>2, RingType
        <4> QED
          BY <4>1, <4>3 DEF RingInv
      <3> QED
        BY <3>1, <3>2
    <2>6. Len(delivered) + (count + 1) = accepted + 1
      BY <2>2, RingType
    <2>7. \A k \in 1..Len(delivered) : delivered[k] = k
      BY DEF RingInv
    <2> QED
      BY <1>2, <2>1, <2>4, <2>5, <2>6, <2>7 DEF RingInv
  <1> QED
    BY <1>1, <1>2 DEF PublishEnqueue

LEMMA SendPublishRing ==
  ASSUME TypeOK, RingInv, NEW t \in Int, SendPublish(t), accepted' = accepted
  PROVE  RingInv'
  <1>1. PICK n \in 1..(PublishLen - slots[head].sent) :
          \/ /\ slots[head].sent + n < PublishLen
             /\ slots' = [slots EXCEPT ![head].sent = slots[head].sent + n]
             /\ UNCHANGED <<head, count, delivered>>
          \/ /\ slots' = [slots EXCEPT ![head] = EmptySlot]
             /\ head' = Successor(head)
             /\ count' = count - 1
             /\ delivered' = Append(delivered, slots[head].msg)
    BY DEF SendPublish
  <1>2. tail' = tail /\ count > 0
    BY DEF SendPublish
  <1>3. /\ slots[head].sent \in Nat /\ slots[head].msg \in Nat
        /\ n \in Nat /\ n >= 1 /\ PublishLen \in Nat
    <2>1. slots[head] \in SlotType
      BY RingType
    <2> QED
      BY <2>1, SizesAssumption DEF SlotType
  <1>4. CASE /\ slots[head].sent + n < PublishLen
             /\ slots' = [slots EXCEPT ![head].sent = slots[head].sent + n]
             /\ UNCHANGED <<head, count, delivered>>
    <2>1. slots[head].sent + n \in 0..PublishLen - 1
      BY <1>3, <1>4
    <2>2. /\ slots'[head] = [msg |-> slots[head].msg, sent |-> slots[head].sent + n]
          /\ \A i \in SlotIndex : i # head => slots'[i] = slots[i]
      BY <1>4, <2>1, SlotSent, RingType
    <2>3. \A i \in SlotIndex : slots'[i].msg = slots[i].msg
      BY <2>2
    <2> QED
      BY <1>2, <1>4, <2>3, SameMessagesRing
  <1>5. CASE /\ slots' = [slots EXCEPT ![head] = EmptySlot]
             /\ head' = Successor(head)
             /\ count' = count - 1
             /\ delivered' = Append(delivered, slots[head].msg)
    <2>1. 0 \in 0..count - 1 /\ count - 1 \in 0..SlotCount - 1 /\ (count - 1) + 1 = count
      BY <1>2, RingType
    <2>2. slots[head].msg = Len(delivered) + 1
      <3>1. slots[Position(head, 0)].msg = Len(delivered) + 0 + 1
        BY <2>1 DEF RingInv
      <3> QED
        BY <3>1, Positions, RingType
    <2>3. /\ Len(delivered') = Len(delivered) + 1
          /\ \A k \in 1..Len(delivered') : delivered'[k] = k
      <3>1. \A k \in 1..Len(delivered) : delivered[k] = k
        BY DEF RingInv
      <3>2. /\ Len(delivered') = Len(delivered) + 1
            /\ \A k \in 1..Len(delivered') :
                 delivered'[k] = IF k = Len(delivered) + 1 THEN slots[head].msg
                                 ELSE delivered[k]
        BY <1>3, <1>5, RingType
      <3> QED
        BY <2>2, <3>1, <3>2, RingType
    <2>4. Len(delivered') + count' = accepted'
      <3>1. Len(delivered) + count = accepted
        BY DEF RingInv
      <3> QED
        BY <1>5, <2>3, <3>1, RingType
    <2>5. tail' = Position(head', count')
      <3>1. tail = Position(head, count)
        BY DEF RingInv
      <3>2. Position(Successor(head), count - 1) = Position(head, (count - 1) + 1)
        BY <2>1, Positions, RingType
      <3> QED
        BY <1>2, <1>5, <2>1, <3>1, <3>2
    <2>6. ASSUME NEW k \in 0..count' - 1
          PROVE  slots'[Position(head', k)].msg = Len(delivered') + k + 1
      <3>1. /\ k \in 0..SlotCount - 1 /\ k + 1 \in 0..count - 1
            /\ k + 1 \in 0..SlotCount - 1 /\ k + 1 \in 0..SlotCount /\ k + 1 # 0
            /\ 0 \in 0..SlotCount - 1
        BY <1>2, <1>5, RingType
      <3>2. Position(head', k) = Position(head, k + 1)
        BY <1>5, <3>1, Positions, RingType
      <3>3. Position(head, k + 1) # head /\ Position(head, k + 1) \in SlotIndex
        BY <3>1, Positions, RingType
      <3>4. slots'[Position(head, k + 1)] = slots[Position(head, k + 1)]
        BY <1>5, <3>3, RingType
      <3>5. slots[Position(head, k + 1)].msg = Len(delivered) + (k + 1) + 1
        BY <3>1 DEF RingInv
      <3> QED
        BY <2>3, <3>1, <3>2, <3>4, <3>5, RingType
    <2> QED
      BY <2>3, <2>4, <2>5, <2>6 DEF RingInv
  <1> QED
    BY <1>1, <1>4, <1>5

(* Every other step leaves the messages in the ring alone.                   *)
LEMMA PollRing ==
  ASSUME TypeOK, RingInv, NEW t \in Int, PollServed(t) \/ PollFailed(t)
  PROVE  RingInv'
  <1> USE DEF PollServed, PollFailed
  <1>1. accepted' = accepted
    BY DEF producer
  <1>2. CASE SendPublish(t)
    BY <1>1, <1>2, SendPublishRing
  <1>3. CASE UNCHANGED <<queue, delivered>>
    BY <1>1, <1>3, SameMessagesRing DEF queue
  <1>4. CASE \E b : MarkDisconnected(b, t)
    BY <1>1, <1>4, SameMessagesRing, RewoundMessages DEF MarkDisconnected
  <1>5. CASE PollUnconfigured \/ PollTooEarly(t) \/ NothingToRead(t)
             \/ PollReconnect(t, TRUE) \/ PollReconnect(t, FALSE)
    BY <1>3, <1>5 DEF PollUnconfigured, PollTooEarly, NothingToRead, PollReconnect
  <1>6. CASE SendConnect(t) \/ SendPingRest(t) \/ StartPing(t)
    BY <1>3, <1>6 DEF SendConnect, SendPingRest, StartPing, SendControl
  <1>7. CASE ConnackTimeout(t) \/ PingTimeout(t) \/ HalFault(t)
    BY <1>4, <1>7 DEF ConnackTimeout, PingTimeout, HalFault
  <1>8. CASE ReceiveConnack(t)
    BY <1>3, <1>4, <1>8 DEF ReceiveConnack, TakeConnack
  <1>9. CASE ReceiveConnected(t)
    BY <1>3, <1>4, <1>9 DEF ReceiveConnected, TakeConnected
  <1> QED
    BY <1>2, <1>5, <1>6, <1>7, <1>8, <1>9

(* proto_mqtt_connect and proto_mqtt_close only rewind.                      *)
LEMMA RewindingRing ==
  ASSUME TypeOK, RingInv, slots' = RewoundHead \/ slots' = slots,
         UNCHANGED <<head, tail, count, accepted, delivered>>
  PROVE  RingInv'
  BY RewoundMessages, SameMessagesRing

-----------------------------------------------------------------------------
(* The inductive invariant.                                                  *)
IInv == TypeOK /\ StageInv /\ RingInv

LEMMA InitInv == Init => IInv
  <1> SUFFICES ASSUME Init PROVE IInv
    OBVIOUS
  <1>1. TypeOK
    BY InitType
  <1>2. StageInv
    <2>1. NothingInFlight
      BY DEF Init, NothingInFlight, EmptySlot, SlotIndex
    <2>2. StageDisconnected
      BY <2>1 DEF Init, StageDisconnected
    <2> QED
      BY <2>2 DEF Init, StageInv
  <1>3. RingInv
    <2>1. head \in SlotIndex /\ count = 0 /\ tail = head /\ delivered = <<>> /\ accepted = 0
      BY <1>1, RingType DEF Init
    <2>2. tail = Position(head, 0)
      BY <2>1, Positions
    <2>3. Len(delivered) = 0
      BY <2>1
    <2> QED
      BY <2>1, <2>2, <2>3 DEF RingInv
  <1> QED
    BY <1>1, <1>2, <1>3 DEF IInv

LEMMA NextInv == IInv /\ [Next]_vars => IInv'
  <1> SUFFICES ASSUME IInv, [Next]_vars PROVE IInv'
    OBVIOUS
  <1>1. TypeOK /\ StageInv /\ RingInv
    BY DEF IInv
  <1>2. TypeOK'
    BY <1>1, NextType
  <1>3. StageInv' /\ RingInv'
    <2>1. CASE PublishEnqueue
      BY <1>1, <2>1, PublishEnqueueStage, PublishEnqueueRing
    <2>2. ASSUME NEW fits \in BOOLEAN, NEW halOk \in BOOLEAN, NEW d \in PollGaps,
                 Connect(fits, halOk, Clock(now + d))
          PROVE  StageInv' /\ RingInv'
      <3>1. StageInv'
        BY <1>1, <2>2, ClockGap, ConnectStage
      <3>2. RingInv'
        BY <1>1, <2>2, RewindingRing DEF Connect, producer
      <3> QED
        BY <3>1, <3>2
    <2>3. CASE Close
      <3>1. RingInv'
        BY <1>1, <2>3, RewindingRing DEF Close, producer
      <3> QED
        BY <1>1, <2>3, <3>1, CloseStage
    <2>4. ASSUME NEW d \in PollGaps,
                 PollServed(Clock(now + d)) \/ PollFailed(Clock(now + d))
          PROVE  StageInv' /\ RingInv'
      BY <1>1, <2>4, ClockGap, PollStage, PollRing
    <2>5. ASSUME NEW p \in PeerPackets, PeerSend(p) PROVE StageInv' /\ RingInv'
      <3>1. RingInv'
        BY <1>1, <2>5, RewindingRing DEF PeerSend, queue, producer
      <3> QED
        BY <1>1, <2>5, <3>1, PeerSendStage
    <2>6. CASE UNCHANGED vars
      <3>1. RingInv'
        BY <1>1, <2>6, RewindingRing DEF vars, queue, producer
      <3> QED
        BY <1>1, <2>6, <3>1, UnchangedStage DEF vars, session, control_, queue, network
    <2> QED
      BY <2>1, <2>2, <2>3, <2>4, <2>5, <2>6 DEF Next, Application
  <1> QED
    BY <1>1, <1>2, <1>3 DEF IInv

(* Stages of the connection and numbers of the messages hold in every state.  *)
THEOREM Inductive == Spec => []IInv
  BY InitInv, NextInv, PTL DEF Spec

LEMMA LinkHolds == IInv => LinkMatchesState
  BY DEF IInv, TypeOK, SessionType, States, StageInv, StageDisconnected, StageSending,
         StageWaiting, StageConnected, LinkMatchesState

(* No return path of connect, poll or close leaves an open connection the    *)
(* client does not know of, and the connected flag is set exactly in a       *)
(* session.                                                                  *)
THEOREM LinkCorrect == Spec => []LinkMatchesState
  BY LinkHolds, Inductive, PTL

LEMMA StreamHolds == IInv => StreamIntact
  BY DEF IInv, TypeOK, SessionType, States, StageInv, StageDisconnected, StageSending,
         StageWaiting, StageConnected, StreamIntact, FreshWire

(* The byte stream of every connection is a CONNECT followed by whole        *)
(* packets, however the HAL cuts them and whenever connections break.        *)
THEOREM StreamCorrect == Spec => []StreamIntact
  BY StreamHolds, Inductive, PTL

LEMMA WorkBufferHolds == IInv => WorkBufferExclusive
  <1> SUFFICES ASSUME IInv PROVE WorkBufferExclusive
    OBVIOUS
  <1>1. rx = <<>> => Len(rx) = 0
    OBVIOUS
  <1> QED
    BY <1>1 DEF IInv, TypeOK, SessionType, WorkBufferType, Controls, States, StageInv,
         StageDisconnected, StageSending, StageWaiting, StageConnected, WorkBufferExclusive

(* A half sent control packet never has received bytes over it in the work   *)
(* buffer the two share.                                                     *)
THEOREM WorkBufferCorrect == Spec => []WorkBufferExclusive
  BY WorkBufferHolds, Inductive, PTL

-----------------------------------------------------------------------------
(* Deadlines.                                                                *)

LEMMA ElapsedType ==
  ASSUME NEW t \in Int, NEW s \in Int
  PROVE  Elapsed(t, s) \in Int /\ (Elapsed(t, s) < Half \/ Elapsed(t, s) >= Half)
         /\ (Elapsed(t, s) < Keepalive \/ Elapsed(t, s) >= Keepalive)
  <1>1. t - s \in Int
    OBVIOUS
  <1>2. Elapsed(t, s) \in Int
    BY <1>1, TimersAssumption DEF Elapsed
  <1>3. Half \in Int /\ Keepalive \in Int
    BY TimersAssumption DEF Half
  <1> QED
    BY <1>2, <1>3

LEMMA JustNow == ASSUME NEW t \in Int PROVE Elapsed(t, t) < Keepalive
  BY ElapsedNothing, TimersAssumption DEF Elapsed

(* A deadline at most half a turn of the clock away is not reached yet.       *)
LEMMA DeadlineAhead ==
  ASSUME NEW t \in Int, ConnectTimeout <= Half
  PROVE  Elapsed(t, Clock(t + ConnectTimeout)) >= Half
  <1> DEFINE k == (t + ConnectTimeout) \div ClockMod
             c == Clock(t + ConnectTimeout)
  <1>1. /\ ClockMod \in Nat \ {0} /\ ConnectTimeout \in Nat \ {0}
        /\ Half \in Nat /\ 2 * Half <= ClockMod
    BY TimersAssumption DEF Half
  <1>2. t + ConnectTimeout \in Int
    BY <1>1
  <1>3. k \in Int /\ c \in Int /\ t + ConnectTimeout = k * ClockMod + c
    BY <1>1, <1>2 DEF Clock
  <1> HIDE DEF k, c
  <1>4. ClockMod - ConnectTimeout \in 0..ClockMod - 1 /\ ClockMod - ConnectTimeout >= Half
    BY <1>1
  <1>5. t - c \in Int /\ k - 1 \in Int /\ t - c = (k - 1) * ClockMod + (ClockMod - ConnectTimeout)
    BY <1>1, <1>3
  <1>6. (t - c) % ClockMod = ClockMod - ConnectTimeout
    BY <1>1, <1>4, <1>5, Remainder
  <1> QED
    BY <1>4, <1>6 DEF Elapsed, c

(* Bytes taken in a session that leave none behind were an answer.            *)
LEMMA WholeAnswers ==
  ASSUME NEW b \in Seq(Bytes), Len(b) >= 1, OnlyPingresps(b), LoneByte(b) = <<>>
  PROVE  SomePingresp(b)
  <1>1. PICK n \in Nat : n = Len(b)
    BY LenProperties
  <1>2. n % 2 # 1
    BY <1>1 DEF LoneByte
  <1>3. n >= 2 /\ 1 \in 1..n /\ 2 \in 1..n
    BY <1>1, <1>2
  <1>4. 1 % 2 = 1 /\ 2 % 2 = 0
    OBVIOUS
  <1>5. b[1] = PingrespType /\ b[2] = 0
    BY <1>1, <1>3, <1>4 DEF OnlyPingresps
  <1> QED
    BY <1>1, <1>3, <1>5 DEF SomePingresp, IsPingresp

LEMMA UnchangedDeadlines ==
  ASSUME DeadlinesHonoured, UNCHANGED <<state, rx, now, lastIo, connackDeadline>>
  PROVE  DeadlinesHonoured'
  BY DEF DeadlinesHonoured, Elapsed

LEMMA NoDeadline ==
  ASSUME state' \in {"DISCONNECTED", "SENDING_CONNECT"} PROVE DeadlinesHonoured'
  BY DEF DeadlinesHonoured

LEMMA FreshInput ==
  ASSUME state' = "CONNECTED", lastIo' = now', now' \in Int PROVE DeadlinesHonoured'
  BY JustNow DEF DeadlinesHonoured, Elapsed

LEMMA PollDeadlines ==
  ASSUME TypeOK, StageInv, NEW t \in Int, PollServed(t) \/ PollFailed(t),
         ConnectTimeout <= Half
  PROVE  DeadlinesHonoured'
  <1>1. now' = t /\ lastIo \in Int /\ connackDeadline \in Int
    BY DEF PollServed, PollFailed, TypeOK, TimersType
  <1>2. CASE PollUnconfigured
    <2>1. state' = "DISCONNECTED"
      BY <1>2 DEF PollUnconfigured, TypeOK, SessionType, States, StageInv, StageSending,
                  StageWaiting, StageConnected, session
    <2> QED
      BY <2>1, NoDeadline
  <1>3. CASE PollTooEarly(t) \/ PollReconnect(t, TRUE) \/ PollReconnect(t, FALSE)
    BY <1>3, NoDeadline DEF PollTooEarly, PollReconnect, ConnectionOpened, session
  <1>4. CASE ConnackTimeout(t) \/ PingTimeout(t) \/ HalFault(t)
    BY <1>4, NoDeadline DEF ConnackTimeout, PingTimeout, HalFault, MarkDisconnected
  <1>5. CASE SendConnect(t)
    <2>1. CASE state' = "WAITING_CONNACK" /\ connackDeadline' = Clock(t + ConnectTimeout)
      BY <1>1, <2>1, DeadlineAhead DEF DeadlinesHonoured, Elapsed
    <2>2. CASE state' = "SENDING_CONNECT"
      BY <2>2, NoDeadline
    <2> QED
      BY <1>5, <2>1, <2>2 DEF SendConnect
  <1>6. CASE ReceiveConnack(t)
    <2>1. CASE state' = "DISCONNECTED"
      BY <2>1, NoDeadline
    <2>2. CASE state' = "CONNECTED" /\ lastIo' = t
      BY <1>1, <2>2, FreshInput
    <2>3. CASE UNCHANGED <<session, timers>>
      <3>1. state' = "WAITING_CONNACK" /\ connackDeadline' = connackDeadline
            /\ ~(Elapsed(t, connackDeadline) < Half)
        BY <1>6, <2>3 DEF ReceiveConnack, WaitsForConnack, TimeReached, session, timers
      <3> QED
        BY <1>1, <3>1, ElapsedType DEF DeadlinesHonoured, Elapsed
    <2> QED
      BY <1>6, <2>1, <2>2, <2>3 DEF ReceiveConnack, TakeConnack, MarkDisconnected
  <1>7. CASE SendPingRest(t) \/ SendPublish(t) \/ StartPing(t)
    <2>1. state' = "CONNECTED" /\ lastIo' = t
      BY <1>7 DEF SendPingRest, SendPublish, StartPing, Serves, SendControl, session
    <2> QED
      BY <1>1, <2>1, FreshInput
  <1>8. CASE ReceiveConnected(t)
    <2>1. PICK n \in Receivable : TakeConnected(n, t)
      BY <1>8 DEF ReceiveConnected
    <2> DEFINE b == Received(n)
    <2>2. b \in Seq(Bytes) /\ Len(b) >= 1
      <3>1. /\ n \in Nat /\ n >= 1 /\ b \in Seq(Bytes) /\ Len(b) = Len(rx) + n
            /\ Len(rx) \in Nat
        BY ReceivedType DEF TypeOK, WorkBufferType
      <3> QED
        BY <3>1
    <2>3. CASE state' = "DISCONNECTED"
      BY <2>3, NoDeadline
    <2>4. CASE OnlyPingresps(b) /\ rx' = LoneByte(b) /\ state' = state
      <3>1. state' = "CONNECTED"
        BY <1>8, <2>4 DEF ReceiveConnected, LooksForBytes, Serves
      <3>2. rx' = <<>> => lastIo' = t
        BY <2>1, <2>2, <2>4, WholeAnswers DEF TakeConnected
      <3> QED
        BY <1>1, <3>1, <3>2, JustNow DEF DeadlinesHonoured, Elapsed
    <2> QED
      BY <2>1, <2>3, <2>4 DEF TakeConnected, MarkDisconnected
  <1>9. CASE NothingToRead(t)
    <2>1. UNCHANGED <<state, rx, awaiting, lastIo, connackDeadline>>
      BY <1>9 DEF NothingToRead, session, timers
    <2>2. CASE WaitsForConnack(t)
      <3>1. state = "WAITING_CONNACK" /\ ~(Elapsed(t, connackDeadline) < Half)
        BY <2>2 DEF WaitsForConnack, TimeReached
      <3> QED
        BY <1>1, <2>1, <3>1, ElapsedType DEF DeadlinesHonoured, Elapsed
    <2>3. CASE LooksForBytes(t)
      <3>1. state = "CONNECTED" /\ (rx = <<>> => ~(Elapsed(t, lastIo) >= Keepalive))
        BY <2>3 DEF LooksForBytes, Serves, AnswerDue, IdleFor
      <3> QED
        BY <1>1, <2>1, <3>1, ElapsedType DEF DeadlinesHonoured, Elapsed
    <2> QED
      BY <1>9, <2>2, <2>3 DEF NothingToRead
  <1> QED
    BY <1>2, <1>3, <1>4, <1>5, <1>6, <1>7, <1>8, <1>9 DEF PollServed, PollFailed

(* After every call the keepalive and the CONNACK deadline are kept, for any  *)
(* gaps between polls.  The half turn of the clock is a real limit: a longer  *)
(* timeout reads as reached at once (proto_mqtt.c:10).                        *)
THEOREM DeadlinesCorrect ==
  ASSUME ConnectTimeout <= Half PROVE Spec => []DeadlinesHonoured
  <1>1. Init => DeadlinesHonoured
    BY DEF Init, DeadlinesHonoured
  <1>2. IInv /\ DeadlinesHonoured /\ [Next]_vars => DeadlinesHonoured'
    <2> SUFFICES ASSUME TypeOK, StageInv, DeadlinesHonoured, [Next]_vars
                 PROVE  DeadlinesHonoured'
      BY DEF IInv
    <2>1. CASE PublishEnqueue \/ UNCHANGED vars
      BY <2>1, UnchangedDeadlines DEF PublishEnqueue, vars, session, timers
    <2>2. CASE Close
      BY <2>2, NoDeadline DEF Close
    <2>3. ASSUME NEW fits \in BOOLEAN, NEW halOk \in BOOLEAN, NEW t, Connect(fits, halOk, t)
          PROVE  DeadlinesHonoured'
      BY <2>3, NoDeadline DEF Connect, ConnectionOpened
    <2>4. ASSUME NEW p, PeerSend(p) PROVE DeadlinesHonoured'
      BY <2>4, UnchangedDeadlines DEF PeerSend, session, timers
    <2> QED
      BY <2>1, <2>2, <2>3, <2>4, PollDeadlines, ClockGap DEF Next, Application
  <1> QED
    BY <1>1, <1>2, Inductive, PTL DEF Spec

-----------------------------------------------------------------------------
(* What a session was opened by: until the answer is complete, what was read  *)
(* and what is left to read begin as the connection began.                   *)

OpeningInv ==
  /\ state \in {"SENDING_CONNECT", "WAITING_CONNACK"} => opening = FirstFour(rx \o inbound)
  /\ state = "CONNECTED" => opening = Accepting

LEMMA FirstFourValue ==
  ASSUME NEW s \in Seq(Bytes), Len(s) >= 4
  PROVE  /\ FirstFour(s) \in Seq(Bytes) /\ Len(FirstFour(s)) = 4
         /\ \A i \in 1..4 : FirstFour(s)[i] = s[i]
  <1>1. CASE Len(s) > 4
    <2>1. FirstFour(s) = SubSeq(s, 1, 4)
      BY <1>1 DEF FirstFour
    <2> QED
      BY <1>1, <2>1
  <1>2. CASE Len(s) <= 4
    <2>1. FirstFour(s) = s
      BY <1>2, LenProperties DEF FirstFour
    <2>2. PICK k \in Nat : k = Len(s)
      BY LenProperties
    <2>3. k >= 4 /\ k <= 4
      BY <1>2, <2>2
    <2>4. k = 4
      BY ONLY k \in Nat, <2>3
    <2> QED
      BY <2>1, <2>2, <2>4
  <1> QED
    BY <1>1, <1>2, LenProperties

(* Sequences that begin alike have the same first four bytes.                 *)
LEMMA SameStart ==
  ASSUME NEW a \in Seq(Bytes), NEW b \in Seq(Bytes), Len(a) >= 4, Len(b) >= 4,
         \A i \in 1..4 : a[i] = b[i]
  PROVE  FirstFour(a) = FirstFour(b)
  <1>1. /\ FirstFour(a) \in Seq(Bytes) /\ Len(FirstFour(a)) = 4
        /\ \A i \in 1..4 : FirstFour(a)[i] = a[i]
    BY FirstFourValue
  <1>2. /\ FirstFour(b) \in Seq(Bytes) /\ Len(FirstFour(b)) = 4
        /\ \A i \in 1..4 : FirstFour(b)[i] = b[i]
    BY FirstFourValue
  <1>3. ASSUME NEW i \in 1..Len(FirstFour(a)) PROVE FirstFour(a)[i] = FirstFour(b)[i]
    BY <1>1, <1>2
  <1> QED
    BY <1>1, <1>2, <1>3, SeqEqual

LEMMA ConcatStart ==
  ASSUME NEW a \in Seq(Bytes), NEW u \in Seq(Bytes)
  PROVE  /\ a \o u \in Seq(Bytes) /\ Len(a \o u) >= Len(a)
         /\ \A i \in 1..Len(a) : (a \o u)[i] = a[i]
  BY ConcatProperties

(* Bytes that follow the first four never change them.                       *)
LEMMA FirstFourFollowed ==
  ASSUME NEW s \in Seq(Bytes), NEW p \in Seq(Bytes)
  PROVE  FirstFour(FirstFour(s) \o p) = FirstFour(s \o p)
  <1>1. Len(s) \in Nat
    BY LenProperties
  <1>2. CASE Len(s) <= 4
    BY <1>1, <1>2 DEF FirstFour
  <1>3. CASE Len(s) > 4
    <2>1. PICK f \in Seq(Bytes) : /\ f = FirstFour(s) /\ Len(f) = 4
                                  /\ \A i \in 1..4 : f[i] = s[i]
      BY <1>3, FirstFourValue
    <2>2. /\ f \o p \in Seq(Bytes) /\ Len(f \o p) >= 4 /\ \A i \in 1..4 : (f \o p)[i] = s[i]
      <3>1. /\ f \o p \in Seq(Bytes) /\ Len(f \o p) >= Len(f)
            /\ \A i \in 1..Len(f) : (f \o p)[i] = f[i]
        BY ConcatStart
      <3> QED
        BY <2>1, <3>1
    <2>3. /\ s \o p \in Seq(Bytes) /\ Len(s \o p) >= Len(s)
          /\ \A i \in 1..Len(s) : (s \o p)[i] = s[i]
      BY ConcatStart
    <2>4. Len(s \o p) >= 4 /\ \A i \in 1..4 : (s \o p)[i] = s[i]
      BY <1>3, <2>3
    <2>5. FirstFour(f \o p) = FirstFour(s \o p)
      BY <2>2, <2>3, <2>4, SameStart
    <2> QED
      BY <2>1, <2>5
  <1> QED
    BY <1>1, <1>2, <1>3

LEMMA NothingReadYet ==
  ASSUME NEW s \in Seq(Bytes) PROVE <<>> \o s = s
  BY ConcatEmptySeq

LEMMA ConcatRegroups ==
  ASSUME NEW a \in Seq(Bytes), NEW b \in Seq(Bytes), NEW c \in Seq(Bytes)
  PROVE  (a \o b) \o c = a \o (b \o c)
  BY ConcatAssociative

(* Reading moves bytes from what is left to what was read.                    *)
LEMMA ReadInOrder ==
  ASSUME TypeOK, NEW n \in Receivable
  PROVE  Received(n) \o Unreceived(n) = rx \o inbound
  <1> DEFINE first == SubSeq(inbound, 1, n)
             rest == SubSeq(inbound, n + 1, Len(inbound))
  <1>1. n \in Nat /\ n >= 1 /\ n <= Len(inbound)
    BY ReceivedType
  <1>2. inbound \in Seq(Bytes) /\ rx \in Seq(Bytes) /\ Len(inbound) \in Nat
    BY DEF TypeOK, NetworkType, WorkBufferType
  <1>3. /\ first \in Seq(Bytes) /\ Len(first) = n /\ \A i \in 1..n : first[i] = inbound[i]
    BY <1>1, <1>2
  <1>4. /\ rest \in Seq(Bytes) /\ Len(rest) = Len(inbound) - n
        /\ \A i \in 1..Len(inbound) - n : rest[i] = inbound[n + i]
    <2>1. CASE n < Len(inbound)
      BY <1>1, <1>2, <2>1
    <2>2. CASE n = Len(inbound)
      BY <1>1, <1>2, <2>2
    <2> QED
      BY <1>1, <1>2, <2>1, <2>2
  <1> HIDE DEF first, rest
  <1>5. /\ first \o rest \in Seq(Bytes) /\ Len(first \o rest) = Len(first) + Len(rest)
        /\ \A i \in 1..Len(first) + Len(rest) :
             (first \o rest)[i] = IF i <= Len(first) THEN first[i] ELSE rest[i - Len(first)]
    BY <1>3, <1>4, ConcatProperties
  <1>6. Len(first \o rest) = Len(inbound) /\ Len(first) + Len(rest) = Len(inbound)
    BY <1>1, <1>2, <1>3, <1>4, <1>5
  <1>9. ASSUME NEW i \in 1..Len(inbound) PROVE (first \o rest)[i] = inbound[i]
    <2>1. CASE i <= n
      <3>1. i \in 1..n /\ (first \o rest)[i] = first[i]
        BY <1>1, <1>3, <1>5, <1>6, <2>1
      <3> QED
        BY <1>3, <3>1
    <2>2. CASE i > n
      <3>1. i - n \in 1..Len(inbound) - n /\ n + (i - n) = i /\ ~(i <= n)
        BY <1>1, <1>2, <2>2
      <3>2. (first \o rest)[i] = rest[i - n]
        BY <1>3, <1>5, <1>6, <3>1
      <3> QED
        BY <1>4, <3>1, <3>2
    <2>3. i \in Int
      BY <1>2
    <2>4. i <= n \/ i > n
      BY <1>1, <2>3
    <2> QED
      BY <2>1, <2>2, <2>4
  <1>7. first \o rest = inbound
    BY <1>2, <1>5, <1>6, <1>9, SeqEqual
  <1>8. (rx \o first) \o rest = rx \o (first \o rest)
    BY <1>2, <1>3, <1>4, ConcatRegroups
  <1> QED
    BY <1>7, <1>8 DEF Received, Unreceived, first, rest

(* Four bytes that process_connack does not refuse are the accepting answer.  *)
LEMMA AcceptedOpening ==
  ASSUME NEW b \in Seq(Bytes), Len(b) >= 4, ~ConnackBad(b), NEW u \in Seq(Bytes)
  PROVE  FirstFour(b \o u) = Accepting
  <1>1. b[1] = ConnackType /\ b[2] = 2 /\ b[3] = 0 /\ b[4] = 0
    BY DEF ConnackBad
  <1>2. /\ b \o u \in Seq(Bytes) /\ Len(b \o u) >= 4
        /\ \A i \in 1..4 : (b \o u)[i] = b[i]
    BY ConcatStart
  <1>3. /\ Accepting \in Seq(Bytes) /\ Len(Accepting) = 4
        /\ Accepting[1] = b[1] /\ Accepting[2] = b[2]
        /\ Accepting[3] = b[3] /\ Accepting[4] = b[4]
    BY <1>1 DEF Accepting, Bytes, ConnackType
  <1>4. ASSUME NEW i \in 1..4 PROVE (b \o u)[i] = Accepting[i]
    <2>1. i = 1 \/ i = 2 \/ i = 3 \/ i = 4
      OBVIOUS
    <2> QED
      BY <1>2, <1>3, <2>1
  <1>5. FirstFour(b \o u) = FirstFour(Accepting)
    <2>1. PICK a \in Seq(Bytes) : a = Accepting /\ Len(a) = 4
      BY <1>3
    <2>2. PICK s \in Seq(Bytes) : s = b \o u /\ Len(s) >= 4
      BY <1>2
    <2>3. \A i \in 1..4 : s[i] = a[i]
      BY <1>4, <2>1, <2>2
    <2>4. Len(s) >= 4 /\ Len(a) >= 4
      BY <2>1, <2>2
    <2>5. FirstFour(s) = FirstFour(a)
      BY <2>3, <2>4, SameStart
    <2> QED
      BY <2>1, <2>2, <2>5
  <1> QED
    BY <1>3, <1>5 DEF FirstFour

LEMMA OpenedOpening ==
  ASSUME NEW t, ConnectionOpened(t) PROVE OpeningInv'
  <1>1. inbound' \in Seq(Bytes)
    BY SizesAssumption DEF ConnectionOpened
  <1>2. rx' \o inbound' = inbound'
    BY <1>1, NothingReadYet DEF ConnectionOpened
  <1> QED
    BY <1>2 DEF ConnectionOpened, OpeningInv

LEMMA ClosedOpening ==
  ASSUME state' = "DISCONNECTED" PROVE OpeningInv'
  BY DEF OpeningInv

LEMMA UnchangedOpening ==
  ASSUME OpeningInv, UNCHANGED <<state, rx, inbound, opening>> PROVE OpeningInv'
  BY DEF OpeningInv

LEMMA ConnectOpening ==
  ASSUME NEW fits \in BOOLEAN, NEW halOk \in BOOLEAN, NEW t, Connect(fits, halOk, t)
  PROVE  OpeningInv'
  BY OpenedOpening, ClosedOpening DEF Connect

LEMMA SendConnectOpening ==
  ASSUME TypeOK, StageInv, OpeningInv, NEW t, SendConnect(t) PROVE OpeningInv'
  <1>1. state = "SENDING_CONNECT" /\ rx = <<>>
    BY DEF SendConnect, StageInv, StageSending
  <1>2. /\ UNCHANGED <<inbound, opening>> /\ rx' = rx
        /\ state' \in {"SENDING_CONNECT", "WAITING_CONNACK"}
    BY <1>1 DEF SendConnect, SendControl
  <1> QED
    BY <1>1, <1>2 DEF OpeningInv

LEMMA ReceiveConnackOpening ==
  ASSUME TypeOK, OpeningInv, NEW t, ReceiveConnack(t) PROVE OpeningInv'
  <1>1. state = "WAITING_CONNACK" /\ opening = FirstFour(rx \o inbound)
    BY DEF ReceiveConnack, WaitsForConnack, OpeningInv
  <1>2. PICK n \in Receivable : TakeConnack(n, t)
    BY DEF ReceiveConnack
  <1>3. /\ Received(n) \in Seq(Bytes) /\ Unreceived(n) \in Seq(Bytes)
        /\ Received(n) \o Unreceived(n) = rx \o inbound
    BY ReceivedType, ReadInOrder
  <1>4. CASE \E b : MarkDisconnected(b, t)
    BY <1>4, ClosedOpening DEF MarkDisconnected
  <1>5. CASE /\ rx' = Received(n) /\ inbound' = Unreceived(n)
             /\ UNCHANGED <<state, opening>>
    BY <1>1, <1>3, <1>5 DEF OpeningInv
  <1>6. CASE /\ ~ConnackBad(Received(n)) /\ Len(Received(n)) >= 4
             /\ state' = "CONNECTED" /\ UNCHANGED opening
    <2>1. FirstFour(Received(n) \o Unreceived(n)) = Accepting
      BY <1>3, <1>6, AcceptedOpening
    <2> QED
      BY <1>1, <1>3, <1>6, <2>1 DEF OpeningInv
  <1> QED
    BY <1>2, <1>4, <1>5, <1>6 DEF TakeConnack, session

(* In a session nothing but its end and new bytes matter to how it began.     *)
LEMMA ConnectedOpening ==
  ASSUME OpeningInv, state = "CONNECTED",
         state' = "DISCONNECTED" \/ UNCHANGED <<state, opening>>
  PROVE  OpeningInv'
  BY DEF OpeningInv

LEMMA PollOpening ==
  ASSUME TypeOK, StageInv, OpeningInv, NEW t, PollServed(t) \/ PollFailed(t)
  PROVE  OpeningInv'
  <1> USE DEF PollServed, PollFailed
  <1>1. CASE PollUnconfigured \/ PollTooEarly(t) \/ NothingToRead(t)
    BY <1>1, UnchangedOpening DEF PollUnconfigured, PollTooEarly, NothingToRead, session,
                                  network
  <1>2. CASE PollReconnect(t, TRUE) \/ PollReconnect(t, FALSE)
    BY <1>2, OpenedOpening, ClosedOpening DEF PollReconnect
  <1>3. CASE SendConnect(t)
    BY <1>3, SendConnectOpening
  <1>4. CASE ConnackTimeout(t) \/ PingTimeout(t) \/ HalFault(t)
    BY <1>4, ClosedOpening DEF ConnackTimeout, PingTimeout, HalFault, MarkDisconnected
  <1>5. CASE ReceiveConnack(t)
    BY <1>5, ReceiveConnackOpening
  <1>6. CASE ReceiveConnected(t)
    BY <1>6, ConnectedOpening
       DEF ReceiveConnected, LooksForBytes, Serves, TakeConnected, MarkDisconnected
  <1>7. CASE SendPingRest(t) \/ StartPing(t)
    BY <1>7, ConnectedOpening DEF SendPingRest, StartPing, Serves, SendControl
  <1>8. CASE SendPublish(t)
    BY <1>8, ConnectedOpening DEF SendPublish, Serves, session
  <1> QED
    BY <1>1, <1>2, <1>3, <1>4, <1>5, <1>6, <1>7, <1>8

LEMMA PeerSendOpening ==
  ASSUME TypeOK, OpeningInv, NEW p \in PeerPackets, PeerSend(p) PROVE OpeningInv'
  <1>1. /\ p \in Seq(Bytes) /\ inbound \in Seq(Bytes) /\ rx \in Seq(Bytes)
        /\ rx \o inbound \in Seq(Bytes) /\ Accepting \in Seq(Bytes)
    BY SizesAssumption, ConcatType
       DEF TypeOK, NetworkType, WorkBufferType, Accepting, Bytes, ConnackType
  <1>2. UNCHANGED <<state, rx>> /\ inbound' = inbound \o p /\ opening' = FirstFour(opening \o p)
    BY DEF PeerSend, session
  <1>3. CASE state \in {"SENDING_CONNECT", "WAITING_CONNACK"}
    <2>1. rx' \o inbound' = (rx \o inbound) \o p
      BY <1>1, <1>2, ConcatRegroups
    <2>2. opening' = FirstFour((rx \o inbound) \o p)
      BY <1>1, <1>2, <1>3, FirstFourFollowed DEF OpeningInv
    <2> QED
      BY <1>2, <1>3, <2>1, <2>2 DEF OpeningInv
  <1>4. CASE state = "CONNECTED"
    <2>1. opening' = FirstFour(Accepting \o p)
      BY <1>2, <1>4 DEF OpeningInv
    <2>2. Len(Accepting) >= 4 /\ ~ConnackBad(Accepting)
      BY DEF Accepting, ConnackBad, ConnackType
    <2>3. opening' = Accepting
      BY <1>1, <2>1, <2>2, AcceptedOpening
    <2> QED
      BY <1>2, <1>4, <2>3 DEF OpeningInv
  <1> QED
    BY <1>2, <1>3, <1>4 DEF OpeningInv

(* A session, and the first byte of its traffic, only after the whole CONNECT *)
(* and an answer that accepts, however the answer was cut on its way.        *)
THEOREM AcceptedSession == Spec => []SessionOnlyIfAccepted
  <1>1. Init => OpeningInv
    BY DEF Init, OpeningInv
  <1>2. IInv /\ OpeningInv /\ [Next]_vars => OpeningInv'
    <2> SUFFICES ASSUME TypeOK, StageInv, OpeningInv, [Next]_vars PROVE OpeningInv'
      BY DEF IInv
    <2>1. CASE PublishEnqueue \/ UNCHANGED vars
      BY <2>1, UnchangedOpening DEF PublishEnqueue, vars, session, network
    <2>2. CASE Close
      BY <2>2, ClosedOpening DEF Close
    <2> QED
      BY <2>1, <2>2, ConnectOpening, PollOpening, PeerSendOpening DEF Next, Application
  <1>3. IInv /\ OpeningInv => SessionOnlyIfAccepted
    <2> SUFFICES ASSUME IInv, OpeningInv PROVE SessionOnlyIfAccepted
      OBVIOUS
    <2>1. state \in States /\ StageInv /\ (connected <=> state = "CONNECTED")
      BY DEF IInv, TypeOK, SessionType, States, StageInv, StageDisconnected, StageSending,
             StageWaiting, StageConnected
    <2>2. connected => wire.greeted /\ opening = Accepting
      BY <2>1 DEF StageInv, StageConnected, OpeningInv
    <2>3. state # "CONNECTED" => wire.packet = NoPacket \/ wire.packet = <<"CONNECT", 0>>
      BY <2>1 DEF States, StageInv, StageDisconnected, StageSending, StageWaiting, PartOf,
                  FreshWire
    <2>4. NoPacket[1] = "NONE" /\ <<"CONNECT", 0>>[1] = "CONNECT"
      BY DEF NoPacket
    <2> QED
      BY <2>1, <2>2, <2>3, <2>4 DEF SessionOnlyIfAccepted
  <1> QED
    BY <1>1, <1>2, <1>3, Inductive, PTL DEF Spec

-----------------------------------------------------------------------------
(* The messages in the ring are the next ones to be delivered.               *)
LEMMA PendingValue ==
  ASSUME IInv
  PROVE  /\ Pending = [k \in 1..count |-> Len(delivered) + k]
         /\ Pending \in Seq(Nat) /\ Len(Pending) = count
  <1>1. TypeOK /\ RingInv
    BY DEF IInv
  <1>2. ASSUME NEW k \in 1..count
        PROVE  slots[SlotAt(k - 1)].msg = Len(delivered) + k
    <2>1. k - 1 \in 0..count - 1 /\ (k - 1) + 1 = k
      BY <1>1, RingType
    <2>2. SlotAt(k - 1) = Position(head, k - 1)
      BY DEF SlotAt, Position
    <2>3. slots[Position(head, k - 1)].msg = Len(delivered) + (k - 1) + 1
      BY <1>1, <2>1 DEF RingInv
    <2> QED
      BY <1>1, <2>1, <2>2, <2>3, RingType
  <1>3. Pending = [k \in 1..count |-> Len(delivered) + k]
    BY <1>2 DEF Pending
  <1>4. \A k \in 1..count : Len(delivered) + k \in Nat
    BY <1>1, RingType
  <1>5. [k \in 1..count |-> Len(delivered) + k] \in Seq(Nat)
    <2>1. count \in Nat
      BY <1>1, RingType
    <2> QED
      BY <1>4, <2>1, IsASeq
  <1>6. DOMAIN Pending = 1..count /\ DOMAIN Pending = 1..Len(Pending)
    BY <1>3, <1>5, LenProperties
  <1>7. Len(Pending) = count
    BY <1>1, <1>3, <1>5, <1>6, LenProperties, RingType
  <1> QED
    BY <1>3, <1>5, <1>7

LEMMA MessagesHold == IInv => ExactlyOnceInOrder
  <1> SUFFICES ASSUME IInv PROVE ExactlyOnceInOrder
    OBVIOUS
  <1>1. TypeOK /\ RingInv
    BY DEF IInv
  <1>2. /\ Pending = [k \in 1..count |-> Len(delivered) + k]
        /\ Pending \in Seq(Nat) /\ Len(Pending) = count
    BY PendingValue
  <1>3. /\ Len(delivered) + count = accepted
        /\ \A k \in 1..Len(delivered) : delivered[k] = k
    BY <1>1 DEF RingInv
  <1>4. /\ delivered \o Pending \in Seq(Nat)
        /\ Len(delivered \o Pending) = accepted
        /\ \A k \in 1..accepted : (delivered \o Pending)[k] = k
    <2>1. /\ delivered \o Pending \in Seq(Nat)
          /\ Len(delivered \o Pending) = Len(delivered) + count
          /\ \A k \in 1..accepted : (delivered \o Pending)[k] =
               IF k <= Len(delivered) THEN delivered[k] ELSE Pending[k - Len(delivered)]
      BY <1>1, <1>2, <1>3, ConcatProperties, RingType
    <2>2. \A k \in 1..accepted :
            k <= Len(delivered) => k \in 1..Len(delivered) /\ delivered[k] = k
      BY <1>1, <1>3, RingType
    <2>3. \A k \in 1..accepted :
            ~(k <= Len(delivered)) => Pending[k - Len(delivered)] = k
      BY <1>1, <1>2, <1>3, RingType
    <2> QED
      BY <1>3, <2>1, <2>2, <2>3
  <1>5. delivered \o Pending = [k \in 1..accepted |-> k]
    BY <1>1, <1>4, LenProperties, RingType
  <1> QED
    BY <1>5 DEF ExactlyOnceInOrder

(* Every accepted message is in the ring or was wholly written once, in the   *)
(* order of acceptance.                                                      *)
THEOREM MessagesCorrect == Spec => []ExactlyOnceInOrder
  BY MessagesHold, Inductive, PTL

-----------------------------------------------------------------------------
(* The client implements the outbox.                                         *)
Exposed == /\ Pending = [k \in 1..count |-> Len(delivered) + k]
           /\ Pending \in Seq(Nat) /\ Len(Pending) = count

(* A poll that is not SendPublish, and any other call but an enqueue, leaves  *)
(* the messages alone.                                                       *)
LEMMA MessagesStay ==
  ASSUME [Next]_vars
  PROVE  \/ UNCHANGED <<count, delivered>>
         \/ PublishEnqueue
         \/ \E t : SendPublish(t) /\ UNCHANGED accepted
  <1> DEFINE Stays == UNCHANGED <<count, delivered>>
  <1>1. CASE PublishEnqueue \/ UNCHANGED vars
    BY <1>1 DEF vars, queue
  <1>2. ASSUME NEW fits, NEW halOk, NEW t, Connect(fits, halOk, t) PROVE Stays
    BY <1>2 DEF Connect
  <1>3. CASE Close
    BY <1>3 DEF Close
  <1>4. ASSUME NEW p, PeerSend(p) PROVE Stays
    BY <1>4 DEF PeerSend, queue
  <1>5. ASSUME NEW t, PollFailed(t) PROVE Stays
    BY <1>5 DEF PollFailed, PollReconnect, HalFault, MarkDisconnected, queue
  <1>6. ASSUME NEW t, PollServed(t) PROVE Stays \/ (SendPublish(t) /\ UNCHANGED accepted)
    <2>1. CASE SendPublish(t)
      BY <1>6, <2>1 DEF PollServed, producer
    <2>2. CASE PollUnconfigured \/ PollTooEarly(t) \/ NothingToRead(t)
               \/ PollReconnect(t, TRUE)
      BY <2>2 DEF PollUnconfigured, PollTooEarly, NothingToRead, PollReconnect, queue
    <2>3. CASE SendConnect(t) \/ SendPingRest(t) \/ StartPing(t)
      BY <2>3 DEF SendConnect, SendPingRest, StartPing, SendControl, queue
    <2>4. CASE ConnackTimeout(t) \/ PingTimeout(t)
      BY <2>4 DEF ConnackTimeout, PingTimeout, MarkDisconnected
    <2>5. CASE ReceiveConnack(t)
      BY <2>5 DEF ReceiveConnack, TakeConnack, MarkDisconnected, queue
    <2>6. CASE ReceiveConnected(t)
      BY <2>6 DEF ReceiveConnected, TakeConnected, MarkDisconnected, queue
    <2> QED
      BY <1>6, <2>1, <2>2, <2>3, <2>4, <2>5, <2>6 DEF PollServed
  <1> QED
    BY <1>1, <1>2, <1>3, <1>4, <1>5, <1>6 DEF Next, Application

LEMMA OutboxStep ==
  ASSUME IInv, Exposed, Exposed', [Next]_vars
  PROVE  [Promise!Next]_(Promise!outbox)
  <1> USE DEF Promise!Next, Promise!outbox, Promise!OpenOrClose
  <1>1. TypeOK /\ StageInv /\ RingInv
    BY DEF IInv
  <1>2. connected \in BOOLEAN /\ connected' \in BOOLEAN
    BY <1>1, NextType DEF TypeOK, SessionType
  <1>3. /\ Pending = [k \in 1..count |-> Len(delivered) + k]
        /\ Pending' = [k \in 1..count' |-> Len(delivered') + k]
        /\ Pending \in Seq(Nat) /\ Len(Pending) = count
        /\ Pending' \in Seq(Nat) /\ Len(Pending') = count'
    BY DEF Exposed
  <1>4. CASE UNCHANGED <<count, delivered>>
    <2>1. Pending' = Pending
      BY <1>3, <1>4
    <2>2. connected' = connected \/ connected' = ~connected
      BY <1>2
    <2> QED
      BY <1>4, <2>1, <2>2
  <1>5. CASE PublishEnqueue /\ ~UNCHANGED <<count, delivered>>
    <2>1. /\ count < SlotCount /\ count' = count + 1
          /\ delivered' = delivered /\ connected' = connected
      BY <1>5 DEF PublishEnqueue, queue, session
    <2>2. Pending' = Append(Pending, Len(delivered) + Len(Pending) + 1)
      <3>1. /\ Append(Pending, Len(delivered) + Len(Pending) + 1) \in Seq(Nat)
            /\ Len(Append(Pending, Len(delivered) + Len(Pending) + 1)) = count + 1
        BY <1>1, <1>3, RingType
      <3>2. \A k \in 1..count + 1 :
              Append(Pending, Len(delivered) + Len(Pending) + 1)[k] = Len(delivered) + k
        BY <1>1, <1>3, RingType
      <3>3. \A k \in 1..count + 1 : Pending'[k] = Len(delivered) + k
        BY <1>3, <2>1
      <3> QED
        BY <1>3, <2>1, <3>1, <3>2, <3>3, SeqEqual
    <2>3. Promise!Accept
      BY <1>3, <2>1, <2>2 DEF Promise!Accept
    <2> QED
      BY <2>3
  <1>6. CASE \E t : SendPublish(t) /\ UNCHANGED accepted /\ ~UNCHANGED <<count, delivered>>
    <2>1. /\ state = "CONNECTED" /\ count > 0 /\ count' = count - 1
          /\ delivered' = Append(delivered, slots[head].msg) /\ connected' = connected
      BY <1>6 DEF SendPublish, Serves, session
    <2>2. connected
      BY <1>1, <2>1 DEF StageInv, StageConnected
    <2>3. Pending # <<>> /\ Head(Pending) = Len(delivered) + 1
      BY <1>1, <1>3, <2>1, RingType
    <2>4. slots[head].msg = Len(delivered) + 1 /\ slots[head].msg \in Nat
      <3>1. 0 \in 0..count - 1
        BY <1>1, <2>1, RingType
      <3>2. slots[Position(head, 0)].msg = Len(delivered) + 0 + 1
        BY <1>1, <3>1 DEF RingInv
      <3> QED
        BY <1>1, <3>2, Positions, RingType
    <2>5. Len(delivered') = Len(delivered) + 1
      BY <1>1, <2>1, <2>4, RingType
    <2>6. Pending' = Tail(Pending)
      <3>1. Tail(Pending) \in Seq(Nat) /\ Len(Tail(Pending)) = count - 1
        BY <1>3, <2>3, HeadTailProperties
      <3>2. \A k \in 1..count - 1 : Tail(Pending)[k] = Len(delivered) + (k + 1)
        <4>1. \A k \in 1..count - 1 : Tail(Pending)[k] = Pending[k + 1]
          BY <1>3, <2>3, <3>1, HeadTailProperties
        <4>2. \A k \in 1..count - 1 : k + 1 \in 1..count
          BY <1>1, RingType
        <4> QED
          BY <1>3, <4>1, <4>2
      <3>3. \A k \in 1..count - 1 : Pending'[k] = Len(delivered) + (k + 1)
        <4>1. \A k \in 1..count - 1 : Pending'[k] = Len(delivered') + k
          BY <1>3, <2>1
        <4>2. Len(delivered) \in Nat /\ \A k \in 1..count - 1 : k \in Nat
          BY <1>1, RingType
        <4>3. \A k \in 1..count - 1 : Len(delivered') + k = Len(delivered) + (k + 1)
          BY <2>5, <4>2
        <4> QED
          BY <4>1, <4>3
      <3>4. /\ Len(Pending') = Len(Tail(Pending))
            /\ \A k \in 1..Len(Pending') : Pending'[k] = Tail(Pending)[k]
        BY <1>3, <2>1, <3>1, <3>2, <3>3
      <3> QED
        BY <1>3, <3>1, <3>4, SeqEqual
    <2>7. Promise!Deliver
      BY <2>1, <2>2, <2>3, <2>4, <2>6 DEF Promise!Deliver
    <2> QED
      BY <2>7
  <1> QED
    BY <1>4, <1>5, <1>6, MessagesStay

(* Only whole writes of the oldest message in an open session deliver, and a  *)
(* broken connection never touches the messages.                             *)
THEOREM RefinesOutbox == Spec => ImplementsOutbox
  <1>1. Init => Promise!Init
    <2> SUFFICES ASSUME Init PROVE Promise!Init
      OBVIOUS
    <2>1. IInv
      BY InitInv
    <2>2. Pending = <<>>
      BY <2>1, PendingValue, EmptySeq DEF Init
    <2> QED
      BY <2>2 DEF Init, Promise!Init
  <1>2. IInv => Exposed
    BY PendingValue DEF Exposed
  <1>3. IInv /\ Exposed /\ Exposed' /\ [Next]_vars => [Promise!Next]_(Promise!outbox)
    BY OutboxStep
  <1> QED
    BY <1>1, <1>2, <1>3, Inductive, PTL DEF Spec, ImplementsOutbox, Promise!Spec
-----------------------------------------------------------------------------
(* The delays of MqttTimers: the client doubles step by step what the         *)
(* reference computes from the number of failures.                           *)

IsDoubling(f, k) ==
  /\ f \in [0..k -> Nat]
  /\ f[0] = BackoffInitial /\ \A i \in 1..k : f[i] = 2 * f[i - 1]

LEMMA DoublingExists ==
  ASSUME NEW k \in Nat PROVE \E f : IsDoubling(f, k)
  <1> DEFINE P == {n \in Nat : \E f : IsDoubling(f, n)}
  <1>1. 0 \in P
    <2>1. BackoffInitial \in Nat
      BY TimersAssumption
    <2>2. IsDoubling([i \in 0..0 |-> BackoffInitial], 0)
      BY <2>1 DEF IsDoubling
    <2> QED
      BY <2>2
  <1>2. ASSUME NEW n \in P PROVE n + 1 \in P
    <2>1. n \in Nat
      OBVIOUS
    <2>2. PICK f : IsDoubling(f, n)
      OBVIOUS
    <2> DEFINE g == [i \in 0..n + 1 |-> IF i = n + 1 THEN 2 * f[n] ELSE f[i]]
    <2>3. g \in [0..n + 1 -> Nat]
      BY <2>1, <2>2 DEF IsDoubling
    <2>4. g[0] = BackoffInitial
      BY <2>1, <2>2 DEF IsDoubling
    <2>5. ASSUME NEW i \in 1..n + 1 PROVE g[i] = 2 * g[i - 1]
      <3>1. CASE i = n + 1
        BY <2>1, <3>1
      <3>2. CASE i \in 1..n
        BY <2>1, <2>2, <3>2 DEF IsDoubling
      <3> QED
        BY <2>1, <3>1, <3>2
    <2>6. IsDoubling(g, n + 1)
      BY <2>3, <2>4, <2>5 DEF IsDoubling
    <2> QED
      BY <2>1, <2>6
  <1> HIDE DEF P
  <1>3. P = Nat
    <2>1. P \subseteq Nat
      BY DEF P
    <2> QED
      BY <1>1, <1>2, <2>1, Induction
  <1> QED
    BY <1>3 DEF P

LEMMA DoubledIs ==
  ASSUME NEW k \in Nat PROVE \E f : IsDoubling(f, k) /\ Doubled(k) = f[k]
  <1> DEFINE d == CHOOSE g : g = [i \in 0..k |-> IF i = 0 THEN BackoffInitial ELSE 2 * g[i - 1]]
  <1>1. PICK f : IsDoubling(f, k)
    BY DoublingExists
  <1>2. f = [i \in 0..k |-> IF i = 0 THEN BackoffInitial ELSE 2 * f[i - 1]]
    BY <1>1 DEF IsDoubling
  <1>3. d = [i \in 0..k |-> IF i = 0 THEN BackoffInitial ELSE 2 * d[i - 1]]
    BY <1>2
  <1>4. Doubled(k) = d[k]
    BY DEF Doubled
  <1> HIDE DEF d
  <1> DEFINE P == {i \in Nat : i <= k => d[i] = f[i]}
  <1>5. 0 \in P
    BY <1>1, <1>3 DEF IsDoubling
  <1>6. ASSUME NEW i \in P PROVE i + 1 \in P
    <2> SUFFICES ASSUME i + 1 <= k PROVE d[i + 1] = f[i + 1]
      OBVIOUS
    <2>1. i \in Nat /\ d[i] = f[i] /\ i + 1 \in 1..k /\ i + 1 - 1 = i
      OBVIOUS
    <2>2. d[i + 1] = 2 * d[i]
      BY <1>3, <2>1
    <2>3. f[i + 1] = 2 * f[i + 1 - 1]
      <3> HIDE DEF P
      <3> QED
        BY <1>1, <2>1 DEF IsDoubling
    <2> QED
      BY <2>1, <2>2, <2>3
  <1> HIDE DEF P
  <1>7. P = Nat
    <2>1. P \subseteq Nat
      BY DEF P
    <2> QED
      BY <1>5, <1>6, <2>1, Induction
  <1>8. d[k] = f[k]
    BY <1>7 DEF P
  <1> QED
    BY <1>1, <1>4, <1>8

LEMMA DoubledNext ==
  ASSUME NEW k \in Nat PROVE Doubled(k) \in Nat /\ Doubled(k + 1) = 2 * Doubled(k)
  <1>1. PICK f : IsDoubling(f, k) /\ Doubled(k) = f[k]
    BY DoubledIs
  <1>2. PICK g : IsDoubling(g, k + 1) /\ Doubled(k + 1) = g[k + 1]
    BY DoubledIs
  <1> DEFINE P == {i \in Nat : i <= k => g[i] = f[i]}
  <1>3. 0 \in P
    BY <1>1, <1>2 DEF IsDoubling
  <1>4. ASSUME NEW i \in P PROVE i + 1 \in P
    <2> SUFFICES ASSUME i + 1 <= k PROVE g[i + 1] = f[i + 1]
      OBVIOUS
    <2>1. i \in Nat /\ g[i] = f[i] /\ i + 1 \in 1..k /\ i + 1 \in 1..k + 1 /\ i + 1 - 1 = i
      OBVIOUS
    <2> HIDE DEF P
    <2>2. g[i + 1] = 2 * g[i + 1 - 1]
      BY <1>2, <2>1 DEF IsDoubling
    <2>3. f[i + 1] = 2 * f[i + 1 - 1]
      BY <1>1, <2>1 DEF IsDoubling
    <2> QED
      BY <2>1, <2>2, <2>3
  <1> HIDE DEF P
  <1>5. P = Nat
    <2>1. P \subseteq Nat
      BY DEF P
    <2> QED
      BY <1>3, <1>4, <2>1, Induction
  <1>6. g[k] = f[k]
    BY <1>5 DEF P
  <1>7. g[k + 1] = 2 * g[k + 1 - 1] /\ k + 1 - 1 = k
    BY <1>2 DEF IsDoubling
  <1>8. f[k] \in Nat
    BY <1>1 DEF IsDoubling
  <1> QED
    BY <1>1, <1>2, <1>6, <1>7, <1>8

LEMMA DoubledStart == Doubled(0) = BackoffInitial
  <1>1. PICK f : IsDoubling(f, 0) /\ Doubled(0) = f[0]
    BY DoubledIs
  <1> QED
    BY <1>1 DEF IsDoubling

LEMMA DoubledGrows ==
  ASSUME NEW k \in Nat PROVE Doubled(k) >= k + 1
  <1> DEFINE P == {i \in Nat : Doubled(i) >= i + 1}
  <1>1. 0 \in P
    BY DoubledStart, TimersAssumption
  <1>2. ASSUME NEW i \in P PROVE i + 1 \in P
    <2>1. i \in Nat /\ Doubled(i) >= i + 1
      OBVIOUS
    <2>2. PICK x \in Nat : x = Doubled(i) /\ Doubled(i + 1) = 2 * x
      BY <2>1, DoubledNext
    <2>3. 2 * x >= i + 1 + 1
      BY <2>1, <2>2
    <2> QED
      BY <2>1, <2>2, <2>3
  <1> HIDE DEF P
  <1>3. P = Nat
    <2>1. P \subseteq Nat
      BY DEF P
    <2> QED
      BY <1>1, <1>2, <2>1, Induction
  <1> QED
    BY <1>3 DEF P

LEMMA DelayNext ==
  ASSUME NEW n \in Nat \ {0}
  PROVE  /\ ReferenceDelay(n) \in 1..BackoffMax
         /\ ReferenceDelay(n + 1) = NextBackoff(ReferenceDelay(n))
  <1>1. PICK k \in Nat : k = n - 1 /\ k + 1 = n /\ n + 1 - 1 = k + 1
    OBVIOUS
  <1>2. PICK x \in Nat : x = Doubled(k) /\ Doubled(k + 1) = 2 * x
    BY DoubledNext
  <1>3. x >= 1
    BY <1>2, DoubledGrows
  <1>4. ReferenceDelay(n) = Least(x, BackoffMax) /\ ReferenceDelay(n + 1) = Least(2 * x, BackoffMax)
    BY <1>1, <1>2 DEF ReferenceDelay
  <1>5. BackoffMax \in Nat \ {0}
    BY TimersAssumption
  <1>6. Least(x, BackoffMax) \in 1..BackoffMax
    BY <1>3, <1>5 DEF Least
  <1>7. Least(2 * x, BackoffMax) = NextBackoff(Least(x, BackoffMax))
    <2>1. CASE x >= BackoffMax
      BY <1>5, <2>1 DEF Least, NextBackoff
    <2>2. CASE x < BackoffMax /\ x > BackoffMax \div 2
      <3>1. 2 * x > BackoffMax
        BY <1>5, <2>2
      <3> QED
        BY <1>5, <2>2, <3>1 DEF Least, NextBackoff
    <2>3. CASE x < BackoffMax /\ x <= BackoffMax \div 2
      <3>1. 2 * x <= BackoffMax
        BY <1>5, <2>3
      <3> QED
        BY <1>5, <2>3, <3>1 DEF Least, NextBackoff
    <2> QED
      BY <1>5, <2>1, <2>2, <2>3
  <1> QED
    BY <1>4, <1>6, <1>7

LEMMA DelayFirst ==
  /\ ReferenceDelay(1) = BackoffInitial
  /\ ReferenceDelay(2) = NextBackoff(BackoffInitial)
  <1>1. ReferenceDelay(1) = BackoffInitial
    BY DoubledStart, TimersAssumption DEF ReferenceDelay, Least
  <1>2. ReferenceDelay(1 + 1) = NextBackoff(ReferenceDelay(1))
    BY DelayNext
  <1> QED
    BY <1>1, <1>2

LEMMA DelayCapped ==
  ASSUME NEW n \in Nat, n >= BackoffMax PROVE ReferenceDelay(n) = BackoffMax
  <1>1. BackoffMax \in Nat \ {0}
    BY TimersAssumption
  <1>2. PICK k \in Nat : k = n - 1
    BY <1>1
  <1>3. PICK x \in Nat : x = Doubled(k) /\ x >= k + 1
    BY DoubledNext, DoubledGrows
  <1> QED
    BY <1>1, <1>2, <1>3 DEF ReferenceDelay, Least

-----------------------------------------------------------------------------
(* Retries.  The client's deadline is a point of a clock that wraps; real     *)
(* time is what rested counts.  As long as nobody polls half a turn of the    *)
(* clock late the two agree.                                                  *)

RetryInv ==
  /\ failures \in 0..BackoffMax /\ rested \in 0..BackoffMax
  /\ connected => failures = 0
  /\ configured =>
       /\ backoff = ReferenceDelay(failures + 1)
       /\ state = "DISCONNECTED" =>
            /\ failures # 0 /\ rested < ReferenceDelay(failures)
            /\ reconnectAt = Clock(now + (ReferenceDelay(failures) - rested))

(* From a point of the clock to one less than a turn later, or earlier.       *)
LEMMA ElapsedBetween ==
  ASSUME NEW a \in Int, NEW b \in Int, NEW e \in 0..ClockMod - 1, NEW c \in Int,
         a - b = c * ClockMod + e
  PROVE  Elapsed(Clock(a), Clock(b)) = e
  <1>0. ClockMod \in Nat \ {0}
    BY TimersAssumption
  <1> DEFINE p == a \div ClockMod
             q == b \div ClockMod
             x == a % ClockMod
             y == b % ClockMod
  <1>1. /\ p \in Int /\ q \in Int /\ x \in Int /\ y \in Int
        /\ a = p * ClockMod + x /\ b = q * ClockMod + y
    BY <1>0
  <1>2. Clock(a) = x /\ Clock(b) = y
    BY DEF Clock
  <1> HIDE DEF p, q, x, y
  <1>3. x - y = (a - b) - (p * ClockMod - q * ClockMod)
    BY <1>0, <1>1
  <1>4. x - y = (c - p + q) * ClockMod + e
    BY <1>0, <1>1, <1>3
  <1>5. x - y \in Int /\ c - p + q \in Int
    BY <1>1
  <1>6. (x - y) % ClockMod = e
    BY <1>0, <1>4, <1>5, Remainder
  <1> QED
    BY <1>2, <1>6 DEF Elapsed

LEMMA ReachedWhenRested ==
  ASSUME NEW delay \in 1..BackoffMax, NEW r \in 0..BackoffMax, r < delay,
         NEW d \in 0..Half, BackoffMax <= Half, now \in Int
  PROVE  TimeReached(Clock(now + d), Clock(now + (delay - r))) <=> r + d >= delay
  <1>0. /\ ClockMod \in Nat \ {0} /\ Half \in Nat /\ 2 * Half <= ClockMod
        /\ BackoffMax \in Nat
    BY TimersAssumption DEF Half
  <1>1. PICK a \in Int, b \in Int : a = now + d /\ b = now + (delay - r)
    BY <1>0
  <1>2. a - b = r + d - delay
    BY <1>0, <1>1
  <1>3. CASE r + d >= delay
    <2>1. PICK e \in 0..ClockMod - 1 : e = r + d - delay /\ e < Half
      BY <1>0, <1>3
    <2>2. a - b = 0 * ClockMod + e
      BY <1>0, <1>2, <2>1
    <2>3. Elapsed(Clock(a), Clock(b)) = e
      BY <2>2, ElapsedBetween
    <2> QED
      BY <1>1, <1>3, <2>1, <2>3 DEF TimeReached
  <1>4. CASE r + d < delay
    <2>1. PICK e \in 0..ClockMod - 1 : e = r + d - delay + ClockMod /\ e >= Half
      BY <1>0, <1>4
    <2>2. a - b = (-1) * ClockMod + e
      BY <1>0, <1>2, <2>1
    <2>3. Elapsed(Clock(a), Clock(b)) = e
      BY <2>2, ElapsedBetween
    <2>4. ~(e < Half)
      BY <1>0, <2>1
    <2> QED
      BY <1>0, <1>1, <1>4, <2>3, <2>4 DEF TimeReached
  <1> QED
    BY <1>0, <1>3, <1>4

LEMMA SameDeadline ==
  ASSUME NEW d \in Nat, NEW k \in Int, now \in Int
  PROVE  Clock(now + k) = Clock(Clock(now + d) + (k - d))
  <1>0. ClockMod \in Nat \ {0}
    BY TimersAssumption
  <1> DEFINE p == (now + d) \div ClockMod
             x == (now + d) % ClockMod
             q == (now + k) \div ClockMod
             y == (now + k) % ClockMod
  <1>1. /\ p \in Int /\ q \in Int /\ x \in Int /\ y \in 0..ClockMod - 1
        /\ now + d = p * ClockMod + x /\ now + k = q * ClockMod + y
    BY <1>0
  <1>2. Clock(now + d) = x /\ Clock(now + k) = y
    BY DEF Clock
  <1> HIDE DEF p, q, x, y
  <1>3. x + (k - d) = (q - p) * ClockMod + y
    BY <1>0, <1>1
  <1>4. x + (k - d) \in Int /\ q - p \in Int
    BY <1>1
  <1>5. (x + (k - d)) % ClockMod = y
    BY <1>0, <1>1, <1>3, <1>4, Remainder
  <1> QED
    BY <1>2, <1>5 DEF Clock

(* A failure that is the n-th in a row starts the n-th delay.                 *)
LEMMA RetryStarts ==
  ASSUME NEW n \in 1..BackoffMax, NEW b, b = ReferenceDelay(n), now' \in Int,
         NextBackoff(b) = ReferenceDelay(n + 1),
         ScheduleReconnect(b, now'), ~connected', failures' = n, rested' = 0
  PROVE  RetryInv'
  <1>1. n \in Nat \ {0} /\ BackoffMax \in Nat
    BY TimersAssumption
  <1>2. b \in 1..BackoffMax
    BY <1>1, DelayNext
  <1>3. reconnectAt' = Clock(now' + (b - 0))
    BY <1>1, <1>2 DEF ScheduleReconnect
  <1>4. backoff' = ReferenceDelay(n + 1)
    BY DEF ScheduleReconnect
  <1>5. n # 0 /\ 0 < b /\ 0 \in 0..BackoffMax /\ n \in 0..BackoffMax
    BY <1>1, <1>2
  <1> QED
    BY <1>1, <1>3, <1>4, <1>5 DEF RetryInv, Clock

LEMMA RetryFails ==
  ASSUME RetryInv, configured, now' \in Int, ScheduleReconnect(backoff, now'), ~connected',
         failures' = Least(failures + 1, BackoffMax), rested' = 0
  PROVE  RetryInv'
  <1>1. failures \in 0..BackoffMax /\ backoff = ReferenceDelay(failures + 1)
        /\ BackoffMax \in Nat \ {0}
    BY TimersAssumption DEF RetryInv
  <1>2. CASE failures + 1 <= BackoffMax
    <2>1. PICK n \in 1..BackoffMax : n = failures + 1 /\ n \in Nat \ {0}
      BY <1>1, <1>2
    <2>2. failures' = n /\ backoff = ReferenceDelay(n)
      BY <1>1, <1>2, <2>1 DEF Least
    <2>3. NextBackoff(backoff) = ReferenceDelay(n + 1)
      BY <2>1, <2>2, DelayNext
    <2> QED
      BY <2>2, <2>3, RetryStarts
  <1>3. CASE failures = BackoffMax
    <2>1. failures' = BackoffMax /\ BackoffMax \in 1..BackoffMax
      BY <1>1, <1>3 DEF Least
    <2>2. ReferenceDelay(BackoffMax) = BackoffMax /\ ReferenceDelay(BackoffMax + 1) = BackoffMax
      BY <1>1, DelayCapped
    <2>3. backoff = BackoffMax
      BY <1>1, <1>3, <2>2
    <2>4. NextBackoff(backoff) = BackoffMax
      BY <1>1, <2>3 DEF NextBackoff
    <2> QED
      BY <2>1, <2>2, <2>3, <2>4, RetryStarts
  <1> QED
    BY <1>1, <1>2, <1>3

LEMMA RetryFirst ==
  ASSUME now' \in Int, ScheduleReconnect(BackoffInitial, now'), ~connected',
         failures' = 1, rested' = 0
  PROVE  RetryInv'
  <1>1. 1 \in 1..BackoffMax
    BY TimersAssumption
  <1> QED
    BY <1>1, DelayFirst, RetryStarts

LEMMA RetryGoesOn ==
  ASSUME RetryInv, configured, state' # "DISCONNECTED", backoff' = backoff,
         connected' => connected, failures' = failures, rested' \in 0..BackoffMax
  PROVE  RetryInv'
  BY DEF RetryInv

LEMMA RetryAccepted ==
  ASSUME state' # "DISCONNECTED", backoff' = BackoffInitial, failures' = 0,
         rested' \in 0..BackoffMax
  PROVE  RetryInv'
  <1>1. 0 \in 0..BackoffMax /\ 0 + 1 = 1
    BY TimersAssumption
  <1> QED
    BY <1>1, DelayFirst DEF RetryInv

LEMMA RetryUntouched ==
  ASSUME RetryInv, UNCHANGED <<configured, connected, state, backoff, reconnectAt, now,
                               failures, rested>>
  PROVE  RetryInv'
  BY DEF RetryInv, Clock

(* Which bytes come first does not depend on how many are read: an answer is  *)
(* bad whatever part of it is read, if four bytes of it are.                  *)
LEMMA SameAnswer ==
  ASSUME TypeOK, NEW n \in Receivable, NEW m \in Receivable, ConnackBad(Received(n)),
         Len(Received(m)) >= 4
  PROVE  ConnackBad(Received(m))
  <1>1. /\ rx \in Seq(Bytes) /\ inbound \in Seq(Bytes)
        /\ n \in Nat /\ n >= 1 /\ n <= Len(inbound)
        /\ m \in Nat /\ m >= 1 /\ m <= Len(inbound)
    BY ReceivedType DEF TypeOK, WorkBufferType, NetworkType
  <1>2. /\ Len(Received(n)) = Len(rx) + n /\ Len(Received(m)) = Len(rx) + m
        /\ Len(rx) \in Nat
    BY <1>1, ReceivedType
  <1>3. ASSUME NEW i \in Nat, i >= 1, i <= Len(rx) + n, i <= Len(rx) + m
        PROVE  Received(n)[i] = Received(m)[i]
    BY <1>1, <1>3 DEF Received
  <1>4. Len(rx) + n >= 1 /\ Len(rx) + m >= 4
    BY <1>1, <1>2
  <1>5. CASE Received(n)[1] # ConnackType
    <2>1. Received(m)[1] = Received(n)[1]
      BY <1>1, <1>3, <1>4, <1>2
    <2> QED
      BY <1>5, <2>1 DEF ConnackBad
  <1>6. CASE Len(Received(n)) >= 2 /\ Received(n)[2] # 2
    <2>1. Received(m)[2] = Received(n)[2] /\ Len(Received(m)) >= 2
      BY <1>1, <1>2, <1>3, <1>4, <1>6
    <2> QED
      BY <1>6, <2>1 DEF ConnackBad
  <1>7. CASE Len(Received(n)) >= 4 /\ (Received(n)[3] # 0 \/ Received(n)[4] # 0)
    <2>1. Received(m)[3] = Received(n)[3] /\ Received(m)[4] = Received(n)[4]
      BY <1>1, <1>2, <1>3, <1>4, <1>7
    <2> QED
      BY <1>7, <2>1 DEF ConnackBad
  <1> QED
    BY <1>5, <1>6, <1>7 DEF ConnackBad

LEMMA ServedCases ==
  ASSUME NEW t, PollServed(t)
  PROVE  \/ ~configured
         \/ /\ configured
            /\ \/ PollTooEarly(t) \/ PollReconnect(t, TRUE) \/ SendConnect(t)
               \/ ConnackTimeout(t) \/ ReceiveConnack(t) \/ PingTimeout(t)
               \/ SendPingRest(t) \/ ReceiveConnected(t) \/ NothingToRead(t)
               \/ SendPublish(t) \/ StartPing(t)
  BY DEF PollServed, PollUnconfigured

LEMMA ServedUnconfigured ==
  ASSUME NEW t, PollServed(t), ~configured
  PROVE  UNCHANGED <<session, control_, rx, timers, queue, network, delivered>>
  BY DEF PollServed, PollUnconfigured

LEMMA PollRetry ==
  ASSUME TypeOK, StageInv, RetryInv, BackoffMax <= Half,
         NEW d \in PollGaps, d <= Half, NEW served \in BOOLEAN,
         \/ served /\ PollServed(Clock(now + d))
         \/ ~served /\ PollFailed(Clock(now + d)),
         ObservePoll(d, served)
  PROVE  RetryInv'
  <1>1. PICK t \in Int : t = Clock(now + d)
    BY ClockGap
  <1>2. \/ served /\ PollServed(t)
        \/ ~served /\ PollFailed(t)
    BY <1>1
  <1>3. /\ now' = t /\ now \in Int /\ d \in 0..Half /\ d \in Nat
        /\ BackoffMax \in Nat \ {0} /\ rested \in 0..BackoffMax /\ failures \in 0..BackoffMax
    <2>1. now' = t
      BY <1>2 DEF PollServed, PollFailed
    <2>2. d \in Nat /\ BackoffMax \in Nat \ {0} /\ Half \in Nat
      BY TimersAssumption DEF Half
    <2>3. now \in Int /\ rested \in 0..BackoffMax /\ failures \in 0..BackoffMax
      BY DEF TypeOK, TimersType, RetryInv
    <2> QED
      BY <2>1, <2>2, <2>3
  <1>4. /\ rested' = IF Fails(t) THEN 0 ELSE Least(rested + d, BackoffMax)
        /\ connected' => failures' = 0
        /\ ~connected' /\ ~Fails(t) => failures' = failures
        /\ ~connected' /\ Fails(t) /\ ~(served /\ ReadsConnack(t))
             => failures' = Least(failures + 1, BackoffMax)
        /\ ~connected' /\ Fails(t) /\ served /\ ReadsConnack(t) => failures' = 1
    BY <1>1 DEF ObservePoll
  <1>5. /\ rested' \in 0..BackoffMax
        /\ failures' \in 0..BackoffMax
    <2>1. Least(rested + d, BackoffMax) \in 0..BackoffMax
          /\ Least(failures + 1, BackoffMax) \in 0..BackoffMax
      BY <1>3 DEF Least
    <2>2. 0 \in 0..BackoffMax /\ 1 \in 0..BackoffMax
      BY <1>3
    <2>3. rested' \in 0..BackoffMax
      BY <1>4, <2>1, <2>2
    <2>4. \/ failures' = 0 \/ failures' = failures \/ failures' = 1
          \/ failures' = Least(failures + 1, BackoffMax)
      BY <1>4
    <2> QED
      BY <1>3, <2>1, <2>2, <2>3, <2>4
  <1>6. CASE ~configured
    <2>1. ~configured'
      BY <1>2, <1>6 DEF PollServed, PollFailed, PollUnconfigured, session
    <2> QED
      BY <1>4, <1>5, <2>1 DEF RetryInv
  <1>7. ASSUME configured, PollTooEarly(t) PROVE RetryInv'
    <2>1. /\ state = "DISCONNECTED" /\ ~TimeReached(t, reconnectAt)
          /\ UNCHANGED <<configured, connected, state, backoff, reconnectAt>>
      BY <1>7 DEF PollTooEarly, session, timers
    <2>2. ~Fails(t)
      BY <2>1 DEF Fails, Reconnects, PollReconnect
    <2>3. ~connected'
      BY <2>1 DEF StageInv, StageDisconnected
    <2>4. failures' = failures /\ rested' = Least(rested + d, BackoffMax)
      BY <1>4, <2>2, <2>3
    <2>5. /\ failures \in Nat \ {0} /\ rested < ReferenceDelay(failures)
          /\ reconnectAt = Clock(now + (ReferenceDelay(failures) - rested))
      BY <1>3, <1>7, <2>1 DEF RetryInv
    <2>6. PICK delay \in 1..BackoffMax : delay = ReferenceDelay(failures)
      BY <2>5, DelayNext
    <2>7. rested + d < delay
      <3>1. ~(rested + d >= delay)
        BY <1>1, <1>3, <2>1, <2>5, <2>6, ReachedWhenRested
      <3> QED
        BY <1>3, <2>6, <3>1
    <2>8. rested' = rested + d
      BY <1>3, <2>4, <2>6, <2>7 DEF Least
    <2>9. reconnectAt' = Clock(now' + (delay - rested'))
      <3>1. PICK k \in Int : k = delay - rested
        BY <1>3, <2>6
      <3>2. Clock(now + k) = Clock(t + (k - d))
        BY <1>1, <1>3, SameDeadline
      <3>3. k - d = delay - rested'
        BY <1>3, <2>6, <2>8, <3>1
      <3> QED
        BY <1>3, <2>1, <2>5, <2>6, <3>1, <3>2, <3>3
    <2>10. backoff = ReferenceDelay(failures + 1)
      BY <1>7 DEF RetryInv
    <2>11. /\ failures' # 0 /\ rested' < ReferenceDelay(failures')
           /\ reconnectAt' = Clock(now' + (ReferenceDelay(failures') - rested'))
           /\ backoff' = ReferenceDelay(failures' + 1)
      BY <2>1, <2>4, <2>5, <2>6, <2>7, <2>8, <2>9, <2>10
    <2> QED
      BY <1>4, <1>5, <2>11 DEF RetryInv
  <1>8. ASSUME configured, NEW halOk \in BOOLEAN, PollReconnect(t, halOk) PROVE RetryInv'
    <2>1. state = "DISCONNECTED" /\ ~connected'
      BY <1>8 DEF PollReconnect, ConnectionOpened, ConnectionRefused
    <2>2. CASE ConnectionOpened(t) /\ UNCHANGED backoff
      <3>1. state' = "SENDING_CONNECT"
        BY <2>2 DEF ConnectionOpened
      <3>2. failures' = failures
        BY <1>4, <2>1, <3>1 DEF Fails
      <3> QED
        BY <1>5, <1>8, <2>1, <2>2, <3>1, <3>2, RetryGoesOn
    <2>3. CASE ConnectionRefused(backoff, t) /\ UNCHANGED state
      <3>1. Fails(t)
        BY <1>8, <2>1, <2>3 DEF Fails, Reconnects
      <3>2. ~ReadsConnack(t)
        BY <2>1 DEF ReadsConnack, WaitsForConnack
      <3> QED
        BY <1>3, <1>4, <1>8, <2>1, <2>3, <3>1, <3>2, RetryFails DEF ConnectionRefused
    <2> QED
      BY <1>8, <2>2, <2>3 DEF PollReconnect
  <1>9. ASSUME configured, state # "DISCONNECTED", MarkDisconnected(backoff, t),
               ~(served /\ ReadsConnack(t))
        PROVE  RetryInv'
    <2>1. Fails(t) /\ ~connected' /\ ScheduleReconnect(backoff, t)
      BY <1>9 DEF Fails, MarkDisconnected
    <2> QED
      BY <1>3, <1>4, <1>9, <2>1, RetryFails
  <1>10. ASSUME configured, state' # "DISCONNECTED", UNCHANGED <<backoff, connected>>
         PROVE  RetryInv'
    <2>1. failures' = failures
      BY <1>4, <1>10 DEF Fails, RetryInv
    <2> QED
      BY <1>5, <1>10, <2>1, RetryGoesOn
  <1>11. CASE configured /\ SendConnect(t)
    <2>1. state' # "DISCONNECTED" /\ UNCHANGED <<backoff, connected>>
      BY <1>11 DEF SendConnect, SendControl
    <2> QED
      BY <1>10, <1>11, <2>1
  <1>12. CASE configured /\ (SendPingRest(t) \/ StartPing(t))
    <2>1. state' # "DISCONNECTED" /\ UNCHANGED <<backoff, connected>>
      BY <1>12 DEF SendPingRest, StartPing, SendControl, Serves
    <2> QED
      BY <1>10, <1>12, <2>1
  <1>13. CASE configured /\ SendPublish(t)
    <2>1. state' # "DISCONNECTED" /\ UNCHANGED <<backoff, connected>>
      BY <1>13 DEF SendPublish, Serves, session
    <2> QED
      BY <1>10, <1>13, <2>1
  <1>14. CASE configured /\ NothingToRead(t)
    <2>1. state' # "DISCONNECTED" /\ UNCHANGED <<backoff, connected>>
      BY <1>14 DEF NothingToRead, WaitsForConnack, LooksForBytes, Serves, session, timers
    <2> QED
      BY <1>10, <1>14, <2>1
  <1>15. CASE configured /\ (ConnackTimeout(t) \/ PingTimeout(t))
    <2>1. /\ state # "DISCONNECTED" /\ MarkDisconnected(backoff, t)
          /\ ~ReadsConnack(t)
      BY <1>15 DEF ConnackTimeout, PingTimeout, ReadsConnack, WaitsForConnack
    <2> QED
      BY <1>9, <1>15, <2>1
  <1>16. CASE configured /\ ~served /\ HalFault(t)
    <2>1. state # "DISCONNECTED" /\ MarkDisconnected(backoff, t)
      BY <1>16 DEF HalFault, WaitsForConnack, Serves
    <2> QED
      BY <1>9, <1>16, <2>1
  <1>17. CASE configured /\ ReceiveConnected(t)
    <2>1. state = "CONNECTED"
      BY <1>17 DEF ReceiveConnected, LooksForBytes, Serves
    <2>2. CASE MarkDisconnected(backoff, t)
      <3>1. ~ReadsConnack(t)
        BY <2>1 DEF ReadsConnack, WaitsForConnack
      <3> QED
        BY <1>9, <1>17, <2>1, <2>2, <3>1
    <2>3. CASE UNCHANGED <<state, backoff, connected>>
      BY <1>10, <1>17, <2>1, <2>3
    <2> QED
      BY <1>17, <2>2, <2>3 DEF ReceiveConnected, TakeConnected
  <1>18. CASE configured /\ served /\ ReceiveConnack(t)
    <2>1. state = "WAITING_CONNACK" /\ WaitsForConnack(t)
      BY <1>18 DEF ReceiveConnack, WaitsForConnack
    <2>2. PICK n \in Receivable : TakeConnack(n, t)
      BY <1>18 DEF ReceiveConnack
    <2>3. CASE ConnackBad(Received(n)) /\ MarkDisconnected(backoff, t)
      <3>1. ~ReadsConnack(t)
        BY <2>3, SameAnswer DEF ReadsConnack
      <3> QED
        BY <1>9, <1>18, <2>1, <2>3, <3>1
    <2>4. CASE UNCHANGED <<session, timers>>
      BY <1>10, <1>18, <2>1, <2>4 DEF session, timers
    <2>5. CASE state' = "CONNECTED" /\ connected' = TRUE /\ backoff' = BackoffInitial
      BY <1>4, <1>5, <2>5, RetryAccepted
    <2>6. CASE /\ ~ConnackBad(Received(n)) /\ Len(Received(n)) >= 4
               /\ MarkDisconnected(BackoffInitial, t)
      <3>1. ReadsConnack(t)
        BY <2>1, <2>6 DEF ReadsConnack
      <3>2. Fails(t) /\ ~connected' /\ ScheduleReconnect(BackoffInitial, t)
        BY <2>1, <2>6 DEF Fails, MarkDisconnected
      <3> QED
        BY <1>3, <1>4, <1>18, <3>1, <3>2, RetryFirst
    <2>7. \/ ConnackBad(Received(n)) /\ MarkDisconnected(backoff, t)
          \/ UNCHANGED <<session, timers>>
          \/ state' = "CONNECTED" /\ connected' = TRUE /\ backoff' = BackoffInitial
          \/ /\ ~ConnackBad(Received(n)) /\ Len(Received(n)) >= 4
             /\ MarkDisconnected(BackoffInitial, t)
      BY <2>2 DEF TakeConnack
    <2> QED
      BY <2>3, <2>4, <2>5, <2>6, <2>7
  <1>19. CASE ~served /\ PollFailed(t)
    BY <1>8, <1>16, <1>19 DEF PollFailed
  <1>20. CASE served /\ PollServed(t)
    <2>1. CASE configured /\ PollReconnect(t, TRUE)
      BY <1>8, <2>1
    <2>2. CASE configured /\ PollTooEarly(t)
      BY <1>7, <2>2
    <2>3. \/ ~configured
          \/ /\ configured
             /\ \/ PollTooEarly(t) \/ PollReconnect(t, TRUE) \/ SendConnect(t)
                \/ ConnackTimeout(t) \/ ReceiveConnack(t) \/ PingTimeout(t)
                \/ SendPingRest(t) \/ ReceiveConnected(t) \/ NothingToRead(t)
                \/ SendPublish(t) \/ StartPing(t)
      BY <1>20, ServedCases
    <2> QED
      BY <1>6, <1>11, <1>12, <1>13, <1>14, <1>15, <1>17, <1>18, <1>20, <2>1, <2>2, <2>3
  <1> QED
    BY <1>2, <1>19, <1>20

LEMMA ConnectRetry ==
  ASSUME NEW halOk \in BOOLEAN, NEW t \in Int, Connect(TRUE, halOk, t), ObserveConnect
  PROVE  RetryInv'
  <1>1. now' = t /\ ~connected' /\ rested' = 0
    BY DEF Connect, ConnectionOpened, ConnectionRefused, ObserveConnect
  <1>2. CASE ConnectionOpened(t) /\ backoff' = BackoffInitial
    <2>1. state' # "DISCONNECTED" /\ failures' = 0
      BY <1>2 DEF ConnectionOpened, ObserveConnect
    <2>2. 0 \in 0..BackoffMax
      BY TimersAssumption
    <2> QED
      BY <1>1, <1>2, <2>1, <2>2, RetryAccepted
  <1>3. CASE ConnectionRefused(BackoffInitial, t)
    <2>1. failures' = 1 /\ ScheduleReconnect(BackoffInitial, now')
      BY <1>1, <1>3 DEF ConnectionRefused, CloseLink, ObserveConnect
    <2> QED
      BY <1>1, <2>1, RetryFirst
  <1> QED
    BY <1>2, <1>3 DEF Connect

LEMMA TimersSteps == [TimersNext]_tvars => [Next]_vars
  BY DEF TimersNext, tvars, Next, Application

LEMMA TimersInductive == TimersSpec => []IInv
  <1>1. TimersInit => IInv
    BY InitInv DEF TimersInit
  <1> QED
    BY <1>1, NextInv, TimersSteps, PTL DEF TimersSpec

(* Between two attempts passes exactly the delay of the reference, doubled    *)
(* with each failure and clamped, wherever the clock wraps: if only no delay  *)
(* and no gap between polls is longer than half a turn of the clock, which    *)
(* is what the comparison in proto_mqtt_time_reached can tell.                *)
THEOREM RetryCorrect ==
  ASSUME BackoffMax <= Half, \A d \in PollGaps : d <= Half
  PROVE  TimersSpec => RetriesOnTime
  <1>1. TimersInit => RetryInv
    BY TimersAssumption DEF TimersInit, Init, RetryInv
  <1>2. IInv /\ RetryInv /\ [TimersNext]_tvars => RetryInv'
    <2> SUFFICES ASSUME TypeOK, StageInv, RetryInv, [TimersNext]_tvars PROVE RetryInv'
      BY DEF IInv
    <2>1. ASSUME NEW d \in PollGaps, PollServed(Clock(now + d)), ObservePoll(d, TRUE)
          PROVE  RetryInv'
      BY <2>1, PollRetry
    <2>2. ASSUME NEW d \in PollGaps, PollFailed(Clock(now + d)), ObservePoll(d, FALSE)
          PROVE  RetryInv'
      BY <2>2, PollRetry
    <2>3. ASSUME NEW halOk \in BOOLEAN, NEW d \in PollGaps,
                 Connect(TRUE, halOk, Clock(now + d)), ObserveConnect
          PROVE  RetryInv'
      BY <2>3, ClockGap, ConnectRetry
    <2>4. CASE PublishEnqueue /\ UNCHANGED observer
      BY <2>4, RetryUntouched DEF PublishEnqueue, observer, session, timers
    <2>5. ASSUME NEW p, PeerSend(p), UNCHANGED observer PROVE RetryInv'
      BY <2>5, RetryUntouched DEF PeerSend, observer, session, timers
    <2>6. CASE UNCHANGED tvars
      BY <2>6, RetryUntouched DEF tvars, vars, observer, session, timers
    <2> QED
      BY <2>1, <2>2, <2>3, <2>4, <2>5, <2>6 DEF TimersNext
  <1>3. ASSUME IInv, RetryInv, NEW d \in PollGaps, configured, state = "DISCONNECTED",
               now' = Clock(now + d)
        PROVE  /\ Reconnects(now') => rested + d >= ReferenceDelay(failures)
               /\ rested + d >= ReferenceDelay(failures) => ~PollTooEarly(now')
    <2>1. /\ rested \in 0..BackoffMax /\ failures \in Nat \ {0}
          /\ rested < ReferenceDelay(failures)
          /\ reconnectAt = Clock(now + (ReferenceDelay(failures) - rested))
      BY <1>3, TimersAssumption DEF RetryInv
    <2>2. PICK delay \in 1..BackoffMax : delay = ReferenceDelay(failures)
      BY <2>1, DelayNext
    <2>3. now \in Int /\ d \in 0..Half
      BY <1>3, TimersAssumption DEF IInv, TypeOK, TimersType, Half
    <2>4. TimeReached(now', reconnectAt) <=> rested + d >= delay
      BY <1>3, <2>1, <2>2, <2>3, ReachedWhenRested
    <2> QED
      BY <2>2, <2>4 DEF Reconnects, PollReconnect, PollTooEarly
  <1>4. IInv /\ RetryInv =>
          [\A d \in PollGaps :
             configured /\ state = "DISCONNECTED" /\ now' = Clock(now + d) =>
               /\ Reconnects(now') => rested + d >= ReferenceDelay(failures)
               /\ rested + d >= ReferenceDelay(failures) => ~PollTooEarly(now')]_tvars
    BY <1>3
  <1> QED
    BY <1>1, <1>2, <1>4, TimersInductive, PTL DEF TimersSpec, RetriesOnTime

-----------------------------------------------------------------------------
(* Silence.  In a session with an empty buffer the client's own measure of    *)
(* its silence is the real one, because it is less than a keepalive period    *)
(* after every poll and no gap takes it round the clock.                      *)

SilenceInv ==
  /\ silence \in Nat
  /\ connected /\ rx = <<>> =>
       silence <= Elapsed(now, lastIo) /\ Elapsed(now, lastIo) < Keepalive

LEMMA ElapsedLonger ==
  ASSUME NEW s \in Int, now \in Int, NEW d \in Nat, Elapsed(now, s) + d < ClockMod
  PROVE  Elapsed(Clock(now + d), s) = Elapsed(now, s) + d
  <1>0. ClockMod \in Nat \ {0}
    BY TimersAssumption
  <1> DEFINE p == (now + d) \div ClockMod
             x == (now + d) % ClockMod
             q == (now - s) \div ClockMod
             y == (now - s) % ClockMod
  <1>1. /\ p \in Int /\ q \in Int /\ x \in Int /\ y \in 0..ClockMod - 1
        /\ now + d = p * ClockMod + x /\ now - s = q * ClockMod + y
    BY <1>0
  <1>2. Clock(now + d) = x /\ Elapsed(now, s) = y
    BY DEF Clock, Elapsed
  <1> HIDE DEF p, q, x, y
  <1>3. x - s = (q - p) * ClockMod + (y + d)
    BY <1>0, <1>1
  <1>4. x - s \in Int /\ q - p \in Int /\ y + d \in 0..ClockMod - 1
    BY <1>0, <1>1, <1>2
  <1>5. (x - s) % ClockMod = y + d
    BY <1>0, <1>3, <1>4, Remainder
  <1> QED
    BY <1>2, <1>5 DEF Elapsed

LEMMA SpokeJustNow ==
  ASSUME silence' = 0, lastIo' = now', now' \in Int PROVE SilenceInv'
  <1>1. Elapsed(now', now') = 0
    BY ElapsedNothing, TimersAssumption DEF Elapsed
  <1>2. Elapsed(now', lastIo') = 0 /\ 0 < Keepalive /\ 0 \in Nat /\ 0 <= 0
    BY <1>1, TimersAssumption
  <1> QED
    BY <1>2 DEF SilenceInv, Elapsed

(* A packet, or part of one, that was written shows on the wire.              *)
LEMMA PingRestWritten ==
  ASSUME TypeOK, StageInv, NEW t \in Int, SendPingRest(t) PROVE Wrote
  <1>1. StageConnected /\ control # "NONE"
    BY DEF SendPingRest, Serves, StageInv
  <1>2. /\ controlSent \in Nat /\ controlSent > 0
        /\ control = "PINGREQ" /\ PartOf(<<"PINGREQ", 0>>, controlSent)
    BY <1>1 DEF StageConnected, TypeOK, WorkBufferType
  <1>3. wire.packet = <<"PINGREQ", 0>> /\ wire.got = controlSent
    BY <1>2 DEF PartOf
  <1>4. PICK n \in 1..(PingLen - controlSent) :
          wire' = Written(<<control, 0>>, controlSent, n, PingLen)
    BY DEF SendPingRest, SendControl
  <1>5. CASE controlSent + n = PingLen
    <2>1. wire'.packet = NoPacket
      BY <1>4, <1>5 DEF Written
    <2> QED
      BY <1>3, <2>1 DEF Wrote, NoPacket
  <1>6. CASE controlSent + n # PingLen
    <2>1. wire'.got = controlSent + n
      BY <1>4, <1>6 DEF Written
    <2>2. controlSent + n # controlSent
      BY <1>2, <1>4 DEF PingLen
    <2> QED
      BY <1>3, <2>1, <2>2 DEF Wrote
  <1> QED
    BY <1>5, <1>6

LEMMA PublishWritten ==
  ASSUME TypeOK, StageInv, NEW t \in Int, SendPublish(t) PROVE Wrote
  <1> DEFINE p == <<"PUBLISH", slots[head].msg>>
             from == slots[head].sent
  <1>1. /\ StageConnected /\ control = "NONE" /\ count > 0
        /\ slots \in [SlotIndex -> SlotType] /\ head \in SlotIndex
    BY DEF SendPublish, Serves, StageInv, TypeOK, QueueType, SlotIndex
  <1>2. from \in Nat /\ PublishLen \in Nat
    BY <1>1, SizesAssumption DEF SlotType
  <1>3. PartOf(p, from)
    BY <1>1 DEF StageConnected, PartOf, NothingInFlight
  <1>4. PICK n \in 1..(PublishLen - from) :
          /\ wire' = Written(p, from, n, PublishLen)
          /\ \/ from + n < PublishLen
             \/ from + n = PublishLen /\ delivered' = Append(delivered, slots[head].msg)
    BY DEF SendPublish
  <1>5. n \in Nat /\ n >= 1
    BY <1>2, <1>4
  <1>6. CASE from + n < PublishLen
    <2>1. wire'.packet = p /\ wire'.got = from + n
      BY <1>2, <1>4, <1>5, <1>6 DEF Written
    <2>2. CASE from = 0
      <3>1. wire.packet = NoPacket
        BY <1>3, <2>2 DEF PartOf
      <3> QED
        BY <2>1, <3>1 DEF Wrote, NoPacket
    <2>3. CASE from # 0
      <3>1. wire.got = from
        BY <1>3, <2>3 DEF PartOf
      <3>2. from + n # from
        BY <1>2, <1>5
      <3> QED
        BY <2>1, <3>1, <3>2 DEF Wrote
    <2> QED
      BY <2>2, <2>3
  <1>7. CASE delivered' = Append(delivered, slots[head].msg)
    <2>1. delivered \in Seq(Nat) /\ slots[head].msg \in Nat
      BY <1>1 DEF TypeOK, QueueType, SlotType
    <2>2. Len(delivered') = Len(delivered) + 1 /\ Len(delivered) \in Nat
      BY <1>7, <2>1, AppendProperties, LenProperties
    <2>3. Len(delivered') # Len(delivered)
      BY <2>2
    <2> QED
      BY <2>3 DEF Wrote
  <1> QED
    BY <1>4, <1>6, <1>7

(* Bytes read by a session that leave at most one behind are consumed.        *)
LEMMA BytesConsumed ==
  ASSUME TypeOK, NEW n \in Receivable, NEW b \in Seq(Bytes), Len(LoneByte(b)) < Len(rx) + n,
         rx' = LoneByte(b), inbound' = Unreceived(n)
  PROVE  Consumed
  <1>1. /\ n \in Nat /\ n <= Len(inbound) /\ Len(inbound) \in Nat /\ Len(rx) \in Nat
        /\ inbound \in Seq(Bytes)
    BY ReceivedType DEF TypeOK, NetworkType, WorkBufferType
  <1>2. Len(inbound') = Len(inbound) - n
    BY <1>1 DEF Unreceived
  <1>3. Len(rx') < Len(rx) + n /\ Len(rx') \in Nat
    BY LoneByteType
  <1> QED
    BY <1>1, <1>2, <1>3 DEF Consumed

LEMMA PollSilence ==
  ASSUME TypeOK, StageInv, StageInv', SilenceInv, NEW d \in PollGaps,
         d + Keepalive <= ClockMod, NEW served \in BOOLEAN,
         \/ served /\ PollServed(Clock(now + d))
         \/ ~served /\ PollFailed(Clock(now + d)),
         ObservePoll(d, served)
  PROVE  SilenceInv'
  <1>1. PICK t \in Int : t = Clock(now + d)
    BY ClockGap
  <1>2. \/ served /\ PollServed(t)
        \/ ~served /\ PollFailed(t)
    BY <1>1
  <1>3. /\ now' = t /\ now \in Int /\ lastIo \in Int /\ d \in Nat /\ silence \in Nat
        /\ ClockMod \in Nat /\ Keepalive \in Nat \ {0}
    BY <1>2, TimersAssumption DEF PollServed, PollFailed, TypeOK, TimersType, SilenceInv
  <1>4. silence' = IF Wrote \/ Consumed THEN 0 ELSE Least(silence + d, 2 * Keepalive)
    BY DEF ObservePoll
  <1>5. silence' \in Nat /\ (silence' = 0 \/ silence' <= silence + d)
    BY <1>3, <1>4 DEF Least
  <1>6. ASSUME ~connected' PROVE SilenceInv'
    BY <1>5, <1>6 DEF SilenceInv
  <1>7. ASSUME Wrote \/ Consumed, lastIo' = t PROVE SilenceInv'
    BY <1>3, <1>4, <1>7, SpokeJustNow
  <1>8. CASE PollUnconfigured \/ PollTooEarly(t)
    <2>1. ~connected /\ connected' = connected
      BY <1>8 DEF PollUnconfigured, PollTooEarly, session, StageInv, StageDisconnected,
                  StageSending, StageWaiting, StageConnected, TypeOK, SessionType, States
    <2> QED
      BY <1>6, <2>1
  <1>9. CASE PollReconnect(t, TRUE) \/ PollReconnect(t, FALSE)
    <2>1. ~connected'
      BY <1>9 DEF PollReconnect, ConnectionOpened, ConnectionRefused
    <2> QED
      BY <1>6, <2>1
  <1>10. CASE ConnackTimeout(t) \/ PingTimeout(t) \/ HalFault(t)
    <2>1. ~connected'
      BY <1>10 DEF ConnackTimeout, PingTimeout, HalFault, MarkDisconnected
    <2> QED
      BY <1>6, <2>1
  <1>11. CASE SendConnect(t)
    <2>1. ~connected'
      BY <1>11 DEF SendConnect, SendControl, StageInv, StageSending
    <2> QED
      BY <1>6, <2>1
  <1>12. CASE SendPingRest(t)
    <2>1. lastIo' = t
      BY <1>12 DEF SendPingRest, SendControl
    <2> QED
      BY <1>7, <1>12, <2>1, PingRestWritten
  <1>13. CASE StartPing(t)
    <2>1. lastIo' = t
      BY <1>13 DEF StartPing, SendControl
    <2>2. Wrote
      BY <1>13 DEF StartPing, AnswerDue, Wrote
    <2> QED
      BY <1>7, <2>1, <2>2
  <1>14. CASE SendPublish(t)
    <2>1. lastIo' = t
      BY <1>14 DEF SendPublish
    <2> QED
      BY <1>7, <1>14, <2>1, PublishWritten
  <1>15. CASE ReceiveConnack(t)
    <2>1. state = "WAITING_CONNACK" /\ ~connected
      BY <1>15 DEF ReceiveConnack, WaitsForConnack, StageInv, StageWaiting
    <2>2. PICK n \in Receivable : TakeConnack(n, t)
      BY <1>15 DEF ReceiveConnack
    <2>3. CASE MarkDisconnected(backoff, t) \/ MarkDisconnected(BackoffInitial, t)
      <3>1. ~connected'
        BY <2>3 DEF MarkDisconnected
      <3> QED
        BY <1>6, <3>1
    <2>4. CASE UNCHANGED session
      BY <1>6, <2>1, <2>4 DEF session
    <2>5. CASE /\ Len(Received(n)) >= 4 /\ lastIo' = t
               /\ rx' = LoneByte(AfterConnack(Received(n))) /\ inbound' = Unreceived(n)
      <3>1. /\ Received(n) \in Seq(Bytes) /\ Len(Received(n)) = Len(rx) + n
            /\ n \in Nat /\ Len(rx) \in Nat
        BY ReceivedType DEF TypeOK, WorkBufferType
      <3>2. PICK b \in Seq(Bytes) : b = AfterConnack(Received(n))
        BY <3>1, AfterConnackType
      <3>3. Len(LoneByte(b)) \in Nat /\ Len(LoneByte(b)) <= 1
        BY LoneByteType
      <3>4. Len(LoneByte(b)) < Len(rx) + n
        BY <2>5, <3>1, <3>3
      <3>5. Consumed
        BY <2>5, <3>2, <3>4, BytesConsumed
      <3> QED
        BY <1>7, <2>5, <3>5
    <2> QED
      BY <2>2, <2>3, <2>4, <2>5 DEF TakeConnack
  <1>16. CASE ReceiveConnected(t)
    <2>1. PICK n \in Receivable : TakeConnected(n, t)
      BY <1>16 DEF ReceiveConnected
    <2>2. CASE MarkDisconnected(backoff, t)
      <3>1. ~connected'
        BY <2>2 DEF MarkDisconnected
      <3> QED
        BY <1>6, <3>1
    <2>3. CASE /\ OnlyPingresps(Received(n)) /\ rx' = LoneByte(Received(n))
               /\ inbound' = Unreceived(n)
      <3>0. Received(n) \in Seq(Bytes) /\ Len(Received(n)) = Len(rx) + n
        BY ReceivedType
      <3>1. PICK b \in Seq(Bytes) : b = Received(n) /\ Len(b) = Len(rx) + n
        BY <3>0
      <3>2. n \in Nat /\ n >= 1 /\ Len(rx) \in Nat /\ Len(b) \in Nat
        BY ReceivedType DEF TypeOK, WorkBufferType
      <3>3. CASE rx' # <<>>
        BY <1>5, <3>3 DEF SilenceInv
      <3>4. CASE rx' = <<>>
        <4>0. Len(b) >= 1 /\ OnlyPingresps(b) /\ LoneByte(b) = <<>>
          BY <2>3, <3>1, <3>2, <3>4
        <4>1. SomePingresp(b)
          BY <4>0, WholeAnswers
        <4>2. lastIo' = t
          BY <2>1, <3>1, <4>1 DEF TakeConnected
        <4>3. Len(LoneByte(b)) = 0
          BY <2>3, <3>1, <3>4
        <4>4. Len(LoneByte(b)) < Len(rx) + n
          BY <3>2, <4>3
        <4>5. Consumed
          BY <2>3, <3>1, <4>4, BytesConsumed
        <4> QED
          BY <1>7, <4>2, <4>5
      <3> QED
        BY <3>3, <3>4
    <2> QED
      BY <2>1, <2>2, <2>3 DEF TakeConnected
  <1>17. CASE NothingToRead(t)
    <2>1. UNCHANGED <<connected, awaiting, rx, lastIo>>
      BY <1>17 DEF NothingToRead, session, timers
    <2>2. CASE ~connected \/ rx # <<>>
      BY <1>5, <2>1, <2>2 DEF SilenceInv
    <2>3. CASE connected /\ rx = <<>>
      <3>1. PICK e \in Int : /\ e = Elapsed(now, lastIo) /\ silence <= e /\ e < Keepalive
        BY <1>3, <2>3, ElapsedType DEF SilenceInv
      <3>2. Elapsed(t, lastIo) = e + d
        BY <1>1, <1>3, <3>1, ElapsedLonger
      <3>3. state = "CONNECTED"
        BY <2>3 DEF StageInv, StageDisconnected, StageSending, StageWaiting, TypeOK,
                    SessionType, States
      <3>4. ~IdleFor(t)
        BY <1>17, <2>3, <3>3 DEF NothingToRead, WaitsForConnack, LooksForBytes, Serves,
                                 AnswerDue
      <3>5. e + d < Keepalive
        BY <1>3, <3>1, <3>2, <3>4 DEF IdleFor
      <3>6. silence' <= e + d
        <4>1. e >= 0
          BY <1>3, <3>1
        <4> QED
          BY <1>3, <1>5, <3>1, <4>1
      <3>7. Elapsed(now', lastIo') = e + d
        BY <1>3, <2>1, <3>2
      <3> QED
        BY <1>5, <3>5, <3>6, <3>7 DEF SilenceInv, Elapsed
    <2> QED
      BY <2>2, <2>3
  <1> QED
    BY <1>2, <1>8, <1>9, <1>10, <1>11, <1>12, <1>13, <1>14, <1>15, <1>16, <1>17
       DEF PollServed, PollFailed

(* A session is never silent for a keepalive period of real time, unless half *)
(* a PINGRESP was left: if no gap between polls with a period added to it     *)
(* takes the clock round.                                                     *)
THEOREM SilenceCorrect ==
  ASSUME \A d \in PollGaps : d + Keepalive <= ClockMod
  PROVE  TimersSpec => []NeverSilent
  <1>1. TimersInit => SilenceInv
    BY DEF TimersInit, Init, SilenceInv
  <1>2. IInv /\ SilenceInv /\ [TimersNext]_tvars => SilenceInv'
    <2> SUFFICES ASSUME IInv, TypeOK, StageInv, SilenceInv, [TimersNext]_tvars
                 PROVE  SilenceInv'
      BY DEF IInv
    <2>1. StageInv'
      BY NextInv, TimersSteps DEF IInv
    <2>2. ASSUME NEW d \in PollGaps, PollServed(Clock(now + d)), ObservePoll(d, TRUE)
          PROVE  SilenceInv'
      BY <2>1, <2>2, PollSilence
    <2>3. ASSUME NEW d \in PollGaps, PollFailed(Clock(now + d)), ObservePoll(d, FALSE)
          PROVE  SilenceInv'
      BY <2>1, <2>3, PollSilence
    <2>4. ASSUME NEW halOk \in BOOLEAN, NEW t, Connect(TRUE, halOk, t), ObserveConnect
          PROVE  SilenceInv'
      <3>1. ~connected' /\ silence' = 0
        BY <2>4 DEF Connect, ConnectionOpened, ConnectionRefused, ObserveConnect
      <3> QED
        BY <3>1 DEF SilenceInv
    <2>5. CASE PublishEnqueue /\ UNCHANGED observer
      BY <2>5 DEF PublishEnqueue, observer, session, timers, SilenceInv, Elapsed
    <2>6. ASSUME NEW p, PeerSend(p), UNCHANGED observer PROVE SilenceInv'
      BY <2>6 DEF PeerSend, observer, session, timers, SilenceInv, Elapsed
    <2>7. CASE UNCHANGED tvars
      BY <2>7 DEF tvars, vars, observer, session, timers, SilenceInv, Elapsed
    <2> QED
      BY <2>2, <2>3, <2>4, <2>5, <2>6, <2>7 DEF TimersNext
  <1>3. IInv /\ SilenceInv => NeverSilent
    <2> SUFFICES ASSUME IInv, SilenceInv, connected, rx = <<>> PROVE silence < Keepalive
      BY DEF NeverSilent
    <2>1. silence \in Nat /\ silence <= Elapsed(now, lastIo) /\ Elapsed(now, lastIo) < Keepalive
      BY DEF SilenceInv
    <2>2. now \in Int /\ lastIo \in Int
      BY DEF IInv, TypeOK, TimersType
    <2>3. Elapsed(now, lastIo) \in Int /\ Keepalive \in Int
      BY <2>2, ElapsedType, TimersAssumption
    <2> QED
      BY <2>1, <2>3
  <1> QED
    BY <1>1, <1>2, <1>3, TimersInductive, PTL DEF TimersSpec

-----------------------------------------------------------------------------
(* What the packets of the simulated network's ring are, one after the other. *)

(* f[i] is the first i of the n byte sequences s, joined.                     *)
Joins(f, s, i) == f[i] = f[i - 1] \o s[i]
IsJoin(f, s, n) ==
  /\ f \in [0..n -> Seq(Bytes)]
  /\ f[0] = <<>> /\ \A i \in 1..n : Joins(f, s, i)

LEMMA JoinStep ==
  ASSUME NEW f, NEW s, NEW i \in Nat, Joins(f, s, i + 1)
  PROVE  f[i + 1] = f[i] \o s[i + 1]
  <1>1. PICK j \in Nat : j = i + 1 /\ j - 1 = i
    OBVIOUS
  <1>2. Joins(f, s, j)
    BY <1>1
  <1>3. f[j] = f[j - 1] \o s[j]
    BY <1>2 DEF Joins
  <1> QED
    BY <1>1, <1>3

LEMMA JoinExists ==
  ASSUME NEW N \in Nat, NEW s \in [1..N -> Seq(Bytes)]
  PROVE  \E f : IsJoin(f, s, N)
  <1> DEFINE P == {n \in Nat : n <= N => \E f : IsJoin(f, s, n)}
  <1>1. 0 \in P
    <2>1. IsJoin([i \in 0..0 |-> <<>>], s, 0)
      BY EmptyType DEF IsJoin
    <2> QED
      BY <2>1
  <1>2. ASSUME NEW n \in P PROVE n + 1 \in P
    <2> SUFFICES ASSUME n + 1 <= N PROVE \E f : IsJoin(f, s, n + 1)
      OBVIOUS
    <2>1. n \in Nat /\ n <= N /\ n + 1 \in 1..N
      OBVIOUS
    <2>2. PICK f : IsJoin(f, s, n)
      BY <2>1
    <2>3. PICK last \in Seq(Bytes) : last = f[n] \o s[n + 1]
      <3>1. f[n] \in Seq(Bytes) /\ s[n + 1] \in Seq(Bytes)
        BY <2>1, <2>2 DEF IsJoin
      <3> QED
        BY <3>1, ConcatProperties
    <2> DEFINE g == [i \in 0..n + 1 |-> IF i = n + 1 THEN last ELSE f[i]]
    <2>4. g \in [0..n + 1 -> Seq(Bytes)]
      BY <2>1, <2>2, <2>3 DEF IsJoin
    <2>5. g[0] = <<>>
      BY <2>1, <2>2 DEF IsJoin
    <2>6. ASSUME NEW i \in 1..n + 1 PROVE Joins(g, s, i)
      <3>1. CASE i = n + 1
        <4>1. g[i] = last /\ g[i - 1] = f[n]
          BY <2>1, <3>1
        <4> HIDE DEF g
        <4> QED
          BY <2>3, <3>1, <4>1 DEF Joins
      <3>2. CASE i \in 1..n
        <4>1. g[i] = f[i] /\ g[i - 1] = f[i - 1]
          BY <2>1, <3>2
        <4>2. Joins(f, s, i)
          BY <2>2, <3>2 DEF IsJoin
        <4> HIDE DEF g
        <4> QED
          BY <4>1, <4>2 DEF Joins
      <3>3. i = n + 1 \/ i \in 1..n
        BY <2>1
      <3> HIDE DEF g
      <3> QED
        BY <3>1, <3>2, <3>3
    <2> HIDE DEF g
    <2>7. IsJoin(g, s, n + 1)
      BY <2>4, <2>5, <2>6 DEF IsJoin
    <2> QED
      BY <2>7
  <1> HIDE DEF P
  <1>3. P = Nat
    <2>1. P \subseteq Nat
      BY DEF P
    <2> QED
      BY <1>1, <1>2, <2>1, Induction
  <1>4. N \in P
    BY <1>3
  <1> QED
    BY <1>4 DEF P

(* FlattenSeq is the last of them.                                           *)
LEMMA FlattenIsJoin ==
  ASSUME NEW n \in Nat, NEW s \in [1..n -> Seq(Bytes)]
  PROVE  \E f : IsJoin(f, s, n) /\ FlattenSeq(s) = f[n]
  <1>1. PICK f : IsJoin(f, s, n)
    BY JoinExists
  <1>2. s \in Seq(Seq(Bytes)) /\ Len(s) = n
    OBVIOUS
  <1>3. CASE n = 0
    <2>1. s = <<>>
      BY <1>3
    <2>2. FlattenSeq(s) = s
      BY <1>2, <1>3 DEF FlattenSeq
    <2> QED
      BY <1>1, <1>3, <2>1, <2>2 DEF IsJoin
  <1>4. CASE n # 0
    <2> DEFINE part == CHOOSE g : g = [i \in 1..Len(s) |->
                                         IF i = 1 THEN s[i] ELSE g[i - 1] \o s[i]]
               h == [i \in 1..n |-> f[i]]
    <2>1. h = [i \in 1..Len(s) |-> IF i = 1 THEN s[i] ELSE h[i - 1] \o s[i]]
      <3>1. ASSUME NEW i \in 1..n
            PROVE  f[i] = IF i = 1 THEN s[i] ELSE h[i - 1] \o s[i]
        <4>1. f[i] = f[i - 1] \o s[i] /\ f[0] = <<>>
          BY <1>1 DEF IsJoin, Joins
        <4>2. <<>> \o s[i] = s[i]
          BY ConcatEmptySeq
        <4>3. /\ i # 1 => h[i - 1] = f[i - 1]
              /\ i = 1 => i - 1 = 0
          OBVIOUS
        <4> HIDE DEF h
        <4> QED
          BY <4>1, <4>2, <4>3
      <3> QED
        BY <1>2, <3>1
    <2>2. part = [i \in 1..Len(s) |-> IF i = 1 THEN s[i] ELSE part[i - 1] \o s[i]]
      BY <2>1
    <2>3. FlattenSeq(s) = part[n]
      BY <1>2, <1>4 DEF FlattenSeq
    <2> HIDE DEF part, h
    <2> DEFINE P == {i \in Nat : i + 1 <= n => part[i + 1] = f[i + 1]}
    <2>4. 0 \in P
      <3>1. part[1] = s[1]
        BY <1>2, <1>4, <2>2
      <3>2. f[1] = <<>> \o s[1]
        <4>1. Joins(f, s, 1) /\ f[0] = <<>>
          BY <1>1, <1>4, 1 \in 1..n DEF IsJoin
        <4> QED
          BY <4>1, 1 - 1 = 0 DEF Joins
      <3>3. <<>> \o s[1] = s[1]
        BY <1>4, ConcatEmptySeq
      <3> QED
        BY <3>1, <3>2, <3>3
    <2>5. ASSUME NEW i \in P PROVE i + 1 \in P
      <3> SUFFICES ASSUME i + 2 <= n PROVE part[i + 2] = f[i + 2]
        OBVIOUS
      <3>1. /\ i \in Nat /\ part[i + 1] = f[i + 1] /\ i + 2 \in 1..n /\ i + 2 # 1
            /\ i + 2 - 1 = i + 1
        OBVIOUS
      <3>2. part[i + 2] = part[i + 1] \o s[i + 2]
        <4>1. PICK j \in 1..n : j = i + 2 /\ j # 1 /\ j - 1 = i + 1
          BY <3>1
        <4>2. part[j] = IF j = 1 THEN s[j] ELSE part[j - 1] \o s[j]
          BY <1>2, <2>2
        <4> QED
          BY <4>1, <4>2
      <3>3. f[i + 2] = f[i + 1] \o s[i + 2]
        <4>1. Joins(f, s, i + 2)
          BY <1>1, <3>1 DEF IsJoin
        <4>2. i + 1 \in Nat /\ i + 1 + 1 = i + 2
          BY <3>1
        <4>3. Joins(f, s, i + 1 + 1)
          BY <4>1, <4>2
        <4>4. f[i + 1 + 1] = f[i + 1] \o s[i + 1 + 1]
          BY <4>2, <4>3, JoinStep
        <4> QED
          BY <4>2, <4>4
      <3> QED
        BY <3>1, <3>2, <3>3
    <2> HIDE DEF P
    <2>6. P = Nat
      <3>1. P \subseteq Nat
        BY DEF P
      <3> QED
        BY <2>4, <2>5, <3>1, Induction
    <2>7. part[n] = f[n]
      <3>1. n - 1 \in P /\ n - 1 + 1 = n
        BY <1>4, <2>6
      <3> QED
        BY <3>1 DEF P
    <2> QED
      BY <1>1, <2>3, <2>7
  <1> QED
    BY <1>3, <1>4

LEMMA FlattenType ==
  ASSUME NEW n \in Nat, NEW s \in [1..n -> Seq(Bytes)]
  PROVE  FlattenSeq(s) \in Seq(Bytes)
  <1>1. PICK f : IsJoin(f, s, n) /\ FlattenSeq(s) = f[n]
    BY FlattenIsJoin
  <1>2. f \in [0..n -> Seq(Bytes)] /\ n \in 0..n
    BY <1>1 DEF IsJoin
  <1> QED
    BY <1>1, <1>2

(* A packet more, at the end.                                                *)
LEMMA FlattenLast ==
  ASSUME NEW n \in Nat, NEW s \in [1..n -> Seq(Bytes)],
         NEW t \in [1..n + 1 -> Seq(Bytes)], \A i \in 1..n : t[i] = s[i]
  PROVE  FlattenSeq(t) = FlattenSeq(s) \o t[n + 1]
  <1>1. PICK f : IsJoin(f, s, n) /\ FlattenSeq(s) = f[n]
    BY FlattenIsJoin
  <1>2. PICK g : IsJoin(g, t, n + 1) /\ FlattenSeq(t) = g[n + 1]
    BY FlattenIsJoin, n + 1 \in Nat
  <1> DEFINE P == {i \in Nat : i <= n => f[i] = g[i]}
  <1>3. 0 \in P
    BY <1>1, <1>2 DEF IsJoin
  <1>4. ASSUME NEW i \in P PROVE i + 1 \in P
    <2> SUFFICES ASSUME i + 1 <= n PROVE f[i + 1] = g[i + 1]
      OBVIOUS
    <2>1. /\ i \in Nat /\ f[i] = g[i] /\ i + 1 \in 1..n /\ i + 1 \in 1..n + 1
          /\ i + 1 - 1 = i
      OBVIOUS
    <2>2. Joins(f, s, i + 1) /\ Joins(g, t, i + 1)
      BY <1>1, <1>2, <2>1 DEF IsJoin
    <2>3. f[i + 1] = f[i] \o s[i + 1] /\ g[i + 1] = g[i] \o t[i + 1]
      BY <2>1, <2>2, JoinStep
    <2>4. t[i + 1] = s[i + 1]
      BY <2>1
    <2> QED
      BY <2>1, <2>3, <2>4
  <1> HIDE DEF P
  <1>5. P = Nat
    <2>1. P \subseteq Nat
      BY DEF P
    <2> QED
      BY <1>3, <1>4, <2>1, Induction
  <1>6. f[n] = g[n]
    BY <1>5 DEF P
  <1>7. n + 1 \in 1..n + 1 /\ n + 1 - 1 = n
    OBVIOUS
  <1>8. g[n + 1] = g[n] \o t[n + 1]
    <2>1. Joins(g, t, n + 1)
      BY <1>2, <1>7 DEF IsJoin
    <2> QED
      BY <2>1, JoinStep
  <1> QED
    BY <1>1, <1>2, <1>6, <1>8

(* The first packet, and the rest.                                           *)
LEMMA FlattenFirst ==
  ASSUME NEW n \in Nat, NEW s \in [1..n + 1 -> Seq(Bytes)],
         NEW t \in [1..n -> Seq(Bytes)], \A i \in 1..n : t[i] = s[i + 1]
  PROVE  FlattenSeq(s) = s[1] \o FlattenSeq(t)
  <1>1. PICK f : IsJoin(f, s, n + 1) /\ FlattenSeq(s) = f[n + 1]
    BY FlattenIsJoin, n + 1 \in Nat
  <1>2. PICK g : IsJoin(g, t, n) /\ FlattenSeq(t) = g[n]
    BY FlattenIsJoin
  <1> DEFINE Ahead(i) == f[i + 1] = s[1] \o g[i]
             P == {i \in Nat : i <= n => Ahead(i)}
  <1>3. 0 \in P
    <2>1. Joins(f, s, 1) /\ f[0] = <<>> /\ g[0] = <<>>
      BY <1>1, <1>2, 1 \in 1..n + 1 DEF IsJoin
    <2>2. f[1] = <<>> \o s[1]
      BY <2>1, 1 - 1 = 0 DEF Joins
    <2>3. s[1] \in Seq(Bytes)
      BY 1 \in 1..n + 1
    <2>4. <<>> \o s[1] = s[1] /\ s[1] \o <<>> = s[1]
      BY <2>3, ConcatEmptySeq
    <2>5. f[0 + 1] = s[1] \o g[0]
      BY <2>1, <2>2, <2>4, 0 + 1 = 1
    <2> QED
      BY <2>5
  <1>4. ASSUME NEW i \in P PROVE i + 1 \in P
    <2> HIDE DEF Ahead
    <2> SUFFICES ASSUME i + 1 <= n PROVE Ahead(i + 1)
      OBVIOUS
    <2>0. i \in Nat /\ (i <= n => Ahead(i))
      OBVIOUS
    <2> HIDE DEF P
    <2>1. /\ i \in 0..n /\ i + 1 \in 1..n /\ i + 1 + 1 \in 1..n + 1
          /\ i + 1 - 1 = i /\ i + 1 + 1 - 1 = i + 1
      BY <2>0
    <2>9. Ahead(i)
      BY <2>0, <2>1
    <2>7. f[i + 1] = s[1] \o g[i]
      BY <2>9 DEF Ahead
    <2>8. Joins(f, s, i + 1 + 1) /\ Joins(g, t, i + 1)
      BY <1>1, <1>2, <2>1 DEF IsJoin
    <2>2. f[i + 1 + 1] = f[i + 1] \o s[i + 1 + 1]
      BY <2>0, <2>8, i + 1 \in Nat, JoinStep
    <2>3. g[i + 1] = g[i] \o t[i + 1]
      BY <2>0, <2>8, JoinStep
    <2>4. s[i + 1 + 1] = t[i + 1]
      BY <2>1
    <2>5. s[1] \in Seq(Bytes) /\ g[i] \in Seq(Bytes) /\ t[i + 1] \in Seq(Bytes)
      BY <1>2, <2>1 DEF IsJoin
    <2>6. (s[1] \o g[i]) \o t[i + 1] = s[1] \o (g[i] \o t[i + 1])
      BY <2>5, ConcatRegroups
    <2> QED
      BY <2>2, <2>3, <2>4, <2>6, <2>7 DEF Ahead
  <1> HIDE DEF P, Ahead
  <1>5. P = Nat
    <2>1. P \subseteq Nat
      BY DEF P
    <2> QED
      BY <1>3, <1>4, <2>1, Induction
  <1>6. f[n + 1] = s[1] \o g[n]
    <2>1. n \in P
      BY <1>5
    <2>2. Ahead(n)
      BY <2>1 DEF P
    <2> QED
      BY <2>2 DEF Ahead
  <1> QED
    BY <1>1, <1>2, <1>6

(* What is left when the first packet was read.                              *)
LEMMA RestOfConcat ==
  ASSUME NEW a \in Seq(Bytes), NEW u \in Seq(Bytes)
  PROVE  /\ Len(a \o u) = Len(a) + Len(u)
         /\ SubSeq(a \o u, Len(a) + 1, Len(a \o u)) = u
  <1>1. PICK m \in Nat : m = Len(a)
    BY LenProperties
  <1>2. PICK k \in Nat : k = Len(u)
    BY LenProperties
  <1>3. PICK c \in Seq(Bytes) : c = a \o u
    BY ConcatProperties
  <1>4. Len(c) = m + k /\ \A i \in 1..m + k : c[i] = IF i <= m THEN a[i] ELSE u[i - m]
    BY <1>1, <1>2, <1>3, ConcatProperties
  <1> DEFINE r == SubSeq(c, m + 1, m + k)
  <1>5. r \in Seq(Bytes) /\ Len(r) = k /\ \A i \in 1..k : r[i] = c[m + i]
    <2>1. \A i \in m + 1..m + k : c[i] \in Bytes
      BY <1>4, ElementOfSeq
    <2>2. /\ r \in Seq(Bytes)
          /\ Len(r) = IF m + 1 <= m + k THEN (m + k) - (m + 1) + 1 ELSE 0
          /\ \A i \in 1..(m + k) - (m + 1) + 1 : r[i] = c[m + 1 + i - 1]
      BY <2>1, SubSeqProperties
    <2>3. (m + k) - (m + 1) + 1 = k /\ (m + 1 <= m + k <=> k # 0)
      OBVIOUS
    <2>4. ASSUME NEW i \in 1..k PROVE r[i] = c[m + i]
      BY <2>2, <2>3, m + 1 + i - 1 = m + i
    <2> HIDE DEF r
    <2> QED
      BY <2>2, <2>3, <2>4
  <1> HIDE DEF r
  <1>6. ASSUME NEW i \in 1..k PROVE r[i] = u[i]
    BY <1>4, <1>5, m + i \in 1..m + k, ~(m + i <= m), m + i - m = i
  <1>7. r = u
    BY <1>2, <1>5, <1>6, SeqEqual
  <1> QED
    BY <1>1, <1>2, <1>3, <1>4, <1>7 DEF r

-----------------------------------------------------------------------------
(* The ring of packets to receive.                                          *)

RxIndex == 0..RxDepth - 1
RxType ==
  /\ rxQueue \in [RxIndex -> [bytes : Seq(Bytes), number : Nat]]
  /\ rxRead \in RxIndex /\ rxWrite \in RxIndex /\ rxCount \in 0..RxDepth
  /\ pushed \in Nat /\ handed \in Nat

RxPlace(h, k) == IF h + k < RxDepth THEN h + k ELSE h + k - RxDepth

(* Packets are numbered as pushed, those handed over come first, and the     *)
(* ring holds the rest from rxRead on.                                       *)
RxOrder ==
  /\ rxWrite = RxPlace(rxRead, rxCount)
  /\ handed + rxCount = pushed
  /\ \A k \in 0..rxCount - 1 : rxQueue[RxPlace(rxRead, k)].number = handed + k + 1

(* The bytes in flight to the client are those of the ring.                  *)
RxLink == linkUp => inbound = Unread

RxPackets == [k \in 1..rxCount |-> rxQueue[RxPlace(rxRead, k - 1)].bytes]

LEMMA RxSizes ==
  ASSUME RxType
  PROVE  /\ RxDepth \in Nat /\ RxDepth > 0 /\ rxCount \in Nat /\ rxCount <= RxDepth
         /\ rxRead \in Nat /\ rxRead < RxDepth /\ rxWrite \in Nat
         /\ pushed \in Nat /\ handed \in Nat
  BY HostAssumption DEF RxType, RxIndex

(* A position wraps at most once, distinct positions are distinct slots, and  *)
(* reading one packet moves every position by one.                           *)
LEMMA RxPositions ==
  ASSUME NEW h \in RxIndex
  PROVE  /\ RxPlace(h, 0) = h /\ RxNext(h) \in RxIndex
         /\ \A k \in 0..RxDepth : RxPlace(h, k) \in RxIndex
         /\ \A k \in 0..RxDepth - 1 :
              /\ RxNext(RxPlace(h, k)) = RxPlace(h, k + 1)
              /\ RxPlace(RxNext(h), k) = RxPlace(h, k + 1)
         /\ \A j, k \in 0..RxDepth - 1 : j # k => RxPlace(h, j) # RxPlace(h, k)
  <1>1. RxDepth \in Nat /\ RxDepth > 0 /\ h \in Nat /\ h < RxDepth
    BY HostAssumption DEF RxIndex
  <1>2. RxPlace(h, 0) = h /\ RxNext(h) \in RxIndex
    BY <1>1 DEF RxPlace, RxNext, RxIndex
  <1>3. \A k \in 0..RxDepth : RxPlace(h, k) \in RxIndex
    BY <1>1 DEF RxPlace, RxIndex
  <1>4. \A k \in 0..RxDepth - 1 : RxNext(RxPlace(h, k)) = RxPlace(h, k + 1)
    BY <1>1 DEF RxPlace, RxNext
  <1>5. \A k \in 0..RxDepth - 1 : RxPlace(RxNext(h), k) = RxPlace(h, k + 1)
    BY <1>1 DEF RxPlace, RxNext
  <1>6. \A j, k \in 0..RxDepth - 1 : j # k => RxPlace(h, j) # RxPlace(h, k)
    BY <1>1 DEF RxPlace
  <1> QED
    BY <1>2, <1>3, <1>4, <1>5, <1>6

LEMMA UnreadPackets ==
  ASSUME RxType
  PROVE  /\ RxPackets \in [1..rxCount -> Seq(Bytes)]
         /\ Unread = FlattenSeq(RxPackets)
         /\ Unread \in Seq(Bytes)
  <1>1. ASSUME NEW k \in 1..rxCount PROVE rxQueue[RxPlace(rxRead, k - 1)].bytes \in Seq(Bytes)
    <2>1. k - 1 \in 0..RxDepth
      BY RxSizes
    <2>2. RxPlace(rxRead, k - 1) \in RxIndex
      BY <2>1, RxPositions DEF RxType
    <2> QED
      BY <2>2 DEF RxType
  <1>2. RxPackets \in [1..rxCount -> Seq(Bytes)]
    BY <1>1 DEF RxPackets
  <1>3. Unread = FlattenSeq(RxPackets)
    <2>1. \A k \in 1..rxCount : Queued[k].bytes = RxPackets[k]
      BY DEF Queued, RxPackets, RxAt, RxPlace
    <2>2. [k \in 1..rxCount |-> Queued[k].bytes] = RxPackets
      BY <2>1 DEF RxPackets
    <2> QED
      BY <2>2 DEF Unread
  <1> QED
    BY <1>2, <1>3, FlattenType, RxSizes

LEMMA UnreadPacketsNext ==
  ASSUME RxType'
  PROVE  /\ RxPackets' \in [1..rxCount' -> Seq(Bytes)]
         /\ Unread' = FlattenSeq(RxPackets')
  <1>1. ASSUME NEW k \in 1..rxCount' PROVE rxQueue'[RxPlace(rxRead', k - 1)].bytes \in Seq(Bytes)
    <2>1. /\ RxDepth \in Nat /\ rxCount' \in 0..RxDepth /\ rxRead' \in 0..RxDepth - 1
          /\ k - 1 \in 0..RxDepth - 1
      BY HostAssumption DEF RxType, RxIndex
    <2>2. RxPlace(rxRead', k - 1) \in RxIndex
      <3>1. rxRead' \in RxIndex /\ k - 1 \in 0..RxDepth
        BY <2>1 DEF RxIndex
      <3> QED
        BY <3>1, RxPositions
    <2> QED
      BY <2>2 DEF RxType
  <1>2. RxPackets' \in [1..rxCount' -> Seq(Bytes)]
    BY <1>1 DEF RxPackets
  <1>3. Unread' = FlattenSeq(RxPackets')
    <2>1. \A k \in 1..rxCount' : Queued[k].bytes' = RxPackets'[k]
      BY DEF Queued, RxPackets, RxAt, RxPlace
    <2>2. [k \in 1..rxCount' |-> Queued[k].bytes'] = RxPackets'
      BY <2>1 DEF RxPackets
    <2> QED
      BY <2>2 DEF Unread
  <1> QED
    BY <1>2, <1>3

(* A packet that is pushed comes last.                                       *)
LEMMA ReceivePushRing ==
  ASSUME RxType, RxOrder, NEW p \in Seq(Bytes), ReceivePush(p)
  PROVE  RxType' /\ RxOrder' /\ Unread' = Unread \o p
  <1>1. /\ rxCount < RxDepth /\ rxCount' = rxCount + 1 /\ pushed' = pushed + 1
        /\ rxQueue' = [rxQueue EXCEPT ![rxWrite] = [bytes |-> p, number |-> pushed + 1]]
        /\ rxWrite' = RxNext(rxWrite) /\ UNCHANGED <<rxRead, handed>>
    BY DEF ReceivePush
  <1>2. PICK c \in Nat : c = rxCount /\ c \in 0..RxDepth - 1 /\ c \in 0..RxDepth
    BY <1>1, RxSizes
  <1>3. rxWrite = RxPlace(rxRead, c) /\ rxWrite \in RxIndex /\ handed + c = pushed
    BY <1>2 DEF RxOrder, RxType
  <1>4. \A k \in Nat : RxPlace(rxRead', k) = RxPlace(rxRead, k)
    BY <1>1
  <1>5. /\ rxQueue'[rxWrite] = [bytes |-> p, number |-> pushed + 1]
        /\ \A k \in 0..c - 1 : rxQueue'[RxPlace(rxRead, k)] = rxQueue[RxPlace(rxRead, k)]
    <2>1. rxQueue \in [RxIndex -> [bytes : Seq(Bytes), number : Nat]]
      BY DEF RxType
    <2>2. ASSUME NEW k \in 0..c - 1 PROVE rxQueue'[RxPlace(rxRead, k)] = rxQueue[RxPlace(rxRead, k)]
      <3>1. k \in 0..RxDepth - 1 /\ k \in 0..RxDepth /\ k # c
        BY <1>2, RxSizes
      <3>2. RxPlace(rxRead, k) # RxPlace(rxRead, c) /\ RxPlace(rxRead, k) \in RxIndex
        <4>1. rxRead \in RxIndex /\ c \in 0..RxDepth - 1
          BY <1>2 DEF RxType
        <4> QED
          BY <3>1, <4>1, RxPositions
      <3> QED
        BY <1>1, <1>3, <2>1, <3>2
    <2> QED
      BY <1>1, <1>3, <2>1, <2>2
  <1>6. rxWrite' = RxPlace(rxRead, c + 1) /\ c + 1 \in 0..RxDepth
    <2>1. rxRead \in RxIndex
      BY DEF RxType
    <2>2. RxNext(RxPlace(rxRead, c)) = RxPlace(rxRead, c + 1)
      BY <1>2, <2>1, RxPositions
    <2>3. c + 1 \in 0..RxDepth
      BY <1>1, <1>2, RxSizes
    <2> QED
      BY <1>1, <1>3, <2>2, <2>3
  <1>7. RxType'
    <2>1. RxPlace(rxRead, c + 1) \in RxIndex
      BY <1>6, RxPositions DEF RxType
    <2>2. [bytes |-> p, number |-> pushed + 1] \in [bytes : Seq(Bytes), number : Nat]
      BY RxSizes
    <2>3. rxQueue' \in [RxIndex -> [bytes : Seq(Bytes), number : Nat]]
      BY <1>1, <1>3, <2>2 DEF RxType
    <2> QED
      BY <1>1, <1>2, <1>6, <2>1, <2>3 DEF RxType
  <1>8. RxOrder'
    <2>1. rxWrite' = RxPlace(rxRead', rxCount')
      BY <1>1, <1>2, <1>4, <1>6
    <2>2. handed' + rxCount' = pushed'
      BY <1>1, <1>2, <1>3, RxSizes
    <2>3. ASSUME NEW k \in 0..rxCount' - 1
          PROVE  rxQueue'[RxPlace(rxRead', k)].number = handed' + k + 1
      <3>1. RxPlace(rxRead', k) = RxPlace(rxRead, k) /\ handed' = handed
        BY <1>1, <1>2, <1>4
      <3>2. CASE k = c
        BY <1>3, <1>5, <3>1, <3>2
      <3>3. CASE k # c
        <4>1. k \in 0..c - 1 /\ k \in 0..rxCount - 1
          BY <1>1, <1>2, <3>3
        <4> QED
          BY <1>5, <3>1, <4>1 DEF RxOrder
      <3> QED
        BY <3>2, <3>3
    <2> QED
      BY <2>1, <2>2, <2>3 DEF RxOrder
  <1>9. Unread' = Unread \o p
    <2>1. RxPackets' \in [1..c + 1 -> Seq(Bytes)] /\ Unread' = FlattenSeq(RxPackets')
      BY <1>1, <1>2, <1>7, UnreadPacketsNext
    <2>2. RxPackets \in [1..c -> Seq(Bytes)] /\ Unread = FlattenSeq(RxPackets)
      BY <1>2, UnreadPackets
    <2>3. ASSUME NEW k \in 1..c PROVE RxPackets'[k] = RxPackets[k]
      <3>1. k \in 1..rxCount /\ k \in 1..rxCount' /\ k - 1 \in 0..c - 1 /\ k - 1 \in Nat
        BY <1>1, <1>2
      <3> QED
        BY <1>4, <1>5, <3>1 DEF RxPackets
    <2>4. RxPackets'[c + 1] = p
      <3>1. c + 1 \in 1..rxCount' /\ c + 1 - 1 = c
        BY <1>1, <1>2
      <3> QED
        BY <1>2, <1>3, <1>4, <1>5, <3>1 DEF RxPackets
    <2>5. FlattenSeq(RxPackets') = FlattenSeq(RxPackets) \o RxPackets'[c + 1]
      BY <2>1, <2>2, <2>3, FlattenLast
    <2> QED
      BY <2>1, <2>2, <2>4, <2>5
  <1> QED
    BY <1>7, <1>8, <1>9

(* The packet handed over is the oldest, and the others stay.                *)
LEMMA HandOverRing ==
  ASSUME RxType, RxOrder, rxCount > 0, HandOver
  PROVE  /\ RxType' /\ RxOrder' /\ handed' = handed + 1
         /\ Unread = rxQueue[rxRead].bytes \o Unread'
         /\ rxQueue[rxRead].bytes \in Seq(Bytes) /\ Unread' \in Seq(Bytes)
  <1>1. /\ rxRead' = RxNext(rxRead) /\ rxCount' = rxCount - 1
        /\ handed' = rxQueue[rxRead].number
        /\ UNCHANGED <<rxQueue, rxWrite, pushed>>
    BY DEF HandOver
  <1>2. PICK c \in Nat : rxCount = c + 1 /\ c \in 0..RxDepth - 1 /\ c + 1 \in 0..RxDepth
    <2>1. rxCount - 1 \in Nat /\ rxCount = (rxCount - 1) + 1
      BY RxSizes
    <2>2. rxCount - 1 \in 0..RxDepth - 1 /\ (rxCount - 1) + 1 \in 0..RxDepth
      BY <2>1, RxSizes
    <2> QED
      BY <2>1, <2>2
  <1>3. /\ rxRead' \in RxIndex
        /\ \A k \in 0..RxDepth - 1 : RxPlace(rxRead', k) = RxPlace(rxRead, k + 1)
    BY <1>1, RxPositions DEF RxType
  <1>4. handed' = handed + 1
    <2>1. rxQueue[RxPlace(rxRead, 0)].number = handed + 0 + 1
      BY <1>2, 0 \in 0..rxCount - 1 DEF RxOrder
    <2>2. RxPlace(rxRead, 0) = rxRead
      BY RxPositions DEF RxType
    <2> QED
      BY <1>1, <2>1, <2>2, RxSizes
  <1>5. RxType'
    <2>1. rxCount' \in 0..RxDepth /\ handed' \in Nat
      BY <1>1, <1>2, <1>4, RxSizes
    <2> QED
      BY <1>1, <1>3, <2>1 DEF RxType
  <1>6. RxOrder'
    <2>1. rxWrite' = RxPlace(rxRead', rxCount')
      <3>1. RxPlace(rxRead', c) = RxPlace(rxRead, c + 1)
        BY <1>2, <1>3
      <3>2. rxCount' = c
        BY <1>1, <1>2
      <3> QED
        BY <1>1, <1>2, <3>1, <3>2 DEF RxOrder
    <2>2. handed' + rxCount' = pushed'
      <3>1. handed + rxCount = pushed
        BY DEF RxOrder
      <3> QED
        BY <1>1, <1>2, <1>4, <3>1, RxSizes
    <2>3. ASSUME NEW k \in 0..rxCount' - 1
          PROVE  rxQueue'[RxPlace(rxRead', k)].number = handed' + k + 1
      <3>1. k \in 0..RxDepth - 1 /\ k + 1 \in 0..rxCount - 1
        BY <1>1, <1>2, RxSizes
      <3>2. RxPlace(rxRead', k) = RxPlace(rxRead, k + 1)
        BY <1>3, <3>1
      <3>3. rxQueue[RxPlace(rxRead, k + 1)].number = handed + (k + 1) + 1
        BY <3>1 DEF RxOrder
      <3> QED
        BY <1>1, <1>4, <3>1, <3>2, <3>3, RxSizes
    <2> QED
      BY <2>1, <2>2, <2>3 DEF RxOrder
  <1>7. Unread = rxQueue[rxRead].bytes \o Unread'
    <2>1. RxPackets' \in [1..c -> Seq(Bytes)] /\ Unread' = FlattenSeq(RxPackets')
      <3>1. rxCount' = c
        BY <1>1, <1>2
      <3> QED
        BY <1>5, <3>1, UnreadPacketsNext
    <2>2. RxPackets \in [1..c + 1 -> Seq(Bytes)] /\ Unread = FlattenSeq(RxPackets)
      BY <1>2, UnreadPackets
    <2>3. ASSUME NEW k \in 1..c PROVE RxPackets'[k] = RxPackets[k + 1]
      <3>1. /\ k + 1 \in 1..rxCount /\ k \in 1..rxCount' /\ k - 1 \in 0..RxDepth - 1
            /\ k - 1 + 1 = k /\ k + 1 - 1 = k
        BY <1>1, <1>2, RxSizes
      <3>2. RxPlace(rxRead', k - 1) = RxPlace(rxRead, k)
        BY <1>3, <3>1
      <3> QED
        BY <1>1, <3>1, <3>2 DEF RxPackets
    <2>4. RxPackets[1] = rxQueue[rxRead].bytes
      <3>1. 1 \in 1..rxCount /\ 1 - 1 = 0
        BY <1>2
      <3>2. RxPlace(rxRead, 0) = rxRead
        BY RxPositions DEF RxType
      <3> QED
        BY <3>1, <3>2 DEF RxPackets
    <2>5. FlattenSeq(RxPackets) = RxPackets[1] \o FlattenSeq(RxPackets')
      BY <2>1, <2>2, <2>3, FlattenFirst
    <2> QED
      BY <2>1, <2>2, <2>4, <2>5
  <1>8. rxQueue[rxRead].bytes \in Seq(Bytes)
    BY DEF RxType
  <1>9. Unread' \in Seq(Bytes)
    <2>1. rxCount' \in Nat
      BY <1>1, <1>2
    <2>2. RxPackets' \in [1..rxCount' -> Seq(Bytes)] /\ Unread' = FlattenSeq(RxPackets')
      BY <1>5, UnreadPacketsNext
    <2> QED
      BY <2>1, <2>2, FlattenType
  <1> QED
    BY <1>4, <1>5, <1>6, <1>7, <1>8, <1>9

LEMMA SameRxRing ==
  ASSUME RxType, RxOrder, UNCHANGED rxRing
  PROVE  RxType' /\ RxOrder' /\ Unread' = Unread
  BY DEF rxRing, RxType, RxOrder, Unread, Queued, RxAt

LEMMA NothingUnread ==
  ASSUME RxType, rxCount = 0 PROVE Unread = <<>>
  <1>1. RxPackets = <<>>
    BY DEF RxPackets
  <1>2. FlattenSeq(<<>>) = <<>>
    BY DEF FlattenSeq
  <1> QED
    BY <1>1, <1>2, UnreadPackets

-----------------------------------------------------------------------------
(* The client on the simulated network.                                      *)

HostInv == IInv /\ RxType /\ RxOrder /\ RxLink

(* A poll that sends, and one that fails, takes nothing from the peer.       *)
LEMMA SendsOnly ==
  ASSUME StageInv, NEW t, Sends(t), PollServed(t)
  PROVE  ~linkUp' \/ UNCHANGED <<linkUp, inbound, state, connected>>
         \/ (state = "SENDING_CONNECT" /\ UNCHANGED <<linkUp, inbound, connected>>)
  <1>1. state # "DISCONNECTED" /\ (state = "CONNECTED" \/ state = "SENDING_CONNECT")
    BY DEF Sends, Serves
  <1>2. ~LooksForBytes(t) /\ ~WaitsForConnack(t)
    BY DEF Sends, Serves, LooksForBytes, WaitsForConnack
  <1>3. configured
    BY <1>1 DEF StageInv, StageConnected, StageSending
  <1>4. \/ SendConnect(t) \/ SendPingRest(t) \/ SendPublish(t) \/ StartPing(t)
        \/ ConnackTimeout(t) \/ PingTimeout(t)
    BY <1>1, <1>2, <1>3, ServedCases
       DEF PollTooEarly, PollReconnect, ReceiveConnack, ReceiveConnected, NothingToRead
  <1>5. CASE ConnackTimeout(t) \/ PingTimeout(t)
    BY <1>5 DEF ConnackTimeout, PingTimeout, MarkDisconnected, CloseLink
  <1>6. CASE SendConnect(t)
    BY <1>6 DEF SendConnect, SendControl
  <1>7. CASE SendPingRest(t) \/ StartPing(t)
    BY <1>7 DEF SendPingRest, StartPing, SendControl
  <1>8. CASE SendPublish(t)
    BY <1>8 DEF SendPublish, session
  <1> QED
    BY <1>4, <1>5, <1>6, <1>7, <1>8

LEMMA FailedPoll ==
  ASSUME NEW t, PollFailed(t)
  PROVE  ~linkUp' /\ ~connected' /\ state' = "DISCONNECTED"
  BY DEF PollFailed, PollReconnect, HalFault, ConnectionOpened, ConnectionRefused,
         MarkDisconnected, CloseLink

(* A poll that finds the ring empty leaves the connection as it is.          *)
LEMMA EmptyPoll ==
  ASSUME TypeOK, StageInv, NEW t, Reads(t), PollServed(t), inbound = <<>>
  PROVE  ~linkUp' \/ UNCHANGED <<linkUp, inbound, state, connected>>
  <1>1. state = "WAITING_CONNACK" \/ state = "CONNECTED"
    BY DEF Reads, WaitsForConnack, LooksForBytes, Serves
  <1>2. configured
    BY <1>1 DEF StageInv, StageConnected, StageWaiting
  <1>3. Receivable = {}
    <2>1. Len(inbound) = 0
      OBVIOUS
    <2>2. Len(rx) \in Nat /\ WorkCapacity \in Nat
      BY SizesAssumption DEF TypeOK, WorkBufferType
    <2> QED
      BY <2>1, <2>2 DEF Receivable
  <1>4. \/ NothingToRead(t) \/ SendPingRest(t) \/ SendPublish(t) \/ StartPing(t)
        \/ ConnackTimeout(t) \/ PingTimeout(t)
    BY <1>1, <1>2, <1>3, ServedCases
       DEF PollTooEarly, PollReconnect, ReceiveConnack, ReceiveConnected, SendConnect
  <1>5. CASE ConnackTimeout(t) \/ PingTimeout(t)
    BY <1>5 DEF ConnackTimeout, PingTimeout, MarkDisconnected, CloseLink
  <1>6. CASE NothingToRead(t)
    BY <1>6 DEF NothingToRead, session, network
  <1>7. CASE SendPingRest(t) \/ StartPing(t)
    BY <1>7 DEF SendPingRest, StartPing, SendControl
  <1>8. CASE SendPublish(t)
    BY <1>8 DEF SendPublish, session
  <1> QED
    BY <1>4, <1>5, <1>6, <1>7, <1>8

(* A poll that reads is one of the client's own.                             *)
LEMMA ReceivingPoll ==
  ASSUME HostInv, NEW t, PollReceives(t)
  PROVE  /\ PollServed(t) \/ PollFailed(t)
         /\ RxType' /\ RxOrder' /\ RxLink'
         /\ handed' = handed + 1 /\ pushed' = pushed
  <1> DEFINE first == rxQueue[rxRead].bytes
  <1>0. TypeOK /\ StageInv /\ RxType /\ RxOrder /\ RxLink /\ rxCount > 0 /\ HandOver
    BY DEF HostInv, IInv, PollReceives
  <1>1. /\ RxType' /\ RxOrder' /\ handed' = handed + 1
        /\ Unread = first \o Unread'
        /\ first \in Seq(Bytes) /\ Unread' \in Seq(Bytes)
    BY <1>0, HandOverRing
  <1>2. pushed' = pushed
    BY <1>0 DEF HandOver
  <1>3. state \in {"WAITING_CONNACK", "CONNECTED"} /\ linkUp /\ configured
    <2>1. state \in {"WAITING_CONNACK", "CONNECTED"}
      BY DEF PollReceives, Reads, WaitsForConnack, LooksForBytes, Serves
    <2> QED
      BY <1>0, <2>1 DEF StageInv, StageWaiting, StageConnected
  <1>4. inbound = first \o Unread' /\ HeadLen = Len(first)
    BY <1>0, <1>1, <1>3 DEF RxLink, HeadLen
  <1>5. CASE HeadLen = 0 /\ PollFailed(t)
    BY <1>1, <1>2, <1>5, FailedPoll DEF RxLink
  <1>6. CASE /\ HeadLen > 0 /\ now' = t /\ UNCHANGED producer
             /\ \/ WaitsForConnack(t) /\ TakeConnack(HeadLen, t)
                \/ LooksForBytes(t) /\ TakeConnected(HeadLen, t)
    <2>1. HeadLen \in Receivable
      <3>1. /\ Len(inbound) = Len(first) + Len(Unread') /\ Len(first) \in Nat
            /\ Len(Unread') \in Nat /\ Len(rx) \in Nat /\ WorkCapacity \in Nat
        <4>1. Len(inbound) = Len(first) + Len(Unread')
          BY <1>1, <1>4, RestOfConcat
        <4>2. Len(first) \in Nat /\ Len(Unread') \in Nat
          BY <1>1, LenProperties
        <4>3. Len(rx) \in Nat /\ WorkCapacity \in Nat
          BY <1>0, SizesAssumption DEF TypeOK, WorkBufferType
        <4> QED
          BY <4>1, <4>2, <4>3
      <3>2. HeadLen <= WorkCapacity - Len(rx)
        BY DEF PollReceives
      <3>3. PICK m \in Nat : m = HeadLen /\ m > 0 /\ m <= Len(inbound)
                             /\ m <= WorkCapacity - Len(rx)
        BY <1>4, <1>6, <3>1, <3>2
      <3> QED
        BY <3>1, <3>3 DEF Receivable
    <2>2. Unreceived(HeadLen) = Unread'
      BY <1>1, <1>4, RestOfConcat DEF Unreceived
    <2>3. ReceiveConnack(t) \/ ReceiveConnected(t)
      BY <1>6, <2>1 DEF ReceiveConnack, ReceiveConnected
    <2>4. PollServed(t)
      BY <1>3, <1>6, <2>3 DEF PollServed
    <2>5. RxLink'
      <3>1. ~linkUp' \/ inbound' = Unreceived(HeadLen)
        BY <1>6 DEF TakeConnack, TakeConnected, MarkDisconnected, CloseLink
      <3> QED
        BY <2>2, <3>1 DEF RxLink
    <2> QED
      BY <1>1, <1>2, <2>4, <2>5
  <1> QED
    BY <1>5, <1>6 DEF PollReceives

(* What a poll does to the ring, however it ends.                            *)
LEMMA HostPoll ==
  ASSUME HostInv, NEW t \in Int, PollOk(t) \/ PollNotOk(t)
  PROVE  /\ HostInv' /\ (PollServed(t) \/ PollFailed(t))
         /\ pushed' = pushed
         /\ (PollReceives(t) /\ handed' = handed + 1) \/ UNCHANGED rxRing
  <1>0. TypeOK /\ StageInv /\ RingInv /\ RxType /\ RxOrder /\ RxLink
    BY DEF HostInv, IInv
  <1>1. \/ PollSends(t) \/ PollReceives(t) \/ PollFindsNothing(t) \/ PollRefused(t)
        \/ PollElse(t)
    BY DEF PollOk, PollNotOk
  <1>2. /\ PollServed(t) \/ PollFailed(t)
        /\ RxType' /\ RxOrder' /\ RxLink'
        /\ pushed' = pushed
        /\ (PollReceives(t) /\ handed' = handed + 1) \/ UNCHANGED rxRing
    <2>1. CASE PollReceives(t)
      BY <2>1, ReceivingPoll
    <2>2. ASSUME UNCHANGED rxRing, ~linkUp' \/ inbound' = Unread \/ UNCHANGED <<linkUp, inbound>>
          PROVE  RxType' /\ RxOrder' /\ RxLink' /\ pushed' = pushed
      <3>1. RxType' /\ RxOrder' /\ Unread' = Unread
        BY <1>0, <2>2, SameRxRing
      <3> QED
        BY <1>0, <2>2, <3>1 DEF RxLink, rxRing
    <2>3. CASE PollSends(t)
      <3>1. UNCHANGED rxRing /\ PollServed(t) /\ Sends(t)
        BY <2>3 DEF PollSends
      <3>2. ~linkUp' \/ UNCHANGED <<linkUp, inbound>>
        BY <1>0, <3>1, SendsOnly
      <3> QED
        BY <2>2, <3>1, <3>2
    <2>4. CASE PollFindsNothing(t)
      <3>1. UNCHANGED rxRing /\ PollServed(t) /\ Reads(t) /\ rxCount = 0
        BY <2>4 DEF PollFindsNothing
      <3>2. linkUp
        BY <1>0, <3>1 DEF Reads, WaitsForConnack, LooksForBytes, Serves, StageInv,
                          StageWaiting, StageConnected
      <3>3. inbound = <<>>
        BY <1>0, <3>1, <3>2, NothingUnread DEF RxLink
      <3>4. ~linkUp' \/ UNCHANGED <<linkUp, inbound>>
        BY <1>0, <3>1, <3>3, EmptyPoll
      <3> QED
        BY <2>2, <3>1, <3>4
    <2>5. CASE PollRefused(t)
      <3>1. UNCHANGED rxRing /\ PollFailed(t)
        BY <2>5 DEF PollRefused
      <3> QED
        BY <2>2, <3>1, FailedPoll
    <2>6. CASE PollElse(t)
      <3>1. UNCHANGED rxRing /\ PollServed(t) /\ (linkUp' => inbound' = Unread)
        BY <2>6 DEF PollElse
      <3> QED
        BY <2>2, <3>1
    <2> QED
      BY <1>1, <2>1, <2>3, <2>4, <2>5, <2>6
  <1>3. TypeOK' /\ StageInv' /\ RingInv'
    BY <1>0, <1>2, PollType, PollStage, PollRing
  <1> QED
    BY <1>2, <1>3 DEF HostInv, IInv

LEMMA HostConnects ==
  ASSUME HostInv, NEW t \in Int, HostConnect(t)
  PROVE  HostInv' /\ UNCHANGED rxRing
  <1>1. /\ Connect(TRUE, TRUE, t) /\ inbound' = Unread /\ UNCHANGED rxRing
        /\ TypeOK /\ StageInv /\ RingInv /\ RxType /\ RxOrder
    BY DEF HostConnect, HostInv, IInv
  <1>2. TypeOK' /\ StageInv'
    BY <1>1, ConnectType, ConnectStage
  <1>3. RingInv'
    BY <1>1, RewindingRing DEF Connect, producer
  <1>4. RxType' /\ RxOrder' /\ Unread' = Unread
    BY <1>1, SameRxRing
  <1> QED
    BY <1>1, <1>2, <1>3, <1>4 DEF HostInv, IInv, RxLink

LEMMA HostPush ==
  ASSUME HostInv, NEW p \in Seq(Bytes), ReceivePush(p)
  PROVE  HostInv'
  <1>1. TypeOK /\ StageInv /\ RingInv /\ RxType /\ RxOrder /\ RxLink
    BY DEF HostInv, IInv
  <1>2. RxType' /\ RxOrder' /\ Unread' = Unread \o p
    BY <1>1, ReceivePushRing
  <1>3. CASE linkUp /\ PeerSend(p)
    <2>1. TypeOK' /\ StageInv'
      BY <1>1, <1>3, PeerSendType, PeerSendStage
    <2>2. RingInv'
      BY <1>1, <1>3, RewindingRing DEF PeerSend, queue, producer
    <2>3. RxLink'
      BY <1>1, <1>2, <1>3 DEF RxLink, PeerSend
    <2> QED
      BY <1>2, <2>1, <2>2, <2>3 DEF HostInv, IInv
  <1>4. CASE ~linkUp /\ UNCHANGED vars
    <2>1. IInv'
      BY <1>4, NextInv DEF HostInv
    <2>2. RxLink'
      BY <1>4 DEF RxLink, vars, network
    <2> QED
      BY <1>2, <2>1, <2>2 DEF HostInv
  <1> QED
    BY <1>3, <1>4 DEF ReceivePush

(* Steps that leave the ring alone and open no connection.                   *)
LEMMA HostElse ==
  ASSUME HostInv, [Next]_vars, UNCHANGED rxRing,
         ~linkUp' \/ UNCHANGED <<linkUp, inbound>>
  PROVE  HostInv'
  <1>1. IInv'
    BY NextInv DEF HostInv
  <1>2. RxType' /\ RxOrder' /\ Unread' = Unread
    BY SameRxRing DEF HostInv
  <1> QED
    BY <1>1, <1>2 DEF HostInv, RxLink

(* Any call of a program on the simulated network, at any time.              *)
HostCall ==
  \/ \E t \in Int : HostConnect(t) \/ PollOk(t) \/ PollNotOk(t)
  \/ \E p \in Seq(Bytes) : ReceivePush(p)
  \/ HostClose \/ Publish \/ HalClose \/ ResetCaptures
  \/ UNCHANGED hvars

LEMMA HostCallInv == HostInv /\ HostCall => HostInv'
  <1> SUFFICES ASSUME HostInv, HostCall PROVE HostInv'
    OBVIOUS
  <1>1. ASSUME NEW t \in Int, HostConnect(t) PROVE HostInv'
    BY <1>1, HostConnects
  <1>2. ASSUME NEW t \in Int, PollOk(t) \/ PollNotOk(t) PROVE HostInv'
    BY <1>2, HostPoll
  <1>3. ASSUME NEW p \in Seq(Bytes), ReceivePush(p) PROVE HostInv'
    BY <1>3, HostPush
  <1>4. CASE HostClose
    BY <1>4, HostElse DEF HostClose, Next, Application, Close, CloseLink
  <1>5. CASE Publish
    BY <1>5, HostElse DEF Publish, Next, Application, PublishEnqueue, network
  <1>6. CASE HalClose \/ ResetCaptures \/ UNCHANGED hvars
    BY <1>6, HostElse DEF HalClose, ResetCaptures, hvars, vars, network
  <1> QED
    BY <1>1, <1>2, <1>3, <1>4, <1>5, <1>6 DEF HostCall

LEMMA HostInitInv == HostInit => HostInv
  <1> SUFFICES ASSUME HostInit PROVE HostInv
    OBVIOUS
  <1>1. IInv
    BY InitInv DEF HostInit
  <1>2. NoRxPacket \in [bytes : Seq(Bytes), number : Nat]
    BY EmptyType DEF NoRxPacket
  <1>3. 0 \in RxIndex /\ 0 \in 0..RxDepth /\ RxDepth \in Nat /\ RxDepth > 0
    BY HostAssumption DEF RxIndex
  <1>4. RxType
    BY <1>2, <1>3 DEF HostInit, RxType, RxIndex
  <1>5. RxOrder
    <2>1. RxPlace(0, 0) = 0
      BY <1>3, RxPositions
    <2> QED
      BY <2>1 DEF HostInit, RxOrder
  <1>6. RxLink
    BY DEF HostInit, Init, RxLink
  <1> QED
    BY <1>1, <1>4, <1>5, <1>6 DEF HostInv

LEMMA HostOrder == HostInv => HandedInOrder
  <1> SUFFICES ASSUME HostInv PROVE HandedInOrder
    OBVIOUS
  <1>1. RxType /\ RxOrder /\ RxLink
    BY DEF HostInv
  <1>2. ASSUME NEW k \in 1..rxCount PROVE Queued[k].number = handed + k
    <2>1. k - 1 \in 0..rxCount - 1 /\ k - 1 + 1 = k
      BY <1>1, RxSizes
    <2>2. rxQueue[RxPlace(rxRead, k - 1)].number = handed + (k - 1) + 1
      BY <1>1, <2>1 DEF RxOrder
    <2>3. Queued[k] = rxQueue[RxPlace(rxRead, k - 1)]
      BY DEF Queued, RxAt, RxPlace
    <2> QED
      BY <1>1, <2>1, <2>2, <2>3, RxSizes
  <1> QED
    BY <1>1, <1>2 DEF HandedInOrder, RxOrder, RxLink

LEMMA HostNextCalls == HostInv /\ HostNext => HostCall
  <1> SUFFICES ASSUME HostInv, HostNext PROVE HostCall
    OBVIOUS
  <1>1. TypeOK /\ now \in Int
    BY DEF HostInv, IInv, TypeOK, TimersType
  <1>2. ASSUME NEW d \in PollGaps,
               PollOk(Clock(now + d)) \/ PollNotOk(Clock(now + d))
        PROVE  HostCall
    BY <1>1, <1>2, ClockGap DEF HostCall
  <1>3. ASSUME NEW p \in PeerPackets, ReceivePush(p) PROVE HostCall
    BY <1>3, SizesAssumption DEF HostCall
  <1> QED
    BY <1>1, <1>2, <1>3 DEF HostNext, HostCall

LEMMA HostStutters == HostInv /\ UNCHANGED hvars => HostInv'
  BY HostCallInv DEF HostCall

(* Every packet pushed is handed to the client once and in order, or waits in *)
(* the ring, whatever calls the harness makes and however connections end.    *)
THEOREM HandedCorrect == HostSpec => []HandedInOrder
  <1>1. HostInv /\ [HostNext]_hvars => HostInv'
    BY HostNextCalls, HostCallInv, HostStutters
  <1> QED
    BY <1>1, HostInitInv, HostOrder, PTL DEF HostSpec

-----------------------------------------------------------------------------
(* The demo.                                                                 *)

Outages == {"unplug", "notice", "reconnect", "resume", "answer_again", "greeted_again"}
Calls == {"connect", "hello", "answer", "greeted", "sense", "app", "flush", "close",
          "done", "failed"} \cup Outages

DemoType ==
  /\ pc \in Calls
  /\ step \in Nat /\ round \in Nat /\ attempts \in Nat /\ full \in BOOLEAN
  /\ waiting \in 0..EventCapacity /\ produced \in Nat /\ overflowed \in Nat
  /\ openedAt \in Nat

LEMMA OutageOrder ==
  /\ AfterCall("unplug") = "notice" /\ AfterCall("notice") = "reconnect"
  /\ AfterCall("reconnect") = "resume" /\ AfterCall("resume") = "answer_again"
  /\ AfterCall("answer_again") = "greeted_again" /\ AfterCall("greeted_again") = "flush"
  <1> DEFINE Place(p) == CHOOSE i \in DOMAIN OutageCalls : OutageCalls[i] = p
  <1>1. /\ DOMAIN OutageCalls = 1..7
        /\ OutageCalls[1] = "unplug" /\ OutageCalls[2] = "notice"
        /\ OutageCalls[3] = "reconnect" /\ OutageCalls[4] = "resume"
        /\ OutageCalls[5] = "answer_again" /\ OutageCalls[6] = "greeted_again"
        /\ OutageCalls[7] = "flush"
    BY DEF OutageCalls
  <1>2. ASSUME NEW k \in 1..7, \A i \in 1..7 : OutageCalls[i] = OutageCalls[k] => i = k
        PROVE  Place(OutageCalls[k]) = k
    BY <1>1, <1>2
  <1>3. \A i, k \in 1..7 : OutageCalls[i] = OutageCalls[k] => i = k
    <2> SUFFICES ASSUME NEW i \in 1..7, NEW k \in 1..7, OutageCalls[i] = OutageCalls[k]
                 PROVE  i = k
      OBVIOUS
    <2>1. i \in {1, 2, 3, 4, 5, 6, 7} /\ k \in {1, 2, 3, 4, 5, 6, 7}
      OBVIOUS
    <2>2. CASE i = 1
      BY <1>1, <2>1, <2>2
    <2>3. CASE i = 2
      BY <1>1, <2>1, <2>3
    <2>4. CASE i = 3
      BY <1>1, <2>1, <2>4
    <2>5. CASE i = 4
      BY <1>1, <2>1, <2>5
    <2>6. CASE i = 5
      BY <1>1, <2>1, <2>6
    <2>7. CASE i = 6
      BY <1>1, <2>1, <2>7
    <2>8. CASE i = 7
      BY <1>1, <2>1, <2>8
    <2> QED
      BY <2>1, <2>2, <2>3, <2>4, <2>5, <2>6, <2>7, <2>8
  <1>4. ASSUME NEW k \in 1..7 PROVE AfterCall(OutageCalls[k]) = OutageCalls[1 + k]
    <2>1. Place(OutageCalls[k]) = k
      BY <1>2, <1>3
    <2> QED
      BY <2>1 DEF AfterCall
  <1>5. /\ AfterCall(OutageCalls[1]) = OutageCalls[2]
        /\ AfterCall(OutageCalls[2]) = OutageCalls[3]
        /\ AfterCall(OutageCalls[3]) = OutageCalls[4]
    BY <1>4, 1 \in 1..7, 2 \in 1..7, 3 \in 1..7, 1 + 1 = 2, 1 + 2 = 3, 1 + 3 = 4
  <1>6. /\ AfterCall(OutageCalls[4]) = OutageCalls[5]
        /\ AfterCall(OutageCalls[5]) = OutageCalls[6]
        /\ AfterCall(OutageCalls[6]) = OutageCalls[7]
    BY <1>4, 4 \in 1..7, 5 \in 1..7, 6 \in 1..7, 1 + 4 = 5, 1 + 5 = 6, 1 + 6 = 7
  <1> HIDE DEF Place
  <1> QED
    BY <1>1, <1>5, <1>6

(* The calls of the script, and those of a harness, are calls of HostNet.     *)
LEMMA PollThenCall ==
  ASSUME NEW t \in Int, NEW next, PollThen(t, next)
  PROVE  HostCall
  BY DEF PollThen, HostCall

LEMMA AcceptedPacket == Accepted \in Seq(Bytes)
  BY DEF Accepted, Bytes, ConnackType

LEMMA FlushTimeInt == DemoType => FlushTime \in Int
  <1> SUFFICES ASSUME DemoType PROVE FlushTime \in Int
    OBVIOUS
  <1>1. step \in Nat /\ round \in Nat /\ attempts \in Nat
    BY DEF DemoType
  <1> QED
    BY <1>1 DEF FlushTime, StepMs

LEMMA OutageCall ==
  ASSUME Outage, step * StepMs \in Int PROVE HostCall
  <1>1. CASE PollRefused(step * StepMs) /\ hostUp' = linkUp'
    BY <1>1 DEF PollNotOk, HostCall
  <1>2. CASE HalClose
    BY <1>2 DEF HostCall
  <1>3. ASSUME NEW next, PushAccepted(next) PROVE HostCall
    BY <1>3, AcceptedPacket DEF PushAccepted, HostCall
  <1>4. ASSUME NEW t \in Int, NEW next, PollThen(t, next) PROVE HostCall
    BY <1>4, PollThenCall
  <1> QED
    BY <1>1, <1>2, <1>3, <1>4 DEF Outage

LEMMA DemoCalls ==
  ASSUME HostInv, DemoType, [DemoNext]_dvars
  PROVE  HostCall
  <1>1. UNCHANGED hvars => HostCall
    BY DEF HostCall
  <1>2. CASE StartUp
    <2>1. 0 \in Int /\ 1 \in Int
      OBVIOUS
    <2> QED
      BY <1>2, <2>1, PollThenCall, AcceptedPacket DEF StartUp, PushAccepted, HostCall
  <1>3. CASE Sense \/ Flushed \/ Ended \/ UNCHANGED dvars
    BY <1>1, <1>3 DEF Sense, Flushed, Ended, dvars
  <1>4. CASE AppPoll
    BY <1>1, <1>4 DEF AppPoll, HostCall
  <1>5. CASE Outage
    <2>1. step * StepMs \in Int
      BY DEF DemoType, StepMs
    <2> QED
      BY <1>5, <2>1, OutageCall
  <1>6. CASE Flush
    BY <1>1, <1>6, FlushTimeInt DEF Flush, HostCall
  <1>7. CASE Shutdown
    BY <1>7 DEF Shutdown, HostCall
  <1>8. CASE Tester
    BY <1>8, HostNextCalls DEF Tester
  <1> QED
    BY <1>2, <1>3, <1>4, <1>5, <1>6, <1>7, <1>8 DEF DemoNext, Main

DemoInv == HostInv /\ DemoType

LEMMA DemoTypeNext ==
  ASSUME DemoInv, [DemoNext]_dvars
  PROVE  DemoType'
  <1>1. /\ DemoType /\ pushed \in Nat /\ EventCapacity \in Nat /\ EventsPerStep \subseteq Nat
    BY DemoAssumption DEF DemoInv, HostInv, RxType
  <1> USE <1>1
  <1>2. ASSUME pc' \in Calls, step' \in {step, step + 1}, round' \in {round, round + 1, 0},
               attempts' \in {attempts, attempts + 1, 0}, full' \in BOOLEAN,
               waiting' \in 0..EventCapacity, produced' \in Nat, overflowed' \in Nat,
               NotesOpening \/ UNCHANGED openedAt
        PROVE  DemoType'
    BY <1>2 DEF DemoType, NotesOpening
  <1> DEFINE Held == UNCHANGED <<step, drain, events>>
  <1>3. ASSUME Held, pc' \in Calls, NotesOpening \/ UNCHANGED openedAt PROVE DemoType'
    BY <1>2, <1>3 DEF DemoType, drain, events
  <1>4. ASSUME NEW t, NEW next \in Calls, PollThen(t, next) PROVE DemoType'
    BY <1>3, <1>4 DEF PollThen, Calls
  <1>5. ASSUME NEW next \in Calls, PushAccepted(next) PROVE DemoType'
    BY <1>3, <1>5 DEF PushAccepted
  <1>6. CASE StartUp
    <2>1. {"hello", "answer", "greeted", "sense", "failed"} \subseteq Calls
      BY DEF Calls
    <2>2. CASE pc = "connect" /\ HostConnect(0) /\ pc' = "hello" /\ NotesOpening /\ Held
      BY <1>3, <2>1, <2>2
    <2>3. CASE PollThen(0, "answer") \/ PushAccepted("greeted")
      BY <1>4, <1>5, <2>1, <2>3
    <2>4. CASE PollThen(1, IF connected' THEN "sense" ELSE "failed")
      BY <1>3, <2>1, <2>4 DEF PollThen
    <2> QED
      BY <1>6, <2>2, <2>3, <2>4 DEF StartUp
  <1>7. CASE Sense
    <2>1. PICK n \in EventsPerStep :
            LET room == EventCapacity - waiting IN
            /\ produced' = produced + n
            /\ waiting' = waiting + (IF n < room THEN n ELSE room)
            /\ overflowed' = overflowed + (IF n < room THEN 0 ELSE n - room)
      BY <1>7 DEF Sense
    <2>2. /\ n \in Nat /\ waiting \in 0..EventCapacity /\ produced \in Nat
          /\ overflowed \in Nat
      BY DEF DemoType
    <2>3. waiting' \in 0..EventCapacity /\ produced' \in Nat /\ overflowed' \in Nat
      BY <2>1, <2>2
    <2>4. /\ pc' \in Calls /\ step' \in {step, step + 1} /\ openedAt' = openedAt
          /\ UNCHANGED drain
      BY <1>7 DEF Sense, Calls
    <2> QED
      BY <1>2, <2>3, <2>4 DEF drain, DemoType
  <1>8. CASE AppPoll
    <2>1. UNCHANGED <<step, round, attempts, produced, overflowed, openedAt>>
      BY <1>8 DEF AppPoll
    <2>2. pc' \in Calls /\ full' \in BOOLEAN /\ waiting' \in 0..EventCapacity
      <3>1. /\ {"app", "failed", "flush", "unplug"} \subseteq Calls
            /\ waiting \in 0..EventCapacity
        BY DEF Calls, Outages, DemoType
      <3>2. CASE /\ waiting > 0 /\ waiting' = LeftWaiting /\ full' = (dropped' > dropped)
                 /\ pc' = IF ~full' THEN "app" ELSE IF step = 4 THEN "failed" ELSE "flush"
        <4>1. pc' \in Calls
          BY <3>1, <3>2
        <4>2. full' \in BOOLEAN
          BY <3>2
        <4>3. waiting' \in 0..EventCapacity
          BY <3>1, <3>2 DEF LeftWaiting
        <4> QED
          BY <4>1, <4>2, <4>3
      <3>3. CASE /\ waiting' = waiting /\ full' = FALSE
                 /\ pc' = IF step = 4 THEN "unplug" ELSE "flush"
        BY <3>1, <3>3
      <3> QED
        BY <1>8, <3>2, <3>3 DEF AppPoll
    <2> QED
      BY <1>2, <2>1, <2>2 DEF DemoType
  <1>9. CASE Outage
    <2>1. /\ AfterCall("unplug") \in Calls /\ AfterCall("notice") \in Calls
          /\ AfterCall("reconnect") \in Calls /\ AfterCall("resume") \in Calls
          /\ AfterCall("answer_again") \in Calls /\ AfterCall("greeted_again") \in Calls
          /\ "failed" \in Calls
      BY OutageOrder DEF Calls, Outages
    <2>2. CASE HalClose /\ pc' = AfterCall("unplug") /\ Held /\ UNCHANGED openedAt
      BY <1>3, <2>1, <2>2
    <2>3. CASE /\ pc' = IF count > 0 THEN AfterCall("notice") ELSE "failed"
               /\ Held /\ UNCHANGED openedAt
      BY <1>3, <2>1, <2>3
    <2> QED
      BY <1>4, <1>5, <1>9, <2>1, <2>2, <2>3 DEF Outage
  <1>10. CASE Flush
    <2>1. /\ pc' \in Calls /\ attempts' \in {attempts, attempts + 1}
          /\ NotesOpening \/ UNCHANGED openedAt
          /\ UNCHANGED <<step, round, full, events>>
      BY <1>10 DEF Flush, Calls
    <2> QED
      BY <1>2, <2>1 DEF DemoType, events
  <1>11. CASE Flushed
    <2>1. /\ pc' \in Calls /\ step' \in {step, step + 1} /\ round' \in {round + 1, 0}
          /\ attempts' = 0 /\ UNCHANGED <<full, events, openedAt>>
      BY <1>11 DEF Flushed, Calls
    <2> QED
      BY <1>2, <2>1 DEF DemoType, events
  <1>12. CASE Shutdown
    BY <1>3, <1>12 DEF Shutdown, Calls
  <1>13. CASE Tester \/ Ended \/ UNCHANGED dvars
    BY <1>3, <1>13 DEF Tester, Ended, dvars, DemoType
  <1> QED
    BY <1>6, <1>7, <1>8, <1>9, <1>10, <1>11, <1>12, <1>13 DEF DemoNext, Main

LEMMA DemoInvNext == DemoInv /\ [DemoNext]_dvars => DemoInv'
  BY DemoTypeNext, DemoCalls, HostCallInv DEF DemoInv

LEMMA DemoInvInit == DemoInit => DemoInv
  <1> SUFFICES ASSUME DemoInit PROVE DemoInv
    OBVIOUS
  <1>1. "connect" \in Calls
    BY DEF Calls
  <1>2. 0 \in 0..EventCapacity
    BY DemoAssumption
  <1>3. DemoType
    BY <1>1, <1>2 DEF DemoInit, DemoType
  <1> QED
    BY <1>3, HostInitInv DEF DemoInit, DemoInv

LEMMA DemoInductive == DemoSpec => []DemoInv
  BY DemoInvInit, DemoInvNext, PTL DEF DemoSpec

(* The same of the demo, and of the harness that shares its model.           *)
THEOREM DemoHandedCorrect == DemoSpec => []HandedInOrder
  BY DemoInductive, HostOrder, PTL DEF DemoInv

-----------------------------------------------------------------------------
(* The demo's sessions are answered by packets of their own connection.      *)

(* Where the script has brought the connection when it makes a call.         *)
FreshState ==
  /\ pc \in {"hello", "resume"} => state = "SENDING_CONNECT"
  /\ pc \in {"answer", "answer_again", "greeted", "greeted_again"} =>
       state = "WAITING_CONNACK"
  /\ pc = "reconnect" => state = "DISCONNECTED"

(* The ring is empty but for the answer a greeting is about to read.         *)
FreshRing ==
  /\ pc \in {"greeted", "greeted_again"} => rxCount = 1
  /\ pc \notin {"greeted", "greeted_again", "failed"} => rxCount = 0

(* An open connection reads no packet older than itself, a session one that  *)
(* was pushed for it.                                                        *)
FreshLink ==
  /\ linkUp => handed >= openedAt
  /\ connected => handed > openedAt

FreshInv == caller = "main" => FreshState /\ FreshRing /\ FreshLink

(* A poll that succeeds while the CONNECT is sent has sent the whole of it.  *)
LEMMA PollOkSending ==
  ASSUME TypeOK, StageInv, NEW t, PollOk(t), state = "SENDING_CONNECT"
  PROVE  state' = "WAITING_CONNACK" /\ UNCHANGED rxRing
  <1>1. PollSends(t)
    BY DEF PollOk, PollReceives, PollElse, Sends, Reads, WaitsForConnack, LooksForBytes, Serves
  <1>2. PollServed(t) /\ wire'.got = 0 /\ UNCHANGED rxRing
    BY <1>1 DEF PollSends
  <1>3. configured
    BY DEF StageInv, StageSending
  <1>4. SendConnect(t)
    BY <1>2, <1>3, ServedCases
       DEF PollTooEarly, PollReconnect, ConnackTimeout, ReceiveConnack, PingTimeout,
           SendPingRest, ReceiveConnected, NothingToRead, SendPublish, StartPing,
           WaitsForConnack, LooksForBytes, Serves
  <1>5. PICK n \in 1..(ConnectLen - controlSent) :
          /\ wire' = Written(<<"CONNECT", 0>>, controlSent, n, ConnectLen)
          /\ controlSent + n = ConnectLen => state' = "WAITING_CONNACK"
    BY <1>4 DEF SendConnect, SendControl
  <1>6. controlSent \in Nat /\ ConnectLen \in Nat /\ controlSent + n # 0
    BY SizesAssumption DEF TypeOK, WorkBufferType
  <1>7. controlSent + n = ConnectLen
    BY <1>2, <1>5, <1>6 DEF Written
  <1> QED
    BY <1>2, <1>5, <1>7

(* One that succeeds while the CONNACK is awaited has read a packet.         *)
LEMMA PollOkWaiting ==
  ASSUME StageInv, NEW t, PollOk(t), state = "WAITING_CONNACK"
  PROVE  PollReceives(t)
  <1>1. ASSUME PollElse(t) PROVE FALSE
    <2>1. PollServed(t) /\ ~WaitsForConnack(t) /\ linkUp'
      BY <1>1 DEF PollElse, Reads, PollOk
    <2>2. configured
      BY DEF StageInv, StageWaiting
    <2>3. ConnackTimeout(t)
      BY <2>1, <2>2, ServedCases
         DEF PollTooEarly, PollReconnect, SendConnect, ReceiveConnack, PingTimeout,
             SendPingRest, ReceiveConnected, NothingToRead, SendPublish, StartPing,
             LooksForBytes, Serves
    <2> QED
      BY <2>1, <2>3 DEF ConnackTimeout, MarkDisconnected, CloseLink
  <1> QED
    BY <1>1 DEF PollOk, PollSends, Sends, Serves

(* One that succeeds while disconnected has opened a connection.             *)
LEMMA PollOkDisconnected ==
  ASSUME StageInv, NEW t, PollOk(t), state = "DISCONNECTED"
  PROVE  state' = "SENDING_CONNECT" /\ UNCHANGED rxRing
  <1>1. PollElse(t) /\ linkUp'
    BY DEF PollOk, PollSends, PollReceives, Sends, Reads, WaitsForConnack, LooksForBytes, Serves
  <1>2. PollServed(t) /\ UNCHANGED rxRing
    BY <1>1 DEF PollElse
  <1>3. ~linkUp
    BY DEF StageInv, StageDisconnected
  <1>4. configured
    BY <1>1, <1>2, <1>3, ServedUnconfigured DEF network
  <1>5. PollReconnect(t, TRUE)
    BY <1>1, <1>2, <1>3, <1>4, ServedCases
       DEF PollTooEarly, SendConnect, ConnackTimeout, ReceiveConnack, PingTimeout,
           SendPingRest, ReceiveConnected, NothingToRead, SendPublish, StartPing,
           WaitsForConnack, LooksForBytes, Serves, network
  <1> QED
    BY <1>1, <1>2, <1>5 DEF PollReconnect, ConnectionOpened, ConnectionRefused, CloseLink

(* Only a packet begins a session.                                           *)
LEMMA SessionServed ==
  ASSUME NEW t, PollServed(t), ~ReceiveConnack(t), connected'
  PROVE  connected
  <1>1. CASE ~configured
    BY <1>1, ServedUnconfigured DEF session
  <1>2. CASE PollReconnect(t, TRUE)
    BY <1>2 DEF PollReconnect, ConnectionOpened, ConnectionRefused
  <1>3. CASE ConnackTimeout(t) \/ PingTimeout(t)
    BY <1>3 DEF ConnackTimeout, PingTimeout, MarkDisconnected
  <1>4. CASE PollTooEarly(t) \/ NothingToRead(t) \/ SendPublish(t)
    BY <1>4 DEF PollTooEarly, NothingToRead, SendPublish, session
  <1>5. CASE SendConnect(t) \/ SendPingRest(t) \/ StartPing(t)
    BY <1>5 DEF SendConnect, SendPingRest, StartPing, SendControl
  <1>6. CASE ReceiveConnected(t)
    BY <1>6 DEF ReceiveConnected, TakeConnected, MarkDisconnected
  <1> QED
    BY <1>1, <1>2, <1>3, <1>4, <1>5, <1>6, ServedCases

LEMMA SessionPolled ==
  ASSUME HostInv, NEW t \in Int, PollOk(t) \/ PollNotOk(t), ~PollReceives(t), connected'
  PROVE  connected
  <1>1. \/ PollSends(t) \/ PollFindsNothing(t) \/ PollRefused(t) \/ PollElse(t)
    BY DEF PollOk, PollNotOk
  <1>2. TypeOK /\ StageInv /\ RxType /\ RxLink
    BY DEF HostInv, IInv
  <1>3. CASE PollRefused(t)
    BY <1>3, FailedPoll DEF PollRefused
  <1>4. CASE PollSends(t) \/ PollElse(t)
    <2>1. PollServed(t) /\ ~ReceiveConnack(t)
      BY <1>4 DEF PollSends, PollElse, Sends, Reads, Serves, ReceiveConnack, WaitsForConnack
    <2> QED
      BY <2>1, SessionServed
  <1>5. CASE PollFindsNothing(t)
    <2>1. PollServed(t) /\ Reads(t) /\ rxCount = 0
      BY <1>5 DEF PollFindsNothing
    <2>2. linkUp
      BY <1>2, <2>1 DEF Reads, WaitsForConnack, LooksForBytes, Serves, StageInv,
                        StageWaiting, StageConnected
    <2>3. inbound = <<>>
      BY <1>2, <2>1, <2>2, NothingUnread DEF RxLink
    <2>4. Receivable = {}
      <3>1. Len(inbound) = 0
        BY <2>3
      <3>2. Len(rx) \in Nat /\ WorkCapacity \in Nat
        BY <1>2, SizesAssumption DEF TypeOK, WorkBufferType
      <3> QED
        BY <3>1, <3>2 DEF Receivable
    <2> QED
      BY <2>1, <2>4, SessionServed DEF ReceiveConnack
  <1> QED
    BY <1>1, <1>3, <1>4, <1>5

(* A poll keeps the order of answers and connections.                        *)
LEMMA FreshPoll ==
  ASSUME HostInv, openedAt \in Nat, FreshLink, NEW t \in Int, PollOk(t) \/ PollNotOk(t),
         NotesOpening, linkUp \/ rxCount = 0
  PROVE  FreshLink'
  <1>1. /\ HostInv' /\ pushed' = pushed
        /\ \/ PollReceives(t) /\ handed' = handed + 1
           \/ UNCHANGED rxRing /\ ~PollReceives(t)
    BY HostPoll, ReceivingPoll
  <1>2. /\ StageInv /\ StageInv' /\ state \in States /\ state' \in States
        /\ handed \in Nat /\ rxCount \in Nat /\ handed + rxCount = pushed
    BY <1>1 DEF HostInv, IInv, TypeOK, SessionType, RxType, RxOrder
  <1>3. (connected => linkUp) /\ (connected' => linkUp')
    BY <1>2 DEF StageInv, States, StageDisconnected, StageSending, StageWaiting, StageConnected
  <1>4. CASE PollReceives(t) /\ handed' = handed + 1
    <2>1. linkUp
      BY <1>2, <1>4 DEF PollReceives, Reads, WaitsForConnack, LooksForBytes, Serves, StageInv,
                        StageWaiting, StageConnected
    <2> QED
      BY <1>2, <1>4, <2>1 DEF FreshLink, NotesOpening
  <1>5. CASE UNCHANGED rxRing /\ ~PollReceives(t)
    <2>1. handed' = handed
      BY <1>5 DEF rxRing
    <2>2. connected' => connected
      BY <1>5, SessionPolled
    <2>3. CASE linkUp
      BY <2>1, <2>2, <2>3 DEF FreshLink, NotesOpening
    <2>4. CASE ~linkUp
      <3>1. handed = pushed
        BY <1>2, <2>4
      <3> QED
        BY <1>2, <1>3, <2>1, <2>2, <2>4, <3>1 DEF FreshLink, NotesOpening
    <2> QED
      BY <2>3, <2>4
  <1> QED
    BY <1>1, <1>4, <1>5

(* The answer is pushed on the connection it is for.                         *)
LEMMA FreshPush ==
  ASSUME rxCount \in Nat, NEW next, PushAccepted(next)
  PROVE  /\ UNCHANGED <<state, linkUp, connected, handed, openedAt>>
         /\ rxCount' = rxCount + 1 /\ pc' = next
  BY DEF PushAccepted, ReceivePush, PeerSend, vars, session, network

LEMMA PollThenFresh ==
  ASSUME HostInv, openedAt \in Nat, FreshLink, NEW t \in Int, NEW next, PollThen(t, next),
         linkUp \/ rxCount = 0
  PROVE  /\ FreshLink'
         /\ (PollOk(t) /\ pc' = next) \/ pc' = "failed"
  BY FreshPoll DEF PollThen

(* A call that sends nothing to the client leaves it where it was.           *)
LEMMA FreshIdle ==
  ASSUME FreshState, FreshRing, FreshLink, UNCHANGED <<linkUp, connected, handed, openedAt>>,
         rxCount' = rxCount,
         pc \notin {"greeted", "greeted_again", "failed"},
         pc' \in {"sense", "app", "flush", "unplug", "notice", "close", "done", "failed"}
  PROVE  (FreshState /\ FreshRing /\ FreshLink)'
  <1>1. FreshState' /\ FreshRing'
    BY DEF FreshState, FreshRing
  <1>2. FreshLink'
    BY DEF FreshLink
  <1> QED
    BY <1>1, <1>2

LEMMA FailedFresh == FreshLink' /\ pc' = "failed" => (FreshState /\ FreshRing /\ FreshLink)'
  BY DEF FreshState, FreshRing

LEMMA FreshStartUp ==
  ASSUME DemoInv, FreshState, FreshRing, FreshLink, StartUp
  PROVE  (FreshState /\ FreshRing /\ FreshLink)'
  <1>1. /\ HostInv /\ TypeOK /\ StageInv /\ RxType /\ RxOrder /\ openedAt \in Nat
        /\ rxCount \in Nat /\ handed \in Nat /\ pushed = handed + rxCount
        /\ 0 \in Int /\ 1 \in Int
    BY RxSizes DEF DemoInv, HostInv, IInv, DemoType, RxOrder
  <1>2. CASE pc = "connect" /\ HostConnect(0) /\ pc' = "hello" /\ NotesOpening
    <2>1. /\ state' = "SENDING_CONNECT" /\ ~connected' /\ UNCHANGED rxRing /\ rxCount = 0
      BY <1>2 DEF HostConnect, Connect, ConnectionOpened, FreshRing
    <2>2. FreshState' /\ FreshRing'
      BY <1>2, <2>1 DEF FreshState, FreshRing, rxRing
    <2>3. handed = pushed /\ handed' = handed
      BY <1>1, <2>1 DEF rxRing
    <2>4. FreshLink'
      BY <1>1, <1>2, <2>1, <2>3 DEF FreshLink, NotesOpening
    <2> QED
      BY <2>2, <2>4
  <1>3. CASE pc = "hello" /\ PollThen(0, "answer")
    <2>1. state = "SENDING_CONNECT" /\ rxCount = 0
      BY <1>3 DEF FreshState, FreshRing
    <2>2. FreshLink' /\ ((PollOk(0) /\ pc' = "answer") \/ pc' = "failed")
      BY <1>1, <1>3, <2>1, PollThenFresh
    <2>3. CASE PollOk(0) /\ pc' = "answer"
      <3>1. state' = "WAITING_CONNACK" /\ UNCHANGED rxRing
        BY <1>1, <2>1, <2>3, PollOkSending
      <3> QED
        BY <2>1, <2>2, <2>3, <3>1 DEF FreshState, FreshRing, rxRing
    <2> QED
      BY <2>2, <2>3, FailedFresh
  <1>4. CASE pc = "answer" /\ PushAccepted("greeted")
    <2>1. /\ UNCHANGED <<state, linkUp, connected, handed, openedAt>>
          /\ rxCount' = rxCount + 1 /\ pc' = "greeted"
          /\ state = "WAITING_CONNACK" /\ rxCount = 0
      BY <1>1, <1>4, FreshPush DEF FreshState, FreshRing
    <2> QED
      BY <2>1 DEF FreshState, FreshRing, FreshLink
  <1>5. CASE pc = "greeted" /\ PollThen(1, IF connected' THEN "sense" ELSE "failed")
    <2>1. state = "WAITING_CONNACK" /\ rxCount = 1
      BY <1>5 DEF FreshState, FreshRing
    <2>2. linkUp
      BY <1>1, <2>1 DEF StageInv, StageWaiting
    <2>3. FreshLink' /\ ((PollOk(1) /\ pc' \in {"sense", "failed"}) \/ pc' = "failed")
      <3>1. FreshLink'
        BY <1>1, <1>5, <2>2, FreshPoll DEF PollThen
      <3>2. (PollOk(1) /\ pc' \in {"sense", "failed"}) \/ pc' = "failed"
        BY <1>5 DEF PollThen
      <3> QED
        BY <3>1, <3>2
    <2>4. CASE PollOk(1) /\ pc' = "sense"
      <3>1. rxCount' = 0
        BY <1>1, <2>1, <2>4, PollOkWaiting DEF PollReceives, HandOver
      <3> QED
        BY <2>3, <2>4, <3>1 DEF FreshState, FreshRing
    <2> QED
      BY <2>3, <2>4, FailedFresh
  <1> QED
    BY <1>2, <1>3, <1>4, <1>5 DEF StartUp

LEMMA FreshOutage ==
  ASSUME DemoInv, FreshState, FreshRing, FreshLink, Outage
  PROVE  (FreshState /\ FreshRing /\ FreshLink)'
  <1>1. /\ HostInv /\ TypeOK /\ StageInv /\ openedAt \in Nat /\ rxCount \in Nat
        /\ step * StepMs \in Int /\ 1400 \in Int /\ 1401 \in Int /\ 1402 \in Int
    BY RxSizes DEF DemoInv, HostInv, IInv, DemoType, StepMs
  <1>2. CASE pc = "unplug" /\ HalClose /\ pc' = AfterCall("unplug") /\ UNCHANGED openedAt
    BY <1>2, OutageOrder, FreshIdle DEF HalClose, vars, session, network, rxRing
  <1>3. CASE /\ pc = "notice" /\ PollRefused(step * StepMs)
             /\ pc' = IF count > 0 THEN AfterCall("notice") ELSE "failed"
    <2>1. PollFailed(step * StepMs) /\ UNCHANGED rxRing /\ rxCount = 0
      BY <1>3 DEF PollRefused, FreshRing
    <2>2. ~linkUp' /\ ~connected' /\ state' = "DISCONNECTED" /\ rxCount' = 0
      BY <2>1, FailedPoll DEF rxRing
    <2>3. pc' \in {"reconnect", "failed"}
      BY <1>3, OutageOrder
    <2> QED
      BY <2>2, <2>3 DEF FreshState, FreshRing, FreshLink
  <1>4. CASE pc = "reconnect" /\ PollThen(1400, AfterCall("reconnect"))
    <2>1. state = "DISCONNECTED" /\ rxCount = 0
      BY <1>4 DEF FreshState, FreshRing
    <2>2. FreshLink' /\ ((PollOk(1400) /\ pc' = "resume") \/ pc' = "failed")
      BY <1>1, <1>4, <2>1, PollThenFresh, OutageOrder
    <2>3. CASE PollOk(1400) /\ pc' = "resume"
      <3>1. state' = "SENDING_CONNECT" /\ UNCHANGED rxRing
        BY <1>1, <2>1, <2>3, PollOkDisconnected
      <3> QED
        BY <2>1, <2>2, <2>3, <3>1 DEF FreshState, FreshRing, rxRing
    <2> QED
      BY <2>2, <2>3, FailedFresh
  <1>5. CASE pc = "resume" /\ PollThen(1401, AfterCall("resume"))
    <2>1. state = "SENDING_CONNECT" /\ rxCount = 0
      BY <1>5 DEF FreshState, FreshRing
    <2>2. FreshLink' /\ ((PollOk(1401) /\ pc' = "answer_again") \/ pc' = "failed")
      BY <1>1, <1>5, <2>1, PollThenFresh, OutageOrder
    <2>3. CASE PollOk(1401) /\ pc' = "answer_again"
      <3>1. state' = "WAITING_CONNACK" /\ UNCHANGED rxRing
        BY <1>1, <2>1, <2>3, PollOkSending
      <3> QED
        BY <2>1, <2>2, <2>3, <3>1 DEF FreshState, FreshRing, rxRing
    <2> QED
      BY <2>2, <2>3, FailedFresh
  <1>6. CASE pc = "answer_again" /\ PushAccepted(AfterCall("answer_again"))
    <2>1. /\ UNCHANGED <<state, linkUp, connected, handed, openedAt>>
          /\ rxCount' = rxCount + 1 /\ pc' = "greeted_again"
      BY <1>1, <1>6, FreshPush, OutageOrder
    <2>2. state = "WAITING_CONNACK" /\ rxCount = 0
      BY <1>6 DEF FreshState, FreshRing
    <2> QED
      BY <2>1, <2>2 DEF FreshState, FreshRing, FreshLink
  <1>7. CASE pc = "greeted_again" /\ PollThen(1402, AfterCall("greeted_again"))
    <2>1. state = "WAITING_CONNACK" /\ rxCount = 1
      BY <1>7 DEF FreshState, FreshRing
    <2>2. linkUp
      BY <1>1, <2>1 DEF StageInv, StageWaiting
    <2>3. FreshLink' /\ ((PollOk(1402) /\ pc' = "flush") \/ pc' = "failed")
      BY <1>1, <1>7, <2>2, PollThenFresh, OutageOrder
    <2>4. CASE PollOk(1402) /\ pc' = "flush"
      <3>1. rxCount' = 0
        BY <1>1, <2>1, <2>4, PollOkWaiting DEF PollReceives, HandOver
      <3> QED
        BY <2>3, <2>4, <3>1 DEF FreshState, FreshRing
    <2> QED
      BY <2>3, <2>4, FailedFresh
  <1> QED
    BY <1>2, <1>3, <1>4, <1>5, <1>6, <1>7 DEF Outage

LEMMA FreshFlush ==
  ASSUME DemoInv, FreshState, FreshRing, FreshLink, Flush
  PROVE  (FreshState /\ FreshRing /\ FreshLink)'
  <1>1. HostInv /\ openedAt \in Nat /\ FlushTime \in Int /\ rxCount = 0 /\ pc = "flush"
    BY FlushTimeInt DEF DemoInv, DemoType, Flush, FreshRing
  <1>2. CASE UNCHANGED <<hvars, openedAt>> /\ pc' = "failed"
    <2>1. UNCHANGED <<linkUp, connected, handed, openedAt>> /\ rxCount' = rxCount
      BY <1>2 DEF hvars, vars, session, network, rxRing
    <2> QED
      BY <1>1, <1>2, <2>1, FreshIdle
  <1>3. CASE /\ PollOk(FlushTime) \/ PollNotOk(FlushTime)
             /\ NotesOpening /\ pc' \in {"flush", "failed"}
    <2>1. FreshLink'
      BY <1>1, <1>3, FreshPoll
    <2>2. rxCount' = 0
      <3>1. ~PollReceives(FlushTime)
        BY <1>1 DEF PollReceives
      <3>2. UNCHANGED rxRing
        BY <1>1, <1>3, <3>1, HostPoll
      <3> QED
        BY <1>1, <3>2 DEF rxRing
    <2> QED
      BY <1>3, <2>1, <2>2 DEF FreshState, FreshRing
  <1> QED
    BY <1>1, <1>2, <1>3 DEF Flush

LEMMA FreshNext ==
  ASSUME DemoInv, FreshInv, [DemoNext]_dvars
  PROVE  FreshInv'
  <1> SUFFICES ASSUME caller = "main", DemoNext, FreshState, FreshRing, FreshLink
               PROVE  (FreshState /\ FreshRing /\ FreshLink)'
    <2>1. CASE UNCHANGED dvars
      BY <2>1 DEF FreshInv, FreshState, FreshRing, FreshLink, dvars, hvars, vars, session,
                  network, rxRing
    <2>2. DemoNext => caller' = caller
      BY DEF DemoNext, Main, Ended, Tester, dvars
    <2> QED
      BY <2>1, <2>2 DEF FreshInv
  <1>1. CASE StartUp
    BY <1>1, FreshStartUp
  <1>2. CASE Outage
    BY <1>2, FreshOutage
  <1>3. CASE Flush
    BY <1>3, FreshFlush
  <1> DEFINE Idle == UNCHANGED <<linkUp, connected, handed, openedAt>> /\ rxCount' = rxCount
  <1>4. UNCHANGED <<hvars, openedAt>> => Idle
    BY DEF hvars, vars, session, network, rxRing
  <1>5. Publish /\ UNCHANGED openedAt => Idle
    BY DEF Publish, PublishEnqueue, session, network, rxRing
  <1> HIDE DEF Idle
  <1>6. CASE Sense
    <2>1. Idle /\ pc = "sense" /\ pc' \in {"sense", "app"}
      BY <1>4, <1>6 DEF Sense
    <2> QED
      BY <2>1, FreshIdle DEF Idle
  <1>7. CASE AppPoll
    <2>1. Idle /\ pc = "app"
      BY <1>4, <1>5, <1>7 DEF AppPoll
    <2>2. pc' \in {"app", "flush", "unplug", "failed"}
      BY <1>7 DEF AppPoll
    <2> QED
      BY <2>1, <2>2, FreshIdle DEF Idle
  <1>8. CASE Flushed
    <2>1. Idle /\ pc = "flush"
      BY <1>4, <1>8 DEF Flushed
    <2>2. pc' \in {"app", "failed", "close", "sense"}
      BY <1>8 DEF Flushed
    <2> QED
      BY <2>1, <2>2, FreshIdle DEF Idle
  <1>9. CASE Shutdown
    <2>1. ~linkUp' /\ ~connected' /\ UNCHANGED rxRing /\ pc = "close" /\ pc' = "done"
      BY <1>9 DEF Shutdown, HostClose, Close, CloseLink
    <2>2. rxCount' = 0
      BY <2>1 DEF FreshRing, rxRing
    <2> QED
      BY <2>1, <2>2 DEF FreshState, FreshRing, FreshLink
  <1>10. CASE Ended
    BY <1>10 DEF Ended, FreshState, FreshRing, FreshLink, dvars, hvars, vars, session,
                 network, rxRing
  <1>11. ~Tester
    BY DEF Tester
  <1> QED
    BY <1>1, <1>2, <1>3, <1>6, <1>7, <1>8, <1>9, <1>10, <1>11 DEF DemoNext, Main

LEMMA FreshStart == DemoInit => FreshInv
  BY DEF DemoInit, HostInit, Init, FreshInv, FreshState, FreshRing, FreshLink

(* Both sessions of the demo are accepted by an answer that was pushed while  *)
(* their own connection was open.                                            *)
THEOREM FreshCorrect == DemoSpec => []AnswersFresh
  <1>1. FreshInv => AnswersFresh
    BY DEF FreshInv, FreshLink, AnswersFresh
  <1>2. DemoSpec => []FreshInv
    BY FreshStart, FreshNext, DemoInductive, PTL DEF DemoSpec
  <1> QED
    BY <1>1, <1>2, PTL
-----------------------------------------------------------------------------
(* Where the demo's events are.                                              *)

(* Every event published is waiting, counted as dropped, or was accepted.    *)
Books == produced = waiting + overflowed + dropped + accepted

(* The drains leave nothing behind.                                          *)
Drained ==
  /\ pc \in Outages => waiting = 0 /\ ~full
  /\ pc = "flush" /\ ~full => waiting = 0
  /\ pc \in {"close", "done"} => waiting = 0 /\ count = 0

BooksInv == caller = "main" => Books /\ Drained

Lost == overflowed + dropped

(* The burst of the first three steps, before it is drained.                 *)
BeforeBurst ==
  /\ pc \in {"connect", "hello", "answer", "greeted"} =>
       step = 0 /\ count = 0 /\ waiting = 0 /\ Lost = 0
  /\ pc = "sense" /\ step <= 2 => count = 0 /\ waiting \in step..2 * step /\ Lost = 0

(* Once an event was dropped, what is queued fits the two slots.             *)
AfterBurst ==
  /\ pc = "sense" /\ step > 2 => count = 0 /\ waiting = 0 /\ dropped > 0
  /\ pc = "app" /\ dropped = 0 =>
       step = 2 /\ count + waiting \in 3..5 /\ overflowed \in 0..1
  /\ pc = "app" /\ dropped > 0 => step >= 2 /\ count + waiting <= 2 /\ Lost \in 1..2
  /\ pc \in {"flush"} \cup Outages => step >= 2 /\ dropped > 0 /\ Lost \in 1..2
  /\ pc = "flush" => waiting <= 2
  /\ step > 2 => Lost \in 1..2

BurstInv == caller = "main" => BeforeBurst /\ AfterBurst

(* A poll writes messages and takes none.                                    *)
LEMMA PollCount ==
  ASSUME TypeOK, NEW t, PollServed(t) \/ PollFailed(t)
  PROVE  UNCHANGED producer /\ count' <= count
  <1>1. count \in Nat /\ count <= count /\ count - 1 <= count
    BY SizesAssumption DEF TypeOK, QueueType
  <1>2. UNCHANGED producer
    BY DEF PollServed, PollFailed
  <1>3. ASSUME count' = count PROVE UNCHANGED producer /\ count' <= count
    BY <1>1, <1>2, <1>3
  <1>4. CASE PollFailed(t)
    BY <1>3, <1>4 DEF PollFailed, PollReconnect, HalFault, MarkDisconnected, queue
  <1>5. CASE PollServed(t)
    <2>1. CASE ~configured
      BY <1>3, <1>5, <2>1, ServedUnconfigured DEF queue
    <2>2. CASE PollTooEarly(t) \/ PollReconnect(t, TRUE) \/ NothingToRead(t)
      BY <1>3, <2>2 DEF PollTooEarly, PollReconnect, NothingToRead, queue
    <2>3. CASE ConnackTimeout(t) \/ PingTimeout(t)
      BY <1>3, <2>3 DEF ConnackTimeout, PingTimeout, MarkDisconnected
    <2>4. CASE SendConnect(t) \/ SendPingRest(t) \/ StartPing(t)
      BY <1>3, <2>4 DEF SendConnect, SendPingRest, StartPing, SendControl, queue
    <2>5. CASE ReceiveConnack(t)
      BY <1>3, <2>5 DEF ReceiveConnack, TakeConnack, MarkDisconnected, queue
    <2>6. CASE ReceiveConnected(t)
      BY <1>3, <2>6 DEF ReceiveConnected, TakeConnected, MarkDisconnected, queue
    <2>7. CASE SendPublish(t)
      <3>1. count' = count \/ count' = count - 1
        BY <2>7 DEF SendPublish
      <3> QED
        BY <1>1, <1>2, <3>1
    <2> QED
      BY <1>5, <2>1, <2>2, <2>3, <2>4, <2>5, <2>6, <2>7, ServedCases
  <1> QED
    BY <1>2, <1>4, <1>5

LEMMA HostPollCount ==
  ASSUME HostInv, NEW t \in Int, PollOk(t) \/ PollNotOk(t)
  PROVE  UNCHANGED <<dropped, accepted>> /\ count' <= count /\ count' \in Nat
  <1>1. HostInv' /\ (PollServed(t) \/ PollFailed(t)) /\ TypeOK
    BY HostPoll DEF HostInv, IInv
  <1>2. UNCHANGED producer /\ count' <= count
    BY <1>1, PollCount
  <1>3. count' \in Nat
    BY <1>1, SizesAssumption DEF HostInv, IInv, TypeOK, QueueType
  <1> QED
    BY <1>2, <1>3 DEF producer

(* The numbers the arguments below are about.                                *)
LEMMA DemoNumbers ==
  ASSUME DemoInv
  PROVE  /\ count \in 0..SlotCount /\ dropped \in Nat /\ accepted \in Nat
         /\ waiting \in 0..EventCapacity /\ produced \in Nat /\ overflowed \in Nat
         /\ step \in Nat /\ full \in BOOLEAN /\ SlotCount \in Nat /\ EventCapacity \in Nat
         /\ Len(delivered) + count = accepted
  BY SizesAssumption, DemoAssumption
     DEF DemoInv, HostInv, IInv, TypeOK, QueueType, RingInv, DemoType

(* What each of main's calls does to the events and the packet slots.        *)
LEMMA StartUpEvents ==
  ASSUME DemoInv, StartUp
  PROVE  /\ UNCHANGED <<step, drain, events, dropped, accepted>> /\ count' <= count
         /\ count' \in Nat
         /\ pc' \in {"hello", "answer", "greeted", "sense", "failed"}
         /\ pc \in {"connect", "hello", "answer", "greeted"}
  <1>1. /\ HostInv /\ count \in Nat /\ count <= count /\ 0 \in Int /\ 1 \in Int
    BY DemoNumbers DEF DemoInv
  <1>2. CASE pc = "connect" /\ HostConnect(0) /\ pc' = "hello" /\ UNCHANGED <<step, drain, events>>
    <2>1. UNCHANGED <<count, dropped, accepted>>
      BY <1>2 DEF HostConnect, Connect, producer
    <2> QED
      BY <1>1, <1>2, <2>1
  <1>3. ASSUME NEW t \in Int, PollOk(t) \/ PollNotOk(t)
        PROVE  UNCHANGED <<dropped, accepted>> /\ count' <= count /\ count' \in Nat
    BY <1>1, <1>3, HostPollCount
  <1>4. CASE pc = "hello" /\ PollThen(0, "answer")
    <2>1. UNCHANGED <<dropped, accepted>> /\ count' <= count /\ count' \in Nat
      BY <1>1, <1>3, <1>4 DEF PollThen
    <2> QED
      BY <1>4, <2>1 DEF PollThen
  <1>5. CASE pc = "answer" /\ PushAccepted("greeted")
    <2>1. UNCHANGED <<count, dropped, accepted>>
      BY <1>5 DEF PushAccepted, ReceivePush, PeerSend, vars, queue, producer
    <2> QED
      BY <1>1, <1>5, <2>1 DEF PushAccepted
  <1>6. CASE pc = "greeted" /\ PollThen(1, IF connected' THEN "sense" ELSE "failed")
    <2>1. UNCHANGED <<dropped, accepted>> /\ count' <= count /\ count' \in Nat
      BY <1>1, <1>3, <1>6 DEF PollThen
    <2>2. pc' \in {"sense", "failed"} /\ UNCHANGED <<step, drain, events>>
      BY <1>6 DEF PollThen
    <2> QED
      BY <1>6, <2>1, <2>2
  <1> QED
    BY <1>2, <1>4, <1>5, <1>6 DEF StartUp

LEMMA OutageEvents ==
  ASSUME DemoInv, Outage
  PROVE  /\ UNCHANGED <<step, drain, events, dropped, accepted>>
         /\ pc' \in Outages \cup {"flush", "failed"} /\ pc \in Outages
  <1>1. /\ HostInv /\ step * StepMs \in Int /\ 1400 \in Int /\ 1401 \in Int /\ 1402 \in Int
    BY DEF DemoInv, DemoType, StepMs
  <1>2. /\ AfterCall("unplug") \in Outages /\ AfterCall("notice") \in Outages
        /\ AfterCall("reconnect") \in Outages /\ AfterCall("resume") \in Outages
        /\ AfterCall("answer_again") \in Outages /\ AfterCall("greeted_again") = "flush"
    BY OutageOrder DEF Outages
  <1> DEFINE Places == Outages \cup {"flush", "failed"}
  <1>3. /\ AfterCall("unplug") \in Places /\ AfterCall("notice") \in Places
        /\ AfterCall("reconnect") \in Places /\ AfterCall("resume") \in Places
        /\ AfterCall("answer_again") \in Places /\ AfterCall("greeted_again") \in Places
        /\ "failed" \in Places
    BY <1>2
  <1> HIDE DEF Places
  <1>4. ASSUME NEW t \in Int, NEW next \in Places, PollThen(t, next)
        PROVE  UNCHANGED <<step, drain, events, dropped, accepted>> /\ pc' \in Places
    <2>1. UNCHANGED <<dropped, accepted>>
      BY <1>1, <1>4, HostPollCount DEF PollThen
    <2> QED
      BY <1>3, <1>4, <2>1 DEF PollThen
  <1>5. ASSUME NEW next \in Places, PushAccepted(next)
        PROVE  UNCHANGED <<step, drain, events, dropped, accepted>> /\ pc' \in Places
    <2>1. UNCHANGED <<dropped, accepted>>
      BY <1>5 DEF PushAccepted, ReceivePush, PeerSend, vars, producer
    <2> QED
      BY <1>5, <2>1 DEF PushAccepted
  <1>6. UNCHANGED <<step, drain, events, dropped, accepted>> /\ pc' \in Places
    <2>1. CASE HalClose /\ pc' = AfterCall("unplug") /\ UNCHANGED <<step, drain, events>>
      BY <1>3, <2>1 DEF HalClose, vars, producer
    <2>2. CASE /\ PollRefused(step * StepMs) /\ hostUp' = linkUp'
               /\ pc' = (IF count > 0 THEN AfterCall("notice") ELSE "failed")
               /\ UNCHANGED <<step, drain, events>>
      <3>1. UNCHANGED <<dropped, accepted>>
        BY <1>1, <2>2, HostPollCount DEF PollNotOk
      <3> QED
        BY <1>3, <2>2, <3>1
    <2> QED
      BY <1>1, <1>3, <1>4, <1>5, <2>1, <2>2 DEF Outage
  <1>7. pc \in Outages
    BY DEF Outage, Outages
  <1> QED
    BY <1>6, <1>7 DEF Places

LEMMA FlushEvents ==
  ASSUME DemoInv, Flush
  PROVE  /\ UNCHANGED <<step, full, events, dropped, accepted>>
         /\ pc = "flush" /\ pc' \in {"flush", "failed"}
  <1>1. HostInv /\ FlushTime \in Int
    BY FlushTimeInt DEF DemoInv
  <1>2. CASE PollOk(FlushTime) \/ PollNotOk(FlushTime)
    BY <1>1, <1>2, HostPollCount DEF Flush
  <1>3. CASE UNCHANGED hvars /\ pc' = "failed"
    BY <1>3 DEF Flush, hvars, vars, producer
  <1> QED
    BY <1>2, <1>3 DEF Flush

LEMMA SenseEvents ==
  ASSUME DemoInv, Sense
  PROVE  /\ UNCHANGED <<count, dropped, accepted>> /\ pc = "sense"
         /\ \E n \in EventsPerStep :
              /\ n \in Nat
              /\ produced' = produced + n
              /\ waiting + n <= EventCapacity =>
                   waiting' = waiting + n /\ overflowed' = overflowed
              /\ waiting + n > EventCapacity =>
                   /\ waiting' = EventCapacity
                   /\ overflowed' = overflowed + (waiting + n - EventCapacity)
  <1>1. PICK n \in EventsPerStep :
          /\ produced' = produced + n
          /\ waiting' = waiting + (IF n < EventCapacity - waiting THEN n
                                   ELSE EventCapacity - waiting)
          /\ overflowed' = overflowed + (IF n < EventCapacity - waiting THEN 0
                                         ELSE n - (EventCapacity - waiting))
    BY DEF Sense
  <1>2. n \in Nat /\ waiting \in Nat /\ EventCapacity \in Nat /\ overflowed \in Nat
    BY DemoNumbers, DemoAssumption
  <1>3. /\ waiting + n <= EventCapacity => waiting' = waiting + n /\ overflowed' = overflowed
        /\ waiting + n > EventCapacity =>
             /\ waiting' = EventCapacity
             /\ overflowed' = overflowed + (waiting + n - EventCapacity)
    BY <1>1, <1>2
  <1>4. UNCHANGED <<count, dropped, accepted>> /\ pc = "sense"
    BY DEF Sense, hvars, vars, queue, producer
  <1> QED
    BY <1>1, <1>2, <1>3, <1>4

(* An event that is popped is accepted when a slot is free, else dropped.    *)
LEMMA AppPollEvents ==
  ASSUME DemoInv, AppPoll
  PROVE  /\ pc = "app" /\ UNCHANGED <<step, produced, overflowed>>
         /\ \/ /\ waiting > 0 /\ waiting' = waiting - 1
               /\ \/ /\ count < SlotCount /\ count' = count + 1
                     /\ accepted' = accepted + 1 /\ dropped' = dropped
                     /\ ~full' /\ pc' = "app"
                  \/ /\ count = SlotCount /\ count' = count
                     /\ accepted' = accepted /\ dropped' = dropped + 1
                     /\ full' /\ pc' = IF step = 4 THEN "failed" ELSE "flush"
            \/ /\ waiting = 0 /\ waiting' = 0 /\ ~full'
               /\ UNCHANGED <<count, dropped, accepted>>
               /\ pc' = IF step = 4 THEN "unplug" ELSE "flush"
  <1>1. /\ count \in 0..SlotCount /\ dropped \in Nat /\ accepted \in Nat /\ SlotCount \in Nat
    BY DemoNumbers
  <1>2. CASE /\ waiting > 0 /\ Publish /\ waiting' = LeftWaiting
             /\ full' = (dropped' > dropped)
             /\ pc' = IF ~full' THEN "app" ELSE IF step = 4 THEN "failed" ELSE "flush"
    <2>1. CASE /\ count >= SlotCount /\ dropped' = dropped + 1
               /\ UNCHANGED <<count, accepted>>
      <3>1. full' /\ count = SlotCount
        <4>1. dropped' > dropped /\ count = SlotCount
          BY <1>1, <2>1
        <4> QED
          BY <1>2, <4>1
      <3> QED
        BY <1>2, <2>1, <3>1 DEF AppPoll, LeftWaiting
    <2>2. CASE /\ count < SlotCount /\ accepted' = accepted + 1 /\ count' = count + 1
               /\ UNCHANGED dropped
      <3>1. ~full'
        <4>1. ~(dropped' > dropped)
          BY <1>1, <2>2
        <4> QED
          BY <1>2, <4>1
      <3> QED
        BY <1>2, <2>2, <3>1 DEF AppPoll, LeftWaiting
    <2> QED
      BY <1>2, <2>1, <2>2 DEF Publish, PublishEnqueue, queue
  <1>3. CASE /\ waiting = 0 /\ full' = FALSE
             /\ pc' = (IF step = 4 THEN "unplug" ELSE "flush")
             /\ UNCHANGED <<hvars, waiting>>
    BY <1>3 DEF AppPoll, hvars, vars, queue, producer
  <1> QED
    BY <1>2, <1>3 DEF AppPoll

LEMMA FlushedEvents ==
  ASSUME DemoInv, Flushed
  PROVE  /\ UNCHANGED <<full, events, count, dropped, accepted>>
         /\ pc = "flush" /\ count = 0
         /\ IF full THEN pc' \in {"app", "failed"} /\ step' = step
            ELSE pc' \in {"close", "sense"} /\ step' = step + 1
  <1>1. count = 0
    BY DemoNumbers DEF Flushed, PendingLeft
  <1>2. UNCHANGED <<count, dropped, accepted>>
    BY DEF Flushed, hvars, vars, queue, producer
  <1> QED
    BY <1>1, <1>2 DEF Flushed

LEMMA ShutdownEvents ==
  ASSUME Shutdown
  PROVE  /\ UNCHANGED <<step, drain, events, count, dropped, accepted>>
         /\ pc = "close" /\ pc' = "done"
  BY DEF Shutdown, HostClose, Close, producer

LEMMA DemoMoves ==
  ASSUME caller = "main", [DemoNext]_dvars
  PROVE  /\ caller' = caller
         /\ \/ StartUp \/ Sense \/ AppPoll \/ Outage \/ Flush \/ Flushed \/ Shutdown
            \/ UNCHANGED <<pc, step, full, events, count, dropped, accepted>>
  <1>1. CASE Main
    BY <1>1 DEF Main
  <1>2. CASE Ended \/ UNCHANGED dvars
    BY <1>2 DEF Ended, dvars, hvars, vars, drain, queue, producer
  <1> QED
    BY <1>1, <1>2 DEF DemoNext, Tester

LEMMA BooksNext ==
  ASSUME DemoInv, BooksInv, [DemoNext]_dvars
  PROVE  BooksInv'
  <1> SUFFICES ASSUME caller = "main", Books, Drained PROVE Books' /\ Drained'
    <2>1. CASE caller = "main"
      BY <2>1, DemoMoves DEF BooksInv
    <2>2. CASE caller # "main"
      BY <2>2 DEF BooksInv, DemoNext, Main, Ended, Tester, dvars
    <2> QED
      BY <2>1, <2>2
  <1>1. /\ count \in 0..SlotCount /\ dropped \in Nat /\ accepted \in Nat
        /\ waiting \in 0..EventCapacity /\ produced \in Nat /\ overflowed \in Nat
        /\ SlotCount \in Nat /\ EventCapacity \in Nat /\ full \in BOOLEAN
    BY DemoNumbers
  <1>2. ASSUME UNCHANGED <<events, dropped, accepted>> PROVE Books'
    BY <1>2 DEF Books, events
  <1>3. CASE StartUp
    BY <1>2, <1>3, StartUpEvents DEF Drained, Outages
  <1>4. CASE Sense
    <2>1. PICK n \in Nat :
            /\ produced' = produced + n
            /\ waiting + n <= EventCapacity => waiting' = waiting + n /\ overflowed' = overflowed
            /\ waiting + n > EventCapacity =>
                 /\ waiting' = EventCapacity
                 /\ overflowed' = overflowed + (waiting + n - EventCapacity)
      BY <1>4, SenseEvents
    <2>2. UNCHANGED <<dropped, accepted>>
      BY <1>4, SenseEvents
    <2>3. Books'
      BY <1>1, <2>1, <2>2 DEF Books
    <2>4. pc' \in {"sense", "app"}
      BY <1>4 DEF Sense
    <2> QED
      BY <2>3, <2>4 DEF Drained, Outages
  <1>5. CASE AppPoll
    <2>1. Books'
      BY <1>1, <1>5, AppPollEvents DEF Books
    <2>2. Drained'
      BY <1>5, AppPollEvents DEF Drained, Outages
    <2> QED
      BY <2>1, <2>2
  <1>6. CASE Outage
    BY <1>2, <1>6, OutageEvents DEF Drained, Outages, events, drain
  <1>7. CASE Flush
    BY <1>2, <1>7, FlushEvents DEF Drained, Outages, events
  <1>8. CASE Flushed
    BY <1>2, <1>8, FlushedEvents DEF Drained, Outages, events
  <1>9. CASE Shutdown
    BY <1>2, <1>9, ShutdownEvents DEF Drained, Outages, events
  <1>10. CASE UNCHANGED <<pc, step, full, events, count, dropped, accepted>>
    BY <1>2, <1>10 DEF Drained, events
  <1> QED
    BY <1>3, <1>4, <1>5, <1>6, <1>7, <1>8, <1>9, <1>10, DemoMoves

(* The numbers of the demo: two packet slots, five events of the queue, one  *)
(* or two events in a step.                                                  *)
DemoSizes == SlotCount = 2 /\ EventCapacity = 5 /\ EventsPerStep \subseteq {1, 2}

LEMMA BurstSense ==
  ASSUME DemoSizes, DemoInv, BeforeBurst, AfterBurst, Sense
  PROVE  BeforeBurst' /\ AfterBurst'
  <1> USE DEF Lost
  <1>1. /\ count \in Nat /\ dropped \in Nat /\ waiting \in 0..5 /\ overflowed \in Nat
        /\ step \in Nat
    BY DemoNumbers DEF DemoSizes
  <1>2. /\ waiting' \in Nat /\ overflowed' \in Nat
        /\ \/ waiting' \in waiting + 1..waiting + 2 /\ waiting' <= 5 /\ overflowed' = overflowed
           \/ waiting = 4 /\ waiting' = 5 /\ overflowed' = overflowed + 1
           \/ waiting = 5 /\ waiting' = 5 /\ overflowed' \in overflowed + 1..overflowed + 2
    <2>1. PICK n \in EventsPerStep :
            /\ waiting + n <= 5 => waiting' = waiting + n /\ overflowed' = overflowed
            /\ waiting + n > 5 => waiting' = 5 /\ overflowed' = overflowed + (waiting + n - 5)
      BY SenseEvents DEF DemoSizes
    <2>2. n \in {1, 2}
      BY DEF DemoSizes
    <2> QED
      BY <1>1, <2>1, <2>2
  <1>3. UNCHANGED <<count, dropped>> /\ pc = "sense"
    BY SenseEvents
  <1>4. CASE step < 2 /\ step' = step + 1 /\ pc' = pc
    <2>1. /\ count = 0 /\ waiting \in step..2 * step /\ overflowed = 0 /\ dropped = 0
      BY <1>1, <1>3, <1>4 DEF BeforeBurst
    <2>2. waiting' \in step'..2 * step' /\ overflowed' = 0 /\ step' <= 2
      BY <1>1, <1>2, <1>4, <2>1
    <2> QED
      BY <1>3, <1>4, <2>1, <2>2 DEF BeforeBurst, AfterBurst, Outages
  <1>5. CASE step = 2 /\ step' = step /\ pc' = "app"
    <2>1. /\ count = 0 /\ waiting \in 2..4 /\ overflowed = 0 /\ dropped = 0
      BY <1>1, <1>3, <1>5 DEF BeforeBurst
    <2>2. count' + waiting' \in 3..5 /\ overflowed' \in 0..1 /\ dropped' = 0
      <3>1. count' = 0 /\ dropped' = 0
        BY <1>3, <2>1
      <3>2. waiting' \in 3..5
        BY <1>2, <2>1
      <3>3. overflowed' \in 0..1
        BY <1>2, <2>1
      <3>4. \A m \in Nat, w \in 3..5 : m = 0 => m + w \in 3..5
        OBVIOUS
      <3> QED
        BY <3>1, <3>2, <3>3, <3>4
    <2> QED
      BY <1>5, <2>2 DEF BeforeBurst, AfterBurst, Outages
  <1>6. CASE step > 2 /\ step' = step /\ pc' = "app"
    <2>1. count = 0 /\ waiting = 0 /\ dropped > 0 /\ overflowed + dropped \in 1..2
      BY <1>3, <1>6 DEF AfterBurst
    <2>2. count' + waiting' <= 2 /\ dropped' > 0 /\ overflowed' + dropped' \in 1..2
      <3>1. count' = 0 /\ dropped' = dropped
        BY <1>3, <2>1
      <3>2. waiting' \in 1..2 /\ overflowed' = overflowed
        BY <1>2, <2>1
      <3>3. \A m \in Nat, w \in 1..2 : m = 0 => m + w <= 2
        OBVIOUS
      <3> QED
        BY <2>1, <3>1, <3>2, <3>3
    <2>3. step' >= 2
      BY <1>1, <1>6
    <2> QED
      BY <1>6, <2>2, <2>3 DEF BeforeBurst, AfterBurst, Outages
  <1> QED
    BY <1>1, <1>4, <1>5, <1>6 DEF Sense

LEMMA BurstAppPoll ==
  ASSUME DemoSizes, DemoInv, BeforeBurst, AfterBurst, AppPoll
  PROVE  BeforeBurst' /\ AfterBurst'
  <1> USE DEF Lost
  <1>1. /\ count \in 0..2 /\ dropped \in Nat /\ waiting \in 0..5 /\ overflowed \in Nat
        /\ step \in Nat
    BY DemoNumbers DEF DemoSizes
  <1>2. pc = "app" /\ UNCHANGED <<step, overflowed>>
    BY AppPollEvents
  <1>3. /\ step >= 2
        /\ dropped = 0 => step = 2 /\ count + waiting \in 3..5 /\ overflowed \in 0..1
        /\ dropped > 0 => count + waiting <= 2 /\ overflowed + dropped \in 1..2
    BY <1>1, <1>2 DEF AfterBurst
  <1>4. CASE /\ waiting > 0 /\ waiting' = waiting - 1 /\ count' = count + 1
             /\ dropped' = dropped /\ pc' = "app"
    <2>1. count' + waiting' = count + waiting
      BY <1>1, <1>4
    <2>2. step > 2 => overflowed + dropped \in 1..2
      BY <1>2 DEF AfterBurst
    <2> QED
      BY <1>2, <1>3, <1>4, <2>1, <2>2 DEF BeforeBurst, AfterBurst, Outages
  <1>5. CASE /\ waiting > 0 /\ waiting' = waiting - 1 /\ count = 2
             /\ dropped' = dropped + 1
             /\ pc' = IF step = 4 THEN "failed" ELSE "flush"
    <2>1. dropped = 0
      BY <1>1, <1>3, <1>5
    <2>2. dropped' > 0 /\ overflowed + dropped' \in 1..2 /\ waiting' <= 2
      BY <1>1, <1>3, <1>5, <2>1
    <2>3. pc' = "flush"
      BY <1>3, <1>5, <2>1
    <2> QED
      BY <1>2, <1>3, <2>2, <2>3 DEF BeforeBurst, AfterBurst, Outages
  <1>6. CASE /\ waiting = 0 /\ waiting' = 0 /\ UNCHANGED <<count, dropped>>
             /\ pc' = IF step = 4 THEN "unplug" ELSE "flush"
    <2>1. dropped > 0
      BY <1>1, <1>3, <1>6
    <2>2. pc' \in {"unplug", "flush"}
      BY <1>6
    <2> QED
      BY <1>1, <1>2, <1>3, <1>6, <2>1, <2>2 DEF BeforeBurst, AfterBurst, Outages
  <1> QED
    BY <1>4, <1>5, <1>6, AppPollEvents DEF DemoSizes

LEMMA BurstNext ==
  ASSUME DemoSizes, DemoInv, BooksInv, BurstInv, [DemoNext]_dvars
  PROVE  BurstInv'
  <1> SUFFICES ASSUME caller = "main", Drained, BeforeBurst, AfterBurst
               PROVE  BeforeBurst' /\ AfterBurst'
    <2>1. CASE caller = "main"
      BY <2>1, DemoMoves DEF BurstInv, BooksInv
    <2>2. CASE caller # "main"
      BY <2>2 DEF BurstInv, DemoNext, Main, Ended, Tester, dvars
    <2> QED
      BY <2>1, <2>2
  <1> USE DEF Lost
  <1>1. /\ count \in 0..2 /\ dropped \in Nat /\ waiting \in 0..5 /\ overflowed \in Nat
        /\ step \in Nat /\ full \in BOOLEAN
    BY DemoNumbers DEF DemoSizes
  <1>2. CASE StartUp
    <2>1. /\ UNCHANGED <<step, waiting, overflowed, dropped>>
          /\ count' <= count /\ count' \in Nat
          /\ pc' \in {"hello", "answer", "greeted", "sense", "failed"}
          /\ pc \in {"connect", "hello", "answer", "greeted"}
      BY <1>2, StartUpEvents DEF events
    <2>2. step = 0 /\ count = 0 /\ waiting = 0 /\ overflowed + dropped = 0
      BY <2>1 DEF BeforeBurst
    <2>3. count' = 0 /\ step' = 0 /\ waiting' = 0 /\ overflowed' + dropped' = 0
      BY <2>1, <2>2
    <2>4. 0 \in 0..2 * 0
      OBVIOUS
    <2> QED
      BY <2>1, <2>3, <2>4 DEF BeforeBurst, AfterBurst, Outages
  <1>3. CASE Sense
    BY <1>3, BurstSense
  <1>4. CASE AppPoll
    BY <1>4, BurstAppPoll
  <1>5. CASE Outage
    <2>1. /\ UNCHANGED <<step, full, waiting, overflowed, dropped>>
          /\ pc' \in Outages \cup {"flush", "failed"} /\ pc \in Outages
      BY <1>5, OutageEvents DEF events, drain
    <2>2. waiting = 0 /\ step >= 2 /\ dropped > 0 /\ overflowed + dropped \in 1..2
      BY <2>1 DEF Drained, AfterBurst
    <2> QED
      BY <2>1, <2>2 DEF BeforeBurst, AfterBurst, Outages
  <1>6. CASE Flush
    <2>1. /\ UNCHANGED <<step, waiting, overflowed, dropped>>
          /\ pc = "flush" /\ pc' \in {"flush", "failed"}
      BY <1>6, FlushEvents DEF events
    <2> QED
      BY <2>1 DEF BeforeBurst, AfterBurst, Outages
  <1>7. CASE Flushed
    <2>1. /\ UNCHANGED <<waiting, overflowed, count, dropped>>
          /\ pc = "flush" /\ count = 0
          /\ step >= 2 /\ dropped > 0 /\ overflowed + dropped \in 1..2 /\ waiting <= 2
      BY <1>7, FlushedEvents DEF AfterBurst, events
    <2>2. CASE full
      <3>1. pc' \in {"app", "failed"} /\ step' = step
        BY <1>7, <2>2, FlushedEvents
      <3>2. count' + waiting' <= 2
        BY <1>1, <2>1
      <3> QED
        BY <2>1, <3>1, <3>2 DEF BeforeBurst, AfterBurst, Outages
    <2>3. CASE ~full
      <3>1. pc' \in {"close", "sense"} /\ step' = step + 1
        BY <1>7, <2>3, FlushedEvents
      <3>2. waiting = 0
        BY <2>1, <2>3 DEF Drained
      <3>3. step' > 2 /\ ~(step' <= 2)
        BY <1>1, <2>1, <3>1
      <3> QED
        BY <2>1, <3>1, <3>2, <3>3 DEF BeforeBurst, AfterBurst, Outages
    <2> QED
      BY <1>1, <2>2, <2>3
  <1>8. CASE Shutdown
    <2>1. UNCHANGED <<step, overflowed, dropped>> /\ pc' = "done"
      BY <1>8, ShutdownEvents DEF events
    <2> QED
      BY <2>1 DEF BeforeBurst, AfterBurst, Outages
  <1>9. CASE UNCHANGED <<pc, step, full, events, count, dropped, accepted>>
    BY <1>9 DEF BeforeBurst, AfterBurst, events
  <1> QED
    BY <1>2, <1>3, <1>4, <1>5, <1>6, <1>7, <1>8, <1>9, DemoMoves

LEMMA BurstStart == DemoInit => BooksInv /\ BurstInv
  BY DEF DemoInit, HostInit, Init, BooksInv, Books, Drained, BurstInv, BeforeBurst, AfterBurst,
         Lost, Outages

(* Only the burst of the first three steps is lost, one or two events of it,  *)
(* and the demo ends with every other event delivered: with the two packet    *)
(* slots, the five events of the queue and the one or two events a step of    *)
(* the demo publishes, whatever the ring, the capture list, the lengths of    *)
(* packets and the timeouts.                                                 *)
THEOREM BurstCorrect == ASSUME DemoSizes PROVE DemoSpec => []OnlyTheBurstLoses
  <1>1. ASSUME DemoInv, BooksInv, BurstInv PROVE OnlyTheBurstLoses
    <2> SUFFICES ASSUME caller = "main"
                 PROVE  /\ produced = waiting + overflowed + dropped + accepted
                        /\ step >= 3 => overflowed + dropped \in 1..2
                        /\ pc = "done" => Len(delivered) = produced - overflowed - dropped
      BY DEF OnlyTheBurstLoses
    <2>1. /\ count \in Nat /\ dropped \in Nat /\ accepted \in Nat
          /\ waiting \in Nat /\ produced \in Nat /\ overflowed \in Nat /\ step \in Nat
          /\ Len(delivered) + count = accepted
      BY <1>1, DemoNumbers
    <2>2. Len(delivered) \in Nat
      BY <1>1, LenProperties DEF DemoInv, HostInv, IInv, TypeOK, QueueType
    <2>3. produced = waiting + overflowed + dropped + accepted
      BY <1>1 DEF BooksInv, Books
    <2>4. step >= 3 => overflowed + dropped \in 1..2
      BY <1>1, <2>1 DEF BurstInv, AfterBurst, Lost
    <2>5. pc = "done" => waiting = 0 /\ count = 0
      BY <1>1 DEF BooksInv, Drained
    <2> QED
      BY <2>1, <2>2, <2>3, <2>4, <2>5
  <1>2. DemoSpec => []BooksInv
    BY BurstStart, BooksNext, DemoInductive, PTL DEF DemoSpec
  <1>3. DemoSpec => []BurstInv
    BY <1>2, BurstStart, BurstNext, DemoInductive, PTL DEF DemoSpec
  <1> QED
    BY <1>1, <1>2, <1>3, DemoInductive, PTL

-----------------------------------------------------------------------------
(* The client keeps its promises on the simulated network.                   *)

LEMMA ClockTold ==
  /\ \A t \in Int : Clock(t) \in 0..ClockMod - 1
  /\ \A t \in 0..ClockMod - 1 : Clock(t + 0) = t
  <1>1. ClockMod \in Nat \ {0}
    BY TimersAssumption
  <1>2. ASSUME NEW t \in Int PROVE Clock(t) \in 0..ClockMod - 1
    BY <1>1 DEF Clock
  <1>3. ASSUME NEW t \in 0..ClockMod - 1 PROVE Clock(t + 0) = t
    <2>1. t + 0 \in Int /\ 0 \in Int /\ t + 0 = 0 * ClockMod + t
      BY <1>1
    <2> QED
      BY <1>1, <2>1, Remainder DEF Clock
  <1> QED
    BY <1>2, <1>3

LEMMA HostNextSteps ==
  ASSUME HostInv, now \in 0..ClockMod - 1, 0 \in PollGaps, [HostNext]_hvars
  PROVE  [Next]_vars /\ now' \in 0..ClockMod - 1
  <1>1. now \in Int /\ \A d \in PollGaps : now + d \in Int
    BY TimersAssumption DEF HostInv, IInv, TypeOK, TimersType
  <1>2. CASE HostConnect(now)
    <2>1. Clock(now + 0) = now
      BY ClockTold
    <2>2. Connect(TRUE, TRUE, Clock(now + 0)) /\ now' = now
      BY <1>2, <2>1 DEF HostConnect, Connect
    <2> QED
      BY <2>2 DEF Next, Application
  <1>3. ASSUME NEW d \in PollGaps, PollOk(Clock(now + d)) \/ PollNotOk(Clock(now + d))
        PROVE  [Next]_vars /\ now' \in 0..ClockMod - 1
    <2>1. PICK t \in 0..ClockMod - 1 : t = Clock(now + d)
      BY <1>1, ClockTold
    <2>2. PollServed(t) \/ PollFailed(t)
      BY <1>3, <2>1, HostPoll
    <2>3. now' = t
      BY <2>2 DEF PollServed, PollFailed
    <2> QED
      BY <2>1, <2>2, <2>3 DEF Next
  <1>4. ASSUME NEW p \in PeerPackets, ReceivePush(p)
        PROVE  [Next]_vars /\ now' \in 0..ClockMod - 1
    <2>1. PeerSend(p) \/ UNCHANGED vars
      BY <1>4 DEF ReceivePush
    <2>2. now' = now
      BY <2>1 DEF PeerSend, vars
    <2> QED
      BY <2>1, <2>2 DEF Next
  <1>5. CASE HostClose
    BY <1>5 DEF HostClose, Close, Next, Application
  <1>6. CASE Publish
    BY <1>6 DEF Publish, PublishEnqueue, Next, Application
  <1>7. CASE HalClose \/ ResetCaptures \/ UNCHANGED hvars
    BY <1>7 DEF HalClose, ResetCaptures, hvars, vars
  <1> QED
    BY <1>2, <1>3, <1>4, <1>5, <1>6, <1>7 DEF HostNext

(* The client on the simulated network is a client on some port: whatever     *)
(* the captures and the ring allow, each call is a step of MqttClient with    *)
(* one of the outcomes a HAL may choose.  HostConnect is made at the time of  *)
(* the call before, hence the gap of 0.                                      *)
THEOREM HostRefinesClient ==
  ASSUME 0 \in PollGaps PROVE HostSpec => Spec
  <1>1. HostInit => Init /\ now \in 0..ClockMod - 1
    BY TimersAssumption DEF HostInit
  <1>2. HostSpec => []HostInv
    <2>1. HostInv /\ [HostNext]_hvars => HostInv'
      BY HostNextCalls, HostCallInv, HostStutters
    <2> QED
      BY <2>1, HostInitInv, PTL DEF HostSpec
  <1>3. /\ HostInv /\ now \in 0..ClockMod - 1 /\ [HostNext]_hvars
        => [Next]_vars /\ (now \in 0..ClockMod - 1)'
    BY HostNextSteps
  <1> QED
    BY <1>1, <1>2, <1>3, PTL DEF HostSpec, Spec

(* In the demo, whose clock is set back, and with any harness, connections,   *)
(* byte streams, the work buffer and the order of messages are what they are  *)
(* for any client.                                                           *)
THEOREM DemoKeepsPromises ==
  DemoSpec => [](LinkMatchesState /\ StreamIntact /\ WorkBufferExclusive /\ ExactlyOnceInOrder)
  <1>1. DemoInv => LinkMatchesState /\ StreamIntact /\ WorkBufferExclusive /\ ExactlyOnceInOrder
    BY LinkHolds, StreamHolds, WorkBufferHolds, MessagesHold DEF DemoInv, HostInv
  <1> QED
    BY <1>1, DemoInductive, PTL
=============================================================================
