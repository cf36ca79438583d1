# A formal model of the sensor framework

This directory holds TLA+ modules for the C sensor framework of this
repository, the TLC configurations that model-check them on small instances,
and proofs that TLAPS checks for all instances. Paths below are relative to the
repository.

## 1. The system

A single main loop owns everything; there are no threads and no interrupts in
`src/`. Each layer calls only the one below.

| part | state it keeps | operations | talks to |
|---|---|---|---|
| `func/app/func_app_runtime.c` | pointers to the parts | `init`, `poll_once` | polls sensors, GUI, business, MQTT application, MQTT client in this order |
| `func/func_sensor.c` | registration table with sequence numbers, subscription table | `init`, `reset`, `register`, `subscribe`, `poll_all`, `get_latest` | calls drivers, pushes events into queues |
| `func/func_temp.c` | last sample, error counter, what was published last | `configure`, `init`, `poll`, `deinit` | reads a temperature protocol, feeds a filter chain |
| `func/filter/*.c` | windows, averages, previous output | `configure`, `process`, `reset` | one chain per driver |
| `func/func_event_queue.c` | ring of events, drop counter | `init`, `push`, `pop`, `count` | written by the sensor core, read by one consumer each |
| `func/app/func_app_biz.c` | per sensor: window, sum, latest result, alarm | `init`, `poll`, `get_latest` | pops its queue |
| `func/app/func_app_gui.c` | nothing | `init`, `poll` | pops its queue, shows on a display |
| `func/app/func_app_mqtt.c` | nothing | `init`, `poll` | pops its queue, enqueues in the MQTT client |
| `proto/proto_mqtt.c` | connection state, work buffer, deadlines, ring of packets | `init`, `connect`, `publish_enqueue`, `poll`, `close` | HAL network port |
| `proto/proto_i2c_reg.c`, `proto_temp_tmp75.c` | nothing | read and write registers, read a temperature | HAL I2C port |
| `proto/proto_clock.c`, `proto_display.c` | nothing | one call passed on | HAL clock, display callback |
| `tool/util_ringbuf.c` | a ring of fixed size elements | `init`, `push`, `pop`, `count` | nobody yet: not used by the rest of `src/src` |
| `tool/*.c` otherwise | nothing | arithmetic, byte order, names, log | |
| `ports/host_sim/host_net.c` | open or closed, packets captured, ring of packets to receive | HAL network operations, `receive_push`, `reset_captures` | under the MQTT client in tests and demo |
| `ports/host_sim/host_i2c.c` | registered devices | HAL I2C operations, `register` | under the register access |
| `ports/host_sim/host_time.c`, `ports/template` | the time that was set; nothing | HAL operations | |
| `examples/host_demo/main.c` | all parts, statically | a script of calls that stops at the first surprise | everything |

**What is hard.** There is no preemption, but there is plenty of asynchrony:
the HAL takes and delivers any part of a packet per call, connections break
between any two calls, the 32-bit millisecond clock wraps, polls come early or
late, queues and slot tables fill up, several parts of one call fail in one
iteration and compete for one return value. The state that spans calls (half
sent packets, a work buffer shared by both directions, exponential backoff,
error counters, windows with running sums, an alarm with hysteresis) makes
long sequences of legal calls matter. `PROJECT.json` lists these hazards at
their lines with the properties aimed at each.

**What makes each part correct.**

* MQTT client: the byte stream is whole packets, a session exists only after
  an accepting CONNACK, accepted messages are delivered once and in order, a
  dead peer is noticed once the application is quiet, retries come when they are due, the queue drains.
* Event queue: a bounded FIFO whose counter accounts for every lost event.
* Temperature driver: what it published last tells the truth about the last
  sample, sampling and forced publishing are on time.
* Sensor core: no driver misses its `deinit` because another one failed, a full
  queue costs only its own consumer, gaps are counted, results are true.
* Business application: statistics are those of the last readings; the alarm
  remembers the last limit crossed.
* Filters: each stage computes what it is named for from its own inputs since
  the last reset.
* Runtime: no part starves another, errors reach the caller.
* From register to result: what enters a result is the temperature in the
  sensor's own register, exactly rounded, whatever a transfer left behind.
* Host network: packets are handed over once, whole and in order, however
  connections come and go.
* Host demo: the script reaches its end and loses only the events of its burst.

## 2. Modules

| module | models | extends or uses |
|---|---|---|
| `Outbox` | what the MQTT client promises about messages (abstract) | |
| `MqttClient` | `proto_mqtt.c` over an arbitrary HAL and an arbitrary peer | implements `Outbox` |
| `MqttTimers` | `MqttClient` observed by a clock that does not wrap | extends `MqttClient` |
| `MqttSession` | `MqttClient` with a broker that follows the protocol, may die, or may become reachable for good | extends `MqttClient` |
| `BoundedFifo` | what an event queue promises (abstract) | |
| `EventQueue` | `func_event_queue.c` | implements `BoundedFifo` |
| `RingBuf` | `util_ringbuf.c` driven in lockstep with the event queue | extends `EventQueue` |
| `FuncTemp` | `func_temp.c` | |
| `SensorCore` | `func_sensor.c` with its queues and their consumers | |
| `FixedPoint` | `util_math.c` | |
| `Sums` | the sum of a sequence, in which properties of windows and counters are stated | |
| `AppBiz` | `func_app_biz.c` | extends `FixedPoint` |
| `Tmp75` | `proto_temp_tmp75.c`: decoding of a register | extends `FixedPoint` |
| `I2cBus` | `proto_i2c_reg.c` over `host_i2c.c`: devices, transfers, the staging buffer | |
| `SensorPath` | register, range check, calibration, result | extends `AppBiz`, `Tmp75`, `I2cBus` |
| `HostNet` | `MqttClient` over `host_net.c` | extends `MqttClient` |
| `HostDemo` | `main.c` of the host demo, or any harness, over `HostNet` | extends `HostNet` |
| `Filters` | the four filters as operators | extends `FixedPoint` |
| `FilterChain` | `func_filter.c`, a chain of any filters | extends `Filters`, `Sums` |
| `AppRuntime` | `func_app_runtime.c` and the poll loops of its consumers | |

`MC*` modules hold the constant values of the runs, `*_proofs` modules the
theorems, and `CommonLemmas` the inductions, sums and remainders they share. Definitions whose comment says *Mutant* are wrong on purpose: each is
a plausible bug in the operator that follows it, is used by nothing, and exists
to show that the properties notice it.

### How state and actions correspond to the code

**MqttClient.** Variables carry the names of the fields of
`proto_mqtt_client_t` (`awaiting` is `awaiting_ping_response`, `rx` the first
`receive_length` bytes of the work buffer, `slots/head/tail/count` the packet
ring). Each call of `connect`, `publish_enqueue`, `close` is one action, and
each path through `poll` one disjunct of `PollServed` or `PollFailed`. Packets
*to* the peer are a kind and a length, because only how much of which packet
was written matters; bytes *from* the peer are bytes, because the client
parses them. `linkUp`, `inbound` stand for the HAL and the network, `wire` is
what the peer's parser has seen, `opening` the first bytes the peer sent,
`delivered` the messages wholly written: these are observers of the outside.
A failing HAL call is `HalFault`. NOT_READY from `recv` is `NothingToRead`;
from `send` it is treated by the code like any failure. A publish whose packet does
not fit a slot is refused before anything changes (412-421): a stuttering step.

**EventQueue, FuncTemp, AppBiz, Filters.** One action per call, or per event
taken in the loop of `poll`; fields keep their names in camel case. Observers
(`pushed`, `lost`, `fails`, `good`, `shown`, `rest`, `age`, `recent`,
`crossing`, `fed`, `range`) record what really happened, independently of the
fields the code decides by.

**SensorCore.** `poll_all` and `reset` take one step per sensor (`at` and `resetAt`
are the loop indexes);
consumers pop between calls, as the applications do. A driver returns any
status with or without an event, and any `init` or `deinit` may fail. A driver need
not have a `deinit`, and may be registered under several ids, each with an `init` of
its own. `live` observes for which registrations a `deinit` is due. `next` counts
without the wrap of the code's `uint32_t`: sequence numbers are compared within one
registration and far from 2^32 events.

**RingBuf.** `util_ringbuf` and `func_event_queue` are two implementations of one
idea, each written out in full. Each action pushes into, or pops from, both at
once. An item of the ring buffer is `ItemSize` bytes, copied by byte offset as
`memcpy` does, so that indices that are not scaled show.

**SensorPath.** A step is one `func_temp_poll` of one sensor, from the bus
transfer to the evaluation of the event; in between nothing else runs. `reply`
is all a device can do: answer, stop after a byte, fail with or without having
written, or claim more than it was asked for. `staging` is the `rx_staging` of
the bus, which keeps what an earlier transfer, perhaps of another device, left.
`truth` observes the registers behind the readings in `recent`. Quality, timing
and filters of the driver are in `FuncTemp` and `FilterChain`.

**HostNet.** The steps are those of `MqttClient`, with the choices of the HAL
fixed to what `host_net.c` does: a send is captured whole or refused, a receive
hands over exactly one packet of the ring. `inbound` is then no more a free
network but what the ring still holds (an invariant). The ring belongs to the
host: a new connection is offered what an old one left. `Leftovers` of
`MqttClient` says what that may be; it is nothing in the runs over a real network.

**HostDemo.** `pc` names the next call of `main`, `step`, `round` and `attempts`
are its loop variables. `caller` says who runs the client: `main`, or a tester
that makes any call at any time. Sensors, event queue and MQTT application are
reduced to numbers of events; client and network are whole. `openedAt` observes
how many packets had been pushed when the connection was opened.

**AppRuntime.** `stage` is the part `poll_once` is polling. Each part is
reduced to what `poll_once` sees: events, statuses, queue lengths. The details
are in the module of that part.

**The code's checks of null pointers and invalid configurations** return before
anything changes. They are left out everywhere.

## 3. Runs

| run | instance | checks |
|---|---|---|
| `mqtt_client` | two slots, packets of two and three bytes written in any parts, five peer packets (good, refusing and merged CONNACK, PINGRESP, junk), clock modulo 4 | type, `LinkMatchesState`, `StreamIntact`, `SessionOnlyIfAccepted`, `WorkBufferExclusive`, `ExactlyOnceInOrder`, `DeadlinesHonoured`, refinement `ImplementsOutbox` |
| `mqtt_timers` | retries up to three periods of backoff, gaps of 0 to 2 ticks, clock modulo 8 | `NeverSilent`, `RetriesOnTime` |
| `mqtt_stray_byte` | a peer that stops within a PINGRESP | finding: `IdleSessionEnds` is violated |
| `mqtt_session` | two slots, an application that connects once and publishes for ever, up to three messages under way, a protocol-abiding broker | liveness: `DeadBrokerNoticed`, `EveryMessageDelivered` |
| `event_queue` | ring of three, arbitrary initial storage, eight pushes, counter modulo 4, with `util_ringbuf` in lockstep | `AllAccounted`, `NewestKept`, `SameQueue`, refinement `ImplementsFifo` |
| `func_temp` | three values, periods 2 and 5, clock modulo 10, counter saturating at 3 | `QualityTruthful`, `ValueClose`, `SampledOnSchedule`, `ForcedInTime` |
| `sensor_core` | more ids and subscriptions than fit, drivers with and without a `deinit`, subscribers with different policies and little room, one reset | type, `DriversReleased`, `NumberedInOrder`, `GapsCounted`, `ResultTruthful` |
| `sensor_path` | windows of three and one, readings on both alarm limits and between them, registers beyond the range, short and failing transfers | `ResultOfWindow`, `AlarmTracksCrossing`, `ReadingsTrue` |
| `filter_chain` | median 2, moving average 3, limit, EMA with alpha 1/4 | `WindowOutputs`, `HullKept`, `LimitRespected`, `EmaApproaches` |
| `app_runtime` | two sensors, queues of two, budgets of one and two, two transmit slots | `FirstErrorKept`, `EveryConsumerAdvances`, `UpToDate`, liveness `QueuesDrain` |
| `host_demo` | the demo's own constants (except packet lengths and the MQTT periods' clock), and a tester with three pushes | `HandedInOrder`, `OnlyTheBurstLoses`, `AnswersFresh`, liveness `DemoFinishes` |
| `app_runtime_masked` | a driver may be NOT_READY | finding: `FirstErrorKept` is violated |

`TypeOK` is checked by TLC for the client, the sensor core and, with the proofs,
for the driver, the runtime and the event queue.

**Bounds.** Rings of two or three wrap at every index, clocks wrap within a few
polls, and every bounded counter (`MaxMsgs`, `MaxDropped`, `MaxInbound`,
`MaxPushed`, `MaxSequence`, `MaxEras`, `MaxAroundReset`, `MaxFails`, `MaxEvents`,
`TesterMsgs`, `TesterPushes`) is large enough
for the ring behind it to wrap or overflow at least once; the names say what is
bounded. Two exceptions: in `mqtt_session` `MaxDropped` is 0, so that a publish into a
full ring, which changes nothing but the drop counter, does not happen; and there
`MaxMsgs` bounds only the messages under way, because the observers number them afresh
(`NumberAfresh`) whenever all are delivered. The bounds only stop the environment, never the code. The packet
lengths are the shortest that can be torn (two bytes, in `mqtt_timers` one:
tearing is not the question there). Deadlock checking is off only where a bound
on all inputs may end a behaviour (`event_queue`, the sensor runs).
`mqtt_client` has gaps of 0 and 1 tick with a clock modulo 4, so half the clock
is 2 ticks: every comparison is exercised right up to the wrap.

**Fairness.** `MqttClient`, the queues and the filters need none: they only have
safety properties. `MqttSession` assumes that the main loop polls for ever with
a clock that advances (`for (;;)` around `poll_once`), and that a broker on a
*stable* network answers; before it is stable nothing is assumed of the network.
Of the application nothing is assumed, and that sets a limit to what the client
promises: every packet written refreshes `last_io_ms` (`proto_mqtt.c:303`), and a
PINGREQ is due only when the queue is empty (548). An application that publishes
within every keepalive period over a half-open link therefore never notices the dead
broker, as long as its writes succeed. `DeadBrokerNoticed` names this as its only
alternative: the broker is noticed, or the application publishes for ever. The guide
promises the ping for *idle* sessions only, so this is a limit and no finding.
`HostDemo` assumes that `main` is run to its end; a tester may stop at any time.
`AppRuntime` assumes that the loop goes on and the clock does not fail for
ever. Display and network may fail for ever.

## 4. Findings

* **A stray half PINGRESP silences the client** (`proto_mqtt.c:521`). With one
  byte `0xD0` left in the work buffer every poll takes the receive branch and
  returns NOT_READY. Neither keepalive nor queue is served any more, against
  the guide's promise that an idle session is pinged and then dropped.
  `DeadlinesHonoured` and `NeverSilent` therefore exempt `rx # <<>>`.
* **NOT_READY hides a later error** (`func_app_runtime.c:8`). `poll_all` keeps
  the first status that is not OK, NOT_READY included; `capture` then drops it.
  An IO error of a later sensor is reported by nobody.

Not a contradiction of any text, but worth knowing: `func_biz_sensor_state_init`
accepts `high_alarm_off = high_alarm_on`, and a steady reading at that limit then
turns the alarm on and off with every sample (`func_app_biz.c:53-59`).
`AlarmTracksCrossing` speaks of limits that differ.

## 5. Proofs

TLAPS checks these for all values of the constants that satisfy the `ASSUME`s
of the module (`SizesAssumption`, `TimersAssumption`, `QueueAssumption`,
`ItemAssumption`, `TempAssumption`, `CoreAssumption`, `BizAssumption`,
`BusAssumption`, `PathAssumption`, `ChainAssumption`, `RuntimeAssumption`); TLC evaluates the same assumptions in
every run.

**`MqttClient_proofs`.** `TypeCorrect` comes first and stands alone. The other
invariants are not inductive: that the stream is intact after a partial write
depends on which packet is half sent, and which slot that can be. The inductive
invariant is `IInv == TypeOK /\ StageInv /\ RingInv`.

- `StageInv` says, for each `sns_mqtt_client_state_t`, what link, application
  flag, control packet, receive buffer and wire can be. In `CONNECTED` there are
  three cases: nothing in flight, the head slot half sent (then no ping and no
  received byte), or a ping half sent (then every slot untouched). `PartOf` ties
  the bytes on the wire to the `sent` counter of that packet.
- `RingInv` numbers the messages: those delivered are `1..n`, and the ring holds
  `n + 1 .. n + count` from `head` on.

`LinkCorrect`, `StreamCorrect` and `WorkBufferCorrect` follow from `StageInv`,
`MessagesCorrect` from `RingInv`. `AcceptedSession` needs one more part,
`OpeningInv`: until the CONNACK is complete, the bytes read and the bytes left
to read together begin as the connection began, however they were cut.
`DeadlinesCorrect` holds for every clock width and any gaps, as each poll either
has just set a timestamp or has passed the comparison with it; it assumes a
CONNACK timeout of at most half a turn of the clock, which is what the
comparison in `proto_mqtt_time_reached` can tell. `RefinesOutbox` maps every step of the client
to a step or a stutter of `Outbox`, under `IInv`.

Timers. `RetryInv` ties the client's deadline to real time: `backoff` is the
reference delay of the *next* failure, and while disconnected `reconnectAt` is the
delay of the failures so far, less what has really passed, ahead of the clock. A
difference of less than half a turn survives the wrap (`ElapsedBetween`), so
`RetryCorrect` assumes that neither the longest delay nor a gap between polls is
longer; that doubling with a clamp is the clamped power of two needs no bound.
`SilenceCorrect` is simpler: in a session with an empty buffer the real silence
is at most `Elapsed(now, lastIo)`, and that is below the keepalive period after
every poll. Its hypothesis, gap plus keepalive at most one turn, keeps the
difference from going round unnoticed.

The network. `HostInv == IInv /\ RxType /\ RxOrder /\ RxLink` numbers the packets of
the ring as pushed, those handed over first, and says that an open connection
has in flight exactly the bytes of the ring. `HandedCorrect` follows for any
ring. The bytes of the ring are a fold (`FlattenSeq`) over its packets; `IsJoin`
gives the fold's graph, and from it come the two facts used: a packet pushed
is appended, the first one is a prefix. A poll that receives is shown to be one
of the client's own (`ReceivingPoll`), with the length of the packet as the
number of bytes the HAL chose. `HostRefinesClient` says the rest: every call on
this port is a step of `MqttClient` or changes nothing of it. `HostInv` is kept by
a call at any time (`HostCallInv`), so it also holds in the demo, whose clock
is set back (`DemoHandedCorrect`, `DemoKeepsPromises`).

The demo. `FreshInv` is the script's own knowledge at each of its calls: what state
the client is in, and that the ring is empty but for the answer just pushed. What
lets the proof through is that a poll can answer OK in only one way in each state:
in `SENDING_CONNECT` it sent the whole packet, in `WAITING_CONNACK` it read a
packet, in `DISCONNECTED` it opened a connection. `FreshCorrect` needs nothing of
the sizes or timeouts: with other values the script may fail, but does not
take an old answer for a new one. `BurstCorrect` is about numbers and assumes those of
the demo (`DemoSizes`: two slots, a queue of five, one or two events a step).
`BooksInv` holds for all numbers: every event is waiting, dropped by one side or
the other, or accepted, and a drain leaves nothing. `BurstInv` bounds them: before
the drain of step 2 between three and five events are queued, so one must meet a
full ring; after it whatever is queued fits.

**`EventQueue_proofs`.** `Behind` (the write index is `count` behind the read
index, round the ring) makes index arithmetic local; `Ordered`, `Newest` and
`PoppedOrdered` say which pushes the entries and the reader have. Together they
are inductive, and give `KeepsNewest`, `ReadsInOrder` and, step by step, the
refinement of `BoundedFifo`. Positions are taken by comparison and subtraction,
as the code does, so no modulus by an unknown is needed. `DropsCounted` is the
exception: it says of a counter modulo any number that taking the remainder at
every step and once at the end come to the same. `SameCorrect` is about the two
implementations side by side. `Twin` says that indices and counters agree and
that slot for slot, byte for byte, the buffer holds the item of the queue's
event; `BytesApart` that items of one size laid out one behind the other share
no byte, so that a copy into one slot leaves the others as they are.

**`FuncTemp_proofs`.** The history variables must be tied to the driver's own:
`ErrorsCount` (the saturating counter is the number of failures in a row, capped),
`ValidKept` (the last valid value is the last good one) and `EventsKept` (what
the driver remembers of its last event is what it handed out). With them
`QualityTruthful` and `ValueClose` are inductive. `ScheduleCorrect` and
`ForceCorrect` need the wrapped differences to be the real times: `TimeKept` says
so of the last sample always, and of the last valid event as long as no failure
followed it. After a failure the age of that event may exceed a turn of the
clock; that is harmless, because the next good sample is announced anyway.

**`AppRuntime_proofs`.** Beside `TypeOK` each theorem has its own strengthening:
`TurnComes` (a consumer that was behind has advanced, or its turn is to come and
it still has its events; in its turn it has handled none) for `NobodyStarves`;
`LeftExcused` for `EveryoneUpToDate`; `ErrorsCollected` (the error of the sensor
core is kept apart until the last sensor) for `ErrorsReported`. The last assumes
that no driver returns `NOT_READY`; the run `app_runtime_masked` shows why.

**`SensorCore_proofs`.** `DriversReleased` (a driver with a `deinit` is
in the table, or still to come in reset, until it is deinitialised) needs the types
of the tables (`TablesType`) and that ids in the table are distinct, so that a step
of reset releases the driver it stands at and no other (`DueNext`). `ResultTruthful` needs that a sensor being polled is registered.
`OrderCorrect` (every consumer sees each registration's events in order) needs
that all numbers in queues and eyes are below the next one of their driver.
`GapsCorrect` (what a consumer misses its own queue has counted) is not inductive
for the events waiting in the queue alone: a number that a full queue refused
shows as a gap only when the next event of the driver comes through, and the
driver may be gone by then. `Cost` therefore adds to the gaps waiting what each
registration still owes, the numbers it has given out after the last one in the
queue. A push that is refused moves one unit from the events to the debt, a push
that drops the oldest event moves its gap to the next one of its driver; either
way the cost grows by no more than the counter. A driver owes nothing to a queue
that has none of its events yet, and one that has some is subscribed to
(`KnownSubscribed`), so that no number is given out past it.

Refinements are proved for `MqttClient` (of `Outbox`), `EventQueue` (of
`BoundedFifo`) and `HostNet` (of `MqttClient`); the runs `mqtt_client` and
`event_queue` check the first two on their instances.

**`SensorPath_proofs`.** About readings, windows and alarms: `AlarmKept` adds to `AlarmTracksCrossing` only that a sensor's record has an
alarm flag. The one arithmetic fact is `AlarmFollows`. `ResultCorrect` is about
the ring: `Remembers` places the last readings in the slots, by position behind
the next slot to write, and ties `sum` to their total. What one event does to the
total (a reading appended, the oldest dropped) is in `CommonLemmas`, by induction
on the length of the sequence, from the library's well-foundedness of `<` on
`Nat`; `Total` is a recursive function, so each use gives its graph first
(`PartExists`).

About registers: `RoundedNearest` is arithmetic alone: the rounding
division of `util_math.c` is exact for every dividend and every positive
divisor, halves away from zero. `DecodedNearest` adds the sign extension, for
every pair of bytes. `ReadIsRegister` says that a read that succeeds returns no
byte that was in the staging buffer before. Together: `ReadingsCorrect`, under
`Unsaturated` (no calibrated temperature leaves the type), by an invariant that
moves the readings and the registers behind them in step.

**`FilterChain_proofs`.** The invariant has a part for each kind of stage. For a
window, `Remembers` again: its slots are the last inputs, in some rotation; the
running sum is their total, although it is kept by adding one and taking one
away. For the median two more facts are needed: the insertion sort returns an
ascending rearrangement of its input (`Sorts`), and so are the slots of the
readings, so that the middle of the sorted slots is the middle of the inputs. `HullKept`
follows because the nearest integer to a mean of numbers within two integers lies
within them, and because a step of the exponential average never passes its
input, so that saturation never acts. `LimitCorrect` and `EmaCorrect` are
properties of steps, proved from the same invariant.

Every invariant and every property of steps that a passing run checks is stated by
a theorem. What stays with TLC is liveness: `DeadBrokerNoticed`,
`EveryMessageDelivered`, `QueuesDrain` and `DemoFinishes` rest on fairness and
ENABLED, which are out of the prover's reach. So are the two findings, which are
counterexamples.

## 6. Not modelled

Byte encodings of MQTT packets and JSON, display text and log output: no
property is about them. `util_log`, `util_status` (names), `iface` (types),
`proto_clock` and `proto_display` (one call passed on), `host_time` (returns what
was set), port templates (stubs). Of `proto_i2c_reg` the writes, of `util_byte`
everything but the big-endian read: nothing in `src/src` calls them.
`PROJECT.json` gives the reason for every part.

## 7. Plan

1. MQTT client, its outbox, timers and session (done), then event queue and the
   ring buffer beside it (done).
2. Temperature driver, sensor core, business application, filters (done), the
   path from the register to the result (done), the runtime that composes the
   consumers (done).
3. Host network under the client, and the demo's script on it (done).
4. Results of the window, the opening of a session, deadlines and schedules,
   proved (done).
5. Gaps counted by the queues, windows of the filters, ring buffer beside event
   queue, retries and silence in real time, packets of the host network, the
   demo's sessions and events, proved (done).
6. Left: that each queue inside `SensorCore` implements `EventQueue`, that
   `SensorPath` implements `AppBiz`, and that an iteration of `AppRuntime` moves
   its consumers as `SensorCore` does; a bound on the polls one flush of the demo
   takes, which would turn part of `DemoFinishes` into a safety property.
