# Verification of SatComInfrastructure

TLA+ models, TLC runs and TLAPS proofs for the ground side of the satellite and
LTE telemetry link in this repository.  Paths and line numbers are those of the
repository's root.

## 1. The system

```
 QGroundControl --UDP-- udp2mqtt.py --MQTT-- mosquitto --MQTT-- relay.py --HTTP-- Rock7 gateway / simulator.py --serial-- autopilot
                                                                   |
                                                                   +--UDP (LTE)-- autopilot
```

A *mobile-terminated* (MT) message goes to the plane, a *mobile-originated* (MO)
message comes from it.

| component | state it keeps | operations | threads |
|---|---|---|---|
| relay.py `IridiumInterface`, MT | `__waiting_for_confirm`, `__post_data`, `__threads`, `__lock` | `post_message`, `__on_message_sent`, `__repost_message` | MQTT client thread, redelivery threads, IOLoop |
| relay.py `LteInterface` | `__host_ip`, `__tx_port`, `__receive_time` | `on_receive`, `__on_receive_timeout`, `send` | IOLoop; `send` on the MQTT thread |
| relay.py `MqttInterface` | connection flags, `__iridium_queue_cleared`, `__last_message_received`, the client's queue, the retained message at the broker | `__connect`, `__on_connect`, `__on_disconnect`, `publish_satcom_message`, `__on_receive_timeout` | main thread / IOLoop, MQTT client thread |
| relay.py `PostHandler`, MO | none | `post`: decode, `publish_satcom_message`, finish | IOLoop |
| simulator.py `IridiumSimulator` | `state`, `command_buffer`, `mo_buffer`, `mo_length`, `mt_buffer`, `mt_queue`, `ring_pending`, `ring_message_pending`, the ring timeout | `on_web_receive`, `on_serial_receive`, `on_command` and the `at_*` handlers, `ring` | IOLoop |
| simulator.py `SerialInterface` | the serial port | `on_receive`, `send`, `open`, `close` | IOLoop |
| udp2mqtt.py | MAVLink parser, connection flags | `publish_lte_message`, `publish_satcom_message` (the filter), callbacks | IOLoop, MQTT client thread |
| `_old_scs/` tcp2udp.py, relay.py, iridium.py | the connections, `factory.prot` | `fromQgc`, `dataReceived`, `mtMsgCallback`, `moMsgCallback`, one connection for each message | one reactor for each program |
| `_old_scs/simulator.py` `IridiumSimulator` | `status`, `serialRx`, `udpRx`, `serialLock`, `ipLock` | `run`, `receivedPX4` and the `satcom*` requests, `receivedRelay` | reactor; `run` in a thread |
| setup_rabbit.py, `_old_scs/logger.py` | - | queues declared once, a pickle writer | - |
| decode_*.py, `_dev_tools/`, pymavlink | - | log readers, hand tools, vendored and generated code | - |

How they interact: `main` of relay.py (303-306) wires callbacks.  A message on
`telem/SatCom_to_plane` goes from the MQTT thread straight into
`IridiumInterface.post_message`, one on `telem/LTE_to_plane` into
`LteInterface.send`; LTE datagrams and MO posts go from the IOLoop into the two
`publish_*` methods.  The simulator takes the place of the gateway and the modem.

What is hard, and what makes each component correct:

- **MT path.** Every post goes through one shared dictionary; answers come in any
  order, or not at all; retries run in threads of their own and end at any moment
  while the list of them is walked.  Correct means: no payload is mixed up, a
  message is in one place at a time, it is posted until an answer without error
  and not once more, and in the end the gateway has it or has refused it.
- **LTE.** The address is two assignments; `send` reads it without the lock.
  Correct means: what a send uses is of addresses in force, or being set, while it
  runs, and silence, nothing else, forgets the address.
- **MQTT link.** Lost connections, messages sent again, a clearing message nobody
  repeats, restarts while the broker keeps the retained message.  Correct means:
  telemetry arrives and in order, the latest is what is retained, silence clears
  it, subscriptions come back.
- **Simulator.** A ring may come at any character of the serial line and must wait
  for the end of a command or a binary write; the ring timeout is replaced and
  removed from several places; the port may close at any moment.  Correct means:
  rings are held back only where they must be, repeated and never forgotten while
  the host does not know of a message, and messages leave the queue once and in
  order.
- **udp2mqtt filter.** MANUAL_CONTROL must not reach the satellite, and the parser
  that finds it keeps part of a frame from one datagram to the next.

- **The link as a whole.** A message passes five programs and each hop can lose it,
  repeat it or be late.  Correct means: what is lost, doubled or overtaken is so in
  a way that is known, and a command that nothing hits reaches the plane.
- **Old system.** TCP gives reads, not messages; clients come and go; the thread of
  the simulator answers before it has done the work.  Correct means: commands that
  come whole get through, an autopilot that waits is never told busy, and every
  request is answered although two threads share two locks.

`PROJECT.json` lists every hazard at its line with the property that covers it.

## 2. Modules

| module | models | builds on |
|---|---|---|
| `AtLeastOnce` | the promise of the MT path: a message taken is pending until the gateway has it and has confirmed it, or has refused it | - |
| `OrderedDelivery` | the promise of a queue: what was sent is got once each and in order, until the process that holds the queue ends | - |
| `MtRelay` | relay.py 88-120, 139-147, 229-232 | refines `AtLeastOnce` |
| `MtRelay_proofs` | theorems about `MtRelay` | `MtRelay`, TLAPS |
| `LteLink` | relay.py 18-85 | - |
| `LteLink_proofs` | theorems about `LteLink` | `LteLink`, TLAPS |
| `MqttLink_proofs` | theorems about `MqttLink` | `MqttLink`, TLAPS |
| `Modem_proofs` | theorems about `Modem` | `Modem`, TLAPS |
| `MqttLink` | relay.py 156-256, with paho and mosquitto as its environment | refines `OrderedDelivery` |
| `Modem` | simulator.py 74-295 | refines `OrderedDelivery` |
| `SatComSystem` | the link from udp2mqtt.py to the plane and back, a handler in a step | what the modules above show of its parts |
| `SatComSystem_proofs` | theorems about `SatComSystem` | `SatComSystem`, TLAPS |
| `OldScs` | `_old_scs/` relay.py, tcp2udp.py, simulator.py | - |
| `OldScs_proofs` | theorems about `OldScs` | `OldScs`, TLAPS |
| `SatcomFilter` | udp2mqtt.py 130-151 and the parser of pymavlink/mavlink.py 9098-9187 | - |
| `SatcomFilter_proofs` | theorems about `SatcomFilter` | `SatcomFilter`, TLAPS |
| `MC*` | constants and views for TLC | the module of that name |

Definitions that begin with "Mutant of" are slips the code could have had; no
specification uses them.  Each shows that a property notices that slip.

### MtRelay

A step is what a thread does between two points where another can see the
difference.

| code | action |
|---|---|
| `__callback_SatCom` 229-232 | `CallbackSatCom`: number the message, call `post_message` |
| `post_message` 140-142 | `PostEncode`: take the lock, write the shared form |
| 143-146 | `PostRegister`: build the request, remember it, release |
| 147 | `PostFetch`: outside the lock |
| `__repost_message` 118-120 | `WakeUp`, the three above, `Exit` |
| `__on_message_sent` 101-102 | `OnMessageSent`: take the lock, pop the entry |
| 105-107 | `CleanUp`: one round of the loop, by index, as Python walks a list |
| 109-116 | `Redeliver` after an error, else `Confirm` |
| gateway and HTTP client | `GatewayAccepts`, `GatewayAcceptsAnswerLost`, `GatewayRejects`, `GatewayFails` |

`wire[r]` is where a request is; `waiting[r]` and `body[r]` what the dictionary and
the request say.  `accepted`, `lost` and `refused` are on the gateway's side and seen
by no action of the relay: a refusal of Rock7 comes with status 200 and FAILED in the
body, and `__on_message_sent` looks at `response.error` only.  `Outstanding(m)` says
that someone still has to get m to the gateway; with it the refinement mapping reads:
*unknown* before the callback, *pending* while outstanding, then *refused* or
*delivered*.

### LteLink

Every assignment of `__host_ip` and `__tx_port` and every read of them in `send` is a
step.  The lock is not a variable: only callbacks of the IOLoop take it and these
run one at a time, so it is never contended - which is the point, since `send`
does not take it.  `last`, `seen` and `silence` are history; `seen` has the addresses in
force since the test of line 65, and one of which only the host is set so far.

### MqttLink

`main` is the process, `conn` the connection as paho has it, with `dead` for one
that is lost and not yet noticed.  `outq` is what paho holds of qos 2 and `sent` how
much of it the broker has got on this connection; after a reconnect all of it is
sent again, as paho does for a clean session.  The flag that `__on_connect` sets by
mistake (222) is read nowhere and has no variable; `bad` is the one that is read.
As an `OrderedDelivery` the telemetry given to this process is what was sent and what
the broker has got for the first time is what was got; the end of the process forgets
both.

### Modem

A step is a callback of the IOLoop or one character of `on_serial_receive`, so how
reads cut the line does not matter.  The host may send any command, unfinished or
glued to another, and any byte during a write.  A message is a model value; `Heavy`
says whose bytes add up to more than `chr(cs / 256)` can take.  The length of a
write is an integer, including those the modem should refuse.  As an `OrderedDelivery`
`on_web_receive` sends and a session with good signal delivers; the simulator itself
is not taken to end.

The code keeps a flag `ring_pending` that no line reads, so the properties do not go by
it.  `noticed` is history: the host has had SBDRING, or a session's count of the
messages left, since the queue was last empty and SBDIXA did not end without one.
`stuck` is history too: the last command line was answered 3 (`AT+SBDWB=?`) or raised
(`AT+SBDRB`), which leaves `state` at command with nothing under way.

### SatcomFilter

A step is a datagram.  Bytes are abstracted to cells of a frame: the first has the
marker and the length, by which the parser finds the end of the frame, the others
are the rest.  So a frame can come whole, in pieces, with others in one datagram,
and the end of one frame can be taken for the end of another, which then does
not decode.  `Blocks` is false when the parser has raised: the code then has no
messages to look at and publishes.

### SatComSystem

Each of the modules above looks at one program between any two of its statements.
This one takes their handlers whole and looks at the programs between any two
handlers.  `job[c]` counts the posts the relay has to see to, by what has to be done:
*posted*, answered (*ok*, *error*), *asleep* until redelivery.  It takes counts because
udp2mqtt may send a command again, which is then in two posts; that a command sent once
is in one is proved (`OneCopyOK`), as `OneAttempt` of `MtRelay` says between
statements.  `stray[c]` counts posts that nobody waits for any more.  The two paho
clients are queues: `groundOut` in udp2mqtt and `toBroker` in the relay, with
`groundSent` and `relaySent` for what the broker has got on this connection; after a
lost connection they begin at the front again, as in `MqttLink`.

| code | action |
|---|---|
| udp2mqtt 122-151 | `Publish`: blocked by the filter, or given to the client |
| its client and the broker | `BrokerTakes`: to the relay if it is subscribed; `GroundAcknowledged`; `GroundLinkDrops` |
| udp2mqtt 201-217 | `GroundEnds`, and it is started again |
| relay 206-227 | `OnConnect`, `LinkDrops` |
| 229-232, 139-147 | `CallbackSatCom` |
| simulator 45-55, 139-142 | `GatewayTakes`, `GatewayTakesAndFails`: the 500 after the message is queued |
| gateway and HTTP client | `GatewayRejects` (200 and FAILED), `GatewayUnreachable`, `ClientGivesUp`, `StrayEnds` |
| relay 100-116, 118-120 | `OnMessageSent`, `Repost` |
| simulator 210-229, 246-258 | `Session`, `ReadCommand`, `ReadRaises` |
| 144-162, 204-208 | `WriteTelemetry`, `ClearTelemetry` |
| simulator 57-66, relay 126-137 | `RelayPost`, `PostFails`, then `BrokerGets`, `RelayAcknowledged` |
| relay `main` | `Crash`: what is in memory is gone, what is on the wire is not; `Restart` |

`hit` says which message a fault has hit, and every action that adds to it is one
that loses something in the code.  So `LossExplained` is the list of ways to lose a
message, and a loss elsewhere violates it.  The filter may block any command here: when
it does is the subject of `SatcomFilter`.  `before` holds pairs of messages of which
the first was done with when the second began: a command confirmed, not held or sent
again by udp2mqtt and without a given-up post (`Settled`), or telemetry without a post
(`Ended`).  The order of the others is not promised by anything.  `cut` says that the
relay ended before it had sent all it held, so that an older position may stay.

The model is coarser than the code where the modules of the parts look closer: udp2mqtt
ends and starts in one step, the relay connects and subscribes in one, there is no ring
and no LTE link.

### OldScs

A cell is a part of a command, so that a read of the ground's TCP stream can bring a
command, a piece of one or several; `mtMsgCallback` takes what it gets for a message.
`thread` is where the simulator's thread is in a round of `run`, and a step of it is
what lies between two points where the reactor can see the difference; `serialLock`
and `ipLock` are the two locks.  A request of the autopilot waits in `line` while the
reactor waits for `serialLock`.

| code | action |
|---|---|
| tcp2udp 25-27 | `FromQgc` |
| relay 231-238 | `ConnectionMade`, `ConnectionLost` |
| 241-243, 53-79 | `DataReceived`: one read, one message |
| 196-211, simulator 187-201 | `ReceivedRelay`, or `MtLost` |
| relay 114-130, 28-50 | `MoMsgCallback`, or `MoLost` |
| simulator 169-184, 229-281 | `SendRequest`, `ReceiveRequest`, `StatusRequest` |
| `run` 117-121, 122-136 | `RunSending`, which answers, then `Submit`, which sends |
| 138-156 | `RunReceiving`, `Reply` |
| 162-166 | `Release` |

## 3. Runs

| run | what it asks | bounds |
|---|---|---|
| `mt_relay` | safety of the MT path and refinement of `AtLeastOnce` | 2 messages, 2 requests, 6 threads, 1 lost answer for each |
| `mt_live` | every message is accepted or refused by the gateway | 1 message, 2 lost answers, 4 threads |
| `lte_link` | a send uses addresses in force or being set while it runs, which are reset as they should be | 2 hosts, 2 ports, timeout 2 |
| `lte_no_address` | *violation*: `sendto` is called with None as the port, the host being that of the first datagram | the same |
| `mqtt_link` | telemetry, retained message and subscriptions under lost connections and a crash; silence clears the telemetry while no connection is lost | 2 messages, 2 lost connections, 1 refusal, 1 crash |
| `mqtt_clear_lost` | *violation*: with a lost connection it may not | 1 lost connection |
| `modem` | ring, queue and serial line; refinement of `OrderedDelivery` | 2 messages (1 heavy), lengths -1, 0, 1, 1 unplug |
| `satcom_filter` | the filter is exact for whole frames, unknown ones pass, and whatever comes in only bytes of MANUAL_CONTROL are blocked | 3 kinds of frame of 2 cells, 1 or 2 in a datagram or half of one, 5 cells in the parser |
| `satcom_control` | *violation*: a MANUAL_CONTROL message is published | the same, whole frames only |
| `sat_com` | which messages of the whole link are lost, doubled or overtaken | 2 messages of either kind, 1 failed post of each command, 1 lost connection or end of a process, 1 post of each telemetry, 3 telemetry at the relay and the broker |
| `sat_com_live` | every command is read or hit by a fault | 2 commands, or 1 and telemetry; 1 lost connection or end of a process; posts not reached or refused any number of times |
| `old_scs` | the old system: losses, answers and locks | 2 commands, 2 telemetry, 2 clients, 3 commands and requests in all |

Why the bounds are enough:

- **Two messages** are what one post needs to disturb another's shared data, one
  answer another's entry; retries are *not* bounded, only lost answers
  (`MaxLost`), because each raises a counter.  Each message is in one place at a
  time, so two requests are all that can exist.
- **Six threads** are more than can exist: `ThreadListBounded` shows that the list
  has at most 2 * 2 + `MaxExiting` = 5.  A `Thread` object that has ended and left the
  list is used again.  `MaxExiting` states that a thread which has done its fetch
  ends (an instant) before many others have slept ten seconds; without it the list
  could grow in a schedule no machine produces.
- The `VIEW` of `mt_relay` identifies states that differ in *which* thread object
  has a place; the objects are alike and no property names one.
- `mt_live` uses one message: the state graph with two and fairness is
  beyond a run of some minutes.  What two messages can do to each other is safety.
- `Timeout` = 2 (LTE) and 1 (MQTT) tell before, at and after the limit apart;
  `age` stops above it.
- `MaxDrops` = 2 lets a connection be lost while messages are sent for the second
  time.  `MaxArrivals`, `MaxWritten`, `MaxUnplugs` of `Modem` let two messages queue, a
  write of length 1 end (two bytes of checksum follow) and of length -1 go on, and
  the port close in any state.
- `MaxBuffer` = 5 cells in the parser are two frames left behind and half a frame
  more; each datagram is judged by what is left and itself.

- `sat_com`: two messages, of which both, one or none are commands, are what an order
  or a confusion needs.  One failed post and one fault already combine into every
  kind of loss and repetition (a post given up, then a crash, then the post arrives; a
  command sent again while its first post waits for redelivery).  Three telemetry
  taken by the relay and got by the broker are both messages and one of them again,
  by a repeated post or after a lost connection.  The run has 2.8 million states; with two faults, telemetry only,
  two posts and `MaxRelayed` = 4 the properties hold as well (2.7 million).  The theorems
  have no bound.
- `sat_com_live` leaves out posts that fail although they were taken: they add copies of a
  command that is at the gateway already, and fairness makes the graph expensive.
- `old_scs`: two clients are one that goes and one that comes; three pieces of work are
  a request under way, one that waits and a command that meets them.  One command in
  two cells can be cut, two can be joined.

`CHECK_DEADLOCK FALSE` stands where the model ends in a state in which nothing is
left to do: all messages delivered, all bytes of an endless write used up, or a parser
full up to its bound.

## 4. Fairness

- **MtRelay.** Threads run.  A Python lock is no queue, so a thread that waits gets
  it only under *strong* fairness; it is held for microseconds and asked for once in
  ten seconds.  The HTTP client ends every fetch with an answer or its timeout
  (599).  That the gateway answers a message that is tried again and again, be it
  with a refusal, is assumed of the outside world; a relay without a reachable gateway
  delivers nothing.
- **LteLink.** The clock runs, the IOLoop finishes callbacks; the periodic timeout is
  not starved for ever (strong fairness) by datagrams.
- **MqttLink.** Threads run, paho reconnects by itself, the broker answers; refusals
  and losses are finite in number.  Nothing restarts the relay: liveness is stated
  for a process that runs.
- **Modem.** Timeouts that are due fire and the port is tried again.  Nothing is
  assumed of the host.
- **SatComSystem.** The client of udp2mqtt reconnects and sends what it holds, the relay's
  callbacks are called and its sleeping threads wake up; a
  relay that has ended is not assumed to be started again.  That a gateway that is
  tried again and again takes a command, and that the host runs sessions, reads what
  they bring and clears what it has sent, is assumed of the outside world.
- **OldScs.** The reactor handles what comes in and the thread runs.  Weak fairness is
  enough: the thread holds its locks for one round, and with nothing to do it sleeps
  with `serialLock` free until the reactor has given it something.
- **SatcomFilter** has no liveness property and needs none.

## 5. What is proved

With TLAPS, for every value of the constants (the named assumptions say only that
the actors differ, that None is no message and that bounds are natural numbers):

- `MtRelay_proofs`: typing, `BodyMatches`, `OneAttempt`, `Accounting`,
  `LiveThreadsTracked`, that `MtRelay` implements `AtLeastOnce` (`Implementation`), and
  for any *finite* set of messages `ThreadListBounded`.
- `LteLink_proofs`: typing, `AddressWhole`, `SendUsesSeenAddresses`,
  `ResetOnlyAfterSilence`.
- `MqttLink_proofs`: typing, `TelemetryKept`, `RetainedIsLatest`,
  `ClearOnlyAfterSilence`, and that `MqttLink` implements `OrderedDelivery`.
- `Modem_proofs`: typing, `OneRingTimer`, `RingDeferred`, `MtInOrder`,
  `NoSilentBacklog`, `QuietDuringWrite`, and that `Modem` implements `OrderedDelivery`.
- `SatcomFilter_proofs`: typing, `WholeFramesJudged`, `UnknownFramePasses`,
  `BlockedOnlyForControl`, for frames of any number, kind and size.
- `SatComSystem_proofs`: typing, `LossExplained`, `NoStaleCommand`, `NoStaleTelemetry`,
  `DuplicatesExplained`.
- `OldScs_proofs`: typing, `LossExplained`, `RepliesMatch`.

These are all the safety properties of the passing runs, and three that the proofs
state beyond them: `AddressWhole`, `MtInOrder` and the refinement of `OrderedDelivery` by
`MqttLink`, which the invariants behind the properties of the runs contain.  The one theorem with a
hypothesis is `ListBounded` (`IsFiniteSet(Messages)`): its bound is a number of messages.

**The invariant of MtRelay.** `BodyMatches` is not inductive: that the shared form still
holds *my* payload when I build the request follows from who holds the lock
(`RegisterOK`), and that what I hold is right from where it came from (`HeldOK`,
`WaitingOK`, `PoppedOK`: every job carries its message's number, whether in a poster's
hands, in the dictionary or popped).  `FetchOK` says that the request a poster is
about to fetch is its own and not yet sent; without it an answer could be
handled for a request still under construction.  `OneAttempt` and `Accounting` are
inductive with these.

**The books and the refinement** are one argument.  With respect to a message m each
step does one of five things: it changes nothing m can tell (`SameBooks`), it takes m
from MQTT (`TakeStep`), the gateway gets m and the answer is lost
(`UnconfirmedStep`), the gateway gets m and answers (`ConfirmedStep`), or it refuses m
(`RefusedStep`).  One lemma for each action shows which.  From the five cases follow both that `Accounting` is kept
and that the step is a step of `AtLeastOnce` or a stutter.

**The list of threads** has a proof of its own on top of `IInv`.  `LiveThreadsTracked` is
inductive once it is known that a thread never started is not listed (`NewNotListed`);
a round of the loop removes the one element it has found dead, and
`RemoveAtElements` says where the others are afterwards.  That the list stays short is
a count.  A thread that sleeps or posts has a message of its own, and none has the
message whose answer is being handled, so these threads map one to one into the
messages that are left (`CarriersBounded`); at most `MaxExiting` and one for each
message have slept and not ended (`WokenOK`).  While an answer is handled fewer threads
live than the list may have entries (`LiveBounded`), so a list that is full has a dead
thread in it (`FullListHasDead`).  The loop may pass over the thread after one it
removes, but it cannot get past the first dead one: while it runs over a full list a
dead thread is still ahead (`ListOK`), and when it is over the list is not full and
`Redeliver` may append.

**The invariant of LteLink.** `PlaceOK` says where in its pair of assignments the IOLoop
is; `SendOK` that the address of the moment, and what a send has read of it, is of one
that `seen` has.  `ClockOK` relates the clock of the
code to the silence, as `AgeOK` does below.

**The invariant of MqttLink.** The code compares its own clock with the timeout, the
property speaks of the silence itself.  `AgeOK` relates them (the clock shows no more
than the silence): a message resets both, a restart the clock only.  That telemetry
does not itself clear the broker needs that the client holds nothing but messages.  `OrderOK` gives each message its place in what was posted: the
client has forgotten the first ones and holds the rest, and of these what was sent on
this connection has arrived already.  So what is sent again was sent before, in the same
order, and the first that is new is the next in what was posted; since no message is
posted twice (`OnceOK`) the two cases can be told apart.  `LastSentOK` says which message
the broker retains; after a reconnect, while nothing has been sent, it says nothing, and
this is where the retained message is older for a time.

**The two queues** refine `OrderedDelivery` by what these invariants say of the state:
the arrivals are the front of what was posted.  In `Modem` the head of `mt_queue` is then
the message after those that were taken (`MtInOrder`).  In `MqttLink` the broker gets
one that it has had, which is a stutter, or one that makes its arrivals longer by one;
as these are the front of `posted` again, it was the next (`BrokerGetsNext`).

**The invariants of Modem** are inductive almost as they stand, because what could break
one goes through one operation of the simulator.  `OneRingTimer` holds because `ring()`
removes the timeout that is left before it sets the next, so neither the order of
messages and timeouts nor a ring that fails on a closed port can make two;
`RingDeferred` because every way back to idle goes through `changeState`, which sends the
ring that was held back, and because between callbacks the state is command only when
the last one got stuck (`StateOK`).  `NoSilentBacklog` holds because a ring is written or
stays pending, a way back to idle writes what is pending, and a session tells how many
messages are left.  `MtInOrder` needs `QueueOK` (what is queued are messages).  The type is proved in parts
(`LineOK`, `WrittenOK`, ...): the length of what is written does not drop below zero
because a write whose length is negative has no last byte.

**The loop of the parser.** `parse_buffer` runs for as long as `parse_char` finds messages,
so what it does with a datagram is recursion over the bytes.  `ParseLoop` is a recursive
function; that such a function exists and is what its definition says has to be
proved (`LoopExists`, `LoopUnique`, `ParseLoopDef`: each round leaves fewer bytes).  The
induction rules of the library take an operator and cannot be used here, so
induction is by the shortest counterexample: of the byte sequences for which a claim
fails there would be a shortest (`Shortest`, from the well-foundedness of the natural
numbers), and the round that shortens it contradicts that.  With it: whole frames are
taken one by one until nothing is left (`WholeLoop`), each message found is of a frame
whose bytes came in (`MessagesComeIn`), and the parser holds only such bytes.  What an
earlier datagram left and the next one are whole frames together (`WholeConcat`), which
is why the filter recovers.

**The invariant of SatComSystem.** None of the four properties is inductive, since each
speaks of where messages have come to and a step depends on where they still are.
`GroundOK` says that the client of udp2mqtt holds a command once and only what was
published.  `OneCopyOK` and `BooksOK` count: a command that was not sent again is to be
sent, with the broker, in one post or confirmed (`Work`, `Confirmed`), and the copies at
the gateway, given-up posts and posts to come are together at most one more than the
failures and what was sent again.  A command that is `Settled` has by these counts no
post left and none to come (`SettledDone`), and it stays so (`SettledStays`);
`SettledOK` says that what is first in a pair of `before` is settled, so it cannot come
to the gateway again.  For telemetry `EndedOK` says the same of posts and the modem, and
`SentOK` what of the relay's queue the broker has got, the last of it last, and that
what the relay holds last is not older than what the broker has: so when all is sent,
also for the second time, the broker retains what the relay took last.  `ArrivedKept`
says that a command that came to the gateway is in the queue, in the modem, read or
explained, which is why a crash of the relay after that loses nothing.

**The invariant of OldScs.** `ThreadOK` says which locks the thread holds where, and
what the status is there.  `BooksOK` says that each request is answered, on the line or under
way, and `PatientOK` that of an autopilot that waits one at most is not answered; a
request on the line and a status that is not idle would be two.  `LossExplained` is
kept since a read either takes a command as it is, leaves it in one piece, or has a part
of it and is then no command (`ReadKeeps`), and since `prot` is the client that
connected last: that `connectionLost` sets another attribute is what keeps it so.

**Only model-checked:** liveness, which needs fairness and ENABLED that the prover does
not have: `EveryMessageSettled`, `CommandArrives`, `RequestsAnswered`, `RingRepeats`,
`SilenceResets`, `SubscriptionsRenewed`, `TelemetryPublished`, `SteadySilenceClears`.

## 6. What the checks found

Three runs show a disagreement of the code with what it says of itself:

1. `send` can call `sendto` with None (relay.py 65-67): it tests the host alone, and the
   first datagram sets the host before the port (59-60).  A reset between the test and
   the call (37-38) leads there too.
2. The retained telemetry is not cleared when the connection was lost at the wrong
   time (relay.py 178): the empty message has qos 0 and is not repeated.
3. The filter of udp2mqtt.py (131-151) publishes a MANUAL_CONTROL message when an
   earlier datagram has left frames in the parser that do not decode.

What else a reader of the models should know; the properties hold with it:

- A refused connection does not end the program (relay.py 222, the same in
  udp2mqtt.py 107): the flag that is set is not the flag that the wait reads (196-201).
- The clean-up loop removes from the list it walks (relay.py 105-107) and passes over
  the thread after each one it removes.  Harmless: `ThreadListBounded` and
  `LiveThreadsTracked` hold.
- The simulator accepts lengths of `AT+SBDWB` below 1, which the 9602 answers with 3
  (simulator.py 237); after a negative one it never leaves the write.
- The ways to lose a message (`hit` of `SatComSystem`): the filter of udp2mqtt, which
  blocks a good command when its parser has a MANUAL_CONTROL frame left from earlier
  datagrams (udp2mqtt.py 140-146); what the client of udp2mqtt held when it ended; no subscriber; what the relay or
  its session held when it ended or lost the connection; a status 200 whose body
  begins with FAILED; a session that overwrites an unread `mt_buffer`, or empties it
  (simulator.py 219-222); a checksum that raises (254); an MO post that fails, which
  the simulator only prints (65).
- A command comes twice for every 500 after it was queued (simulator.py 142), for
  every post the client gave up on that arrives all the same, and when udp2mqtt loses its
  connection before the broker has acknowledged it (udp2mqtt.py 123, with a clean
  session); one that is redelivered may come after newer ones.
- Old telemetry that the gateway posts again, or the relay's client sends again, is
  retained over newer (relay.py 250); in the second case until the newer is sent again.
- After `AT+SBDWB=?` is answered 3 (simulator.py 240) and after `AT+SBDRB` raises (254) the
  state stays at command and rings are held back until the host sends a command line;
  `ring_pending` (135, 171, 175) is read nowhere, and after a ring that met a closed port
  nothing repeats it.
- The gateway's refusal with status 200 and FAILED counts as a delivery (relay.py 109).
- The old relay writes to the client that connected last, also after it is gone:
  `connectionLost` sets `factory.port` (`_old_scs/relay.py` 238) and `write` hides the error.
- The old simulator tells the autopilot that a message is sent before it sends it
  (`_old_scs/simulator.py` 121); `serialLock` makes up for it.

## 7. What is not modelled, and what is left

- The map covers a small part of the lines of the repository because nearly all of
  them are pymavlink: generated message classes (mavlink.py, twice, and
  ASLUAV.mavlink.py), its generator with an XML schema library, and offline log
  tools.  They are vendored or generated and keep no state of this system; the one
  piece of them that matters, the parser's buffer, is in `SatcomFilter`.  Of the
  programs of this repository (relay.py, simulator.py, udp2mqtt.py and the old
  system) what is left out is named here.
- `publish_lte_message`, which is `publish_satcom_message` without retain, and the 400 to
  a post that does not decode, after which nothing changes.
- The arithmetic of checksums (simulator.py 150-152, 246-258): right or wrong, and fits
  or not, is all that the properties tell apart.
- `time.sleep` in `at_csq` and `at_sbdix` when `ideal_sim` is false: it delays the IOLoop and
  changes no order.
- The information elements of `_old_scs/iridium.py` and the framing of the old serial
  line: a message is whole or it is not.
- Calls of tornado and twisted from a thread that is not theirs (relay.py 147,
  `_old_scs/simulator.py` 133): what they do then is up to the library.
- The log decoders, hand tools, setup_rabbit.py and logger.py: no state.
- Logging, counters and rates that are only logged.

Left to prove: that `SatComSystem` is right to take a command through the relay as
counts of its copies (with the broker, in posts, confirmed).  `OneAttempt` of `MtRelay`
says that what was handed to the relay once is in one place there; an abstract
specification of the life of a job, which `MtRelay` implements between statements and
`SatComSystem` between handlers, would say that the two models agree on every step.
