----------------------------- MODULE SatComSystem -----------------------------
(***************************************************************************)
(* The satellite link from end to end: udp2mqtt.py, the broker, relay.py,  *)
(* the HTTP hops and the gateway and modem of simulator.py, for commands   *)
(* to the plane and telemetry from it.                                     *)
(*                                                                         *)
(* A step is a whole handler.  That the parts may be taken whole is what   *)
(* the other modules show: MtRelay that a message given to the relay is in *)
(* one place of it, SatcomFilter when a command is blocked, Modem that the *)
(* queue is a queue and that the host hears of it.  The paho clients of    *)
(* udp2mqtt and relay.py keep messages of qos 2 until the broker has       *)
(* acknowledged them and, in a clean session, send them again after a lost *)
(* connection; the broker takes them for new ones.  Here processes end and *)
(* start again, connections are lost, posts fail after they were taken,    *)
(* and HTTP clients give up on posts that still arrive.                    *)
(***************************************************************************)
EXTENDS Naturals, FiniteSets, Sequences, SequencesExt

CONSTANTS
  Commands,     \* messages to the plane, each published once
  Telemetry,    \* messages from the plane, each written once
  Heavy,        \* commands whose bytes add up to 65536 or more
  None,         \* an empty buffer
  MaxMessages,  \* bound: commands and telemetry together
  MaxFailures,  \* bound: posts of a command that fail although it is taken
  MaxPosts,     \* bound: posts of one message of telemetry
  MaxRelayed,   \* bound: telemetry the relay and the broker have got
  MaxFaults     \* bound: lost connections and ends of processes

ASSUME MessagesAssumption ==
  /\ Heavy \subseteq Commands
  /\ Commands \cap Telemetry = {}
  /\ None \notin Commands \cup Telemetry

ASSUME BoundsAssumption ==
  /\ MaxMessages \in Nat
  /\ MaxFailures \in Nat
  /\ MaxPosts \in Nat
  /\ MaxRelayed \in Nat
  /\ MaxFaults \in Nat

VARIABLES
  published,    \* the commands given to udp2mqtt so far
  groundOut,    \* commands the paho client of udp2mqtt holds
  groundSent,   \* how many of them the broker has got on this connection
  up,           \* the relay process runs
  subscribed,   \* the relay is connected, and the broker has its subscription
  toRelay,      \* commands the broker has for the relay's session
  job,          \* how many posts of each command the relay has at each stage
  stray,        \* posts of a command whose client has given up on them
  mt_queue,     \* commands that wait at the gateway
  mt_buffer,    \* the command the modem holds
  read,         \* the commands the plane has read
  mo_buffer,    \* the telemetry the modem holds
  written,      \* the telemetry written so far
  posts,        \* how often each telemetry was posted by a session
  moWire,       \* posts of telemetry that are under way or kept for a retry
  toBroker,     \* telemetry the paho client of the relay holds
  relaySent,    \* how much of it the broker has got on this connection
  faults,       \* lost connections and crashes so far
  resends,      \* how often udp2mqtt had to send a command again
  failures,     \* how often a post failed although it was taken
  arrived,      \* history: commands the gateway has queued
  seen,         \* history: telemetry the broker has got; it retains the last
  cut,          \* history: the relay ended before it had sent all it held
  hit,          \* history: messages a fault has hit
  confirmed,    \* history: commands whose post was answered with 200
  before        \* history: pairs, the first was done when the second began

groundVars == <<published, groundOut, groundSent, resends>>
brokerVars == <<groundVars, subscribed, toRelay>>
mtVars == <<job, stray, failures, confirmed>>
queueVars == <<mt_queue, arrived>>
bufferVars == <<mt_buffer, read>>
moVars == <<mo_buffer, written, posts>>
relayMoVars == <<moWire, toBroker, relaySent, seen, cut>>
processVars == <<up, faults>>
historyVars == <<hit, before>>
vars == <<brokerVars, mtVars, queueVars, bufferVars, moVars, relayMoVars,
          processVars, historyVars>>

Messages == Commands \cup Telemetry

\* Of a post: under way, answered with status 200 or with an error, and to be
\* repeated by a thread that sleeps.
Stages == {"posted", "ok", "error", "asleep"}
NoJob == [s \in Stages |-> 0]

BrokerTypeOK ==
  /\ published \in SUBSET Commands
  /\ groundOut \in Seq(Commands)
  /\ groundSent \in 0..Len(groundOut)
  /\ resends \in [Commands -> Nat]
  /\ up \in BOOLEAN /\ subscribed \in BOOLEAN
  /\ toRelay \in Seq(Commands)
  /\ faults \in Nat

JobTypeOK ==
  /\ job \in [Commands -> [Stages -> Nat]]
  /\ stray \in [Commands -> Nat]
  /\ failures \in [Commands -> Nat]
  /\ confirmed \in SUBSET Commands

ModemTypeOK ==
  /\ mt_queue \in Seq(Commands) /\ arrived \in Seq(Commands)
  /\ mt_buffer \in Commands \cup {None}
  /\ read \in SUBSET Commands

TelemetryTypeOK ==
  /\ mo_buffer \in Telemetry \cup {None}
  /\ written \in SUBSET Telemetry
  /\ posts \in [Telemetry -> Nat]
  /\ moWire \in [Telemetry -> Nat]
  /\ toBroker \in Seq(Telemetry) /\ seen \in Seq(Telemetry)
  /\ relaySent \in 0..Len(toBroker)
  /\ cut \in BOOLEAN

HistoryTypeOK ==
  /\ hit \in SUBSET Messages
  /\ before \in SUBSET (Messages \X Messages)

(* Queues hold messages of their kind, the broker has got no more from a     *)
(* client than it held, and no post is counted below zero.                   *)
TypeOK ==
  /\ BrokerTypeOK /\ JobTypeOK /\ ModemTypeOK /\ TelemetryTypeOK
  /\ HistoryTypeOK

Init ==
  /\ published = {} /\ groundOut = <<>> /\ groundSent = 0
  /\ resends = [c \in Commands |-> 0]
  /\ up = TRUE /\ subscribed = TRUE /\ toRelay = <<>>
  /\ job = [c \in Commands |-> NoJob] /\ stray = [c \in Commands |-> 0]
  /\ mt_queue = <<>> /\ mt_buffer = None /\ read = {}
  /\ mo_buffer = None /\ written = {}
  /\ posts = [t \in Telemetry |-> 0] /\ moWire = [t \in Telemetry |-> 0]
  /\ toBroker = <<>> /\ relaySent = 0
  /\ faults = 0 /\ failures = [c \in Commands |-> 0]
  /\ arrived = <<>> /\ seen = <<>> /\ cut = FALSE /\ hit = {}
  /\ confirmed = {} /\ before = {}

------------------------------------------------------------------------------
(* From the ground to the relay                                              *)

MayBegin == Cardinality(published) + Cardinality(written) < MaxMessages

\* Commands the broker has got on this connection and not acknowledged, and
\* those that udp2mqtt alone has.
BrokerHas == {groundOut[i] : i \in 1..groundSent}
GroundOnly == {c \in Range(groundOut) \ BrokerHas : resends[c] = 0}

\* The gateway has confirmed the command, no post of it that was given up is on
\* its way, and udp2mqtt has sent it once and need not do so again.
Settled(c) ==
  c \in confirmed /\ stray[c] = 0 /\ resends[c] = 0 /\ c \notin Range(groundOut)

\* publish_satcom_message of udp2mqtt.  The filter returns when it has found a
\* MANUAL_CONTROL message, and that can be one left in its parser by earlier
\* datagrams: then the command is lost.  Otherwise the client takes it.
Publish(c) ==
  /\ c \notin published /\ MayBegin
  /\ published' = published \cup {c}
  /\ before' = before \cup {b \in confirmed : Settled(b)} \X {c}
  /\ \/ hit' = hit \cup {c} /\ UNCHANGED groundOut
     \/ groundOut' = Append(groundOut, c) /\ UNCHANGED hit
  /\ UNCHANGED <<groundSent, resends, subscribed, toRelay, mtVars, queueVars,
                 bufferVars, moVars, relayMoVars, processVars>>

\* The next command gets to the broker, and from there to who is subscribed; it
\* is not retained.
BrokerTakes ==
  /\ groundSent < Len(groundOut)
  /\ groundSent' = groundSent + 1
  /\ LET c == groundOut[groundSent + 1] IN
       IF subscribed
         THEN toRelay' = Append(toRelay, c) /\ UNCHANGED hit
         ELSE hit' = hit \cup {c} /\ UNCHANGED toRelay
  /\ UNCHANGED <<published, groundOut, resends, subscribed, mtVars, queueVars,
                 bufferVars, moVars, relayMoVars, processVars, before>>

\* The broker's side of the transfer is complete.
GroundAcknowledged ==
  /\ groundSent > 0
  /\ groundOut' = Tail(groundOut)
  /\ groundSent' = groundSent - 1
  /\ UNCHANGED <<published, resends, subscribed, toRelay, mtVars, queueVars,
                 bufferVars, moVars, relayMoVars, processVars, historyVars>>

\* udp2mqtt loses its connection and has it back: what the broker has not
\* acknowledged is sent again.
GroundLinkDrops ==
  /\ groundSent > 0
  /\ faults < MaxFaults
  /\ faults' = faults + 1
  /\ groundSent' = 0
  /\ resends' = [c \in Commands |->
                  resends[c] + IF c \in BrokerHas THEN 1 ELSE 0]
  /\ UNCHANGED <<published, groundOut, up, subscribed, toRelay, mtVars,
                 queueVars, bufferVars, moVars, relayMoVars, historyVars>>

\* udp2mqtt ends and is started again: what its client alone had is gone.
GroundEnds ==
  /\ groundOut # <<>>
  /\ faults < MaxFaults
  /\ faults' = faults + 1
  /\ groundOut' = <<>> /\ groundSent' = 0
  /\ hit' = hit \cup GroundOnly
  /\ UNCHANGED <<published, resends, up, subscribed, toRelay, mtVars, queueVars,
                 bufferVars, moVars, relayMoVars, before>>

\* The relay loses its connection, and with the clean session goes what the
\* broker had for it; telemetry that is not acknowledged is sent again.
LinkDrops ==
  /\ subscribed
  /\ faults < MaxFaults
  /\ faults' = faults + 1
  /\ subscribed' = FALSE
  /\ toRelay' = <<>>
  /\ hit' = hit \cup Range(toRelay)
  /\ relaySent' = 0
  /\ UNCHANGED <<groundVars, up, mtVars, queueVars, bufferVars, moVars,
                 moWire, toBroker, seen, cut, before>>

\* paho connects again and __on_connect subscribes again.
OnConnect ==
  /\ up /\ ~subscribed
  /\ subscribed' = TRUE
  /\ UNCHANGED <<groundVars, toRelay, mtVars, queueVars, bufferVars,
                 moVars, relayMoVars, processVars, historyVars>>

\* __callback_SatCom and post_message, which sends the command on its way.
CallbackSatCom ==
  /\ up /\ toRelay # <<>>
  /\ toRelay' = Tail(toRelay)
  /\ job' = [job EXCEPT ![Head(toRelay)]["posted"] = @ + 1]
  /\ UNCHANGED <<groundVars, subscribed, stray, failures, confirmed,
                 queueVars, bufferVars, moVars, relayMoVars, processVars,
                 historyVars>>

------------------------------------------------------------------------------
(* A post on its way to the gateway                                          *)

\* One of the posts of c goes on to another stage.
Move(c, from, to) ==
  /\ job[c][from] > 0
  /\ job' = [job EXCEPT ![c][from] = @ - 1, ![c][to] = @ + 1]

Enqueue(c) ==
  /\ mt_queue' = Append(mt_queue, c)
  /\ arrived' = Append(arrived, c)

\* PostHandler.post: the command is queued and the answer is 200.
GatewayTakes(c) ==
  /\ Move(c, "posted", "ok")
  /\ Enqueue(c)
  /\ UNCHANGED <<stray, failures, confirmed, brokerVars, bufferVars,
                 moVars, relayMoVars, processVars, historyVars>>

\* The command is queued and then ring() raises, so that the answer is 500;
\* or the answer is lost.
GatewayTakesAndFails(c) ==
  /\ Move(c, "posted", "error")
  /\ failures[c] < MaxFailures
  /\ Enqueue(c)
  /\ failures' = [failures EXCEPT ![c] = @ + 1]
  /\ UNCHANGED <<stray, confirmed, brokerVars, bufferVars, moVars,
                 relayMoVars, processVars, historyVars>>

\* The gateway of Rock7 answers 200 and FAILED in the body: without credit or
\* with an error of its system.  The relay reads the status only.
GatewayRejects(c) ==
  /\ Move(c, "posted", "ok")
  /\ hit' = hit \cup {c}
  /\ UNCHANGED <<stray, failures, confirmed, brokerVars, queueVars,
                 bufferVars, moVars, relayMoVars, processVars, before>>

\* The gateway is not reached.
GatewayUnreachable(c) ==
  /\ Move(c, "posted", "error")
  /\ UNCHANGED <<stray, failures, confirmed, brokerVars, queueVars,
                 bufferVars, moVars, relayMoVars, processVars, historyVars>>

\* The HTTP client gives up after 20 seconds; the post is still on its way.
ClientGivesUp(c) ==
  /\ Move(c, "posted", "error")
  /\ failures[c] < MaxFailures
  /\ stray' = [stray EXCEPT ![c] = @ + 1]
  /\ failures' = [failures EXCEPT ![c] = @ + 1]
  /\ UNCHANGED <<confirmed, brokerVars, queueVars, bufferVars, moVars,
                 relayMoVars, processVars, historyVars>>

\* A post that nobody waits for arrives, or does not.
StrayEnds(c) ==
  /\ stray[c] > 0
  /\ stray' = [stray EXCEPT ![c] = @ - 1]
  /\ Enqueue(c) \/ UNCHANGED queueVars
  /\ UNCHANGED <<job, failures, confirmed, brokerVars, bufferVars,
                 moVars, relayMoVars, processVars, historyVars>>

\* An answer of the gateway is in and is not an error.
Confirm(c) ==
  /\ job[c]["ok"] > 0
  /\ job' = [job EXCEPT ![c]["ok"] = @ - 1]
  /\ confirmed' = confirmed \cup {c}

\* Mutant of OnMessageSent: an error is logged and no more.
OnMessageSentDrops(c) ==
  /\ \/ Confirm(c)
     \/ /\ job[c]["error"] > 0
        /\ job' = [job EXCEPT ![c]["error"] = @ - 1]
        /\ UNCHANGED confirmed
  /\ UNCHANGED <<stray, failures, brokerVars, queueVars, bufferVars, moVars,
                 relayMoVars, processVars, historyVars>>

\* Mutant of OnMessageSent: the answer is not looked at.
OnMessageSentRedelivers(c) ==
  /\ \/ Move(c, "ok", "asleep") /\ confirmed' = confirmed \cup {c}
     \/ Move(c, "error", "asleep") /\ UNCHANGED confirmed
  /\ UNCHANGED <<stray, failures, brokerVars, queueVars, bufferVars, moVars,
                 relayMoVars, processVars, historyVars>>

\* __on_message_sent: after an error, a thread for redelivery.
OnMessageSent(c) ==
  /\ \/ Confirm(c)
     \/ Move(c, "error", "asleep") /\ UNCHANGED confirmed
  /\ UNCHANGED <<stray, failures, brokerVars, queueVars, bufferVars, moVars,
                 relayMoVars, processVars, historyVars>>

\* Mutant of Repost: not while the connection to the broker is lost.
RepostIfSubscribed(c) ==
  /\ subscribed
  /\ Move(c, "asleep", "posted")
  /\ UNCHANGED <<stray, failures, confirmed, brokerVars, queueVars,
                 bufferVars, moVars, relayMoVars, processVars, historyVars>>

\* __repost_message, after ten seconds.
Repost(c) ==
  /\ Move(c, "asleep", "posted")
  /\ UNCHANGED <<stray, failures, confirmed, brokerVars, queueVars,
                 bufferVars, moVars, relayMoVars, processVars, historyVars>>

------------------------------------------------------------------------------
(* The modem, as the host on the plane uses it                               *)

Unread == mt_buffer # None /\ mt_buffer \notin read

\* Mutant of TakeCommand: a slice of the queue in place of its element.
TakeCommandSlice ==
  /\ mt_buffer' = IF mt_queue = <<>> THEN None ELSE SubSeq(mt_queue, 1, 1)
  /\ mt_queue' = IF mt_queue = <<>> THEN <<>> ELSE Tail(mt_queue)
  /\ hit' = IF Unread THEN hit \cup {mt_buffer} ELSE hit

\* A good session puts the oldest command into mt_buffer, or empties it; a
\* command that was there and not read is gone.
TakeCommand ==
  /\ mt_buffer' = IF mt_queue = <<>> THEN None ELSE Head(mt_queue)
  /\ mt_queue' = IF mt_queue = <<>> THEN <<>> ELSE Tail(mt_queue)
  /\ hit' = IF Unread THEN hit \cup {mt_buffer} ELSE hit

\* at_sbdix, when the session is good; a failed one changes nothing.  What is
\* in mo_buffer is posted, again if it was before, and the buffer is kept.
Session ==
  /\ IF mo_buffer = None
       THEN UNCHANGED <<posts, moWire>>
       ELSE /\ posts[mo_buffer] < MaxPosts
            /\ posts' = [posts EXCEPT ![mo_buffer] = @ + 1]
            /\ moWire' = [moWire EXCEPT ![mo_buffer] = @ + 1]
  /\ TakeCommand
  /\ UNCHANGED <<arrived, read, mo_buffer, written, toBroker, relaySent, seen,
                 cut, brokerVars, mtVars, processVars, before>>

\* at_sbdrb hands the command to the host.
ReadCommand ==
  /\ mt_buffer # None /\ mt_buffer \notin Heavy
  /\ read' = read \cup {mt_buffer}
  /\ UNCHANGED <<mt_buffer, brokerVars, mtVars, queueVars, moVars, relayMoVars,
                 processVars, historyVars>>

\* at_sbdrb raises over the checksum and the host gets no answer.
ReadRaises ==
  /\ mt_buffer \in Heavy
  /\ hit' = hit \cup {mt_buffer}
  /\ UNCHANGED <<brokerVars, mtVars, queueVars, bufferVars, moVars,
                 relayMoVars, processVars, before>>

\* Every post of the telemetry has been answered, or was dropped.
Ended(t) == moWire[t] = 0

\* at_sbdwb and the bytes of a message: it takes the place of the last one.
WriteTelemetry(t) ==
  /\ t \notin written /\ MayBegin
  /\ written' = written \cup {t}
  /\ mo_buffer' = t
  /\ before' = before \cup {u \in written : Ended(u)} \X {t}
  /\ UNCHANGED <<posts, hit, brokerVars, mtVars, queueVars, bufferVars,
                 relayMoVars, processVars>>

\* at_sbdd0
ClearTelemetry ==
  /\ mo_buffer' = None
  /\ UNCHANGED <<written, posts, brokerVars, mtVars, queueVars, bufferVars,
                 relayMoVars, processVars, historyVars>>

------------------------------------------------------------------------------
(* Telemetry from the gateway to the ground                                  *)

\* Mutant of RelayPost: each message is published by a thread of its own, as
\* messages are redelivered, and one thread overtakes another.
RelayPostInThread(t) ==
  /\ up /\ moWire[t] > 0
  /\ Len(seen) + Len(toBroker) < MaxRelayed
  /\ \E i \in (relaySent + 1)..(Len(toBroker) + 1) :
       toBroker' = InsertAt(toBroker, i, t)
  /\ \E answered \in BOOLEAN :
       moWire' = [moWire EXCEPT ![t] = IF answered THEN @ - 1 ELSE @]
  /\ UNCHANGED <<relaySent, seen, cut, brokerVars, mtVars, queueVars,
                 bufferVars, moVars, processVars, historyVars>>

\* PostHandler.post and publish_satcom_message.  When the answer is lost the
\* gateway of Rock7 keeps the post and repeats it.
RelayPost(t) ==
  /\ up /\ moWire[t] > 0
  /\ Len(seen) + Len(toBroker) < MaxRelayed
  /\ toBroker' = Append(toBroker, t)
  /\ \E answered \in BOOLEAN :
       moWire' = [moWire EXCEPT ![t] = IF answered THEN @ - 1 ELSE @]
  /\ UNCHANGED <<relaySent, seen, cut, brokerVars, mtVars, queueVars,
                 bufferVars, moVars, processVars, historyVars>>

\* on_message_sent of the simulator only prints an error: the post is gone.
PostFails(t) ==
  /\ moWire[t] > 0
  /\ moWire' = [moWire EXCEPT ![t] = @ - 1]
  /\ hit' = hit \cup {t}
  /\ UNCHANGED <<toBroker, relaySent, seen, cut, brokerVars, mtVars, queueVars,
                 bufferVars, moVars, processVars, before>>

\* The next message the client holds gets to the broker, which retains it.
BrokerGets ==
  /\ subscribed /\ relaySent < Len(toBroker)
  /\ relaySent' = relaySent + 1
  /\ seen' = Append(seen, toBroker[relaySent + 1])
  /\ cut' = FALSE
  /\ UNCHANGED <<moWire, toBroker, brokerVars, mtVars, queueVars, bufferVars,
                 moVars, processVars, historyVars>>

\* The broker's side of the transfer is complete.
RelayAcknowledged ==
  /\ subscribed /\ relaySent > 0
  /\ toBroker' = Tail(toBroker)
  /\ relaySent' = relaySent - 1
  /\ UNCHANGED <<moWire, seen, cut, brokerVars, mtVars, queueVars, bufferVars,
                 moVars, processVars, historyVars>>

------------------------------------------------------------------------------
(* The relay process ends, and is started again by hand                      *)

HasArrived(c) == c \in Range(arrived)

\* The relay has a post of c to make, or has it under way.
InRelay(c) == \E s \in Stages \ {"ok"} : job[c][s] > 0

\* What the relay holds is in memory only.  Posts on the wire may arrive.
Crash ==
  /\ up
  /\ faults < MaxFaults
  /\ faults' = faults + 1
  /\ up' = FALSE /\ subscribed' = FALSE
  /\ toRelay' = <<>> /\ toBroker' = <<>> /\ relaySent' = 0
  /\ cut' = IF toBroker = <<>> THEN cut ELSE relaySent < Len(toBroker)
  /\ hit' = hit \cup Range(toRelay) \cup (Range(toBroker) \ Range(seen))
              \cup {c \in Commands : InRelay(c) /\ ~HasArrived(c)}
  /\ job' = [c \in Commands |-> NoJob]
  /\ stray' = [c \in Commands |-> stray[c] + job[c]["posted"]]
  /\ UNCHANGED <<groundVars, failures, confirmed, queueVars, bufferVars,
                 moVars, moWire, seen, before>>

Restart ==
  /\ ~up
  /\ up' = TRUE
  /\ UNCHANGED <<faults, brokerVars, mtVars, queueVars, bufferVars, moVars,
                 relayMoVars, historyVars>>

------------------------------------------------------------------------------
Post(c) ==
  \/ GatewayTakes(c) \/ GatewayTakesAndFails(c) \/ GatewayRejects(c)
  \/ GatewayUnreachable(c) \/ ClientGivesUp(c) \/ StrayEnds(c)

Relay(c) == OnMessageSent(c) \/ Repost(c)

Next ==
  \/ \E c \in Commands : Publish(c) \/ Post(c) \/ Relay(c)
  \/ BrokerTakes \/ GroundAcknowledged \/ GroundLinkDrops \/ GroundEnds
  \/ LinkDrops \/ OnConnect \/ CallbackSatCom
  \/ Session \/ ReadCommand \/ ReadRaises \/ ClearTelemetry
  \/ \E t \in Telemetry : WriteTelemetry(t) \/ RelayPost(t) \/ PostFails(t)
  \/ BrokerGets \/ RelayAcknowledged
  \/ Crash \/ Restart

Spec == Init /\ [][Next]_vars

(***************************************************************************)
(* Fairness.  The client of udp2mqtt reconnects and sends what it holds.   *)
(* The relay runs: its callbacks are called and sleeping threads wake up;  *)
(* a relay that has ended is not assumed to be started again.  That the    *)
(* gateway, tried again and again, takes a command and answers is assumed  *)
(* of the outside world, and of the host that it runs sessions, reads what *)
(* they bring and clears what it has sent.                                 *)
(***************************************************************************)
Fairness ==
  /\ WF_vars(BrokerTakes)
  /\ WF_vars(CallbackSatCom)
  /\ \A c \in Commands : WF_vars(Relay(c)) /\ SF_vars(GatewayTakes(c))
  /\ SF_vars(Session) /\ WF_vars(ClearTelemetry)
  /\ WF_vars(ReadCommand \/ ReadRaises)

FairSpec == Spec /\ Fairness

------------------------------------------------------------------------------
(* Properties                                                                *)

\* Someone has the message and will hand it on.
CommandOnItsWay(c) ==
  \/ c \in GroundOnly
  \/ c \in Range(toRelay)
  \/ InRelay(c)
  \/ c \in Range(mt_queue)
  \/ mt_buffer = c

TelemetryOnItsWay(t) ==
  \/ moWire[t] > 0
  \/ t \in Range(toBroker) \cup Range(seen)

(* Messages get lost in the ways that are known and in no other.  Commands:  *)
(* blocked by the filter over what its parser had left; in the client of     *)
(* udp2mqtt when that ended; at the broker with no subscriber; in the relay  *)
(* or its session when it ended or lost its connection; failed by the        *)
(* gateway with status 200; overwritten by a session; a checksum that        *)
(* raises.  Telemetry: a failed post, which simulator.py only prints; what   *)
(* the relay had answered for and not sent when it ended.  Failed posts,     *)
(* 500s for what was taken, late posts, messages sent again, a crash after   *)
(* the gateway has the command, and all of these together, lose none.        *)
LossExplained ==
  /\ \A c \in published \ (read \cup hit) : CommandOnItsWay(c)
  /\ \A t \in Telemetry \ hit : posts[t] > 0 => TelemetryOnItsWay(t)

(* Redelivery, ten seconds later, posts the client has given up on and       *)
(* commands that udp2mqtt sends again bring commands to the plane in another *)
(* order than they were published, and more than once.  But a command that   *)
(* was confirmed before another was published, that was not sent again and   *)
(* has no given-up post on its way, does not come after it, through          *)
(* redelivery, crashes and lost connections.                                 *)
NoStaleCommand ==
  \A i, j \in DOMAIN arrived : i < j => <<arrived[j], arrived[i]>> \notin before

(* Telemetry repeated by the gateway or sent again by the relay can bring an *)
(* old position back for a while.  But when the relay's client has sent what *)
(* it holds, the position the broker retains is not one whose posts had all  *)
(* ended when another was written that the broker has got: although the      *)
(* relay answers a post before the broker has the telemetry, and over lost   *)
(* connections.  (A relay that ends before it has sent all can leave an old  *)
(* one behind, until the next message.)                                      *)
NoStaleTelemetry ==
  relaySent = Len(toBroker) /\ ~cut =>
    \A t \in Range(seen) : <<Last(seen), t>> \notin before

(* The plane is given a command at most once more than its posts failed for  *)
(* the relay although the gateway took them (a 500, a lost answer, a client  *)
(* that gave up), and once more for each time udp2mqtt lost its connection   *)
(* with the command not acknowledged: crashes and lost connections of the    *)
(* relay add none.                                                           *)
Count(s, c) == Cardinality({i \in DOMAIN s : s[i] = c})

DuplicatesExplained ==
  \A c \in Commands : Count(arrived, c) <= 1 + resends[c] + failures[c]

(* A command that is published gets to the plane or is hit by a fault: none  *)
(* is stuck for ever in a queue, a thread or the modem.                      *)
CommandArrives ==
  \A c \in Commands : c \in published ~> c \in read \cup hit
==============================================================================
