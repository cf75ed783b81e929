------------------------------- MODULE MqttLink -------------------------------
(***************************************************************************)
(* MqttInterface of relay.py: the connection to the broker, its loss and    *)
(* renewal, and the telemetry the relay keeps at the broker as a retained   *)
(* message of 'telem/SatCom_from_plane', so that an operator who comes late *)
(* sees where the plane was.  Telemetry that comes in over Iridium is       *)
(* published with qos 2; after Timeout seconds of silence an empty message  *)
(* of qos 0 is to remove it from the broker.                                *)
(*                                                                         *)
(* The main thread connects and waits, then runs the IOLoop, on which       *)
(* publish_satcom_message and __on_receive_timeout are called; __on_connect *)
(* and __on_disconnect are called by the thread of the paho client.  That   *)
(* client keeps messages of qos 2 until they are acknowledged and sends     *)
(* them again after a reconnect; it drops one of qos 0 it cannot send.      *)
(***************************************************************************)
EXTENDS Naturals, Sequences, SequencesExt

CONSTANTS
  Messages,         \* telemetry from the plane
  None,             \* no retained message
  Timeout,          \* iridium timeout of relay.cfg, in ticks of the check
  MaxDrops,         \* bound: lost connections
  MaxRefusals,      \* bound: connections the broker refuses
  MaxCrashes        \* bound: ends of the relay process

ASSUME TelemetryAssumption == None \notin Messages
ASSUME LinkAssumption ==
  Timeout \in Nat /\ MaxDrops \in Nat /\ MaxRefusals \in Nat /\ MaxCrashes \in Nat

VARIABLES
  main,             \* down: no process; waiting, running
  connected,        \* __client_connected_flag
  bad,              \* __client_bad_connection_flag
  cleared,          \* __iridium_queue_cleared
  age,              \* time.time() - __last_message_received, to Timeout + 1
  conn,             \* down, connecting, up, and dead: lost but not noticed
  outq,             \* messages of qos 2 the client holds
  sent,             \* how many of them the broker has got on this connection
  subs,             \* subscriptions: none, sent, active
  retained,         \* what the broker holds for 'telem/SatCom_from_plane'
  drops, refusals, crashes,
  silence,          \* history: ticks since a message came from the plane
  posted,           \* history: telemetry given to this process
  arrived           \* history: of it, what the broker has got, first arrivals

processVars == <<main, connected, bad, cleared, age>>
clientVars == <<conn, outq, sent, subs>>
bounds == <<drops, refusals, crashes>>
history == <<silence, posted, arrived>>
vars == <<processVars, clientVars, retained, bounds, history>>

(* The client process has published no more than was queued in outq, and   *)
(* nothing but messages of the autopilot is retained.                      *)
TypeOK ==
  /\ main \in {"down", "waiting", "running"}
  /\ connected \in BOOLEAN /\ bad \in BOOLEAN /\ cleared \in BOOLEAN
  /\ age \in 0..(Timeout + 1)
  /\ conn \in {"down", "connecting", "up", "dead"}
  /\ outq \in Seq(Messages)
  /\ sent \in 0..Len(outq)
  /\ subs \in {"none", "sent", "active"}
  /\ retained \in Messages \cup {None}
  /\ drops \in 0..MaxDrops
  /\ refusals \in 0..MaxRefusals
  /\ crashes \in 0..MaxCrashes
  /\ silence \in 0..(Timeout + 1)
  /\ posted \in Seq(Messages) /\ arrived \in Seq(Messages)

\* The broker may hold a message of an earlier run.
Init ==
  /\ main = "down"
  /\ connected = FALSE /\ bad = FALSE /\ cleared = FALSE
  /\ age = 0
  /\ conn = "down"
  /\ outq = <<>> /\ sent = 0
  /\ subs = "none"
  /\ retained \in Messages \cup {None}
  /\ drops = 0 /\ refusals = 0 /\ crashes = 0
  /\ silence = 0
  /\ posted = <<>> /\ arrived = <<>>

\* The process ends; what its client held and the broker had not got is gone.
EndProcess ==
  /\ main' = "down"
  /\ connected' = FALSE /\ bad' = FALSE /\ cleared' = FALSE
  /\ age' = 0
  /\ conn' = "down"
  /\ outq' = <<>> /\ sent' = 0
  /\ subs' = "none"
  /\ posted' = <<>> /\ arrived' = <<>>
  /\ UNCHANGED <<retained, drops, refusals, silence>>

------------------------------------------------------------------------------
(* The main thread                                                          *)

\* The relay is started.  __connect: the client's thread is started and the
\* socket is opened.  (If there is no broker at the address, connect raises and
\* the process is gone again.)
Connect ==
  /\ main = "down"
  /\ main' = "waiting"
  /\ conn' = "connecting"
  /\ UNCHANGED <<connected, bad, cleared, age, outq, sent, subs, retained,
                 bounds, history>>

\* __connect: a flag ends the wait.  The bad one ends the program; otherwise
\* start sets up the timeout and the IOLoop runs.
Poll ==
  /\ main = "waiting"
  /\ connected \/ bad
  /\ IF bad
       THEN EndProcess /\ UNCHANGED crashes
       ELSE /\ main' = "running"
            /\ UNCHANGED <<connected, bad, cleared, age, clientVars, retained,
                           bounds, history>>

\* Mutants of PublishSatcomMessage: a message is dropped while the client is
\* not connected; the time is not noted; the flag is not reset.
PublishIfConnected(m) ==
  /\ main = "running"
  /\ m \notin Range(posted)
  /\ cleared' = FALSE
  /\ age' = 0
  /\ outq' = IF connected THEN Append(outq, m) ELSE outq
  /\ silence' = 0
  /\ posted' = Append(posted, m)
  /\ UNCHANGED <<main, connected, bad, conn, sent, subs, retained, bounds,
                 arrived>>

PublishKeepsTime(m) ==
  /\ main = "running"
  /\ m \notin Range(posted)
  /\ cleared' = FALSE
  /\ outq' = Append(outq, m)
  /\ silence' = 0
  /\ posted' = Append(posted, m)
  /\ UNCHANGED <<main, connected, bad, age, conn, sent, subs, retained, bounds,
                 arrived>>

PublishKeepsFlag(m) ==
  /\ main = "running"
  /\ m \notin Range(posted)
  /\ age' = 0
  /\ outq' = Append(outq, m)
  /\ silence' = 0
  /\ posted' = Append(posted, m)
  /\ UNCHANGED <<main, connected, bad, cleared, conn, sent, subs, retained,
                 bounds, arrived>>

\* PostHandler.post and publish_satcom_message: note the time, publish, and
\* answer the gateway whether or not the broker has got the message.
PublishSatcomMessage(m) ==
  /\ main = "running"
  /\ m \notin Range(posted)
  /\ cleared' = FALSE
  /\ age' = 0
  /\ outq' = Append(outq, m)
  /\ silence' = 0
  /\ posted' = Append(posted, m)
  /\ UNCHANGED <<main, connected, bad, conn, sent, subs, retained, bounds,
                 arrived>>

\* The empty message of qos 0 reaches the broker over a live connection, not
\* over a dead one; it may leave before the broker has accepted the client.
ClearRetained ==
  \/ conn \in {"up", "connecting"} /\ retained' = None
  \/ conn # "up" /\ UNCHANGED retained

\* Mutant of OnReceiveTimeout: the empty message is published like telemetry.
OnReceiveTimeoutQueued ==
  /\ main = "running"
  /\ age > Timeout
  /\ ~cleared
  /\ outq' = Append(outq, None)
  /\ cleared' = TRUE
  /\ UNCHANGED <<main, connected, bad, age, conn, sent, subs, retained, bounds,
                 history>>

\* __on_receive_timeout, called every 2.5 seconds.
OnReceiveTimeout ==
  /\ main = "running"
  /\ age > Timeout
  /\ ~cleared
  /\ ClearRetained
  /\ cleared' = TRUE
  /\ UNCHANGED <<main, connected, bad, age, clientVars, bounds, history>>

\* A second or so passes.  A live connection carries a message in far less than
\* the timeout of 600 seconds.
Tick ==
  /\ conn = "up" /\ sent < Len(outq) => age < Timeout
  /\ age' = IF age <= Timeout /\ main # "down" THEN age + 1 ELSE age
  /\ silence' = IF silence <= Timeout THEN silence + 1 ELSE silence
  /\ UNCHANGED <<main, connected, bad, cleared, clientVars, retained, bounds,
                 posted, arrived>>

------------------------------------------------------------------------------
(* The callbacks of the paho client                                         *)

\* Mutant of OnConnect: the topics are subscribed by the first connection only.
OnConnectOnce ==
  /\ conn = "connecting"
  /\ conn' = "up"
  /\ connected' = TRUE
  /\ subs' = IF main = "waiting" THEN "sent" ELSE subs
  /\ UNCHANGED <<main, bad, cleared, age, outq, sent, retained, bounds, history>>

\* __on_connect with rc = 0: set the flag, subscribe to the two topics.
OnConnect ==
  /\ conn = "connecting"
  /\ conn' = "up"
  /\ connected' = TRUE
  /\ subs' = "sent"
  /\ UNCHANGED <<main, bad, cleared, age, outq, sent, retained, bounds, history>>

\* __on_connect with another rc: the client tries again.  With rc = 3 it is
\* only logged; with any other the flag bad_connection_flag is set, which
\* nothing reads: __client_bad_connection_flag stays false.
OnConnectFails ==
  /\ conn = "connecting"
  /\ refusals < MaxRefusals
  /\ refusals' = refusals + 1
  /\ conn' = "down"
  /\ UNCHANGED <<processVars, outq, sent, subs, retained, drops, crashes, history>>

\* Mutant of OnDisconnect: the handler stops the client.
OnDisconnectStops ==
  /\ conn = "dead"
  /\ connected' = FALSE
  /\ sent' = 0
  /\ UNCHANGED <<main, bad, cleared, age, conn, outq, subs, retained, bounds,
                 history>>

\* __on_disconnect, when the client notices; what is not acknowledged is to be
\* sent again.
OnDisconnect ==
  /\ conn = "dead"
  /\ conn' = "down"
  /\ connected' = FALSE
  /\ sent' = 0
  /\ UNCHANGED <<main, bad, cleared, age, outq, subs, retained, bounds, history>>

------------------------------------------------------------------------------
(* The client's thread, the network and the broker, outside the repository  *)

Reconnect ==
  /\ main # "down"
  /\ conn = "down"
  /\ conn' = "connecting"
  /\ UNCHANGED <<processVars, outq, sent, subs, retained, bounds, history>>

\* The session is clean: with the connection the subscriptions are gone.
Drop ==
  /\ conn \in {"connecting", "up"}
  /\ drops < MaxDrops
  /\ drops' = drops + 1
  /\ conn' = "dead"
  /\ subs' = "none"
  /\ UNCHANGED <<processVars, outq, sent, retained, refusals, crashes, history>>

BrokerSubscribes ==
  /\ conn = "up"
  /\ subs = "sent"
  /\ subs' = "active"
  /\ UNCHANGED <<processVars, conn, outq, sent, retained, bounds, history>>

\* The next message the client holds reaches the broker, and is retained.
BrokerGets ==
  /\ conn = "up"
  /\ sent < Len(outq)
  /\ LET m == outq[sent + 1] IN
       /\ retained' = m
       /\ arrived' = IF m \in Range(arrived) THEN arrived ELSE Append(arrived, m)
  /\ sent' = sent + 1
  /\ UNCHANGED <<processVars, conn, outq, subs, bounds, silence, posted>>

\* The broker's side of a transfer is complete: the client forgets the message.
Acknowledged ==
  /\ conn = "up"
  /\ sent > 0
  /\ outq' = Tail(outq)
  /\ sent' = sent - 1
  /\ UNCHANGED <<processVars, conn, subs, retained, bounds, history>>

Crash ==
  /\ main # "down"
  /\ crashes < MaxCrashes
  /\ crashes' = crashes + 1
  /\ EndProcess

------------------------------------------------------------------------------
Process ==
  \/ Connect \/ Poll \/ OnReceiveTimeout
  \/ \E m \in Messages : PublishSatcomMessage(m)

Callback ==
  OnConnect \/ OnConnectFails \/ OnDisconnect

Link == Reconnect \/ Drop \/ BrokerSubscribes \/ BrokerGets \/ Acknowledged

Next == Process \/ Callback \/ Link \/ Tick \/ Crash

Spec == Init /\ [][Next]_vars

\* The threads run and the clock ticks; the client reconnects by itself.  Of
\* the broker: it answers, and does not refuse for ever.  Nothing makes the
\* relay start again.
FairSpec ==
  /\ Spec
  /\ WF_vars(Tick)
  /\ WF_vars(Poll) /\ WF_vars(OnReceiveTimeout)
  /\ WF_vars(Callback) /\ WF_vars(Reconnect)
  /\ WF_vars(BrokerSubscribes) /\ WF_vars(BrokerGets) /\ WF_vars(Acknowledged)

------------------------------------------------------------------------------
(* Properties                                                               *)

Latest == posted[Len(posted)]

(* Through lost connections and messages sent twice, telemetry reaches the  *)
(* broker in the order it came, and what has not reached it is still held.  *)
TelemetryKept ==
  /\ IsPrefix(arrived, posted)
  /\ Len(outq) <= Len(posted)
  /\ outq = SubSeq(posted, Len(posted) - Len(outq) + 1, Len(posted))
  /\ Len(posted) <= Len(arrived) + Len(outq)

(* A message sent again after a reconnect overwrites a newer one at the     *)
(* broker only until the newer one is sent again as well: when the client   *)
(* holds nothing the broker retains the latest, or nothing if it was        *)
(* cleared.  (A process that ends while it sends again can leave an older   *)
(* one behind, until the next process has telemetry of its own.)            *)
RetainedIsLatest ==
  outq = <<>> /\ posted # <<>> /\ retained # None => retained = Latest

(* relay.cfg: "If no messages are received during this timespan the MQTT    *)
(* queue is cleared", and only then: the last position of a plane that is   *)
(* heard from stays at the broker.                                          *)
ClearOnlyAfterSilence ==
  [][retained # None /\ retained' = None => silence > Timeout]_vars

(* The same comment (relay.cfg:28-29) read forwards: silence ends with no   *)
(* telemetry at the broker, while the relay runs.  The one message that     *)
(* clears it is of qos 0: lost on a broken connection, or overtaken by      *)
(* telemetry sent again.                                                    *)
SilenceClears ==
  (main = "running" /\ silence > Timeout) ~>
    (retained = None \/ silence <= Timeout \/ main # "running")

(* As long as no connection is lost it does, also of telemetry an earlier   *)
(* process has left at the broker.                                          *)
SteadySilenceClears ==
  (main = "running" /\ silence > Timeout /\ drops = 0) ~>
    (retained = None \/ silence <= Timeout \/ main # "running" \/ drops > 0)

(* The comment of relay.py:211: "if we lose the connection and reconnect    *)
(* then subscriptions will be renewed".                                     *)
SubscriptionsRenewed ==
  (main = "running") ~> (subs = "active" \/ main # "running")

(* Telemetry the relay has answered for reaches the broker, unless the      *)
(* process ends first (the TODO of relay.py:137).                           *)
TelemetryPublished ==
  \A m \in Messages :
    (m \in Range(posted)) ~> (m \in Range(arrived) \/ m \notin Range(posted))

OD == INSTANCE OrderedDelivery WITH
  Volatile <- TRUE, sent <- posted, got <- arrived

(* With every message sent again after each lost connection, the relay and  *)
(* its client are to the broker a queue that loses its contents only with   *)
(* the process: each step gives the broker the next new message, or none.   *)
ImplementsOrderedDelivery == OD!Spec
==============================================================================
