-------------------------------- MODULE OldScs --------------------------------
(***************************************************************************)
(* The system of _old_scs: tcp2udp.py beside QGroundControl, relay.py and  *)
(* iridium.py with one TCP connection for each message of the satellite,   *)
(* and simulator.py, where twisted's reactor and a thread share the state  *)
(* of the link to the autopilot.                                           *)
(*                                                                         *)
(* The relay takes what one read of the ground's TCP stream brings for a   *)
(* message.  A cell is a part of a command, so a read may bring a command, *)
(* a piece of one or several.  In the simulator a step is what happens     *)
(* between two points where the reactor and the thread can see each other. *)
(***************************************************************************)
EXTENDS Naturals, FiniteSets, Sequences, SequencesExt

CONSTANTS
  Commands,     \* messages of QGroundControl, each sent once
  Telemetry,    \* messages of the autopilot, each sent once
  Clients,      \* tcp2udp processes, each connects once
  None,         \* no client, no message
  MaxWork       \* bound: commands and requests of the autopilot together

ASSUME NoneAssumption == None \notin Commands \cup Telemetry \cup Clients
ASSUME MaxWorkAssumption == MaxWork \in Nat

VARIABLES
  client,       \* the connection of each tcp2udp to the relay
  prot,         \* factory.prot of the relay
  stream,       \* cells each tcp2udp has written and the relay has not read
  mtWire,       \* MT messages with a connection of their own to the simulator
  moWire,       \* MO messages with one to the relay
  line,         \* requests of the autopilot on the serial line
  status, serialRx, udpRx,      \* IridiumSimulator
  serialLock, ipLock,           \* whether its thread holds them
  thread,       \* where its thread is
  popped,       \* the message its thread has taken from udpRx
  asked, answered,  \* requests and answers so far, by kind
  sent,         \* history: commands QGroundControl has sent
  delivered,    \* history: commands the autopilot has got
  accepted,     \* history: telemetry the autopilot knows to be sent
  forwarded,    \* history: telemetry written to a connection that is open
  last,         \* history: the client that connected last
  hit,          \* history: messages a fault has hit
  impatient     \* history: the autopilot has not waited for an answer

groundVars == <<client, prot, last>>
mtVars == <<stream, sent, mtWire>>
moVars == <<moWire, forwarded>>
simVars == <<status, serialRx, serialLock, thread>>
rxVars == <<udpRx, ipLock, popped, delivered>>
hostVars == <<line, asked, impatient>>
vars == <<groundVars, mtVars, moVars, simVars, rxVars, hostVars, answered,
          accepted, hit>>

Kinds == {"send", "receive", "status"}
Requests == [kind : {"send"}, msg : Telemetry]
              \cup [kind : {"receive", "status"}, msg : {None}]

Cells == Commands \X {"head", "tail"}
Whole(c) == <<<<c, "head">>, <<c, "tail">>>>
CommandsIn(chunk) == {cell[1] : cell \in Range(chunk)}

MayBegin == Cardinality(sent) + asked["send"] + asked["receive"]
              + asked["status"] < MaxWork

RelayTypeOK ==
  /\ client \in [Clients -> {"new", "connected", "lost"}]
  /\ prot \in Clients \cup {None} /\ last \in Clients \cup {None}
  /\ stream \in [Clients -> Seq(Cells)]
  /\ mtWire \in SUBSET Seq(Cells)
  /\ moWire \in SUBSET Telemetry

LineTypeOK ==
  /\ line \in Seq(Requests)
  /\ asked \in [Kinds -> Nat] /\ answered \in [Kinds -> Nat]

SimulatorTypeOK ==
  /\ status \in {"idle", "sending", "receiving"}
  /\ serialRx \in Telemetry \cup {None}
  /\ status = "sending" => serialRx \in Telemetry
  /\ serialLock \in BOOLEAN /\ ipLock \in BOOLEAN
  /\ thread \in {"asleep", "sent", "popped", "replied"}
  /\ udpRx \in Seq(Seq(Cells)) /\ popped \in Seq(Cells)

HistoryTypeOK ==
  /\ sent \in SUBSET Commands /\ delivered \in SUBSET Commands
  /\ accepted \in SUBSET Telemetry /\ forwarded \in SUBSET Telemetry
  /\ hit \in SUBSET (Commands \cup Telemetry)
  /\ impatient \in BOOLEAN

(* Streams and messages are made of cells, requests are of their kind, and a *)
(* simulator that is sending has a message.                                  *)
TypeOK == RelayTypeOK /\ LineTypeOK /\ SimulatorTypeOK /\ HistoryTypeOK

Init ==
  /\ client = [k \in Clients |-> "new"] /\ prot = None /\ last = None
  /\ stream = [k \in Clients |-> <<>>] /\ sent = {}
  /\ mtWire = {} /\ moWire = {} /\ forwarded = {}
  /\ status = "idle" /\ serialRx = None /\ thread = "asleep"
  /\ serialLock = FALSE /\ ipLock = FALSE
  /\ udpRx = <<>> /\ popped = <<>> /\ delivered = {}
  /\ line = <<>> /\ impatient = FALSE
  /\ asked = [k \in Kinds |-> 0] /\ answered = [k \in Kinds |-> 0]
  /\ accepted = {} /\ hit = {}

------------------------------------------------------------------------------
(* tcp2udp and the relay's side of it                                        *)

\* connectionMade: the relay writes to the client that connected last.
ConnectionMade(k) ==
  /\ client[k] = "new"
  /\ client' = [client EXCEPT ![k] = "connected"]
  /\ prot' = k /\ last' = k
  /\ UNCHANGED <<mtVars, moVars, simVars, rxVars, hostVars, answered,
                 accepted, hit>>

\* The connection is lost with what is in it.
Closed(k) ==
  /\ client[k] = "connected"
  /\ client' = [client EXCEPT ![k] = "lost"]
  /\ stream' = [stream EXCEPT ![k] = <<>>]
  /\ hit' = hit \cup CommandsIn(stream[k])
  /\ UNCHANGED <<last, sent, mtWire, moVars, simVars, rxVars, hostVars,
                 answered, accepted>>

\* Mutant of ConnectionLost: prot is reset, by whichever client.
ConnectionLostResets(k) == Closed(k) /\ prot' = None

\* connectionLost: it sets factory.port, which nobody reads; prot stays.
ConnectionLost(k) == Closed(k) /\ UNCHANGED prot

\* fromQgc: before the connection is made transport is None and write raises,
\* after it is lost write does nothing.
FromQgc(k, c) ==
  /\ c \notin sent /\ MayBegin
  /\ sent' = sent \cup {c}
  /\ IF client[k] = "connected"
       THEN stream' = [stream EXCEPT ![k] = @ \o Whole(c)] /\ UNCHANGED hit
       ELSE hit' = hit \cup {c} /\ UNCHANGED stream
  /\ UNCHANGED <<groundVars, mtWire, moVars, simVars, rxVars, hostVars,
                 answered, accepted>>

\* dataReceived and mtMsgCallback: what one read brings is one message.
DataReceived(k) ==
  /\ client[k] = "connected"
  /\ \E n \in 1..Len(stream[k]) :
       LET chunk == SubSeq(stream[k], 1, n) IN
       /\ stream' = [stream EXCEPT ![k] = SubSeq(@, n + 1, Len(@))]
       /\ mtWire' = mtWire \cup {chunk}
       /\ hit' = IF \E c \in Commands : chunk = Whole(c)
                   THEN hit ELSE hit \cup CommandsIn(chunk)
  /\ UNCHANGED <<groundVars, sent, moVars, simVars, rxVars, hostVars,
                 answered, accepted>>

\* The connection to the simulator fails, for which there is no errback, or
\* the message comes in two segments: the receiver closes after the first.
MtLost(chunk) ==
  /\ chunk \in mtWire
  /\ mtWire' = mtWire \ {chunk}
  /\ hit' = hit \cup CommandsIn(chunk)
  /\ UNCHANGED <<groundVars, stream, sent, moVars, simVars, rxVars, hostVars,
                 answered, accepted>>

\* IridiumMtReceiver.dataReceived with a whole message, and receivedRelay.
ReceivedRelay(chunk) ==
  /\ chunk \in mtWire /\ ~ipLock
  /\ mtWire' = mtWire \ {chunk}
  /\ udpRx' = Append(udpRx, chunk)
  /\ UNCHANGED <<groundVars, stream, sent, moVars, simVars, ipLock, popped,
                 delivered, hostVars, answered, accepted, hit>>

\* IridiumMoReceiver.connectionLost, moMsgCallback and QgcTcpFactory.write,
\* which swallows what goes wrong.
MoMsgCallback(t) ==
  /\ t \in moWire
  /\ moWire' = moWire \ {t}
  /\ forwarded' = IF prot # None /\ client[prot] = "connected"
                    THEN forwarded \cup {t} ELSE forwarded
  /\ hit' = IF last # None /\ client[last] = "connected"
              THEN hit ELSE hit \cup {t}
  /\ UNCHANGED <<groundVars, mtVars, simVars, rxVars, hostVars, answered,
                 accepted>>

\* The relay is not reached, or gets a part of the message.
MoLost(t) ==
  /\ t \in moWire
  /\ moWire' = moWire \ {t}
  /\ hit' = hit \cup {t}
  /\ UNCHANGED <<groundVars, mtVars, forwarded, simVars, rxVars, hostVars,
                 answered, accepted>>

------------------------------------------------------------------------------
(* The autopilot and the reactor of the simulator                            *)

Answer(kind) == answered' = [answered EXCEPT ![kind] = @ + 1]
Owed == \E k \in Kinds : answered[k] < asked[k]

\* The autopilot sends a request, perhaps before the last one is answered.
Ask(r) ==
  /\ MayBegin
  /\ r.kind = "send" => /\ \A i \in DOMAIN line : line[i].msg # r.msg
                        /\ r.msg \notin accepted /\ serialRx # r.msg
  /\ line' = Append(line, r)
  /\ asked' = [asked EXCEPT ![r.kind] = @ + 1]
  /\ impatient' = (impatient \/ Owed)
  /\ UNCHANGED <<groundVars, mtVars, moVars, simVars, rxVars, answered,
                 accepted, hit>>

\* The next request is taken off the line under serialLock.
TakeRequest(kind) ==
  /\ line # <<>> /\ Head(line).kind = kind /\ ~serialLock
  /\ line' = Tail(line)
  /\ UNCHANGED <<groundVars, mtVars, moVars, serialLock, thread, rxVars,
                 asked, impatient, accepted, hit>>

\* Mutant of SendRequest: the message is not put into serialRx.
SendRequestStatusOnly ==
  /\ TakeRequest("send")
  /\ IF status = "idle"
       THEN status' = "sending" /\ UNCHANGED answered
       ELSE Answer("send") /\ UNCHANGED status
  /\ UNCHANGED serialRx

\* satcomSendRequest
SendRequest ==
  /\ TakeRequest("send")
  /\ IF status = "idle"
       THEN /\ status' = "sending" /\ serialRx' = Head(line).msg
            /\ UNCHANGED answered
       ELSE Answer("send") /\ UNCHANGED <<status, serialRx>>

\* Mutant of ReceiveRequest: it is not looked whether one is under way.
ReceiveRequestAnytime ==
  /\ TakeRequest("receive")
  /\ status' = "receiving"
  /\ UNCHANGED <<serialRx, answered>>

\* satcomReceiveRequest
ReceiveRequest ==
  /\ TakeRequest("receive")
  /\ IF status = "idle"
       THEN status' = "receiving" /\ UNCHANGED answered
       ELSE Answer("receive") /\ UNCHANGED status
  /\ UNCHANGED serialRx

\* satcomGetNetworkStatus, satcomGetSignalStrength: answered at once.
StatusRequest ==
  /\ TakeRequest("status")
  /\ Answer("status")
  /\ UNCHANGED <<status, serialRx>>

------------------------------------------------------------------------------
(* run: a round of the thread that has something to do                       *)

\* The autopilot is told that the message is sent.
TellSent ==
  /\ thread = "asleep" /\ ~serialLock /\ status = "sending"
  /\ thread' = "sent"
  /\ Answer("send")
  /\ accepted' = accepted \cup {serialRx}
  /\ UNCHANGED <<status, serialRx, groundVars, mtVars, moVars, rxVars,
                 hostVars, hit>>

\* Mutant of RunSending: the lock is free while the message is being sent.
RunSendingUnlocked == TellSent /\ UNCHANGED serialLock

\* Sending, up to the answer.
RunSending == TellSent /\ serialLock' = TRUE

\* Then the message is sent, with ipLock, on a connection without errback.
Submit ==
  /\ thread = "sent" /\ ~ipLock
  /\ thread' = "replied"
  /\ moWire' = moWire \cup {serialRx}
  /\ UNCHANGED <<forwarded, status, serialRx, serialLock, groundVars, mtVars,
                 rxVars, hostVars, answered, accepted, hit>>

\* Receiving: the oldest message is taken with ipLock, or there is none.
RunReceiving ==
  /\ thread = "asleep" /\ ~serialLock /\ status = "receiving"
  /\ serialLock' = TRUE
  /\ IF udpRx # <<>>
       THEN /\ thread' = "popped" /\ ipLock' = TRUE
            /\ popped' = Head(udpRx) /\ udpRx' = Tail(udpRx)
            /\ UNCHANGED answered
       ELSE /\ thread' = "replied" /\ Answer("receive")
            /\ UNCHANGED <<ipLock, popped, udpRx>>
  /\ UNCHANGED <<delivered, status, serialRx, groundVars, mtVars, moVars,
                 hostVars, accepted, hit>>

Decodes(msg) == \E c \in Commands : msg = Whole(c)

\* The answer: the message, or that there is none if it does not decode.
Reply ==
  /\ thread = "popped"
  /\ thread' = "replied"
  /\ popped' = <<>> /\ ipLock' = FALSE
  /\ delivered' = IF Decodes(popped) THEN delivered \cup CommandsIn(popped)
                                     ELSE delivered
  /\ Answer("receive")
  /\ UNCHANGED <<udpRx, status, serialRx, serialLock, groundVars, mtVars,
                 moVars, hostVars, accepted, hit>>

\* The end of the round.
Release ==
  /\ thread = "replied"
  /\ thread' = "asleep"
  /\ status' = "idle"
  /\ serialLock' = FALSE
  /\ UNCHANGED <<serialRx, groundVars, mtVars, moVars, rxVars, hostVars,
                 answered, accepted, hit>>

------------------------------------------------------------------------------
Reactor ==
  \/ SendRequest \/ ReceiveRequest \/ StatusRequest

Run == RunSending \/ Submit \/ RunReceiving \/ Reply \/ Release

Ground(k) ==
  \/ ConnectionMade(k) \/ ConnectionLost(k) \/ DataReceived(k)
  \/ \E c \in Commands : FromQgc(k, c)

Next ==
  \/ \E k \in Clients : Ground(k)
  \/ \E chunk \in mtWire : ReceivedRelay(chunk) \/ MtLost(chunk)
  \/ \E t \in moWire : MoMsgCallback(t) \/ MoLost(t)
  \/ \E r \in Requests : Ask(r)
  \/ Reactor
  \/ Run

Spec == Init /\ [][Next]_vars

(***************************************************************************)
(* Fairness.  The reactor handles what comes in and the thread runs.  Weak *)
(* fairness is enough for the locks: when the thread sleeps and has        *)
(* nothing to do, serialLock is free for the reactor until it gives the    *)
(* thread something to do.                                                 *)
(***************************************************************************)
FairSpec == Spec /\ WF_vars(Reactor) /\ WF_vars(Run)

------------------------------------------------------------------------------
(* Properties                                                                *)

\* The command is in the stream in one piece.
InStream(s, c) ==
  \E i \in 1..(Len(s) - 1) : s[i] = <<c, "head">> /\ s[i + 1] = <<c, "tail">>

CommandOnItsWay(c) ==
  \/ \E k \in Clients : InStream(stream[k], c)
  \/ Whole(c) \in mtWire \cup Range(udpRx) \cup {popped}

TelemetryOnItsWay(t) ==
  t \in moWire \cup forwarded \/ (thread = "sent" /\ serialRx = t)

(* A command reaches the autopilot unless tcp2udp had no connection or lost  *)
(* it, TCP cut the command or joined it with another, or the connection to   *)
(* the simulator failed; telemetry the autopilot was told to be sent reaches *)
(* the ground unless its connection failed or the client that connected last *)
(* is gone.  Clients that come and go in any order, the locks and the answers *)
(* lose nothing.                                                             *)
LossExplained ==
  /\ \A c \in sent \ (delivered \cup hit) : CommandOnItsWay(c)
  /\ \A t \in accepted \ hit : TelemetryOnItsWay(t)

(* "PX4 SATCOM DRIVER SHOULD WAIT FOR PREVIOUS COMMAND REPLY": for one that  *)
(* does a request never meets another under way, although it is answered     *)
(* before the message is sent and the status is idle again; and no request   *)
(* of any autopilot is answered twice.                                       *)
RepliesMatch ==
  /\ \A k \in Kinds : answered[k] <= asked[k]
  /\ ~impatient /\ line # <<>> /\ ~serialLock => status = "idle"

(* Every request is answered: with the result or as busy, whatever the relay *)
(* does meanwhile and whatever does not decode.                              *)
RequestsAnswered ==
  \A k \in Kinds : answered[k] < asked[k] ~> answered[k] = asked[k]
==============================================================================
