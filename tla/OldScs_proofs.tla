----------------------------- MODULE OldScs_proofs -----------------------------
(*************************************************************************)
(* Proofs about OldScs, for any messages and clients and any amount of   *)
(* work.  RepliesMatch needs where the thread is when it holds a lock    *)
(* (ThreadOK) and that every request that is not answered is on the line *)
(* or under way (BooksOK); LossExplained needs that the connection the   *)
(* relay writes to is that of the client that connected last.            *)
(*************************************************************************)
EXTENDS OldScs, FiniteSetTheorems, SequenceTheorems, TLAPS

(* The empty sequence is one over every set and has no elements.             *)
LEMMA EmptyRange ==
  ASSUME NEW S PROVE <<>> \in Seq(S) /\ Range(<<>>) = {}
BY DEF Range

(* What Append does to the elements of a sequence.                           *)
LEMMA AppendRange ==
  ASSUME NEW S, NEW s \in Seq(S), NEW x \in S
  PROVE  Append(s, x) \in Seq(S) /\ Range(Append(s, x)) = Range(s) \cup {x}
<1>1. \A i \in DOMAIN s : Append(s, x)[i] = s[i]
  OBVIOUS
<1>2. Append(s, x)[Len(s) + 1] = x /\ Len(s) + 1 \in DOMAIN Append(s, x)
  OBVIOUS
<1>3. DOMAIN Append(s, x) = DOMAIN s \cup {Len(s) + 1}
  OBVIOUS
<1> QED
  BY <1>1, <1>2, <1>3 DEF Range

(* What Head and Tail take from them.                                        *)
LEMMA TailRange ==
  ASSUME NEW S, NEW s \in Seq(S), s # <<>>
  PROVE  /\ Head(s) \in S /\ Tail(s) \in Seq(S)
         /\ Range(s) \subseteq Range(Tail(s)) \cup {Head(s)}
<1>1. Head(s) \in S /\ Tail(s) \in Seq(S) /\ Head(s) = s[1]
  OBVIOUS
<1>2. \A i \in DOMAIN s : i # 1 => /\ i - 1 \in DOMAIN Tail(s)
                                   /\ Tail(s)[i - 1] = s[i]
  OBVIOUS
<1>3. ASSUME NEW x \in Range(s) PROVE x \in Range(Tail(s)) \cup {Head(s)}
  <2>1. PICK i \in DOMAIN s : x = s[i]
    BY DEF Range
  <2>2. CASE i # 1
    BY <1>2, <2>1, <2>2 DEF Range
  <2> QED
    BY <1>1, <2>1, <2>2
<1> QED
  BY <1>1, <1>3

------------------------------------------------------------------------------
(* Where the thread is                                                       *)

(* The thread sleeps without a lock; awake it holds serialLock, and ipLock   *)
(* with a message it has taken; the status says what it is at.               *)
ThreadOK ==
  /\ thread = "asleep" <=> ~serialLock
  /\ thread = "popped" <=> ipLock
  /\ thread = "sent" => status = "sending"
  /\ thread = "popped" => status = "receiving"
  /\ thread = "replied" => status # "idle"
  /\ thread # "popped" => popped = <<>>

(* Requests are taken while the thread sleeps, and its own steps go from one *)
(* state to the next.                                                        *)
LEMMA NextThreadOK == SimulatorTypeOK /\ ThreadOK /\ [Next]_vars => ThreadOK'
<1> SUFFICES ASSUME SimulatorTypeOK, ThreadOK, [Next]_vars PROVE ThreadOK'
  OBVIOUS
<1> USE DEF SimulatorTypeOK, ThreadOK, simVars
<1>1. CASE UNCHANGED <<simVars, ipLock, popped>>
  BY <1>1, Zenon
<1>2. CASE Reactor
  <2>1. /\ ~serialLock
        /\ UNCHANGED <<serialLock, thread, ipLock, popped>>
    BY <1>2 DEF Reactor, SendRequest, ReceiveRequest, StatusRequest,
      TakeRequest, rxVars
  <2>2. thread = "asleep"
    BY <2>1, Zenon
  <2> QED
    BY <2>1, <2>2, Zenon
<1>3. CASE RunSending
  <2>1. /\ thread = "asleep" /\ status = "sending"
        /\ thread' = "sent" /\ serialLock' = TRUE
        /\ UNCHANGED <<status, ipLock, popped>>
    BY <1>3 DEF RunSending, TellSent, rxVars
  <2> QED
    BY <2>1
<1>4. CASE Submit
  <2>1. /\ thread = "sent" /\ ~ipLock
        /\ thread' = "replied"
        /\ UNCHANGED <<status, serialLock, ipLock, popped>>
    BY <1>4 DEF Submit, rxVars
  <2> QED
    BY <2>1
<1>5. CASE RunReceiving
  <2>1. /\ thread = "asleep" /\ status = "receiving" /\ serialLock' = TRUE
        /\ UNCHANGED status
        /\ \/ thread' = "popped" /\ ipLock' = TRUE
           \/ thread' = "replied" /\ UNCHANGED <<ipLock, popped>>
    BY <1>5 DEF RunReceiving
  <2> QED
    BY <2>1
<1>6. CASE Reply
  <2>1. /\ thread = "popped" /\ thread' = "replied"
        /\ popped' = <<>> /\ ipLock' = FALSE
        /\ UNCHANGED <<status, serialLock>>
    BY <1>6 DEF Reply
  <2> QED
    BY <2>1
<1>7. CASE Release
  <2>1. /\ thread = "replied" /\ thread' = "asleep" /\ serialLock' = FALSE
        /\ UNCHANGED <<ipLock, popped>>
    BY <1>7 DEF Release, rxVars
  <2> QED
    BY <2>1
<1>8. ASSUME NEW k \in Clients, Ground(k) PROVE ThreadOK'
  BY <1>1, <1>8 DEF Ground, ConnectionMade, ConnectionLost, Closed, FromQgc,
    DataReceived, rxVars
<1>9. CASE \E chunk \in mtWire : ReceivedRelay(chunk) \/ MtLost(chunk)
  BY <1>1, <1>9 DEF ReceivedRelay, MtLost, rxVars
<1>10. CASE \/ \E t \in moWire : MoMsgCallback(t) \/ MoLost(t)
            \/ \E r \in Requests : Ask(r)
            \/ UNCHANGED vars
  BY <1>1, <1>10 DEF MoMsgCallback, MoLost, Ask, rxVars, vars
<1> QED
  BY <1>2, <1>3, <1>4, <1>5, <1>6, <1>7, <1>8, <1>9, <1>10 DEF Next, Run

------------------------------------------------------------------------------
(* TypeOK                                                                    *)

(* What the ground writes is a sequence of cells, and so is every read.      *)
LEMMA WholeType == ASSUME NEW c \in Commands PROVE Whole(c) \in Seq(Cells)
<1>1. <<c, "head">> \in Cells /\ <<c, "tail">> \in Cells
  BY DEF Cells
<1> QED
  BY <1>1 DEF Whole

LEMMA ReadType ==
  ASSUME NEW s \in Seq(Cells), NEW n \in 1..Len(s)
  PROVE  SubSeq(s, 1, n) \in Seq(Cells) /\ SubSeq(s, n + 1, Len(s)) \in Seq(Cells)
OBVIOUS

(* The relay holds sequences of cells and telemetry.                         *)
LEMMA NextRelayTypeOK == TypeOK /\ ThreadOK /\ [Next]_vars => RelayTypeOK'
<1> SUFFICES ASSUME TypeOK, ThreadOK, [Next]_vars PROVE RelayTypeOK'
  OBVIOUS
<1> USE DEF TypeOK, RelayTypeOK, groundVars, mtVars, moVars
<1>1. ASSUME NEW k \in Clients, Ground(k) PROVE RelayTypeOK'
  <2>1. CASE ConnectionMade(k)
    BY <2>1 DEF ConnectionMade
  <2>2. CASE ConnectionLost(k)
    BY <2>2, EmptyRange DEF ConnectionLost, Closed
  <2>3. ASSUME NEW c \in Commands, FromQgc(k, c) PROVE RelayTypeOK'
    <3>1. stream[k] \o Whole(c) \in Seq(Cells)
      BY WholeType
    <3> QED
      BY <2>3, <3>1 DEF FromQgc
  <2>4. CASE DataReceived(k)
    <3>1. PICK n \in 1..Len(stream[k]) :
            /\ stream' = [stream EXCEPT ![k] =
                            SubSeq(stream[k], n + 1, Len(stream[k]))]
            /\ mtWire' = mtWire \cup {SubSeq(stream[k], 1, n)}
      BY <2>4 DEF DataReceived
    <3>2. /\ SubSeq(stream[k], n + 1, Len(stream[k])) \in Seq(Cells)
          /\ SubSeq(stream[k], 1, n) \in Seq(Cells)
      BY ReadType
    <3>3. UNCHANGED <<groundVars, sent, moVars>>
      BY <2>4 DEF DataReceived
    <3> QED
      BY <3>1, <3>2, <3>3
  <2> QED
    BY <1>1, <2>1, <2>2, <2>3, <2>4 DEF Ground
<1>2. ASSUME NEW chunk \in mtWire, ReceivedRelay(chunk) \/ MtLost(chunk)
      PROVE  RelayTypeOK'
  BY <1>2 DEF ReceivedRelay, MtLost
<1>3. ASSUME NEW t \in moWire, MoMsgCallback(t) \/ MoLost(t)
      PROVE  RelayTypeOK'
  BY <1>3 DEF MoMsgCallback, MoLost
<1>4. CASE Submit
  <2>1. serialRx \in Telemetry
    BY <1>4, Zenon DEF Submit, ThreadOK, SimulatorTypeOK
  <2> QED
    BY <1>4, <2>1 DEF Submit
<1>5. CASE UNCHANGED <<groundVars, mtVars, moVars>>
  BY <1>5
<1>6. CASE (\E r \in Requests : Ask(r)) \/ Reactor \/ UNCHANGED vars
  BY <1>5, <1>6 DEF Ask, Reactor, SendRequest, ReceiveRequest, StatusRequest,
    TakeRequest, vars
<1>7. CASE RunSending \/ RunReceiving \/ Reply \/ Release
  BY <1>5, <1>7 DEF RunSending, TellSent, RunReceiving, Reply, Release
<1> QED
  BY <1>1, <1>2, <1>3, <1>4, <1>6, <1>7 DEF Next, Run

(* Kinds are kinds, and requests are of one of them.                         *)
LEMMA RequestType ==
  ASSUME NEW r \in Requests
  PROVE  r.kind \in Kinds /\ (r.kind = "send" => r.msg \in Telemetry)
BY DEF Requests, Kinds

(* An answer is one more of its kind.                                        *)
LEMMA AnswerType ==
  ASSUME LineTypeOK, NEW kind \in Kinds, Answer(kind)
  PROVE  /\ answered' \in [Kinds -> Nat]
         /\ answered'[kind] = answered[kind] + 1
         /\ \A k \in Kinds \ {kind} : answered'[k] = answered[k]
<1>1. answered \in [Kinds -> Nat] /\ answered[kind] + 1 \in Nat
  BY DEF LineTypeOK
<1>2. answered' = [answered EXCEPT ![kind] = answered[kind] + 1]
  BY DEF Answer
<1> QED
  BY <1>1, <1>2, Zenon

(* Requests are put on the line and taken off it, and answers are counted.   *)
LEMMA NextLineTypeOK == LineTypeOK /\ [Next]_vars => LineTypeOK'
<1> SUFFICES ASSUME LineTypeOK, [Next]_vars PROVE LineTypeOK'
  OBVIOUS
<1> USE DEF LineTypeOK
<1>0. "send" \in Kinds /\ "receive" \in Kinds /\ "status" \in Kinds
  BY DEF Kinds
<1>1. CASE UNCHANGED <<line, asked, answered>>
  BY <1>1
<1>2. ASSUME NEW r \in Requests, Ask(r) PROVE LineTypeOK'
  <2>1. line' \in Seq(Requests)
    BY <1>2, AppendRange DEF Ask
  <2>2. asked' \in [Kinds -> Nat] /\ answered' = answered
    BY <1>2, RequestType DEF Ask
  <2> QED
    BY <2>1, <2>2
<1>3. CASE Reactor
  <2>1. PICK kind \in Kinds :
          /\ line # <<>> /\ line' = Tail(line)
          /\ UNCHANGED asked
          /\ Answer(kind) \/ UNCHANGED answered
    BY <1>0, <1>3 DEF Reactor, SendRequest, ReceiveRequest, StatusRequest,
      TakeRequest
  <2>2. line' \in Seq(Requests)
    BY <2>1, TailRange
  <2>3. answered' \in [Kinds -> Nat]
    BY <2>1, AnswerType
  <2> QED
    BY <2>1, <2>2, <2>3
<1>4. CASE Run
  <2>1. /\ UNCHANGED <<line, asked>>
        /\ \/ UNCHANGED answered
           \/ \E kind \in Kinds : Answer(kind)
    BY <1>0, <1>4 DEF Run, RunSending, TellSent, Submit, RunReceiving, Reply,
      Release, hostVars
  <2> QED
    BY <2>1, AnswerType
<1>5. ASSUME NEW k \in Clients, Ground(k) PROVE LineTypeOK'
  BY <1>1, <1>5 DEF Ground, ConnectionMade, ConnectionLost, Closed, FromQgc,
    DataReceived, hostVars
<1>6. CASE \E chunk \in mtWire : ReceivedRelay(chunk) \/ MtLost(chunk)
  BY <1>1, <1>6 DEF ReceivedRelay, MtLost, hostVars
<1>7. CASE (\E t \in moWire : MoMsgCallback(t) \/ MoLost(t)) \/ UNCHANGED vars
  BY <1>1, <1>7 DEF MoMsgCallback, MoLost, hostVars, vars
<1> QED
  BY <1>2, <1>3, <1>4, <1>5, <1>6, <1>7 DEF Next

(* A message is put into serialRx with the status; the buffer holds what came *)
(* from the relay.                                                           *)
LEMMA NextSimulatorTypeOK == TypeOK /\ ThreadOK /\ [Next]_vars => SimulatorTypeOK'
<1> SUFFICES ASSUME TypeOK, ThreadOK, [Next]_vars PROVE SimulatorTypeOK'
  OBVIOUS
<1> USE DEF TypeOK, SimulatorTypeOK, simVars
<1>1. CASE UNCHANGED <<simVars, udpRx, ipLock, popped>>
  BY <1>1
<1>2. CASE Reactor
  <2>1. line # <<>> /\ Head(line) \in Requests
    BY <1>2, TailRange DEF LineTypeOK, Reactor, SendRequest, ReceiveRequest,
      StatusRequest, TakeRequest
  <2>2. /\ UNCHANGED <<serialLock, thread, udpRx, ipLock, popped>>
        /\ \/ UNCHANGED <<status, serialRx>>
           \/ status' = "receiving" /\ UNCHANGED serialRx
           \/ status' = "sending" /\ serialRx' \in Telemetry
    BY <1>2, <2>1, RequestType DEF Reactor, SendRequest, ReceiveRequest,
      StatusRequest, TakeRequest, rxVars
  <2> QED
    BY <2>2
<1>3. CASE RunSending \/ Submit \/ Release
  <2>1. /\ serialLock' \in BOOLEAN /\ UNCHANGED <<ipLock, udpRx, popped, serialRx>>
    BY <1>3, Zenon DEF RunSending, TellSent, Submit, Release, rxVars
  <2>2. /\ thread' \in {"asleep", "sent", "popped", "replied"}
        /\ status' \in {"idle", status}
    BY <1>3 DEF RunSending, TellSent, Submit, Release
  <2> QED
    BY <2>1, <2>2
<1>4. CASE RunReceiving \/ Reply
  <2>1. udpRx' \in Seq(Seq(Cells)) /\ popped' \in Seq(Cells)
    <3>1. CASE RunReceiving
      <4>1. udpRx # <<>> => Head(udpRx) \in Seq(Cells) /\ Tail(udpRx) \in Seq(Seq(Cells))
        BY TailRange
      <4> QED
        BY <3>1, <4>1 DEF RunReceiving
    <3>2. CASE Reply
      <4>1. popped' = <<>> /\ UNCHANGED udpRx
        BY <3>2 DEF Reply
      <4> QED
        BY <4>1, EmptyRange
    <3> QED
      BY <1>4, <3>1, <3>2
  <2>2. serialLock' \in BOOLEAN /\ ipLock' \in BOOLEAN
    BY <1>4, Zenon DEF RunReceiving, Reply
  <2>3. /\ thread' \in {"popped", "replied"}
        /\ UNCHANGED <<status, serialRx>>
    BY <1>4 DEF RunReceiving, Reply
  <2> QED
    BY <2>1, <2>2, <2>3
<1>5. ASSUME NEW chunk \in mtWire, ReceivedRelay(chunk) \/ MtLost(chunk)
      PROVE  SimulatorTypeOK'
  <2>1. udpRx' \in Seq(Seq(Cells))
    <3>1. chunk \in Seq(Cells)
      BY DEF RelayTypeOK
    <3>2. Append(udpRx, chunk) \in Seq(Seq(Cells))
      BY <3>1, AppendRange
    <3>3. udpRx' = Append(udpRx, chunk) \/ udpRx' = udpRx
      BY <1>5 DEF ReceivedRelay, MtLost, rxVars
    <3> QED
      BY <3>2, <3>3
  <2>2. UNCHANGED <<simVars, ipLock, popped>>
    BY <1>5 DEF ReceivedRelay, MtLost, rxVars
  <2> QED
    BY <2>1, <2>2
<1>6. ASSUME NEW k \in Clients, Ground(k) PROVE SimulatorTypeOK'
  BY <1>1, <1>6 DEF Ground, ConnectionMade, ConnectionLost, Closed, FromQgc,
    DataReceived, rxVars
<1>7. CASE \/ \E t \in moWire : MoMsgCallback(t) \/ MoLost(t)
           \/ \E r \in Requests : Ask(r)
           \/ UNCHANGED vars
  BY <1>1, <1>7 DEF MoMsgCallback, MoLost, Ask, rxVars, vars
<1> QED
  BY <1>2, <1>3, <1>4, <1>5, <1>6, <1>7 DEF Next, Run

(* The elements of a read are cells, and the commands in it commands.        *)
LEMMA CommandsInType ==
  ASSUME NEW s \in Seq(Cells) PROVE CommandsIn(s) \subseteq Commands
<1>1. \A cell \in Range(s) : cell \in Cells
  BY DEF Range
<1> QED
  BY <1>1 DEF CommandsIn, Cells

(* Histories collect messages.                                               *)
LEMMA NextHistoryTypeOK == TypeOK /\ ThreadOK /\ [Next]_vars => HistoryTypeOK'
<1> SUFFICES ASSUME TypeOK, ThreadOK, [Next]_vars PROVE HistoryTypeOK'
  OBVIOUS
<1> USE DEF TypeOK, HistoryTypeOK
<1>1. CASE UNCHANGED <<sent, delivered, accepted, forwarded, hit, impatient>>
  BY <1>1, Zenon
<1>2. ASSUME NEW k \in Clients, Ground(k) PROVE HistoryTypeOK'
  <2>1. CASE ConnectionMade(k)
    BY <1>1, <2>1 DEF ConnectionMade, mtVars, moVars, rxVars, hostVars
  <2>2. CASE ConnectionLost(k)
    <3>1. CommandsIn(stream[k]) \subseteq Commands
      BY CommandsInType DEF RelayTypeOK
    <3>2. hit' = hit \cup CommandsIn(stream[k])
      BY <2>2 DEF ConnectionLost, Closed
    <3>3. UNCHANGED <<sent, delivered, accepted, forwarded, impatient>>
      BY <2>2 DEF ConnectionLost, Closed, moVars, rxVars, hostVars
    <3> QED
      BY <3>1, <3>2, <3>3, Zenon
  <2>3. ASSUME NEW c \in Commands, FromQgc(k, c) PROVE HistoryTypeOK'
    <3>1. sent' = sent \cup {c} /\ hit' \subseteq hit \cup {c}
      BY <2>3 DEF FromQgc
    <3>2. UNCHANGED <<delivered, accepted, forwarded, impatient>>
      BY <2>3 DEF FromQgc, moVars, rxVars, hostVars
    <3> QED
      BY <3>1, <3>2, Zenon
  <2>4. CASE DataReceived(k)
    <3>1. PICK n \in 1..Len(stream[k]) :
            hit' \subseteq hit \cup CommandsIn(SubSeq(stream[k], 1, n))
      BY <2>4 DEF DataReceived
    <3>2. CommandsIn(SubSeq(stream[k], 1, n)) \subseteq Commands
      BY ReadType, CommandsInType DEF RelayTypeOK
    <3>3. UNCHANGED <<sent, delivered, accepted, forwarded, impatient>>
      BY <2>4 DEF DataReceived, moVars, rxVars, hostVars
    <3> QED
      BY <3>1, <3>2, <3>3, Zenon
  <2> QED
    BY <1>2, <2>1, <2>2, <2>3, <2>4 DEF Ground
<1>3. ASSUME NEW chunk \in mtWire, ReceivedRelay(chunk) \/ MtLost(chunk)
      PROVE  HistoryTypeOK'
  <2>1. CommandsIn(chunk) \subseteq Commands
    BY CommandsInType DEF RelayTypeOK
  <2>2. /\ hit' \subseteq hit \cup CommandsIn(chunk)
        /\ UNCHANGED <<sent, delivered, accepted, forwarded, impatient>>
    BY <1>3 DEF ReceivedRelay, MtLost, moVars, rxVars, hostVars
  <2> QED
    BY <2>1, <2>2, Zenon
<1>4. ASSUME NEW t \in moWire, MoMsgCallback(t) \/ MoLost(t)
      PROVE  HistoryTypeOK'
  <2>1. /\ forwarded' \subseteq forwarded \cup {t} /\ hit' \subseteq hit \cup {t}
        /\ UNCHANGED <<sent, delivered, accepted, impatient>>
    BY <1>4 DEF MoMsgCallback, MoLost, mtVars, rxVars, hostVars
  <2> QED
    BY <2>1, Zenon DEF RelayTypeOK
<1>5. ASSUME NEW r \in Requests, Ask(r) PROVE HistoryTypeOK'
  <2>1. /\ impatient' \in BOOLEAN
        /\ UNCHANGED <<sent, delivered, accepted, forwarded, hit>>
    BY <1>5, Zenon DEF Ask, mtVars, moVars, rxVars
  <2> QED
    BY <2>1, Zenon
<1>6. CASE Reactor \/ UNCHANGED vars
  BY <1>1, <1>6 DEF Reactor, SendRequest, ReceiveRequest, StatusRequest,
    TakeRequest, mtVars, moVars, rxVars, hostVars, vars
<1>7. CASE RunSending
  <2>1. /\ accepted' = accepted \cup {serialRx} /\ serialRx \in Telemetry
        /\ UNCHANGED <<sent, delivered, forwarded, hit, impatient>>
    BY <1>7 DEF RunSending, TellSent, SimulatorTypeOK, mtVars, moVars, rxVars,
      hostVars
  <2> QED
    BY <2>1, Zenon
<1>8. CASE Reply
  <2>1. CommandsIn(popped) \subseteq Commands
    BY CommandsInType DEF SimulatorTypeOK
  <2>2. /\ delivered' \subseteq delivered \cup CommandsIn(popped)
        /\ UNCHANGED <<sent, accepted, forwarded, hit, impatient>>
    BY <1>8 DEF Reply, mtVars, moVars, hostVars
  <2> QED
    BY <2>1, <2>2, Zenon
<1>9. CASE Submit \/ RunReceiving \/ Release
  BY <1>1, <1>9 DEF Submit, RunReceiving, Release, mtVars, moVars, rxVars,
    hostVars
<1> QED
  BY <1>2, <1>3, <1>4, <1>5, <1>6, <1>7, <1>8, <1>9 DEF Next, Run

(* The parts of TypeOK together, with ThreadOK.                              *)
LEMMA NextTypeOK == TypeOK /\ ThreadOK /\ [Next]_vars => TypeOK'
BY NextRelayTypeOK, NextLineTypeOK, NextSimulatorTypeOK, NextHistoryTypeOK
  DEF TypeOK

------------------------------------------------------------------------------
(* RepliesMatch                                                              *)

(* The places of requests of a kind on the line.                             *)
OfKind(s, k) == {i \in DOMAIN s : s[i].kind = k}

OnLine(k) == Cardinality(OfKind(line, k))

(* A request that is taken and not answered yet.                             *)
UnderWay(k) ==
  IF \/ k = "send" /\ status = "sending" /\ thread = "asleep"
     \/ k = "receive" /\ status = "receiving" /\ thread \in {"asleep", "popped"}
    THEN 1 ELSE 0

(* Every request is answered, on the line or under way; and if the autopilot *)
(* has waited for each answer, one at most is not answered.                  *)
BooksOK == \A k \in Kinds : asked[k] = answered[k] + OnLine(k) + UnderWay(k)

PatientOK ==
  ~impatient => asked["send"] + asked["receive"] + asked["status"]
                  <= answered["send"] + answered["receive"] + answered["status"] + 1

(* The line is finite.                                                       *)
LEMMA OfKindFinite ==
  ASSUME NEW s \in Seq(Requests), NEW k
  PROVE  IsFiniteSet(OfKind(s, k)) /\ Cardinality(OfKind(s, k)) \in Nat
<1>1. OfKind(s, k) \subseteq 1..Len(s)
  BY DEF OfKind
<1>2. IsFiniteSet(1..Len(s))
  BY FS_Interval
<1>3. IsFiniteSet(OfKind(s, k))
  BY <1>1, <1>2, FS_Subset
<1> QED
  BY <1>3, FS_CardinalityType

(* A request that is put on the line is one more of its kind.                *)
LEMMA OfKindAppend ==
  ASSUME NEW s \in Seq(Requests), NEW r \in Requests, NEW k
  PROVE  Cardinality(OfKind(Append(s, r), k))
           = Cardinality(OfKind(s, k)) + IF r.kind = k THEN 1 ELSE 0
<1> DEFINE n == Len(s) + 1
<1>1. /\ DOMAIN Append(s, r) = DOMAIN s \cup {n} /\ n \notin DOMAIN s
      /\ Append(s, r)[n] = r
      /\ \A i \in DOMAIN s : Append(s, r)[i] = s[i]
  OBVIOUS
<1>2. IsFiniteSet(OfKind(s, k)) /\ Cardinality(OfKind(s, k)) \in Nat
  BY OfKindFinite
<1>3. n \notin OfKind(s, k)
  BY <1>1 DEF OfKind
<1> HIDE DEF n
<1>4. CASE r.kind = k
  <2>1. OfKind(Append(s, r), k) = OfKind(s, k) \cup {n}
    BY <1>1, <1>4 DEF OfKind
  <2> QED
    BY <1>2, <1>3, <1>4, <2>1, FS_AddElement
<1>5. CASE r.kind # k
  <2>1. OfKind(Append(s, r), k) = OfKind(s, k)
    BY <1>1, <1>5 DEF OfKind
  <2> QED
    BY <1>2, <1>5, <2>1
<1> QED
  BY <1>4, <1>5

(* A request that is taken off is one less, and the others move up.          *)
LEMMA OfKindTail ==
  ASSUME NEW s \in Seq(Requests), s # <<>>, NEW k
  PROVE  Cardinality(OfKind(s, k))
           = Cardinality(OfKind(Tail(s), k)) + IF Head(s).kind = k THEN 1 ELSE 0
<1> DEFINE S == OfKind(Tail(s), k)
           T == OfKind(s, k) \ {1}
           f == [i \in S |-> i + 1]
<1>1. /\ 1 \in DOMAIN s /\ Head(s) = s[1] /\ Tail(s) \in Seq(Requests)
      /\ \A i \in DOMAIN Tail(s) : /\ i \in Nat /\ i + 1 \in DOMAIN s /\ i + 1 # 1
                                  /\ Tail(s)[i] = s[i + 1]
      /\ \A j \in DOMAIN s : j # 1 => /\ j \in Nat /\ j - 1 \in DOMAIN Tail(s)
                                     /\ Tail(s)[j - 1] = s[j]
  OBVIOUS
<1>2. f \in [S -> T]
  BY <1>1 DEF OfKind
<1>3. \A i, j \in S : f[i] = f[j] => i = j
  BY <1>1 DEF OfKind
<1>4. \A j \in T : \E i \in S : f[i] = j
  <2> TAKE j \in T
  <2>1. j - 1 \in S /\ j \in Nat
    BY <1>1 DEF OfKind
  <2> QED
    BY <2>1
<1>5. IsFiniteSet(S) /\ Cardinality(S) \in Nat
  BY <1>1, OfKindFinite
<1>6. IsFiniteSet(OfKind(s, k)) /\ Cardinality(OfKind(s, k)) \in Nat
  BY OfKindFinite
<1>7. 1 \in OfKind(s, k) <=> Head(s).kind = k
  BY <1>1 DEF OfKind
<1> HIDE DEF S, T, f
<1>8. f \in Bijection(S, T)
  BY <1>2, <1>3, <1>4 DEF Bijection, Injection, Surjection, IsInjective
<1>9. Cardinality(T) = Cardinality(S)
  BY <1>5, <1>8, FS_Bijection DEF ExistsBijection
<1>10. Cardinality(T) = IF Head(s).kind = k THEN Cardinality(OfKind(s, k)) - 1
                                            ELSE Cardinality(OfKind(s, k))
  <2>1. Cardinality(T) = IF 1 \in OfKind(s, k) THEN Cardinality(OfKind(s, k)) - 1
                                                ELSE Cardinality(OfKind(s, k))
    BY <1>6, FS_RemoveElement DEF T
  <2> QED
    BY <1>7, <2>1
<1> QED
  BY <1>5, <1>6, <1>9, <1>10 DEF S

(* What Ask, TakeRequest and Answer do to the books.                         *)
LEMMA BooksType ==
  ASSUME LineTypeOK
  PROVE  \A k \in Kinds : /\ asked[k] \in Nat /\ answered[k] \in Nat
                          /\ OnLine(k) \in Nat /\ UnderWay(k) \in 0..1
BY OfKindFinite DEF LineTypeOK, OnLine, UnderWay

LEMMA AskBooks ==
  ASSUME LineTypeOK, NEW r \in Requests, Ask(r)
  PROVE  /\ r.kind \in Kinds
         /\ \A k \in Kinds : /\ asked'[k] = asked[k] + IF r.kind = k THEN 1 ELSE 0
                             /\ OnLine(k)' = OnLine(k) + IF r.kind = k THEN 1 ELSE 0
                             /\ UnderWay(k)' = UnderWay(k)
         /\ UNCHANGED answered
<1>1. r.kind \in Kinds
  BY RequestType
<1>2. /\ asked' = [asked EXCEPT ![r.kind] = asked[r.kind] + 1]
      /\ line' = Append(line, r)
      /\ UNCHANGED <<answered, status, thread>>
  BY DEF Ask, simVars
<1>3. \A k \in Kinds : asked'[k] = asked[k] + IF r.kind = k THEN 1 ELSE 0
  BY <1>1, <1>2 DEF LineTypeOK
<1>4. \A k \in Kinds : OnLine(k)' = OnLine(k) + IF r.kind = k THEN 1 ELSE 0
  BY <1>2, OfKindAppend DEF OnLine, LineTypeOK
<1>5. \A k \in Kinds : UnderWay(k)' = UnderWay(k)
  BY <1>2 DEF UnderWay
<1> QED
  BY <1>1, <1>2, <1>3, <1>4, <1>5

LEMMA TakeBooks ==
  ASSUME LineTypeOK, NEW kind \in Kinds, TakeRequest(kind)
  PROVE  \A k \in Kinds :
           OnLine(k) = OnLine(k)' + IF k = kind THEN 1 ELSE 0
<1>1. line # <<>> /\ Head(line).kind = kind /\ line' = Tail(line)
  BY DEF TakeRequest
<1> QED
  BY <1>1, OfKindTail DEF OnLine, LineTypeOK

(* A request is taken when it is answered or gets under way, and what is     *)
(* under way is answered once.                                               *)
LEMMA NextBooksOK == TypeOK /\ ThreadOK /\ BooksOK /\ [Next]_vars => BooksOK'
<1> SUFFICES ASSUME TypeOK, ThreadOK, BooksOK, [Next]_vars PROVE BooksOK'
  OBVIOUS
<1>0. LineTypeOK /\ LineTypeOK'
  BY NextLineTypeOK DEF TypeOK
<1>a. /\ \A k \in Kinds : /\ asked[k] \in Nat /\ answered[k] \in Nat
                          /\ OnLine(k) \in Nat /\ UnderWay(k) \in 0..1
      /\ \A k \in Kinds : /\ OnLine(k)' \in Nat /\ UnderWay(k)' \in 0..1
  <2>1. LineTypeOK' => \A k \in Kinds : OnLine(k)' \in Nat
    BY OfKindFinite DEF LineTypeOK, OnLine
  <2>2. \A k \in Kinds : UnderWay(k)' \in 0..1
    BY DEF UnderWay
  <2> QED
    BY <1>0, <2>1, <2>2, BooksType
<1>b. /\ "send" \in Kinds /\ "receive" \in Kinds /\ "status" \in Kinds
      /\ \A k \in Kinds : k \in {"send", "receive", "status"}
  BY DEF Kinds
<1>1. CASE UNCHANGED <<asked, answered, line, status, thread>>
  BY <1>1 DEF BooksOK, OnLine, UnderWay
<1>2. ASSUME NEW r \in Requests, Ask(r) PROVE BooksOK'
  <2>1. /\ \A k \in Kinds : /\ asked'[k] = asked[k] + IF r.kind = k THEN 1 ELSE 0
                            /\ OnLine(k)' = OnLine(k) + IF r.kind = k THEN 1 ELSE 0
                            /\ UnderWay(k)' = UnderWay(k)
        /\ UNCHANGED answered
    BY <1>0, <1>2, AskBooks
  <2> QED
    BY <1>a, <2>1 DEF BooksOK
<1>3. CASE Reactor
  <2>1. PICK kind \in Kinds :
          /\ TakeRequest(kind)
          /\ \/ kind = "send" /\ status' = "sending" /\ UNCHANGED answered
                /\ status = "idle"
             \/ kind = "receive" /\ status' = "receiving" /\ UNCHANGED answered
                /\ status = "idle"
             \/ Answer(kind) /\ UNCHANGED status
    BY <1>3, <1>b DEF Reactor, SendRequest, ReceiveRequest, StatusRequest
  <2>2. \A k \in Kinds : OnLine(k) = OnLine(k)' + IF k = kind THEN 1 ELSE 0
    BY <1>0, <2>1, TakeBooks
  <2>3. UNCHANGED <<asked, thread>> /\ thread = "asleep"
    <3>1. ~serialLock /\ UNCHANGED <<asked, thread>>
      BY <2>1 DEF TakeRequest
    <3> QED
      BY <3>1, Zenon DEF ThreadOK
  <2>4. CASE Answer(kind) /\ UNCHANGED status
    <3>1. \A k \in Kinds : answered'[k] = answered[k] + IF k = kind THEN 1 ELSE 0
      BY <1>0, <1>a, <2>4, AnswerType
    <3>2. \A k \in Kinds : UnderWay(k)' = UnderWay(k)
      BY <2>3, <2>4 DEF UnderWay
    <3> QED
      BY <1>a, <2>2, <2>3, <3>1, <3>2 DEF BooksOK
  <2>5. CASE /\ status = "idle" /\ UNCHANGED answered
             /\ \/ kind = "send" /\ status' = "sending"
                \/ kind = "receive" /\ status' = "receiving"
    <3>1. \A k \in Kinds : UnderWay(k) = 0 /\ UnderWay(k)' = IF k = kind THEN 1 ELSE 0
      BY <1>b, <2>3, <2>5 DEF UnderWay
    <3> QED
      BY <1>a, <2>2, <2>3, <2>5, <3>1 DEF BooksOK
  <2> QED
    BY <2>1, <2>4, <2>5
<1>4. CASE Submit \/ Release
  <2>1. /\ UNCHANGED <<asked, answered, line>>
        /\ thread \in {"sent", "replied"}
        /\ \/ thread' = "replied"
           \/ thread' = "asleep" /\ status' = "idle"
    BY <1>4 DEF Submit, Release, hostVars
  <2>2. \A k \in Kinds : UnderWay(k) = 0 /\ UnderWay(k)' = 0
    BY <2>1 DEF UnderWay
  <2>3. \A k \in Kinds : OnLine(k)' = OnLine(k)
    BY <2>1 DEF OnLine
  <2> QED
    BY <1>a, <2>1, <2>2, <2>3 DEF BooksOK
<1>5. ASSUME NEW kind \in Kinds, Answer(kind), UNCHANGED <<asked, line, status>>,
             \A k \in Kinds : UnderWay(k) = UnderWay(k)' + IF k = kind THEN 1 ELSE 0
      PROVE  BooksOK'
  <2>1. \A k \in Kinds : answered'[k] = answered[k] + IF k = kind THEN 1 ELSE 0
    BY <1>0, <1>5, <1>a, AnswerType
  <2>2. \A k \in Kinds : OnLine(k)' = OnLine(k)
    BY <1>5 DEF OnLine
  <2> QED
    BY <1>5, <1>a, <2>1, <2>2 DEF BooksOK
<1>6. CASE RunSending
  <2>1. /\ Answer("send") /\ UNCHANGED <<asked, line, status>>
        /\ status = "sending" /\ thread = "asleep" /\ thread' = "sent"
    BY <1>6 DEF RunSending, TellSent, hostVars
  <2>2. \A k \in Kinds : UnderWay(k) = UnderWay(k)' + IF k = "send" THEN 1 ELSE 0
    BY <2>1 DEF UnderWay
  <2> QED
    BY <1>5, <1>b, <2>1, <2>2
<1>7. CASE RunReceiving
  <2>1. /\ UNCHANGED <<asked, line, status>>
        /\ status = "receiving" /\ thread = "asleep"
        /\ \/ thread' = "popped" /\ UNCHANGED answered
           \/ thread' = "replied" /\ Answer("receive")
    BY <1>7 DEF RunReceiving, hostVars
  <2>2. CASE thread' = "popped" /\ UNCHANGED answered
    <3>1. \A k \in Kinds : UnderWay(k)' = UnderWay(k)
      BY <2>1, <2>2 DEF UnderWay
    <3>2. \A k \in Kinds : OnLine(k)' = OnLine(k)
      BY <2>1 DEF OnLine
    <3> QED
      BY <2>1, <2>2, <3>1, <3>2 DEF BooksOK
  <2>3. CASE thread' = "replied" /\ Answer("receive")
    <3>1. \A k \in Kinds : UnderWay(k) = UnderWay(k)' + IF k = "receive" THEN 1 ELSE 0
      BY <2>1, <2>3 DEF UnderWay
    <3> QED
      BY <1>5, <1>b, <2>1, <2>3, <3>1
  <2> QED
    BY <2>1, <2>2, <2>3
<1>8. CASE Reply
  <2>1. /\ Answer("receive") /\ UNCHANGED <<asked, line, status>>
        /\ thread = "popped" /\ thread' = "replied"
    BY <1>8 DEF Reply, hostVars
  <2>2. status = "receiving"
    BY <2>1 DEF ThreadOK
  <2>3. \A k \in Kinds : UnderWay(k) = UnderWay(k)' + IF k = "receive" THEN 1 ELSE 0
    BY <2>1, <2>2 DEF UnderWay
  <2> QED
    BY <1>5, <1>b, <2>1, <2>3
<1>9. ASSUME NEW k \in Clients, Ground(k) PROVE BooksOK'
  BY <1>1, <1>9 DEF Ground, ConnectionMade, ConnectionLost, Closed, FromQgc,
    DataReceived, simVars, hostVars
<1>10. CASE \E chunk \in mtWire : ReceivedRelay(chunk) \/ MtLost(chunk)
  BY <1>1, <1>10 DEF ReceivedRelay, MtLost, simVars, hostVars
<1>11. CASE (\E t \in moWire : MoMsgCallback(t) \/ MoLost(t)) \/ UNCHANGED vars
  BY <1>1, <1>11 DEF MoMsgCallback, MoLost, simVars, hostVars, vars
<1> QED
  BY <1>2, <1>3, <1>4, <1>6, <1>7, <1>8, <1>9, <1>10, <1>11 DEF Next, Run

(* A request that nothing is owed before is the only one; answers only help. *)
LEMMA NextPatientOK ==
  TypeOK /\ BooksOK /\ PatientOK /\ [Next]_vars => PatientOK'
<1> SUFFICES ASSUME TypeOK, BooksOK, PatientOK, [Next]_vars PROVE PatientOK'
  OBVIOUS
<1>0. LineTypeOK
  BY DEF TypeOK
<1>a. \A k \in Kinds : asked[k] \in Nat /\ answered[k] \in Nat
  BY <1>0, BooksType
<1>b. "send" \in Kinds /\ "receive" \in Kinds /\ "status" \in Kinds
  BY DEF Kinds
<1>1. CASE UNCHANGED <<asked, impatient, answered>>
  BY <1>1 DEF PatientOK
<1>2. ASSUME NEW r \in Requests, Ask(r) PROVE PatientOK'
  <2>1. /\ r.kind \in Kinds /\ UNCHANGED answered
        /\ \A k \in Kinds : asked'[k] = asked[k] + IF r.kind = k THEN 1 ELSE 0
    BY <1>0, <1>2, AskBooks
  <2>2. CASE Owed
    <3>1. impatient'
      BY <1>2, <2>2, Zenon DEF Ask
    <3> QED
      BY <3>1, Zenon DEF PatientOK
  <2>3. CASE ~Owed
    <3>1. \A k \in Kinds : asked[k] <= answered[k]
      BY <1>a, <2>3 DEF Owed
    <3>2. r.kind \in {"send", "receive", "status"}
      BY <2>1 DEF Kinds
    <3> QED
      BY <1>a, <1>b, <2>1, <3>1, <3>2 DEF PatientOK
  <2> QED
    BY <2>2, <2>3
<1>3. ASSUME NEW kind \in Kinds, Answer(kind), UNCHANGED <<asked, impatient>>
      PROVE  PatientOK'
  <2>1. \A k \in Kinds : answered'[k] \in Nat /\ answered'[k] >= answered[k]
    BY <1>0, <1>3, <1>a, AnswerType
  <2>2. /\ answered'["send"] >= answered["send"]
        /\ answered'["receive"] >= answered["receive"]
        /\ answered'["status"] >= answered["status"]
    BY <1>b, <2>1
  <2> QED
    BY <1>3, <1>a, <1>b, <2>1, <2>2 DEF PatientOK
<1>4. CASE Reactor
  <2>1. /\ UNCHANGED <<asked, impatient>>
        /\ UNCHANGED answered \/ \E kind \in Kinds : Answer(kind)
    BY <1>4, <1>b DEF Reactor, SendRequest, ReceiveRequest, StatusRequest,
      TakeRequest
  <2> QED
    BY <1>1, <1>3, <2>1
<1>5. CASE Run
  <2>1. /\ UNCHANGED <<asked, impatient>>
        /\ UNCHANGED answered \/ \E kind \in Kinds : Answer(kind)
    BY <1>5, <1>b DEF Run, RunSending, TellSent, Submit, RunReceiving, Reply,
      Release, hostVars
  <2> QED
    BY <1>1, <1>3, <2>1
<1>6. ASSUME NEW k \in Clients, Ground(k) PROVE PatientOK'
  BY <1>1, <1>6 DEF Ground, ConnectionMade, ConnectionLost, Closed, FromQgc,
    DataReceived, hostVars
<1>7. CASE \E chunk \in mtWire : ReceivedRelay(chunk) \/ MtLost(chunk)
  BY <1>1, <1>7 DEF ReceivedRelay, MtLost, hostVars
<1>8. CASE (\E t \in moWire : MoMsgCallback(t) \/ MoLost(t)) \/ UNCHANGED vars
  BY <1>1, <1>8 DEF MoMsgCallback, MoLost, hostVars, vars
<1> QED
  BY <1>2, <1>4, <1>5, <1>6, <1>7, <1>8 DEF Next

(* With the books balanced, a request on the line and one under way are two. *)
LEMMA BooksReplies == TypeOK /\ ThreadOK /\ BooksOK /\ PatientOK => RepliesMatch
<1> SUFFICES ASSUME TypeOK, ThreadOK, BooksOK, PatientOK PROVE RepliesMatch
  OBVIOUS
<1>0. LineTypeOK
  BY DEF TypeOK
<1>a. \A k \in Kinds : /\ asked[k] \in Nat /\ answered[k] \in Nat
                      /\ OnLine(k) \in Nat /\ UnderWay(k) \in 0..1
  BY <1>0, BooksType
<1>b. "send" \in Kinds /\ "receive" \in Kinds /\ "status" \in Kinds
  BY DEF Kinds
<1>c. \A k \in Kinds : asked[k] = answered[k] + OnLine(k) + UnderWay(k)
  BY DEF BooksOK
<1>1. \A k \in Kinds : answered[k] <= asked[k]
  BY <1>a, <1>c
<1>2. ASSUME ~impatient, line # <<>>, ~serialLock, status # "idle" PROVE FALSE
  <2>1. thread = "asleep"
    BY <1>2, Zenon DEF ThreadOK
  <2>2. status \in {"sending", "receiving"}
    BY <1>2 DEF TypeOK, SimulatorTypeOK
  <2>3. UnderWay("send") = 1 \/ UnderWay("receive") = 1
    BY <2>1, <2>2 DEF UnderWay
  <2>4. Head(line).kind \in {"send", "receive", "status"}
    BY <1>0, <1>2, TailRange, RequestType DEF LineTypeOK, Kinds
  <2>5. OnLine(Head(line).kind) >= 1
    <3>1. /\ Tail(line) \in Seq(Requests)
          /\ OnLine(Head(line).kind)
               = Cardinality(OfKind(Tail(line), Head(line).kind)) + 1
      BY <1>0, <1>2, OfKindTail, TailRange DEF LineTypeOK, OnLine
    <3>2. Cardinality(OfKind(Tail(line), Head(line).kind)) \in Nat
      BY <3>1, OfKindFinite
    <3> QED
      BY <3>1, <3>2
  <2>6. OnLine("send") + OnLine("receive") + OnLine("status") >= 1
    BY <1>a, <1>b, <2>4, <2>5
  <2>7. /\ asked["send"] = answered["send"] + OnLine("send") + UnderWay("send")
        /\ asked["receive"] = answered["receive"] + OnLine("receive")
                                + UnderWay("receive")
        /\ asked["status"] = answered["status"] + OnLine("status")
                                + UnderWay("status")
    BY <1>b, <1>c
  <2>8. asked["send"] + asked["receive"] + asked["status"]
          <= answered["send"] + answered["receive"] + answered["status"] + 1
    BY <1>2, Zenon DEF PatientOK
  <2> QED
    BY <1>a, <1>b, <2>3, <2>6, <2>7, <2>8
<1> QED
  BY <1>1, <1>2, Zenon DEF RepliesMatch

------------------------------------------------------------------------------
(* LossExplained                                                             *)

(* The two cells of a message.                                               *)
LEMMA WholeCells ==
  ASSUME NEW c \in Commands
  PROVE  /\ Whole(c) \in Seq(Cells) /\ Len(Whole(c)) = 2
         /\ Whole(c)[1] = <<c, "head">> /\ Whole(c)[2] = <<c, "tail">>
         /\ c \in CommandsIn(Whole(c))
<1>1. /\ Whole(c) \in Seq(Cells) /\ Len(Whole(c)) = 2
      /\ Whole(c)[1] = <<c, "head">> /\ Whole(c)[2] = <<c, "tail">>
      /\ 1 \in DOMAIN Whole(c)
  BY WholeType DEF Whole
<1>2. <<c, "head">> \in Range(Whole(c)) /\ <<c, "head">>[1] = c
  BY <1>1 DEF Range
<1> QED
  BY <1>1, <1>2 DEF CommandsIn

(* What is written after a command does not cut it.                          *)
LEMMA WriteKeeps ==
  ASSUME NEW s \in Seq(Cells), NEW d \in Commands
  PROVE  /\ InStream(s \o Whole(d), d)
         /\ \A c \in Commands : InStream(s, c) => InStream(s \o Whole(d), c)
<1> DEFINE w == Whole(d)
           z == s \o w
<1>1. w \in Seq(Cells) /\ Len(w) = 2 /\ w[1] = <<d, "head">> /\ w[2] = <<d, "tail">>
  BY WholeCells
<1> HIDE DEF w
<1>2. /\ Len(z) = Len(s) + 2
      /\ \A i \in 1..Len(s) : z[i] = s[i]
      /\ z[Len(s) + 1] = w[1] /\ z[Len(s) + 2] = w[2]
  <2>1. /\ Len(z) = Len(s) + Len(w)
        /\ \A i \in 1..(Len(s) + Len(w)) :
             z[i] = IF i <= Len(s) THEN s[i] ELSE w[i - Len(s)]
    BY <1>1, ConcatProperties
  <2> HIDE DEF z
  <2> QED
    BY <1>1, <2>1
<1> HIDE DEF z
<1>3. Len(s) + 1 \in 1..(Len(z) - 1) /\ Len(s) + 1 + 1 = Len(s) + 2
  BY <1>2
<1>4. InStream(z, d)
  BY <1>1, <1>2, <1>3 DEF InStream
<1>5. ASSUME NEW c \in Commands, InStream(s, c) PROVE InStream(z, c)
  <2>1. PICK i \in 1..(Len(s) - 1) : s[i] = <<c, "head">> /\ s[i + 1] = <<c, "tail">>
    BY <1>5 DEF InStream
  <2>2. i \in 1..Len(s) /\ i + 1 \in 1..Len(s) /\ i \in 1..(Len(z) - 1)
    BY <1>2
  <2> QED
    BY <1>2, <2>1, <2>2 DEF InStream
<1> QED
  BY <1>4, <1>5 DEF z, w

(* A command in a stream is one of the commands in it.                       *)
LEMMA InStreamIn ==
  ASSUME NEW s \in Seq(Cells), NEW c \in Commands, InStream(s, c)
  PROVE  c \in CommandsIn(s)
<1>1. PICK i \in 1..(Len(s) - 1) : s[i] = <<c, "head">>
  BY DEF InStream
<1>2. i \in DOMAIN s
  OBVIOUS
<1>3. <<c, "head">> \in Range(s) /\ <<c, "head">>[1] = c
  BY <1>1, <1>2 DEF Range
<1> QED
  BY <1>3 DEF CommandsIn

(* A read takes a command as it is, or leaves it, or has a part of it with   *)
(* what is no whole command.                                                 *)
LEMMA ReadKeeps ==
  ASSUME NEW s \in Seq(Cells), NEW n \in 1..Len(s), NEW c \in Commands,
         InStream(s, c)
  PROVE  \/ InStream(SubSeq(s, n + 1, Len(s)), c)
         \/ SubSeq(s, 1, n) = Whole(c)
         \/ /\ ~\E d \in Commands : SubSeq(s, 1, n) = Whole(d)
            /\ c \in CommandsIn(SubSeq(s, 1, n))
<1> DEFINE u == SubSeq(s, 1, n)
           v == SubSeq(s, n + 1, Len(s))
<1>1. PICK i \in 1..(Len(s) - 1) : s[i] = <<c, "head">> /\ s[i + 1] = <<c, "tail">>
  BY DEF InStream
<1>2. /\ u \in Seq(Cells) /\ Len(u) = n
      /\ \A j \in 1..n : j \in DOMAIN u /\ u[j] = s[j]
      /\ v \in Seq(Cells) /\ Len(v) = Len(s) - n
      /\ \A j \in 1..(Len(s) - n) : v[j] = s[j + n]
  OBVIOUS
<1> HIDE DEF u, v
<1>3. CASE i > n
  <2>1. /\ i - n \in 1..(Len(v) - 1)
        /\ i - n \in 1..(Len(s) - n) /\ (i - n) + 1 \in 1..(Len(s) - n)
        /\ (i - n) + n = i /\ ((i - n) + 1) + n = i + 1
    BY <1>2, <1>3
  <2>2. v[i - n] = <<c, "head">> /\ v[(i - n) + 1] = <<c, "tail">>
    BY <1>1, <1>2, <2>1
  <2>3. InStream(v, c)
    BY <2>1, <2>2 DEF InStream
  <2> QED
    BY <2>3 DEF v
<1>4. CASE i <= n
  <2>1. i \in 1..n /\ u[i] = <<c, "head">> /\ i \in DOMAIN u
    BY <1>1, <1>2, <1>4
  <2>2. c \in CommandsIn(u)
    <3>1. <<c, "head">> \in Range(u) /\ <<c, "head">>[1] = c
      BY <2>1 DEF Range
    <3> QED
      BY <3>1 DEF CommandsIn
  <2>3. ASSUME NEW d \in Commands, u = Whole(d) PROVE d = c
    <3>1. Len(u) = 2 /\ u[1] = <<d, "head">> /\ u[2] = <<d, "tail">>
      BY <2>3, WholeCells
    <3>2. i = 1 \/ i = 2
      BY <1>2, <2>1, <3>1
    <3>3. <<d, "tail">> # <<c, "head">>
      OBVIOUS
    <3> QED
      BY <2>1, <3>1, <3>2, <3>3
  <2> QED
    BY <2>2, <2>3 DEF u
<1> QED
  BY <1>3, <1>4

CommandsKept == \A c \in sent \ (delivered \cup hit) : CommandOnItsWay(c)

TelemetryKept == \A t \in accepted \ hit : TelemetryOnItsWay(t)

(* The relay writes to the client that connected last.                       *)
LatestClient == prot = last

(* A command goes from a stream to the simulator in one piece, or a fault    *)
(* hits it.                                                                  *)
LEMMA NextCommandsKept ==
  TypeOK /\ ThreadOK /\ CommandsKept /\ [Next]_vars => CommandsKept'
<1> SUFFICES ASSUME TypeOK, ThreadOK, CommandsKept, [Next]_vars,
                    NEW c \in sent', c \notin delivered', c \notin hit'
             PROVE  CommandOnItsWay(c)'
  BY DEF CommandsKept
<1>0. /\ stream \in [Clients -> Seq(Cells)] /\ mtWire \subseteq Seq(Cells)
      /\ sent \subseteq Commands /\ udpRx \in Seq(Seq(Cells))
  BY DEF TypeOK, RelayTypeOK, SimulatorTypeOK, HistoryTypeOK
<1>a. ASSUME c \in sent, c \notin delivered, c \notin hit
      PROVE  \/ \E k \in Clients : InStream(stream[k], c)
             \/ Whole(c) \in mtWire \cup Range(udpRx) \cup {popped}
  BY <1>a DEF CommandsKept, CommandOnItsWay
<1>1. CASE UNCHANGED <<sent, stream, mtWire, udpRx, popped, delivered>>
           /\ hit \subseteq hit'
  BY <1>1, <1>a DEF CommandOnItsWay
<1>2. ASSUME NEW k \in Clients, ConnectionMade(k) PROVE CommandOnItsWay(c)'
  BY <1>1, <1>2 DEF ConnectionMade, mtVars, rxVars
<1>3. ASSUME NEW k \in Clients, ConnectionLost(k) PROVE CommandOnItsWay(c)'
  <2>1. /\ UNCHANGED <<sent, mtWire, udpRx, popped, delivered>>
        /\ hit' = hit \cup CommandsIn(stream[k])
        /\ \A j \in Clients : j # k => stream'[j] = stream[j]
    BY <1>0, <1>3 DEF ConnectionLost, Closed, rxVars
  <2>2. c \in sent /\ c \notin delivered /\ c \notin hit /\ c \in Commands
    BY <1>0, <2>1
  <2>3. CASE Whole(c) \in mtWire \cup Range(udpRx) \cup {popped}
    BY <2>1, <2>3 DEF CommandOnItsWay
  <2>4. ASSUME NEW j \in Clients, InStream(stream[j], c)
        PROVE  CommandOnItsWay(c)'
    <3>1. c \in CommandsIn(stream[j]) /\ c \notin CommandsIn(stream[k])
      BY <1>0, <2>1, <2>2, <2>4, InStreamIn
    <3> QED
      BY <2>1, <2>4, <3>1 DEF CommandOnItsWay
  <2> QED
    BY <1>a, <2>2, <2>3, <2>4
<1>4. ASSUME NEW k \in Clients, NEW d \in Commands, FromQgc(k, d)
      PROVE  CommandOnItsWay(c)'
  <2>1. /\ UNCHANGED <<mtWire, udpRx, popped, delivered>>
        /\ sent' = sent \cup {d}
    BY <1>4 DEF FromQgc, rxVars
  <2>2. CASE client[k] # "connected"
    <3>1. hit' = hit \cup {d} /\ UNCHANGED stream
      BY <1>4, <2>2 DEF FromQgc
    <3> QED
      BY <1>a, <2>1, <3>1 DEF CommandOnItsWay
  <2>3. CASE client[k] = "connected"
    <3>1. stream' = [stream EXCEPT ![k] = stream[k] \o Whole(d)] /\ UNCHANGED hit
      BY <1>4, <2>3 DEF FromQgc
    <3>2. /\ stream'[k] = stream[k] \o Whole(d)
          /\ \A j \in Clients : j # k => stream'[j] = stream[j]
      BY <1>0, <3>1
    <3>3. CASE c = d
      <4>1. InStream(stream'[k], c)
        BY <1>0, <3>2, <3>3, WriteKeeps
      <4> QED
        BY <4>1 DEF CommandOnItsWay
    <3>4. CASE c # d
      <4>1. c \in sent /\ c \notin delivered /\ c \notin hit /\ c \in Commands
        BY <1>0, <2>1, <3>1, <3>4
      <4>2. ASSUME NEW j \in Clients, InStream(stream[j], c)
            PROVE  InStream(stream'[j], c)
        <5>1. CASE j = k
          <6>1. InStream(stream[k], c) => InStream(stream[k] \o Whole(d), c)
            BY <1>0, <4>1, WriteKeeps
          <6> QED
            BY <3>2, <4>2, <5>1, <6>1
        <5> QED
          BY <3>2, <4>2, <5>1
      <4> QED
        BY <1>a, <2>1, <4>1, <4>2 DEF CommandOnItsWay
    <3> QED
      BY <3>3, <3>4
  <2> QED
    BY <2>2, <2>3
<1>5. ASSUME NEW k \in Clients, DataReceived(k) PROVE CommandOnItsWay(c)'
  <2>1. PICK n \in 1..Len(stream[k]) :
          /\ stream' = [stream EXCEPT ![k] = SubSeq(stream[k], n + 1, Len(stream[k]))]
          /\ mtWire' = mtWire \cup {SubSeq(stream[k], 1, n)}
          /\ hit' = IF \E d \in Commands : SubSeq(stream[k], 1, n) = Whole(d)
                      THEN hit ELSE hit \cup CommandsIn(SubSeq(stream[k], 1, n))
    BY <1>5 DEF DataReceived
  <2>2. UNCHANGED <<sent, udpRx, popped, delivered>>
    BY <1>5 DEF DataReceived, rxVars
  <2>3. c \in sent /\ c \notin delivered /\ c \notin hit /\ c \in Commands
    BY <1>0, <2>1, <2>2
  <2>4. CASE Whole(c) \in mtWire \cup Range(udpRx) \cup {popped}
    BY <2>1, <2>2, <2>4 DEF CommandOnItsWay
  <2>5. ASSUME NEW j \in Clients, InStream(stream[j], c)
        PROVE  CommandOnItsWay(c)'
    <3>1. CASE j # k
      <4>1. stream'[j] = stream[j]
        BY <1>0, <2>1, <3>1
      <4> QED
        BY <2>5, <4>1 DEF CommandOnItsWay
    <3>2. CASE j = k
      <4>1. stream'[k] = SubSeq(stream[k], n + 1, Len(stream[k]))
        BY <1>0, <2>1
      <4>2. \/ InStream(stream'[k], c)
            \/ SubSeq(stream[k], 1, n) = Whole(c)
            \/ /\ ~\E d \in Commands : SubSeq(stream[k], 1, n) = Whole(d)
               /\ c \in CommandsIn(SubSeq(stream[k], 1, n))
        BY <1>0, <2>3, <2>5, <3>2, <4>1, ReadKeeps
      <4> QED
        BY <2>1, <4>2 DEF CommandOnItsWay
    <3> QED
      BY <3>1, <3>2
  <2> QED
    BY <1>a, <2>3, <2>4, <2>5
<1>6. ASSUME NEW chunk \in mtWire, MtLost(chunk) PROVE CommandOnItsWay(c)'
  <2>1. /\ UNCHANGED <<sent, stream, udpRx, popped, delivered>>
        /\ mtWire' = mtWire \ {chunk} /\ hit' = hit \cup CommandsIn(chunk)
    BY <1>6 DEF MtLost, rxVars
  <2>2. c \in CommandsIn(Whole(c))
    BY <1>0, <2>1, WholeCells
  <2> QED
    BY <1>a, <2>1, <2>2 DEF CommandOnItsWay
<1>7. ASSUME NEW chunk \in mtWire, ReceivedRelay(chunk) PROVE CommandOnItsWay(c)'
  <2>1. /\ UNCHANGED <<sent, stream, popped, delivered, hit>>
        /\ mtWire' = mtWire \ {chunk} /\ udpRx' = Append(udpRx, chunk)
    BY <1>7 DEF ReceivedRelay
  <2>2. Range(udpRx') = Range(udpRx) \cup {chunk}
    BY <1>0, <2>1, AppendRange
  <2> QED
    BY <1>a, <2>1, <2>2 DEF CommandOnItsWay
<1>8. CASE RunReceiving
  <2>1. UNCHANGED <<sent, stream, mtWire, delivered, hit>>
    BY <1>8 DEF RunReceiving, mtVars
  <2>2. Whole(c) # <<>>
    <3>1. Len(Whole(c)) = 2
      BY <1>0, <2>1, WholeCells
    <3> QED
      BY <3>1
  <2>3. popped = <<>>
    BY <1>8 DEF RunReceiving, ThreadOK
  <2>4. \/ UNCHANGED <<udpRx, popped>>
        \/ popped' = Head(udpRx) /\ udpRx' = Tail(udpRx) /\ udpRx # <<>>
    BY <1>8 DEF RunReceiving
  <2>5. Range(udpRx) \cup {popped} \subseteq Range(udpRx') \cup {popped'} \cup {<<>>}
    BY <1>0, <2>3, <2>4, TailRange
  <2> QED
    BY <1>a, <2>1, <2>2, <2>5 DEF CommandOnItsWay
<1>9. CASE Reply
  <2>1. /\ UNCHANGED <<sent, stream, mtWire, udpRx, hit>>
        /\ delivered' = IF Decodes(popped) THEN delivered \cup CommandsIn(popped)
                                           ELSE delivered
    BY <1>9 DEF Reply, mtVars
  <2>2. c \in sent /\ c \notin delivered /\ c \notin hit /\ c \in Commands
    BY <1>0, <2>1
  <2>3. Whole(c) # popped
    <3>1. popped = Whole(c) => Decodes(popped) /\ c \in CommandsIn(popped)
      BY <2>2, WholeCells DEF Decodes
    <3> QED
      BY <2>1, <3>1
  <2> QED
    BY <1>a, <2>1, <2>2, <2>3 DEF CommandOnItsWay
<1>10. CASE \E t \in moWire : MoMsgCallback(t) \/ MoLost(t)
  <2>1. UNCHANGED <<sent, stream, mtWire, udpRx, popped, delivered>> /\ hit \subseteq hit'
    BY <1>10 DEF MoMsgCallback, MoLost, mtVars, rxVars
  <2> QED
    BY <1>1, <2>1
<1>11. CASE (\E r \in Requests : Ask(r)) \/ Reactor \/ UNCHANGED vars
  BY <1>1, <1>11 DEF Ask, Reactor, SendRequest, ReceiveRequest, StatusRequest,
    TakeRequest, mtVars, rxVars, vars
<1>12. CASE RunSending \/ Submit \/ Release
  BY <1>1, <1>12 DEF RunSending, TellSent, Submit, Release, mtVars, rxVars
<1> QED
  BY <1>2, <1>3, <1>4, <1>5, <1>6, <1>7, <1>8, <1>9, <1>10, <1>11, <1>12
    DEF Next, Ground, Run

(* The autopilot is told that a message is sent when the thread is about to  *)
(* send it; serialRx is that message until it is sent.                       *)
LEMMA NextTelemetryKept ==
  ThreadOK /\ LatestClient /\ TelemetryKept /\ [Next]_vars
    => TelemetryKept' /\ LatestClient'
<1> SUFFICES ASSUME ThreadOK, LatestClient, TelemetryKept, [Next]_vars
             PROVE  TelemetryKept' /\ LatestClient'
  OBVIOUS
<1> USE DEF TelemetryKept, TelemetryOnItsWay, LatestClient, groundVars, moVars
<1>1. CASE /\ UNCHANGED <<accepted, moWire, forwarded, thread, serialRx, prot, last>>
           /\ hit \subseteq hit'
  BY <1>1
<1>2. CASE RunSending
  <2>1. /\ thread' = "sent" /\ accepted' = accepted \cup {serialRx}
        /\ thread = "asleep"
        /\ UNCHANGED <<moWire, forwarded, serialRx, prot, last, hit>>
    BY <1>2 DEF RunSending, TellSent
  <2> QED
    BY <2>1
<1>3. CASE Submit
  BY <1>3 DEF Submit
<1>4. CASE RunReceiving \/ Reply \/ Release
  <2>1. /\ UNCHANGED <<accepted, moWire, forwarded, serialRx, prot, last, hit>>
        /\ thread # "sent"
    BY <1>4 DEF RunReceiving, Reply, Release
  <2> QED
    BY <2>1
<1>5. CASE Reactor
  <2>1. /\ UNCHANGED <<accepted, moWire, forwarded, prot, last, hit, thread>>
        /\ ~serialLock
    BY <1>5 DEF Reactor, SendRequest, ReceiveRequest, StatusRequest, TakeRequest
  <2>2. thread = "asleep"
    BY <2>1, Zenon DEF ThreadOK
  <2> QED
    BY <2>1, <2>2
<1>6. ASSUME NEW t \in moWire, MoMsgCallback(t) PROVE TelemetryKept' /\ LatestClient'
  BY <1>6 DEF MoMsgCallback, simVars
<1>7. ASSUME NEW t \in moWire, MoLost(t) PROVE TelemetryKept' /\ LatestClient'
  BY <1>7 DEF MoLost, simVars
<1>8. ASSUME NEW k \in Clients, ConnectionMade(k) PROVE TelemetryKept' /\ LatestClient'
  BY <1>8 DEF ConnectionMade, simVars
<1>9. ASSUME NEW k \in Clients, Ground(k), ~ConnectionMade(k)
      PROVE  TelemetryKept' /\ LatestClient'
  <2>1. /\ UNCHANGED <<accepted, moWire, forwarded, thread, serialRx, prot, last>>
        /\ hit \subseteq hit'
    BY <1>9 DEF Ground, ConnectionLost, Closed, FromQgc, DataReceived, simVars
  <2> QED
    BY <1>1, <2>1
<1>10. CASE \/ \E chunk \in mtWire : ReceivedRelay(chunk) \/ MtLost(chunk)
            \/ \E r \in Requests : Ask(r)
            \/ UNCHANGED vars
  <2>1. /\ UNCHANGED <<accepted, moWire, forwarded, thread, serialRx, prot, last>>
        /\ hit \subseteq hit'
    BY <1>10 DEF ReceivedRelay, MtLost, Ask, simVars, vars
  <2> QED
    BY <1>1, <2>1
<1> QED
  BY <1>2, <1>3, <1>4, <1>5, <1>6, <1>7, <1>8, <1>9, <1>10 DEF Next, Run

------------------------------------------------------------------------------
(* Theorems                                                                  *)

(* The inductive invariant.                                                  *)
IInv ==
  /\ TypeOK /\ ThreadOK
  /\ BooksOK /\ PatientOK
  /\ CommandsKept /\ TelemetryKept /\ LatestClient

(* Nothing has been sent or asked for at the start.                          *)
LEMMA InitIInv == Init => IInv
<1> SUFFICES ASSUME Init PROVE IInv
  OBVIOUS
<1>1. /\ <<>> \in Seq(Cells) /\ <<>> \in Seq(Seq(Cells)) /\ <<>> \in Seq(Requests)
  BY EmptyRange
<1>2. RelayTypeOK /\ LineTypeOK
  BY <1>1 DEF Init, RelayTypeOK, LineTypeOK
<1>3. SimulatorTypeOK
  BY <1>1 DEF Init, SimulatorTypeOK
<1>4. HistoryTypeOK
  BY DEF Init, HistoryTypeOK
<1>5. ThreadOK
  BY DEF Init, ThreadOK
<1>6. BooksOK
  <2>1. \A k \in Kinds : OfKind(line, k) = {}
    BY DEF Init, OfKind
  <2>2. \A k \in Kinds : OnLine(k) = 0 /\ UnderWay(k) = 0
    BY <2>1, FS_EmptySet DEF Init, OnLine, UnderWay
  <2> QED
    BY <2>2 DEF Init, BooksOK
<1>7. PatientOK
  BY DEF Init, PatientOK, Kinds
<1>8. CommandsKept /\ TelemetryKept /\ LatestClient
  BY DEF Init, CommandsKept, TelemetryKept, LatestClient
<1> QED
  BY <1>2, <1>3, <1>4, <1>5, <1>6, <1>7, <1>8 DEF IInv, TypeOK

(* The inductive invariant holds in every reachable state.                   *)
THEOREM Invariance == Spec => []IInv
<1>1. IInv /\ [Next]_vars => IInv'
  <2> SUFFICES ASSUME IInv, [Next]_vars PROVE IInv'
    OBVIOUS
  <2>1. /\ TypeOK /\ ThreadOK /\ BooksOK /\ PatientOK /\ SimulatorTypeOK
        /\ CommandsKept /\ TelemetryKept /\ LatestClient
    BY DEF IInv, TypeOK
  <2>2. TypeOK' /\ ThreadOK'
    BY <2>1, NextTypeOK, NextThreadOK
  <2>3. BooksOK' /\ PatientOK'
    BY <2>1, NextBooksOK, NextPatientOK
  <2>4. CommandsKept' /\ TelemetryKept' /\ LatestClient'
    BY <2>1, NextCommandsKept, NextTelemetryKept
  <2> QED
    BY <2>2, <2>3, <2>4 DEF IInv
<1> QED
  BY InitIInv, <1>1, PTL DEF Spec

(* Every variable of the old system keeps its type.                          *)
THEOREM TypeCorrect == Spec => []TypeOK
<1>1. IInv => TypeOK
  BY DEF IInv
<1> QED
  BY Invariance, <1>1, PTL

(* Whatever clients and connections come and go, what is lost is lost by a   *)
(* read that cuts or joins commands or by a connection.                      *)
THEOREM LossesExplained == Spec => []LossExplained
<1>1. IInv => LossExplained
  BY DEF IInv, CommandsKept, TelemetryKept, LossExplained
<1> QED
  BY Invariance, <1>1, PTL

(* No request is answered twice, and an autopilot that waits for its answers *)
(* never finds the simulator busy.                                           *)
THEOREM RepliesMatchRequests == Spec => []RepliesMatch
<1>1. IInv => RepliesMatch
  BY BooksReplies DEF IInv
<1> QED
  BY Invariance, <1>1, PTL
==============================================================================
