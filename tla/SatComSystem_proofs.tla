-------------------------- MODULE SatComSystem_proofs --------------------------
(*************************************************************************)
(* Proofs about SatComSystem, for any messages and any number of faults, *)
(* failures, posts and messages sent again.  Each property is            *)
(* strengthened by what it needs to know of the messages that are still  *)
(* under way, and kept by one lemma with a step for each action or group *)
(* of actions that can disturb it: BooksOK for the copies,               *)
(* CommandOrderOK and TelemetryOrderOK for the order, KeptOK for the     *)
(* losses.  GroundOK, what the client of udp2mqtt holds, and OneCopyOK,  *)
(* that a command which was not sent again is in one place on its way to *)
(* the gateway, serve them all.                                          *)
(*************************************************************************)
EXTENDS SatComSystem, FiniteSetTheorems, TLAPS

(* What Append does to the elements of a sequence.                           *)
LEMMA AppendRange ==
  ASSUME NEW S, NEW s \in Seq(S), NEW x \in S
  PROVE  Append(s, x) \in Seq(S) /\ Range(Append(s, x)) = Range(s) \cup {x}
<1>1. \A i \in DOMAIN s : Append(s, x)[i] = s[i]
  OBVIOUS
<1>2. Append(s, x)[Len(s) + 1] = x /\ Len(s) + 1 \in DOMAIN Append(s, x)
  OBVIOUS
<1>3. DOMAIN Append(s, x) = DOMAIN s \cup {Len(s) + 1}
  OBVIOUS
<1> QED
  BY <1>1, <1>2, <1>3 DEF Range

(* What Head and Tail take from them.                                        *)
LEMMA TailRange ==
  ASSUME NEW S, NEW s \in Seq(S), s # <<>>
  PROVE  /\ Head(s) \in S /\ Tail(s) \in Seq(S)
         /\ Range(s) = Range(Tail(s)) \cup {Head(s)}
<1>1. Head(s) \in S /\ Tail(s) \in Seq(S) /\ 1 \in DOMAIN s
  OBVIOUS
<1>2. \A i \in DOMAIN Tail(s) : i + 1 \in DOMAIN s /\ Tail(s)[i] = s[i + 1]
  OBVIOUS
<1>3. \A i \in DOMAIN s : i # 1 => /\ i - 1 \in DOMAIN Tail(s)
                                   /\ Tail(s)[i - 1] = s[i]
  OBVIOUS
<1>4. Head(s) = s[1]
  OBVIOUS
<1>5. ASSUME NEW x \in Range(s) PROVE x \in Range(Tail(s)) \cup {Head(s)}
  <2>1. PICK i \in DOMAIN s : x = s[i]
    BY DEF Range
  <2>2. CASE i # 1
    BY <1>3, <2>1, <2>2 DEF Range
  <2> QED
    BY <1>4, <2>1, <2>2
<1>6. ASSUME NEW x \in Range(Tail(s)) PROVE x \in Range(s)
  <2>1. PICK i \in DOMAIN Tail(s) : x = Tail(s)[i]
    BY DEF Range
  <2> QED
    BY <1>2, <2>1 DEF Range
<1>7. Head(s) \in Range(s)
  BY <1>1, <1>4 DEF Range
<1> QED
  BY <1>1, <1>5, <1>6, <1>7

(* A sequence of S has its elements in S.                                    *)
LEMMA RangeIn ==
  ASSUME NEW S, NEW s \in Seq(S) PROVE Range(s) \subseteq S
BY DEF Range

(* The empty sequence is one over every set and has no elements.             *)
LEMMA EmptyRange ==
  ASSUME NEW S PROVE <<>> \in Seq(S) /\ Range(<<>>) = {}
BY DEF Range

(* The places of an element in a sequence are finitely many.                 *)
LEMMA CountType ==
  ASSUME NEW S, NEW s \in Seq(S), NEW d
  PROVE  Count(s, d) \in Nat /\ IsFiniteSet({i \in DOMAIN s : s[i] = d})
<1>1. DOMAIN s = 1..Len(s) /\ Len(s) \in Nat
  OBVIOUS
<1>2. IsFiniteSet(DOMAIN s)
  BY <1>1, FS_Interval
<1>3. IsFiniteSet({i \in DOMAIN s : s[i] = d})
  BY <1>2, FS_Subset
<1> QED
  BY <1>3, FS_CardinalityType DEF Count

(* Append adds one to the count of its element and to no other.              *)
LEMMA CountAppend ==
  ASSUME NEW S, NEW s \in Seq(S), NEW c \in S, NEW d
  PROVE  Count(Append(s, c), d) = IF d = c THEN Count(s, d) + 1 ELSE Count(s, d)
<1> DEFINE old == {i \in DOMAIN s : s[i] = d}
           t == Append(s, c)
           new == {i \in DOMAIN t : t[i] = d}
<1>1. DOMAIN s = 1..Len(s) /\ Len(s) \in Nat
  OBVIOUS
<1>2. IsFiniteSet(old)
  BY CountType
<1>3. /\ DOMAIN t = DOMAIN s \cup {Len(s) + 1}
      /\ \A i \in DOMAIN s : t[i] = s[i]
      /\ t[Len(s) + 1] = c
  OBVIOUS
<1>4. Len(s) + 1 \notin old
  BY <1>1
<1>5. CASE d = c
  <2>1. new = old \cup {Len(s) + 1}
    BY <1>3, <1>5
  <2> QED
    BY <1>2, <1>4, <1>5, <2>1, FS_AddElement DEF Count
<1>6. CASE d # c
  <2>1. new = old
    BY <1>3, <1>6
  <2> QED
    BY <1>6, <2>1 DEF Count
<1> QED
  BY <1>5, <1>6

(* Tail takes one from the count of the head and from no other: the places   *)
(* in the tail are those in the sequence but for the first, moved by one.    *)
LEMMA CountTail ==
  ASSUME NEW S, NEW s \in Seq(S), s # <<>>, NEW d
  PROVE  Count(s, d) = IF d = Head(s) THEN Count(Tail(s), d) + 1
                                      ELSE Count(Tail(s), d)
<1> DEFINE t == Tail(s)
           short == {i \in DOMAIN t : t[i] = d}
           moved == {i \in DOMAIN s : i # 1 /\ s[i] = d}
           f == [i \in short |-> i + 1]
<1>1. /\ t \in Seq(S) /\ 1 \in DOMAIN s /\ s[1] = Head(s)
      /\ DOMAIN t \subseteq Nat \ {0} /\ DOMAIN s \subseteq Nat \ {0}
  OBVIOUS
<1>2. \A i \in DOMAIN t : i + 1 \in DOMAIN s /\ t[i] = s[i + 1]
  OBVIOUS
<1>3. \A i \in DOMAIN s : i # 1 => i - 1 \in DOMAIN t /\ t[i - 1] = s[i]
  OBVIOUS
<1>4. IsFiniteSet(short)
  BY <1>1, CountType
<1> HIDE DEF t
<1>5. f \in [short -> moved]
  BY <1>1, <1>2
<1>6. \A a, b \in short : f[a] = f[b] => a = b
  BY <1>1
<1>7. ASSUME NEW i \in moved PROVE \E a \in short : f[a] = i
  <2>1. i - 1 \in short /\ f[i - 1] = i
    BY <1>1, <1>3
  <2> QED
    BY <2>1
<1>8. f \in Bijection(short, moved)
  BY <1>5, <1>6, <1>7 DEF Bijection, Injection, Surjection, IsInjective
<1>9. IsFiniteSet(moved) /\ Cardinality(moved) = Cardinality(short)
  BY <1>4, <1>8, FS_Bijection DEF ExistsBijection
<1>10. CASE d = Head(s)
  <2>1. {i \in DOMAIN s : s[i] = d} = moved \cup {1} /\ 1 \notin moved
    BY <1>1, <1>10
  <2> QED
    BY <1>9, <1>10, <2>1, FS_AddElement DEF Count, t
<1>11. CASE d # Head(s)
  <2>1. {i \in DOMAIN s : s[i] = d} = moved
    BY <1>1, <1>11
  <2> QED
    BY <1>9, <1>11, <2>1 DEF Count, t
<1> QED
  BY <1>10, <1>11

(* Nothing is in the empty sequence.                                         *)
LEMMA CountEmpty ==
  ASSUME NEW d PROVE Count(<<>>, d) = 0
<1>1. {i \in DOMAIN <<>> : <<>>[i] = d} = {}
  OBVIOUS
<1> QED
  BY <1>1, FS_EmptySet DEF Count

(* A post that goes on to another stage leaves its own, and the others stay. *)
LEMMA MoveJob ==
  ASSUME JobTypeOK, NEW c \in Commands, NEW from \in Stages, NEW to \in Stages,
         from # to, Move(c, from, to)
  PROVE  /\ job[c][from] > 0
         /\ job' \in [Commands -> [Stages -> Nat]]
         /\ job'[c][from] = job[c][from] - 1
         /\ job'[c][to] = job[c][to] + 1
         /\ \A s \in Stages : s \notin {from, to} => job'[c][s] = job[c][s]
         /\ \A d \in Commands : d # c => job'[d] = job[d]
<1>1. /\ job \in [Commands -> [Stages -> Nat]] /\ job[c][from] > 0
      /\ job' = [job EXCEPT ![c][from] = @ - 1, ![c][to] = @ + 1]
  BY DEF JobTypeOK, Move
<1> DEFINE g == [job EXCEPT ![c][from] = @ - 1]
<1>2. /\ g \in [Commands -> [Stages -> Nat]]
      /\ g[c] = [job[c] EXCEPT ![from] = @ - 1]
      /\ \A d \in Commands : d # c => g[d] = job[d]
  BY <1>1
<1>3. /\ g[c][from] = job[c][from] - 1
      /\ \A s \in Stages : s # from => g[c][s] = job[c][s]
  BY <1>1, <1>2
<1>4. job' = [g EXCEPT ![c][to] = @ + 1]
  BY <1>1
<1> HIDE DEF g
<1>5. /\ job' \in [Commands -> [Stages -> Nat]]
      /\ job'[c] = [g[c] EXCEPT ![to] = @ + 1]
      /\ \A d \in Commands : d # c => job'[d] = g[d]
  BY <1>2, <1>4
<1>6. /\ job'[c][to] = g[c][to] + 1
      /\ \A s \in Stages : s # to => job'[c][s] = g[c][s]
  BY <1>2, <1>5
<1> QED
  BY <1>1, <1>2, <1>3, <1>5, <1>6

(* What a callback of the relay makes of the posts of its command: one more  *)
(* is under way, or one less is to be answered for.                          *)
LEMMA CallbackJob ==
  ASSUME JobTypeOK, toRelay \in Seq(Commands), CallbackSatCom
  PROVE  /\ toRelay # <<>> /\ Head(toRelay) \in Commands
         /\ job' \in [Commands -> [Stages -> Nat]]
         /\ job'[Head(toRelay)]["posted"] = job[Head(toRelay)]["posted"] + 1
         /\ \A s \in Stages : s # "posted" =>
              job'[Head(toRelay)][s] = job[Head(toRelay)][s]
         /\ \A d \in Commands : d # Head(toRelay) => job'[d] = job[d]
<1> DEFINE c == Head(toRelay)
<1>1. /\ toRelay # <<>> /\ job' = [job EXCEPT ![c]["posted"] = @ + 1]
  BY DEF CallbackSatCom
<1>2. c \in Commands
  BY <1>1, TailRange
<1>3. job \in [Commands -> [Stages -> Nat]] /\ "posted" \in Stages
  BY DEF JobTypeOK, Stages
<1> HIDE DEF c
<1>4. /\ job' \in [Commands -> [Stages -> Nat]]
      /\ job'[c] = [job[c] EXCEPT !["posted"] = @ + 1]
      /\ \A d \in Commands : d # c => job'[d] = job[d]
  BY <1>1, <1>2, <1>3
<1>5. /\ job'[c]["posted"] = job[c]["posted"] + 1
      /\ \A s \in Stages : s # "posted" => job'[c][s] = job[c][s]
  BY <1>2, <1>3, <1>4
<1> QED
  BY <1>1, <1>2, <1>4, <1>5 DEF c

(* The answer to a post is in, and confirms the command.                     *)
LEMMA ConfirmJob ==
  ASSUME JobTypeOK, NEW c \in Commands, Confirm(c)
  PROVE  /\ job' \in [Commands -> [Stages -> Nat]]
         /\ job[c]["ok"] > 0 /\ job'[c]["ok"] = job[c]["ok"] - 1
         /\ \A s \in Stages : s # "ok" => job'[c][s] = job[c][s]
         /\ \A d \in Commands : d # c => job'[d] = job[d]
         /\ confirmed' = confirmed \cup {c}
<1>1. /\ job[c]["ok"] > 0 /\ job' = [job EXCEPT ![c]["ok"] = @ - 1]
      /\ confirmed' = confirmed \cup {c}
  BY DEF Confirm
<1>2. job \in [Commands -> [Stages -> Nat]] /\ "ok" \in Stages
  BY DEF JobTypeOK, Stages
<1>3. job[c]["ok"] - 1 \in Nat
  BY <1>1, <1>2
<1>4. /\ job' \in [Commands -> [Stages -> Nat]]
      /\ job'[c] = [job[c] EXCEPT !["ok"] = @ - 1]
      /\ \A d \in Commands : d # c => job'[d] = job[d]
  BY <1>1, <1>2, <1>3
<1> QED
  BY <1>1, <1>2, <1>4

(* Any other post or callback moves one post to another stage.               *)
LEMMA PostJob ==
  ASSUME JobTypeOK, NEW c \in Commands, Post(c), ~StrayEnds(c)
  PROVE  /\ \E to \in {"ok", "error"} : Move(c, "posted", to)
         /\ UNCHANGED <<brokerVars, confirmed>>
         /\ \/ GatewayTakes(c) \/ GatewayRejects(c) \/ GatewayUnreachable(c)
            \/ failures' = [failures EXCEPT ![c] = @ + 1]
BY DEF Post, GatewayTakes, GatewayTakesAndFails, GatewayRejects,
  GatewayUnreachable, ClientGivesUp

(* The relay of posts either confirms a command or moves one of them.        *)
LEMMA RelayJob ==
  ASSUME NEW c \in Commands, Relay(c)
  PROVE  /\ \/ Confirm(c)
            \/ /\ Move(c, "error", "asleep") \/ Move(c, "asleep", "posted")
               /\ UNCHANGED confirmed
         /\ UNCHANGED <<stray, failures, brokerVars, queueVars, bufferVars,
                        moVars, relayMoVars, processVars, historyVars>>
BY DEF Relay, OnMessageSent, Repost

------------------------------------------------------------------------------
(* TypeOK                                                                    *)

(* What the clients and the broker hold of commands are commands, and the    *)
(* broker has got no more of them than udp2mqtt held.                        *)
LEMMA NextBrokerTypeOK == TypeOK /\ [Next]_vars => BrokerTypeOK'
<1> SUFFICES ASSUME TypeOK, [Next]_vars PROVE BrokerTypeOK'
  OBVIOUS
<1> USE DEF BrokerTypeOK, groundVars, brokerVars, processVars
<1>0. BrokerTypeOK /\ JobTypeOK
  BY DEF TypeOK
<1>1. CASE UNCHANGED <<brokerVars, processVars>>
  BY <1>0, <1>1
<1>2. ASSUME NEW c \in Commands, Publish(c) PROVE BrokerTypeOK'
  <2>1. /\ published' = published \cup {c}
        /\ groundOut' = groundOut \/ groundOut' = Append(groundOut, c)
        /\ UNCHANGED <<groundSent, resends, up, subscribed, toRelay, faults>>
    BY <1>2 DEF Publish
  <2>2. /\ Append(groundOut, c) \in Seq(Commands)
        /\ groundSent \in 0..Len(Append(groundOut, c))
    BY <1>0
  <2> QED
    BY <1>0, <2>1, <2>2
<1>3. CASE BrokerTakes
  <2>1. /\ groundSent < Len(groundOut) /\ groundSent' = groundSent + 1
        /\ UNCHANGED <<published, groundOut, resends, up, subscribed, faults>>
        /\ toRelay' \in {toRelay, Append(toRelay, groundOut[groundSent + 1])}
    BY <1>3 DEF BrokerTakes
  <2>2. groundSent' \in 0..Len(groundOut) /\ groundOut[groundSent + 1] \in Commands
    BY <1>0, <2>1
  <2>3. toRelay' \in Seq(Commands)
    <3> DEFINE c == groundOut[groundSent + 1]
    <3>1. Append(toRelay, c) \in Seq(Commands)
      BY <1>0, <2>2, AppendRange
    <3> QED
      BY <1>0, <2>1, <3>1
  <2> QED
    BY <1>0, <2>1, <2>2, <2>3
<1>4. CASE GroundAcknowledged
  <2>1. /\ groundSent > 0 /\ groundSent' = groundSent - 1
        /\ groundOut' = Tail(groundOut)
        /\ UNCHANGED <<published, resends, up, subscribed, toRelay, faults>>
    BY <1>4 DEF GroundAcknowledged
  <2>2. groundOut' \in Seq(Commands) /\ groundSent' \in 0..Len(groundOut')
    BY <1>0, <2>1
  <2> QED
    BY <1>0, <2>1, <2>2
<1>5. CASE GroundLinkDrops
  <2>1. /\ groundSent' = 0 /\ faults' = faults + 1
        /\ resends' = [c \in Commands |->
                         resends[c] + IF c \in BrokerHas THEN 1 ELSE 0]
        /\ UNCHANGED <<published, groundOut, up, subscribed, toRelay>>
    BY <1>5 DEF GroundLinkDrops
  <2>2. resends' \in [Commands -> Nat] /\ groundSent' \in 0..Len(groundOut')
    BY <1>0, <2>1
  <2> QED
    BY <1>0, <2>1, <2>2
<1>6. CASE GroundEnds
  <2>1. /\ groundSent' = 0 /\ faults' = faults + 1 /\ groundOut' = <<>>
        /\ UNCHANGED <<published, resends, up, subscribed, toRelay>>
    BY <1>6 DEF GroundEnds
  <2> QED
    BY <1>0, <2>1
<1>7. CASE CallbackSatCom
  <2>1. toRelay' \in Seq(Commands)
    BY <1>0, <1>7, TailRange DEF CallbackSatCom
  <2> QED
    BY <1>0, <1>7, <2>1 DEF CallbackSatCom
<1>8. CASE LinkDrops \/ OnConnect \/ Crash \/ Restart
  <2>1. toRelay' \in Seq(Commands)
    BY <1>0, <1>8, EmptyRange DEF LinkDrops, OnConnect, Crash, Restart
  <2>2. subscribed' \in BOOLEAN /\ up' \in BOOLEAN
    BY <1>0, <1>8, Zenon DEF LinkDrops, OnConnect, Crash, Restart
  <2>3. faults' \in Nat /\ UNCHANGED groundVars
    BY <1>0, <1>8 DEF LinkDrops, OnConnect, Crash, Restart
  <2> QED
    BY <1>0, <2>1, <2>2, <2>3
<1>9. ASSUME NEW c \in Commands, Post(c) \/ Relay(c) PROVE BrokerTypeOK'
  BY <1>1, <1>9 DEF Post, GatewayTakes, GatewayTakesAndFails, GatewayRejects,
    GatewayUnreachable, ClientGivesUp, StrayEnds, Relay, OnMessageSent, Repost
<1>10. CASE Session \/ ReadCommand \/ ReadRaises \/ ClearTelemetry
              \/ BrokerGets \/ RelayAcknowledged
  BY <1>1, <1>10 DEF Session, ReadCommand, ReadRaises, ClearTelemetry,
    BrokerGets, RelayAcknowledged
<1>11. ASSUME NEW t \in Telemetry,
              WriteTelemetry(t) \/ RelayPost(t) \/ PostFails(t)
       PROVE  BrokerTypeOK'
  BY <1>1, <1>11 DEF WriteTelemetry, RelayPost, PostFails
<1>12. CASE UNCHANGED vars
  BY <1>1, <1>12 DEF vars
<1> QED
  BY <1>2, <1>3, <1>4, <1>5, <1>6, <1>7, <1>8, <1>9, <1>10, <1>11, <1>12 DEF Next

(* Posts go from one stage to another, and none is counted below zero.       *)
LEMMA NextJobTypeOK == TypeOK /\ [Next]_vars => JobTypeOK'
<1> SUFFICES ASSUME TypeOK, [Next]_vars PROVE JobTypeOK'
  OBVIOUS
<1> USE DEF mtVars
<1>0. JobTypeOK /\ toRelay \in Seq(Commands)
  BY DEF TypeOK, BrokerTypeOK
<1>1. CASE UNCHANGED mtVars
  BY <1>0, <1>1 DEF JobTypeOK
<1>2. CASE CallbackSatCom
  BY <1>0, <1>2, CallbackJob DEF JobTypeOK, CallbackSatCom
<1>3. ASSUME NEW c \in Commands, StrayEnds(c) PROVE JobTypeOK'
  BY <1>0, <1>3 DEF JobTypeOK, StrayEnds
<1>4. ASSUME NEW c \in Commands, Post(c), ~StrayEnds(c) PROVE JobTypeOK'
  <2>1. PICK to \in {"ok", "error"} : Move(c, "posted", to)
    BY <1>0, <1>4, PostJob
  <2>2. job' \in [Commands -> [Stages -> Nat]]
    BY <1>0, <2>1, MoveJob DEF Stages
  <2>3. /\ stray' = stray \/ stray' = [stray EXCEPT ![c] = @ + 1]
        /\ failures' = failures \/ failures' = [failures EXCEPT ![c] = @ + 1]
        /\ confirmed' = confirmed
    BY <1>4 DEF Post, GatewayTakes, GatewayTakesAndFails, GatewayRejects,
      GatewayUnreachable, ClientGivesUp
  <2>4. stray' \in [Commands -> Nat] /\ failures' \in [Commands -> Nat]
    <3>1. \A f \in [Commands -> Nat] : [f EXCEPT ![c] = @ + 1] \in [Commands -> Nat]
      OBVIOUS
    <3> QED
      BY <1>0, <2>3, <3>1 DEF JobTypeOK
  <2> QED
    BY <1>0, <2>2, <2>3, <2>4 DEF JobTypeOK
<1>5. ASSUME NEW c \in Commands, Relay(c) PROVE JobTypeOK'
  <2>1. UNCHANGED <<stray, failures>>
    BY <1>5, RelayJob
  <2>2. CASE Confirm(c)
    BY <1>0, <2>1, <2>2, ConfirmJob DEF JobTypeOK
  <2>3. ASSUME NEW from \in Stages, NEW to \in Stages, from # to,
               Move(c, from, to), UNCHANGED confirmed
        PROVE  JobTypeOK'
    BY <1>0, <2>1, <2>3, MoveJob DEF JobTypeOK
  <2> QED
    BY <1>5, <2>2, <2>3, RelayJob DEF Stages
<1>6. CASE Crash
  <2>1. /\ job' = [c \in Commands |-> NoJob]
        /\ stray' = [c \in Commands |-> stray[c] + job[c]["posted"]]
        /\ UNCHANGED <<failures, confirmed>>
    BY <1>6 DEF Crash
  <2>2. job' \in [Commands -> [Stages -> Nat]]
    BY <2>1 DEF NoJob
  <2>3. stray' \in [Commands -> Nat]
    BY <1>0, <2>1 DEF JobTypeOK, Stages
  <2> QED
    BY <1>0, <2>1, <2>2, <2>3 DEF JobTypeOK
<1>7. ASSUME NEW c \in Commands, Publish(c) PROVE JobTypeOK'
  BY <1>1, <1>7 DEF Publish
<1>8. CASE BrokerTakes \/ GroundAcknowledged \/ GroundLinkDrops \/ GroundEnds
             \/ LinkDrops \/ OnConnect \/ Restart
  BY <1>1, <1>8 DEF BrokerTakes, GroundAcknowledged, GroundLinkDrops,
    GroundEnds, LinkDrops, OnConnect, Restart
<1>9. CASE Session \/ ReadCommand \/ ReadRaises \/ ClearTelemetry
             \/ BrokerGets \/ RelayAcknowledged \/ UNCHANGED vars
  BY <1>1, <1>9 DEF Session, ReadCommand, ReadRaises, ClearTelemetry,
    BrokerGets, RelayAcknowledged, vars
<1>10. ASSUME NEW t \in Telemetry,
              WriteTelemetry(t) \/ RelayPost(t) \/ PostFails(t)
       PROVE  JobTypeOK'
  BY <1>1, <1>10 DEF WriteTelemetry, RelayPost, PostFails
<1> QED
  BY <1>2, <1>3, <1>4, <1>5, <1>6, <1>7, <1>8, <1>9, <1>10 DEF Next

(* The queue holds commands, and the modem one of them or none.              *)
LEMMA NextModemTypeOK == ModemTypeOK /\ [Next]_vars => ModemTypeOK'
<1> SUFFICES ASSUME ModemTypeOK, [Next]_vars PROVE ModemTypeOK'
  OBVIOUS
<1> USE DEF ModemTypeOK, queueVars, bufferVars
<1>1. CASE UNCHANGED <<queueVars, bufferVars>>
  BY <1>1
<1>2. ASSUME NEW c \in Commands, Publish(c) \/ Relay(c) PROVE ModemTypeOK'
  BY <1>1, <1>2 DEF Publish, Relay, OnMessageSent, Repost
<1>3. ASSUME NEW c \in Commands, Enqueue(c), UNCHANGED bufferVars
      PROVE  ModemTypeOK'
  BY <1>3, AppendRange DEF Enqueue
<1>4. ASSUME NEW c \in Commands, Post(c) PROVE ModemTypeOK'
  BY <1>1, <1>3, <1>4 DEF Post, GatewayTakes, GatewayTakesAndFails,
    GatewayRejects, GatewayUnreachable, ClientGivesUp, StrayEnds
<1>5. CASE Session
  BY <1>5, TailRange DEF Session, TakeCommand
<1>6. CASE ReadCommand
  BY <1>6 DEF ReadCommand
<1>7. CASE BrokerTakes \/ GroundAcknowledged \/ GroundLinkDrops \/ GroundEnds
             \/ LinkDrops \/ OnConnect \/ CallbackSatCom \/ Crash \/ Restart
  BY <1>1, <1>7 DEF BrokerTakes, GroundAcknowledged, GroundLinkDrops,
    GroundEnds, LinkDrops, OnConnect, CallbackSatCom, Crash, Restart
<1>8. CASE ReadRaises \/ ClearTelemetry \/ BrokerGets \/ RelayAcknowledged
             \/ UNCHANGED vars
  BY <1>1, <1>8 DEF ReadRaises, ClearTelemetry, BrokerGets, RelayAcknowledged,
    vars
<1>9. ASSUME NEW t \in Telemetry,
             WriteTelemetry(t) \/ RelayPost(t) \/ PostFails(t)
      PROVE  ModemTypeOK'
  BY <1>1, <1>9 DEF WriteTelemetry, RelayPost, PostFails
<1> QED
  BY <1>2, <1>4, <1>5, <1>6, <1>7, <1>8, <1>9 DEF Next

(* Posts are counted up by sessions and down by answers, and what the relay  *)
(* and the broker hold is telemetry.                                         *)
LEMMA NextTelemetryTypeOK ==
  TelemetryTypeOK /\ [Next]_vars => TelemetryTypeOK'
<1> SUFFICES ASSUME TelemetryTypeOK, [Next]_vars PROVE TelemetryTypeOK'
  OBVIOUS
<1> USE DEF TelemetryTypeOK, moVars, relayMoVars
<1>1. CASE UNCHANGED <<moVars, relayMoVars>>
  BY <1>1, Zenon
<1>2. ASSUME NEW c \in Commands, Publish(c) \/ Relay(c) \/ Post(c)
      PROVE  TelemetryTypeOK'
  BY <1>1, <1>2 DEF Publish, Relay, OnMessageSent, Repost, Post, GatewayTakes,
    GatewayTakesAndFails, GatewayRejects, GatewayUnreachable, ClientGivesUp,
    StrayEnds
<1>3. CASE Session
  <2>1. UNCHANGED <<mo_buffer, written, toBroker, relaySent, seen, cut>>
    BY <1>3 DEF Session
  <2>2. posts' \in [Telemetry -> Nat] /\ moWire' \in [Telemetry -> Nat]
    <3>1. CASE mo_buffer = None
      BY <1>3, <3>1 DEF Session
    <3>2. CASE mo_buffer # None
      <4>1. mo_buffer \in Telemetry
        BY <3>2
      <4>2. /\ posts' = [posts EXCEPT ![mo_buffer] = @ + 1]
            /\ moWire' = [moWire EXCEPT ![mo_buffer] = @ + 1]
        BY <1>3, <3>2 DEF Session
      <4> QED
        BY <4>1, <4>2
    <3> QED
      BY <3>1, <3>2
  <2> QED
    BY <2>1, <2>2, Zenon
<1>4. ASSUME NEW t \in Telemetry, WriteTelemetry(t) PROVE TelemetryTypeOK'
  <2>1. /\ written' = written \cup {t} /\ mo_buffer' = t
        /\ UNCHANGED <<posts, moWire, toBroker, relaySent, seen, cut>>
    BY <1>4 DEF WriteTelemetry
  <2> QED
    BY <2>1, Zenon
<1>5. ASSUME NEW t \in Telemetry, RelayPost(t) PROVE TelemetryTypeOK'
  <2>1. /\ toBroker' = Append(toBroker, t) /\ moWire[t] > 0
        /\ UNCHANGED <<mo_buffer, written, posts, relaySent, seen, cut>>
    BY <1>5 DEF RelayPost
  <2>2. toBroker' \in Seq(Telemetry) /\ relaySent' \in 0..Len(toBroker')
    BY <2>1
  <2>3. PICK answered \in BOOLEAN :
          moWire' = [moWire EXCEPT ![t] = IF answered THEN @ - 1 ELSE @]
    BY <1>5 DEF RelayPost
  <2>4. moWire' \in [Telemetry -> Nat]
    BY <2>1, <2>3
  <2> QED
    BY <2>1, <2>2, <2>4, Zenon
<1>6. ASSUME NEW t \in Telemetry, PostFails(t) PROVE TelemetryTypeOK'
  <2>1. moWire' \in [Telemetry -> Nat]
    BY <1>6 DEF PostFails
  <2>2. UNCHANGED <<mo_buffer, written, posts, toBroker, relaySent, seen, cut>>
    BY <1>6 DEF PostFails
  <2> QED
    BY <2>1, <2>2, Zenon
<1>7. CASE BrokerGets
  <2>1. /\ relaySent < Len(toBroker) /\ relaySent' = relaySent + 1
        /\ seen' = Append(seen, toBroker[relaySent + 1]) /\ cut' = FALSE
        /\ UNCHANGED <<mo_buffer, written, posts, moWire, toBroker>>
    BY <1>7 DEF BrokerGets
  <2>2. toBroker[relaySent + 1] \in Telemetry /\ relaySent' \in 0..Len(toBroker')
    BY <2>1
  <2>3. seen' \in Seq(Telemetry)
    BY <2>1, <2>2, AppendRange
  <2> QED
    BY <2>1, <2>2, <2>3, Zenon
<1>8. CASE RelayAcknowledged
  <2>1. /\ relaySent > 0 /\ relaySent' = relaySent - 1
        /\ toBroker' = Tail(toBroker)
        /\ UNCHANGED <<mo_buffer, written, posts, moWire, seen, cut>>
    BY <1>8 DEF RelayAcknowledged
  <2>2. toBroker' \in Seq(Telemetry) /\ relaySent' \in 0..Len(toBroker')
    BY <2>1
  <2> QED
    BY <2>1, <2>2, Zenon
<1>9. CASE LinkDrops
  <2>1. /\ relaySent' = 0
        /\ UNCHANGED <<mo_buffer, written, posts, moWire, toBroker, seen, cut>>
    BY <1>9 DEF LinkDrops
  <2>2. relaySent' \in 0..Len(toBroker')
    BY <2>1
  <2> QED
    BY <2>1, <2>2, Zenon
<1>10. CASE ClearTelemetry
  <2>1. /\ mo_buffer' = None
        /\ UNCHANGED <<written, posts, moWire, toBroker, relaySent, seen, cut>>
    BY <1>10 DEF ClearTelemetry
  <2> QED
    BY <2>1, Zenon
<1>11. CASE Crash
  <2>1. /\ toBroker' = <<>> /\ relaySent' = 0
        /\ cut' = IF toBroker = <<>> THEN cut ELSE relaySent < Len(toBroker)
        /\ UNCHANGED <<mo_buffer, written, posts, moWire, seen>>
    BY <1>11 DEF Crash
  <2>2. toBroker' \in Seq(Telemetry) /\ relaySent' \in 0..Len(toBroker')
    BY <2>1
  <2>3. (relaySent < Len(toBroker)) \in BOOLEAN
    OBVIOUS
  <2>4. cut' \in BOOLEAN
    BY <2>1, <2>3, Zenon
  <2> QED
    BY <2>1, <2>2, <2>4, Zenon
<1>12. CASE BrokerTakes \/ GroundAcknowledged \/ GroundLinkDrops \/ GroundEnds
              \/ OnConnect \/ CallbackSatCom \/ Restart
  BY <1>1, <1>12 DEF BrokerTakes, GroundAcknowledged, GroundLinkDrops,
    GroundEnds, OnConnect, CallbackSatCom, Restart
<1>13. CASE ReadCommand \/ ReadRaises \/ UNCHANGED vars
  BY <1>1, <1>13 DEF ReadCommand, ReadRaises, vars
<1> QED
  BY <1>2, <1>3, <1>4, <1>5, <1>6, <1>7, <1>8, <1>9, <1>10, <1>11, <1>12, <1>13
    DEF Next

(* Histories collect messages.                                               *)
LEMMA NextHistoryTypeOK == TypeOK /\ [Next]_vars => HistoryTypeOK'
<1> SUFFICES ASSUME TypeOK, [Next]_vars PROVE HistoryTypeOK'
  OBVIOUS
<1> USE DEF HistoryTypeOK, historyVars, Messages
<1>1. /\ HistoryTypeOK /\ published \subseteq Commands /\ written \subseteq Telemetry
      /\ groundOut \in Seq(Commands) /\ groundSent \in 0..Len(groundOut)
      /\ Range(groundOut) \subseteq Commands
  BY RangeIn DEF TypeOK, BrokerTypeOK, TelemetryTypeOK
<1>2. CASE UNCHANGED historyVars
  BY <1>1, <1>2
<1>3. ASSUME NEW c \in Commands, Publish(c) PROVE HistoryTypeOK'
  <2>1. confirmed \subseteq Commands
    BY DEF TypeOK, JobTypeOK
  <2>2. {b \in confirmed : Settled(b)} \X {c} \subseteq Messages \X Messages
    BY <2>1
  <2>3. before' \subseteq Messages \X Messages
    BY <1>1, <1>3, <2>2 DEF Publish
  <2> QED
    BY <1>1, <1>3, <2>3 DEF Publish
<1>4. ASSUME NEW c \in Commands, Post(c) \/ Relay(c) PROVE HistoryTypeOK'
  BY <1>1, <1>2, <1>4 DEF Post, GatewayTakes, GatewayTakesAndFails,
    GatewayRejects, GatewayUnreachable, ClientGivesUp, StrayEnds, Relay,
    OnMessageSent, Repost
<1>5. ASSUME NEW t \in Telemetry, WriteTelemetry(t) PROVE HistoryTypeOK'
  <2>1. {u \in written : Ended(u)} \X {t} \subseteq Messages \X Messages
    BY <1>1
  <2> QED
    BY <1>1, <1>5, <2>1 DEF WriteTelemetry
<1>6. ASSUME NEW t \in Telemetry, RelayPost(t) \/ PostFails(t)
      PROVE  HistoryTypeOK'
  BY <1>1, <1>2, <1>6 DEF RelayPost, PostFails
<1>7. CASE LinkDrops \/ Crash
  <2>1. Range(toRelay) \subseteq Commands /\ Range(toBroker) \subseteq Telemetry
    BY RangeIn DEF TypeOK, BrokerTypeOK, TelemetryTypeOK
  <2> QED
    BY <1>1, <1>7, <2>1 DEF LinkDrops, Crash
<1>8. CASE BrokerTakes
  <2>1. groundSent < Len(groundOut) /\ UNCHANGED before
        /\ hit' \subseteq hit \cup {groundOut[groundSent + 1]}
    BY <1>8 DEF BrokerTakes
  <2>2. groundOut[groundSent + 1] \in Commands
    BY <1>1, <2>1
  <2> QED
    BY <1>1, <2>1, <2>2
<1>9. CASE GroundEnds
  <2>1. hit' = hit \cup GroundOnly /\ UNCHANGED before
    BY <1>9 DEF GroundEnds
  <2>2. GroundOnly \subseteq Commands
    BY <1>1 DEF GroundOnly
  <2> QED
    BY <1>1, <2>1, <2>2
<1>10. CASE Session \/ ReadRaises
  <2>1. mt_buffer \in Commands \cup {None}
    BY DEF TypeOK, ModemTypeOK
  <2> QED
    BY <1>1, <1>10, <2>1, MessagesAssumption
      DEF Session, TakeCommand, Unread, ReadRaises
<1>11. CASE GroundAcknowledged \/ GroundLinkDrops \/ OnConnect
              \/ CallbackSatCom \/ Restart
  BY <1>2, <1>11 DEF GroundAcknowledged, GroundLinkDrops, OnConnect,
    CallbackSatCom, Restart
<1>12. CASE ReadCommand \/ ClearTelemetry \/ BrokerGets \/ RelayAcknowledged
              \/ UNCHANGED vars
  BY <1>2, <1>12 DEF ReadCommand, ClearTelemetry, BrokerGets,
    RelayAcknowledged, vars
<1> QED
  BY <1>3, <1>4, <1>5, <1>6, <1>7, <1>8, <1>9, <1>10, <1>11, <1>12 DEF Next

(* The parts of TypeOK together.                                             *)
LEMMA NextTypeOK == TypeOK /\ [Next]_vars => TypeOK'
BY NextBrokerTypeOK, NextJobTypeOK, NextModemTypeOK, NextTelemetryTypeOK,
  NextHistoryTypeOK DEF TypeOK

------------------------------------------------------------------------------
(* What udp2mqtt holds                                                       *)

\* Commands that the client of udp2mqtt holds and has still to send.
Unsent == {groundOut[i] : i \in (groundSent + 1)..Len(groundOut)}

(* The client holds a command once; what was not given to it was not sent    *)
(* again and no post of it failed.                                           *)
GroundOK ==
  /\ \A i, j \in DOMAIN groundOut : groundOut[i] = groundOut[j] => i = j
  /\ Range(groundOut) \subseteq published
  /\ \A c \in Commands \ published : resends[c] = 0 /\ failures[c] = 0

(* What it holds is either with the broker already or unsent.                *)
LEMMA GroundParts ==
  ASSUME BrokerTypeOK, GroundOK
  PROVE  /\ Range(groundOut) = BrokerHas \cup Unsent
         /\ BrokerHas \cap Unsent = {}
         /\ GroundOnly = {c \in Unsent : resends[c] = 0}
<1>1. /\ groundOut \in Seq(Commands) /\ groundSent \in 0..Len(groundOut)
      /\ DOMAIN groundOut = 1..Len(groundOut) /\ Len(groundOut) \in Nat
  BY DEF BrokerTypeOK
<1>2. 1..Len(groundOut) = (1..groundSent) \cup ((groundSent + 1)..Len(groundOut))
  BY <1>1
<1>3. Range(groundOut) = BrokerHas \cup Unsent
  BY <1>1, <1>2 DEF Range, BrokerHas, Unsent
<1>4. \A i \in 1..groundSent, j \in (groundSent + 1)..Len(groundOut) :
        i \in DOMAIN groundOut /\ j \in DOMAIN groundOut /\ i # j
  BY <1>1
<1>5. BrokerHas \cap Unsent = {}
  BY <1>4 DEF GroundOK, BrokerHas, Unsent
<1> QED
  BY <1>3, <1>5 DEF GroundOnly

(* A command that is published is unsent at first, if it is not blocked.     *)
LEMMA PublishGround ==
  ASSUME BrokerTypeOK, NEW c \in Commands, Publish(c)
  PROVE  /\ Range(groundOut') \subseteq Range(groundOut) \cup {c}
         /\ BrokerHas' = BrokerHas
         /\ \/ groundOut' = groundOut /\ Unsent' = Unsent /\ c \in hit'
            \/ /\ groundOut' = Append(groundOut, c) /\ hit' = hit
               /\ Unsent' = Unsent \cup {c}
<1>1. /\ groundOut \in Seq(Commands) /\ groundSent \in 0..Len(groundOut)
      /\ groundSent' = groundSent
  BY DEF BrokerTypeOK, Publish
<1>2. CASE groundOut' = groundOut /\ c \in hit'
  BY <1>1, <1>2 DEF BrokerHas, Unsent
<1>3. CASE groundOut' = Append(groundOut, c) /\ hit' = hit
  <2>1. Range(groundOut') = Range(groundOut) \cup {c}
    BY <1>1, <1>3, AppendRange
  <2>2. /\ \A i \in 1..Len(groundOut) : groundOut'[i] = groundOut[i]
        /\ groundOut'[Len(groundOut) + 1] = c
    BY <1>1, <1>3
  <2>3. /\ 1..groundSent \subseteq 1..Len(groundOut)
        /\ (groundSent + 1)..Len(groundOut) \subseteq 1..Len(groundOut)
        /\ (groundSent + 1)..Len(groundOut')
             = ((groundSent + 1)..Len(groundOut)) \cup {Len(groundOut) + 1}
    BY <1>1, <1>3
  <2>4. BrokerHas' = BrokerHas
    BY <1>1, <2>2, <2>3 DEF BrokerHas
  <2>5. Unsent' = Unsent \cup {c}
    BY <1>1, <2>2, <2>3 DEF Unsent
  <2> QED
    BY <1>3, <2>1, <2>4, <2>5
<1> QED
  BY <1>2, <1>3 DEF Publish

(* The command the broker takes was unsent and is so no more.                *)
LEMMA TakesGround ==
  ASSUME BrokerTypeOK, GroundOK, BrokerTakes,
         NEW c, c = groundOut[groundSent + 1]
  PROVE  /\ c \in Commands /\ c \in Unsent /\ Unsent' = Unsent \ {c}
         /\ BrokerHas' = BrokerHas \cup {c} /\ groundOut' = groundOut
<1>1. /\ groundOut \in Seq(Commands) /\ groundSent \in 0..Len(groundOut)
      /\ groundSent < Len(groundOut)
      /\ groundSent' = groundSent + 1 /\ groundOut' = groundOut
  BY DEF BrokerTypeOK, BrokerTakes
<1>2. /\ 1..groundSent' = (1..groundSent) \cup {groundSent + 1}
      /\ (groundSent + 1)..Len(groundOut)
           = ((groundSent' + 1)..Len(groundOut)) \cup {groundSent + 1}
      /\ groundSent + 1 \notin (groundSent' + 1)..Len(groundOut)
      /\ (groundSent + 1)..Len(groundOut) \subseteq DOMAIN groundOut
  BY <1>1
<1>3. BrokerHas' = BrokerHas \cup {c}
  BY <1>1, <1>2 DEF BrokerHas
<1>4. Unsent = Unsent' \cup {c}
  BY <1>1, <1>2 DEF Unsent
<1>5. c \notin Unsent'
  BY <1>1, <1>2 DEF Unsent, GroundOK
<1>6. c \in Commands
  BY <1>1
<1> QED
  BY <1>1, <1>3, <1>4, <1>5, <1>6

(* What is acknowledged was sent.                                            *)
LEMMA AcknowledgedGround ==
  ASSUME BrokerTypeOK, GroundAcknowledged
  PROVE  /\ Range(groundOut') \subseteq Range(groundOut) /\ Unsent' = Unsent
         /\ BrokerHas' \subseteq BrokerHas
<1>1. /\ groundOut \in Seq(Commands) /\ groundSent \in 0..Len(groundOut)
      /\ groundSent > 0 /\ groundSent' = groundSent - 1
      /\ groundOut' = Tail(groundOut) /\ groundOut # <<>>
  BY DEF BrokerTypeOK, GroundAcknowledged
<1>2. Range(groundOut') \subseteq Range(groundOut)
  BY <1>1, TailRange
<1>3. /\ Len(groundOut') = Len(groundOut) - 1
      /\ \A i \in 1..Len(groundOut') : groundOut'[i] = groundOut[i + 1]
  BY <1>1
<1>4. BrokerHas' \subseteq BrokerHas
  BY <1>1, <1>3 DEF BrokerHas
<1>5. \A i \in (groundSent' + 1)..Len(groundOut') :
        /\ i + 1 \in (groundSent + 1)..Len(groundOut)
        /\ groundOut'[i] = groundOut[i + 1]
  BY <1>1, <1>3
<1>6. \A i \in (groundSent + 1)..Len(groundOut) :
        /\ i - 1 \in (groundSent' + 1)..Len(groundOut')
        /\ groundOut'[i - 1] = groundOut[i]
  BY <1>1, <1>3
<1>7. Unsent' \subseteq Unsent
  BY <1>5 DEF Unsent
<1>8. Unsent \subseteq Unsent'
  BY <1>6 DEF Unsent
<1> QED
  BY <1>2, <1>4, <1>7, <1>8

(* After a lost connection everything the client holds is unsent; after its  *)
(* end it holds nothing.                                                     *)
LEMMA DropsGround ==
  ASSUME BrokerTypeOK, GroundLinkDrops \/ GroundEnds
  PROVE  /\ BrokerHas' = {} /\ Unsent' = Range(groundOut')
         /\ GroundLinkDrops => groundOut' = groundOut
         /\ GroundEnds => groundOut' = <<>> /\ Range(groundOut') = {}
<1>1. /\ groundOut \in Seq(Commands) /\ groundSent' = 0
      /\ groundOut' = groundOut \/ groundOut' = <<>>
  BY DEF BrokerTypeOK, GroundLinkDrops, GroundEnds
<1>2. groundOut' \in Seq(Commands)
  BY <1>1, EmptyRange
<1>3. Unsent' = Range(groundOut')
  BY <1>1, <1>2 DEF Unsent, Range
<1>4. BrokerHas' = {}
  BY <1>1 DEF BrokerHas
<1> QED
  BY <1>3, <1>4, EmptyRange DEF GroundLinkDrops, GroundEnds

(* No other step touches what udp2mqtt holds.                                *)
LEMMA GroundSame ==
  ASSUME UNCHANGED groundVars
  PROVE  BrokerHas' = BrokerHas /\ Unsent' = Unsent
BY DEF groundVars, BrokerHas, Unsent

------------------------------------------------------------------------------
(* DuplicatesExplained                                                       *)

\* The command is still to be sent by udp2mqtt.
ToSend(c) == IF c \notin published \/ c \in Unsent THEN 1 ELSE 0

\* The posts of the command that are still to be made or to succeed.
Work(c) ==
  ToSend(c) + Count(toRelay, c)
    + job[c]["posted"] + job[c]["error"] + job[c]["asleep"]

\* Whether the gateway has confirmed the command, or an answer says so.
Confirmed(c) == job[c]["ok"] + IF c \in confirmed THEN 1 ELSE 0

(* A command which is not sent again is to be sent, in one post or           *)
(* confirmed.                                                                *)
OneCopyOK == \A c \in Commands : Work(c) + Confirmed(c) <= 1 + resends[c]

(* Every copy at the gateway, given-up post and post to come is paid for: by *)
(* the command itself, by a lost connection of udp2mqtt or by a failure.     *)
BooksOK ==
  \A c \in Commands :
    Count(arrived, c) + stray[c] + Work(c) <= 1 + resends[c] + failures[c]

(* What the books of a command are made of is counted in Nat.                *)
LEMMA BooksType ==
  ASSUME TypeOK, NEW c \in Commands
  PROVE  /\ Count(arrived, c) \in Nat /\ Count(toRelay, c) \in Nat
         /\ stray[c] \in Nat /\ resends[c] \in Nat /\ failures[c] \in Nat
         /\ ToSend(c) \in 0..1
         /\ \A s \in Stages : job[c][s] \in Nat
         /\ Work(c) \in Nat /\ Confirmed(c) \in Nat
<1>1. arrived \in Seq(Commands) /\ toRelay \in Seq(Commands)
  BY DEF TypeOK, BrokerTypeOK, ModemTypeOK
<1>2. Count(arrived, c) \in Nat /\ Count(toRelay, c) \in Nat
  BY <1>1, CountType
<1>3. ToSend(c) \in 0..1
  BY DEF ToSend
<1>4. /\ stray[c] \in Nat /\ resends[c] \in Nat /\ failures[c] \in Nat
      /\ \A s \in Stages : job[c][s] \in Nat
  BY DEF TypeOK, BrokerTypeOK, JobTypeOK
<1>5. /\ job[c]["posted"] \in Nat /\ job[c]["ok"] \in Nat
      /\ job[c]["error"] \in Nat /\ job[c]["asleep"] \in Nat
  BY <1>4 DEF Stages
<1>6. Work(c) \in Nat /\ Confirmed(c) \in Nat
  BY <1>2, <1>3, <1>5 DEF Work, Confirmed
<1> QED
  BY <1>2, <1>3, <1>4, <1>6

(* What is not published is nowhere.                                         *)
LEMMA Unpublished ==
  ASSUME TypeOK, GroundOK, OneCopyOK, BooksOK, NEW c \in Commands \ published
  PROVE  /\ c \notin confirmed /\ stray[c] = 0 /\ resends[c] = 0
         /\ \A s \in Stages : job[c][s] = 0
<1>1. ToSend(c) = 1 /\ resends[c] = 0 /\ failures[c] = 0
  BY DEF ToSend, GroundOK
<1>2. /\ Work(c) + Confirmed(c) <= 1
      /\ Count(arrived, c) + stray[c] + Work(c) <= 1
  BY <1>1, BooksType DEF OneCopyOK, BooksOK
<1>3. /\ Count(arrived, c) \in Nat /\ Count(toRelay, c) \in Nat
      /\ stray[c] \in Nat
      /\ job[c]["posted"] \in Nat /\ job[c]["ok"] \in Nat
      /\ job[c]["error"] \in Nat /\ job[c]["asleep"] \in Nat
  BY BooksType DEF Stages
<1>4. /\ stray[c] = 0 /\ Confirmed(c) = 0 /\ job[c]["posted"] = 0
      /\ job[c]["error"] = 0 /\ job[c]["asleep"] = 0
  <2>1. Work(c) = 1 + Count(toRelay, c) + job[c]["posted"] + job[c]["error"]
                    + job[c]["asleep"]
    BY <1>1 DEF Work
  <2>2. Work(c) \in Nat /\ Confirmed(c) \in Nat
    BY BooksType
  <2> QED
    BY <1>2, <1>3, <2>1, <2>2
<1>5. job[c]["ok"] = 0 /\ c \notin confirmed
  BY <1>3, <1>4 DEF Confirmed
<1> QED
  BY <1>1, <1>4, <1>5 DEF Stages

(* Sending a command again is paid for by a lost connection of udp2mqtt, a   *)
(* post that fails although it was taken or is given up by a failure; a      *)
(* confirmed command has nothing to come.                                    *)
LEMMA NextBooksOK ==
  TypeOK /\ GroundOK /\ OneCopyOK /\ BooksOK /\ [Next]_vars
    => OneCopyOK' /\ BooksOK'
<1> SUFFICES ASSUME TypeOK, GroundOK, OneCopyOK, BooksOK, [Next]_vars,
                    NEW d \in Commands
             PROVE  /\ Work(d)' + Confirmed(d)' <= 1 + resends'[d]
                    /\ Count(arrived, d)' + stray'[d] + Work(d)'
                         <= 1 + resends'[d] + failures'[d]
  BY DEF OneCopyOK, BooksOK
<1> DEFINE Good == /\ Work(d)' + Confirmed(d)' <= 1 + resends'[d]
                   /\ Count(arrived, d)' + stray'[d] + Work(d)'
                        <= 1 + resends'[d] + failures'[d]
           Wait == ToSend(d) + Count(toRelay, d)
           Posts == job[d]["posted"] + job[d]["error"] + job[d]["asleep"]
<1>0. /\ BrokerTypeOK /\ JobTypeOK
      /\ arrived \in Seq(Commands) /\ toRelay \in Seq(Commands)
  BY DEF TypeOK, BrokerTypeOK, ModemTypeOK
<1>1. /\ Count(arrived, d) \in Nat /\ Wait \in Nat /\ Posts \in Nat
      /\ stray[d] \in Nat /\ resends[d] \in Nat /\ failures[d] \in Nat
      /\ Confirmed(d) \in Nat /\ Work(d) = Wait + Posts
  <2>1. /\ job[d]["posted"] \in Nat /\ job[d]["error"] \in Nat
        /\ job[d]["asleep"] \in Nat
    BY BooksType DEF Stages
  <2> QED
    BY <2>1, BooksType DEF Work
<1>2. /\ Wait + Posts + Confirmed(d) <= 1 + resends[d]
      /\ Count(arrived, d) + stray[d] + Wait + Posts
           <= 1 + resends[d] + failures[d]
  BY <1>1 DEF OneCopyOK, BooksOK
<1>3. TypeOK'
  BY NextTypeOK
<1>4. /\ Wait' \in Nat /\ Posts' \in Nat /\ Work(d)' = Wait' + Posts'
  <2>1. /\ job'[d]["posted"] \in Nat /\ job'[d]["error"] \in Nat
        /\ job'[d]["asleep"] \in Nat
    BY <1>3 DEF TypeOK, JobTypeOK, Stages
  <2>2. Count(toRelay', d) \in Nat
    BY <1>3, CountType DEF TypeOK, BrokerTypeOK
  <2>3. ToSend(d)' \in 0..1
    BY DEF ToSend
  <2> QED
    BY <2>1, <2>2, <2>3 DEF Work
<1>5. ASSUME UNCHANGED <<job, confirmed, arrived, stray, failures>>,
             resends'[d] \in Nat, resends[d] <= resends'[d],
             Wait' <= Wait + (resends'[d] - resends[d])
      PROVE  Good
  <2>1. /\ Posts' = Posts /\ Confirmed(d)' = Confirmed(d)
        /\ Count(arrived, d)' = Count(arrived, d)
        /\ stray'[d] = stray[d] /\ failures'[d] = failures[d]
    BY <1>5 DEF Confirmed
  <2> HIDE DEF Wait, Posts
  <2> QED
    BY <1>1, <1>2, <1>4, <1>5, <2>1
<1>6. ASSUME UNCHANGED groundVars, UNCHANGED toRelay
      PROVE  Wait' = Wait /\ resends'[d] = resends[d]
  BY <1>6, GroundSame DEF groundVars, ToSend
<1>7. ASSUME UNCHANGED <<groundVars, toRelay, mtVars, arrived>> PROVE Good
  BY <1>1, <1>5, <1>6, <1>7 DEF mtVars
<1> HIDE DEF Wait, Posts
<1>8. ASSUME NEW c \in Commands, Publish(c) PROVE Good
  <2>1. /\ published' = published \cup {c} /\ c \notin published
        /\ UNCHANGED <<resends, toRelay, mtVars, arrived>>
    BY <1>8 DEF Publish, queueVars
  <2>2. Unsent' \subseteq Unsent \cup {c}
    BY <1>0, <1>8, PublishGround
  <2>3. ToSend(d)' <= ToSend(d)
    BY <2>1, <2>2 DEF ToSend
  <2>4. Wait' <= Wait
    <3>1. Count(toRelay, d)' = Count(toRelay, d) /\ Count(toRelay, d) \in Nat
      BY <2>1, BooksType
    <3>2. ToSend(d) \in 0..1 /\ ToSend(d)' \in 0..1
      BY DEF ToSend
    <3> QED
      BY <2>3, <3>1, <3>2 DEF Wait
  <2> QED
    BY <1>1, <1>4, <1>5, <2>1, <2>4 DEF mtVars
<1>9. CASE BrokerTakes
  <2> DEFINE c == groundOut[groundSent + 1]
  <2>1. /\ UNCHANGED <<published, resends, mtVars, arrived>>
        /\ toRelay' = toRelay \/ toRelay' = Append(toRelay, c)
    BY <1>9 DEF BrokerTakes, queueVars
  <2>2. c \in Commands /\ c \in Unsent /\ Unsent' = Unsent \ {c}
    BY <1>0, <1>9, TakesGround
  <2>3. c \in published
    BY <1>0, <2>2, GroundParts DEF GroundOK
  <2> HIDE DEF c
  <2>4. /\ Count(toRelay', d) \in {Count(toRelay, d), Count(toRelay, d) + 1}
        /\ d # c => Count(toRelay', d) = Count(toRelay, d)
    <3>1. /\ Count(toRelay, d) \in Nat
          /\ Count(Append(toRelay, c), d)
               = IF d = c THEN Count(toRelay, d) + 1 ELSE Count(toRelay, d)
      BY <1>0, <2>2, BooksType, CountAppend
    <3>2. CASE toRelay' = toRelay
      BY <3>1, <3>2
    <3>3. CASE toRelay' = Append(toRelay, c)
      BY <3>1, <3>3
    <3> QED
      BY <2>1, <3>2, <3>3
  <2>5. /\ d = c => ToSend(d) = 1 /\ ToSend(d)' = 0
        /\ d # c => ToSend(d)' = ToSend(d)
    BY <2>1, <2>2, <2>3 DEF ToSend
  <2>6. Wait' <= Wait
    <3>1. Count(toRelay, d) \in Nat /\ ToSend(d) \in 0..1
      BY BooksType
    <3> QED
      BY <2>4, <2>5, <3>1 DEF Wait
  <2> QED
    BY <1>1, <1>4, <1>5, <2>1, <2>6 DEF mtVars
<1>10. CASE GroundAcknowledged
  <2>1. UNCHANGED <<published, resends, toRelay, mtVars, arrived>>
    BY <1>10 DEF GroundAcknowledged, queueVars
  <2>2. Unsent' = Unsent
    BY <1>0, <1>10, AcknowledgedGround
  <2>3. Wait' = Wait
    BY <2>1, <2>2 DEF Wait, ToSend
  <2> QED
    BY <1>1, <1>4, <1>5, <2>1, <2>3 DEF mtVars
<1>11. CASE GroundLinkDrops
  <2>1. /\ UNCHANGED <<published, toRelay, mtVars, arrived>>
        /\ resends' = [c \in Commands |->
                         resends[c] + IF c \in BrokerHas THEN 1 ELSE 0]
    BY <1>11 DEF GroundLinkDrops, queueVars
  <2>2. resends'[d] = resends[d] + IF d \in BrokerHas THEN 1 ELSE 0
    BY <2>1
  <2>3. Unsent' = BrokerHas \cup Unsent
    BY <1>0, <1>11, DropsGround, GroundParts
  <2>4. ToSend(d)' <= ToSend(d) + IF d \in BrokerHas THEN 1 ELSE 0
    BY <2>1, <2>3 DEF ToSend
  <2>5. Wait' <= Wait + (resends'[d] - resends[d])
    <3>1. Count(toRelay, d)' = Count(toRelay, d) /\ Count(toRelay, d) \in Nat
      BY <2>1, BooksType
    <3>2. ToSend(d) \in 0..1 /\ ToSend(d)' \in 0..1
      BY DEF ToSend
    <3> QED
      BY <1>1, <2>2, <2>4, <3>1, <3>2 DEF Wait
  <2> QED
    BY <1>1, <1>4, <1>5, <2>1, <2>2, <2>5 DEF mtVars
<1>12. CASE GroundEnds
  <2>1. UNCHANGED <<published, resends, toRelay, mtVars, arrived>>
    BY <1>12 DEF GroundEnds, queueVars
  <2>2. Unsent' = {}
    BY <1>0, <1>12, DropsGround
  <2>3. Wait' <= Wait
    <3>1. ToSend(d)' <= ToSend(d)
      BY <2>1, <2>2 DEF ToSend
    <3>2. Count(toRelay, d)' = Count(toRelay, d) /\ Count(toRelay, d) \in Nat
      BY <2>1, BooksType
    <3>3. ToSend(d) \in 0..1 /\ ToSend(d)' \in 0..1
      BY DEF ToSend
    <3> QED
      BY <3>1, <3>2, <3>3 DEF Wait
  <2> QED
    BY <1>1, <1>4, <1>5, <2>1, <2>3 DEF mtVars
<1>13. CASE LinkDrops
  <2>1. UNCHANGED <<groundVars, mtVars, arrived>> /\ toRelay' = <<>>
    BY <1>13 DEF LinkDrops, queueVars
  <2>2. Wait' <= Wait /\ resends'[d] = resends[d]
    <3>1. ToSend(d)' = ToSend(d) /\ ToSend(d) \in 0..1 /\ resends' = resends
      BY <2>1, GroundSame DEF ToSend, groundVars
    <3>2. Count(toRelay', d) = 0 /\ Count(toRelay, d) \in Nat
      BY <2>1, CountEmpty, BooksType
    <3> QED
      BY <3>1, <3>2 DEF Wait
  <2> QED
    BY <1>1, <1>4, <1>5, <2>1, <2>2 DEF mtVars
<1>14. CASE CallbackSatCom
  <2> DEFINE c == Head(toRelay)
  <2>1. /\ toRelay # <<>> /\ toRelay' = Tail(toRelay)
        /\ UNCHANGED <<groundVars, arrived, stray, failures, confirmed>>
    BY <1>14 DEF CallbackSatCom, queueVars
  <2>2. /\ c \in Commands /\ job'[c]["posted"] = job[c]["posted"] + 1
        /\ \A s \in Stages : s # "posted" => job'[c][s] = job[c][s]
        /\ d # c => job'[d] = job[d]
    BY <1>0, <1>14, CallbackJob
  <2>3. Count(toRelay, d) = IF d = c THEN Count(toRelay', d) + 1
                                     ELSE Count(toRelay', d)
    BY <1>0, <2>1, CountTail
  <2>4. ToSend(d)' = ToSend(d) /\ resends' = resends
    BY <2>1, GroundSame DEF ToSend, groundVars
  <2> HIDE DEF c
  <2>5. Wait' + Posts' = Wait + Posts /\ Confirmed(d)' = Confirmed(d)
    <3>1. /\ Count(toRelay', d) \in Nat /\ ToSend(d) \in 0..1
          /\ job[d]["posted"] \in Nat /\ job[d]["error"] \in Nat
          /\ job[d]["asleep"] \in Nat
      BY <1>3, CountType, BooksType DEF TypeOK, BrokerTypeOK, Stages
    <3>2. CASE d = c
      <4>1. Wait' = Wait - 1
        BY <2>3, <2>4, <3>1, <3>2 DEF Wait
      <4>2. Posts' = Posts + 1
        BY <2>2, <3>1, <3>2 DEF Posts, Stages
      <4>3. Confirmed(d)' = Confirmed(d)
        BY <2>1, <2>2, <3>2 DEF Confirmed, Stages
      <4> QED
        BY <1>1, <4>1, <4>2, <4>3
    <3>3. CASE d # c
      <4>1. Wait' = Wait
        BY <2>3, <2>4, <3>3 DEF Wait
      <4>2. Posts' = Posts /\ Confirmed(d)' = Confirmed(d)
        BY <2>1, <2>2, <3>3 DEF Posts, Confirmed
      <4> QED
        BY <4>1, <4>2
    <3> QED
      BY <3>2, <3>3
  <2>6. /\ Count(arrived, d)' = Count(arrived, d)
        /\ stray'[d] = stray[d] /\ resends'[d] = resends[d]
        /\ failures'[d] = failures[d]
    BY <2>1, <2>4
  <2>7. Work(d)' = Work(d) /\ Confirmed(d)' = Confirmed(d)
    BY <1>1, <1>4, <2>5
  <2> QED
    BY <1>1, <1>2, <2>6, <2>7
<1>15. ASSUME NEW c \in Commands, Post(c) \/ Relay(c), d # c PROVE Good
  <2>1. UNCHANGED <<groundVars, toRelay>>
    BY <1>15 DEF Post, GatewayTakes, GatewayTakesAndFails, GatewayRejects,
      GatewayUnreachable, ClientGivesUp, StrayEnds, Relay, OnMessageSent,
      Repost, brokerVars
  <2>2. /\ job'[d] = job[d] /\ stray'[d] = stray[d] /\ failures'[d] = failures[d]
        /\ d \in confirmed' <=> d \in confirmed
    <3>1. CASE StrayEnds(c)
      BY <1>0, <1>15, <3>1 DEF StrayEnds, JobTypeOK
    <3>2. CASE Post(c) /\ ~StrayEnds(c)
      <4>1. PICK to \in {"ok", "error"} : Move(c, "posted", to)
        BY <1>0, <3>2, PostJob
      <4>2. job'[d] = job[d]
        BY <1>0, <1>15, <4>1, MoveJob DEF Stages
      <4>3. /\ stray' = stray \/ stray' = [stray EXCEPT ![c] = @ + 1]
            /\ failures' = failures \/ failures' = [failures EXCEPT ![c] = @ + 1]
            /\ confirmed' = confirmed
        BY <3>2 DEF Post, GatewayTakes, GatewayTakesAndFails, GatewayRejects,
          GatewayUnreachable, ClientGivesUp
      <4>4. stray'[d] = stray[d] /\ failures'[d] = failures[d]
        BY <1>0, <1>15, <4>3 DEF JobTypeOK
      <4> QED
        BY <4>2, <4>3, <4>4
    <3>3. CASE Relay(c)
      <4>1. UNCHANGED <<stray, failures>>
        BY <3>3, RelayJob
      <4>2. CASE Confirm(c)
        BY <1>0, <1>15, <4>1, <4>2, ConfirmJob
      <4>3. CASE /\ Move(c, "error", "asleep") \/ Move(c, "asleep", "posted")
                 /\ UNCHANGED confirmed
        BY <1>0, <1>15, <4>1, <4>3, MoveJob DEF Stages
      <4> QED
        BY <3>3, <4>2, <4>3, RelayJob
    <3> QED
      BY <1>15, <3>1, <3>2, <3>3
  <2>3. arrived' = arrived \/ arrived' = Append(arrived, c)
    BY <1>15 DEF Post, GatewayTakes, GatewayTakesAndFails, GatewayRejects,
      GatewayUnreachable, ClientGivesUp, StrayEnds, Relay, OnMessageSent,
      Repost, Enqueue, queueVars
  <2>4. Count(arrived, d)' = Count(arrived, d)
    <3>1. CASE arrived' = arrived
      BY <3>1
    <3>2. CASE arrived' = Append(arrived, c)
      BY <1>0, <1>15, <3>2, CountAppend
    <3> QED
      BY <2>3, <3>1, <3>2
  <2>5. /\ Wait' = Wait /\ resends'[d] = resends[d]
        /\ Posts' = Posts /\ Confirmed(d)' = Confirmed(d)
    BY <1>6, <2>1, <2>2 DEF Posts, Confirmed
  <2> QED
    BY <1>1, <1>2, <1>4, <2>2, <2>4, <2>5
<1>16. CASE Post(d) /\ ~StrayEnds(d)
  <2>1. Wait' = Wait /\ resends'[d] = resends[d] /\ confirmed' = confirmed
    BY <1>0, <1>6, <1>16, PostJob DEF brokerVars
  <2>2. /\ job[d]["posted"] \in Nat /\ job[d]["error"] \in Nat
        /\ job[d]["asleep"] \in Nat /\ job[d]["ok"] \in Nat
    BY BooksType DEF Stages
  <2>3. ASSUME Move(d, "posted", "ok")
        PROVE  Posts' = Posts - 1 /\ Confirmed(d)' = Confirmed(d) + 1
    <3>1. /\ job'[d]["posted"] = job[d]["posted"] - 1
          /\ job'[d]["ok"] = job[d]["ok"] + 1
          /\ job'[d]["error"] = job[d]["error"]
          /\ job'[d]["asleep"] = job[d]["asleep"]
      BY <1>0, <2>3, MoveJob DEF Stages
    <3> QED
      BY <2>1, <2>2, <3>1 DEF Posts, Confirmed
  <2>4. ASSUME Move(d, "posted", "error")
        PROVE  Posts' = Posts /\ Confirmed(d)' = Confirmed(d)
    <3>1. /\ job'[d]["posted"] = job[d]["posted"] - 1
          /\ job'[d]["error"] = job[d]["error"] + 1
          /\ job'[d]["ok"] = job[d]["ok"]
          /\ job'[d]["asleep"] = job[d]["asleep"]
      BY <1>0, <2>4, MoveJob DEF Stages
    <3> QED
      BY <2>1, <2>2, <3>1 DEF Posts, Confirmed
  <2>5. Count(Append(arrived, d), d) = Count(arrived, d) + 1
    BY <1>0, CountAppend
  <2>6. CASE GatewayTakes(d)
    <3>1. Posts' = Posts - 1 /\ Confirmed(d)' = Confirmed(d) + 1
      BY <2>3, <2>6 DEF GatewayTakes
    <3>2. Count(arrived, d)' = Count(arrived, d) + 1
      BY <2>5, <2>6 DEF GatewayTakes, Enqueue
    <3>3. stray'[d] = stray[d] /\ failures'[d] = failures[d]
      BY <2>6 DEF GatewayTakes
    <3> QED
      BY <1>1, <1>2, <1>4, <2>1, <3>1, <3>2, <3>3
  <2>7. CASE GatewayTakesAndFails(d)
    <3>1. Posts' = Posts /\ Confirmed(d)' = Confirmed(d)
      BY <2>4, <2>7 DEF GatewayTakesAndFails
    <3>2. Count(arrived, d)' = Count(arrived, d) + 1
      BY <2>5, <2>7 DEF GatewayTakesAndFails, Enqueue
    <3>3. failures'[d] = failures[d] + 1 /\ stray'[d] = stray[d]
      BY <1>0, <2>7 DEF GatewayTakesAndFails, JobTypeOK
    <3> QED
      BY <1>1, <1>2, <1>4, <2>1, <3>1, <3>2, <3>3
  <2>8. CASE GatewayRejects(d) \/ GatewayUnreachable(d)
    <3>1. /\ Count(arrived, d)' = Count(arrived, d)
          /\ stray'[d] = stray[d] /\ failures'[d] = failures[d]
      BY <2>8 DEF GatewayRejects, GatewayUnreachable, queueVars
    <3>2. Posts' <= Posts /\ Posts' + Confirmed(d)' = Posts + Confirmed(d)
      BY <1>1, <2>3, <2>4, <2>8 DEF GatewayRejects, GatewayUnreachable
    <3>3. Confirmed(d)' \in Nat
      BY <1>1, <2>3, <2>4, <2>8
        DEF GatewayRejects, GatewayUnreachable
    <3> QED
      BY <1>1, <1>2, <1>4, <2>1, <3>1, <3>2, <3>3
  <2>9. CASE ClientGivesUp(d)
    <3>1. Posts' = Posts /\ Confirmed(d)' = Confirmed(d)
      BY <2>4, <2>9 DEF ClientGivesUp
    <3>2. /\ stray'[d] = stray[d] + 1 /\ failures'[d] = failures[d] + 1
          /\ Count(arrived, d)' = Count(arrived, d)
      BY <1>0, <2>9 DEF ClientGivesUp, JobTypeOK, queueVars
    <3> QED
      BY <1>1, <1>2, <1>4, <2>1, <3>1, <3>2
  <2> QED
    BY <1>16, <2>6, <2>7, <2>8, <2>9 DEF Post
<1>17. CASE StrayEnds(d)
  <2>1. /\ stray[d] > 0 /\ stray'[d] = stray[d] - 1
        /\ UNCHANGED <<failures, job, confirmed, groundVars, toRelay>>
    BY <1>0, <1>17 DEF StrayEnds, JobTypeOK, brokerVars
  <2>2. /\ Count(arrived, d)' <= Count(arrived, d) + 1
        /\ Count(arrived, d)' \in Nat
    <3>1. CASE Enqueue(d)
      BY <1>0, <1>1, <3>1, CountAppend DEF Enqueue
    <3>2. CASE UNCHANGED queueVars
      BY <1>1, <3>2 DEF queueVars
    <3> QED
      BY <1>17, <3>1, <3>2 DEF StrayEnds
  <2>3. /\ Wait' = Wait /\ resends'[d] = resends[d]
        /\ Posts' = Posts /\ Confirmed(d)' = Confirmed(d)
    BY <1>6, <2>1 DEF Posts, Confirmed
  <2> QED
    BY <1>1, <1>2, <1>4, <2>1, <2>2, <2>3
<1>18. CASE Relay(d)
  <2>1. UNCHANGED <<stray, failures, groundVars, toRelay, arrived>>
    BY <1>18, RelayJob DEF brokerVars, queueVars
  <2>2. /\ job[d]["posted"] \in Nat /\ job[d]["error"] \in Nat
        /\ job[d]["asleep"] \in Nat /\ job[d]["ok"] \in Nat
    BY BooksType DEF Stages
  <2>3. Posts' = Posts /\ Confirmed(d)' <= Confirmed(d) /\ Confirmed(d)' \in Nat
    <3>1. CASE Confirm(d)
      <4>1. /\ job'[d]["posted"] = job[d]["posted"]
            /\ job'[d]["error"] = job[d]["error"]
            /\ job'[d]["asleep"] = job[d]["asleep"]
            /\ job[d]["ok"] > 0 /\ job'[d]["ok"] = job[d]["ok"] - 1
            /\ d \in confirmed'
        BY <1>0, <3>1, ConfirmJob DEF Stages
      <4> QED
        BY <2>2, <4>1 DEF Posts, Confirmed
    <3>2. CASE Move(d, "error", "asleep") /\ UNCHANGED confirmed
      <4>1. /\ job'[d]["posted"] = job[d]["posted"]
            /\ job'[d]["error"] = job[d]["error"] - 1
            /\ job'[d]["asleep"] = job[d]["asleep"] + 1
            /\ job'[d]["ok"] = job[d]["ok"]
        BY <1>0, <3>2, MoveJob DEF Stages
      <4> QED
        BY <2>2, <3>2, <4>1 DEF Posts, Confirmed
    <3>3. CASE Move(d, "asleep", "posted") /\ UNCHANGED confirmed
      <4>1. /\ job'[d]["posted"] = job[d]["posted"] + 1
            /\ job'[d]["error"] = job[d]["error"]
            /\ job'[d]["asleep"] = job[d]["asleep"] - 1
            /\ job'[d]["ok"] = job[d]["ok"]
        BY <1>0, <3>3, MoveJob DEF Stages
      <4> QED
        BY <2>2, <3>3, <4>1 DEF Posts, Confirmed
    <3> QED
      BY <1>18, <3>1, <3>2, <3>3, RelayJob
  <2>4. Wait' = Wait /\ resends'[d] = resends[d]
    BY <1>6, <2>1
  <2>5. Count(arrived, d)' = Count(arrived, d)
    BY <2>1
  <2> QED
    BY <1>1, <1>2, <1>4, <2>1, <2>3, <2>4, <2>5
<1>19. CASE Crash
  <2>1. /\ UNCHANGED <<arrived, failures, confirmed, groundVars>> /\ toRelay' = <<>>
        /\ job' = [c \in Commands |-> NoJob]
        /\ stray' = [c \in Commands |-> stray[c] + job[c]["posted"]]
    BY <1>19 DEF Crash, queueVars
  <2>2. /\ job'[d] = NoJob /\ stray'[d] = stray[d] + job[d]["posted"]
    BY <2>1
  <2>3. /\ job[d]["posted"] \in Nat /\ job[d]["error"] \in Nat
        /\ job[d]["asleep"] \in Nat /\ job[d]["ok"] \in Nat
    BY BooksType DEF Stages
  <2>4. Posts' = 0 /\ job[d]["posted"] <= Posts
    BY <2>2, <2>3 DEF Posts, NoJob, Stages
  <2>5. Confirmed(d)' <= Confirmed(d) /\ Confirmed(d)' \in Nat
    BY <2>1, <2>2, <2>3 DEF Confirmed, NoJob, Stages
  <2>6. Wait' <= Wait /\ resends'[d] = resends[d]
    <3>1. ToSend(d)' = ToSend(d) /\ ToSend(d) \in 0..1 /\ resends' = resends
      BY <2>1, GroundSame DEF ToSend, groundVars
    <3>2. Count(toRelay', d) = 0 /\ Count(toRelay, d) \in Nat
      BY <2>1, CountEmpty, BooksType
    <3> QED
      BY <3>1, <3>2 DEF Wait
  <2>7. Count(arrived, d)' = Count(arrived, d) /\ failures'[d] = failures[d]
    BY <2>1
  <2> QED
    BY <1>1, <1>2, <1>4, <2>2, <2>3, <2>4, <2>5, <2>6, <2>7
<1>20. CASE OnConnect \/ Restart \/ Session \/ ReadCommand \/ ReadRaises
              \/ ClearTelemetry \/ BrokerGets \/ RelayAcknowledged
              \/ UNCHANGED vars
  BY <1>7, <1>20 DEF OnConnect, Restart, Session, ReadCommand, ReadRaises,
    ClearTelemetry, BrokerGets, RelayAcknowledged, vars, brokerVars, queueVars
<1>21. ASSUME NEW t \in Telemetry,
              WriteTelemetry(t) \/ RelayPost(t) \/ PostFails(t)
       PROVE  Good
  BY <1>7, <1>21 DEF WriteTelemetry, RelayPost, PostFails, brokerVars, queueVars
<1>22. ASSUME NEW c \in Commands, Post(c) \/ Relay(c) PROVE Good
  BY <1>15, <1>16, <1>17, <1>18, <1>22
<1> QED
  BY <1>8, <1>9, <1>10, <1>11, <1>12, <1>13, <1>14, <1>19, <1>20, <1>21, <1>22
    DEF Next

(* Only published commands are given to the client, once each, and only they *)
(* have posts that can fail.                                                 *)
LEMMA NextGroundOK ==
  TypeOK /\ GroundOK /\ OneCopyOK /\ BooksOK /\ [Next]_vars => GroundOK'
<1> SUFFICES ASSUME TypeOK, GroundOK, OneCopyOK, BooksOK, [Next]_vars
             PROVE  GroundOK'
  OBVIOUS
<1>0. /\ BrokerTypeOK /\ JobTypeOK /\ groundOut \in Seq(Commands)
  BY DEF TypeOK, BrokerTypeOK
<1>1. ASSUME UNCHANGED groundVars,
             \A d \in Commands \ published : failures'[d] = failures[d]
      PROVE  GroundOK'
  BY <1>1 DEF GroundOK, groundVars
<1>2. ASSUME NEW c \in Commands, Publish(c) PROVE GroundOK'
  <2>1. /\ c \notin published /\ published' = published \cup {c}
        /\ UNCHANGED <<resends, failures>>
    BY <1>2 DEF Publish, mtVars
  <2>2. Range(groundOut') \subseteq published'
    BY <1>0, <1>2, <2>1, PublishGround DEF GroundOK
  <2>3. \A i, j \in DOMAIN groundOut' : groundOut'[i] = groundOut'[j] => i = j
    <3>1. CASE groundOut' = groundOut
      BY <3>1 DEF GroundOK
    <3>2. CASE groundOut' = Append(groundOut, c)
      <4>1. \A i \in DOMAIN groundOut : groundOut[i] # c
        BY <2>1 DEF GroundOK, Range
      <4>2. /\ DOMAIN groundOut' = DOMAIN groundOut \cup {Len(groundOut) + 1}
            /\ \A i \in DOMAIN groundOut : groundOut'[i] = groundOut[i]
            /\ groundOut'[Len(groundOut) + 1] = c
        BY <1>0, <3>2
      <4> QED
        BY <4>1, <4>2 DEF GroundOK
    <3> QED
      BY <1>0, <1>2, <3>1, <3>2, PublishGround
  <2> QED
    BY <2>1, <2>2, <2>3 DEF GroundOK
<1>3. CASE BrokerTakes \/ GroundLinkDrops
  <2>1. UNCHANGED <<published, groundOut, failures>>
    BY <1>3 DEF BrokerTakes, GroundLinkDrops, mtVars
  <2>2. \A d \in Commands \ published : resends'[d] = resends[d]
    <3>1. CASE BrokerTakes
      BY <3>1 DEF BrokerTakes
    <3>2. CASE GroundLinkDrops
      <4>1. BrokerHas \subseteq published
        BY <1>0, GroundParts DEF GroundOK
      <4>2. \A d \in Commands : resends[d] \in Nat
        BY <1>0 DEF BrokerTypeOK
      <4> QED
        BY <3>2, <4>1, <4>2 DEF GroundLinkDrops
    <3> QED
      BY <1>3, <3>1, <3>2
  <2> QED
    BY <2>1, <2>2 DEF GroundOK
<1>4. CASE GroundAcknowledged
  <2>1. /\ UNCHANGED <<published, resends, failures>> /\ groundOut # <<>>
        /\ groundOut' = Tail(groundOut)
    BY <1>0, <1>4 DEF GroundAcknowledged, mtVars, BrokerTypeOK
  <2>2. \A i \in DOMAIN Tail(groundOut) :
          /\ i + 1 \in DOMAIN groundOut /\ i \in Nat
          /\ Tail(groundOut)[i] = groundOut[i + 1]
    BY <1>0, <2>1
  <2>3. \A i, j \in DOMAIN groundOut' : groundOut'[i] = groundOut'[j] => i = j
    <3> SUFFICES ASSUME NEW i \in DOMAIN groundOut', NEW j \in DOMAIN groundOut',
                        groundOut'[i] = groundOut'[j]
                 PROVE  i = j
      OBVIOUS
    <3>1. i + 1 = j + 1 /\ i \in Nat /\ j \in Nat
      BY <2>1, <2>2 DEF GroundOK
    <3> QED
      BY <3>1
  <2>4. Range(groundOut') \subseteq Range(groundOut)
    BY <1>0, <1>4, AcknowledgedGround
  <2> QED
    BY <2>1, <2>3, <2>4 DEF GroundOK
<1>5. CASE GroundEnds
  <2>1. UNCHANGED <<published, resends, failures>> /\ groundOut' = <<>>
    BY <1>5 DEF GroundEnds, mtVars
  <2>2. Range(groundOut') = {} /\ DOMAIN groundOut' = {}
    BY <2>1, EmptyRange
  <2> QED
    BY <2>1, <2>2 DEF GroundOK
<1>6. ASSUME NEW c \in Commands, Post(c), ~StrayEnds(c) PROVE GroundOK'
  <2>1. UNCHANGED groundVars
    BY <1>0, <1>6, PostJob DEF brokerVars
  <2>2. c \in published
    <3>1. job[c]["posted"] > 0
      BY <1>0, <1>6, PostJob DEF Move
    <3> QED
      BY <3>1, Unpublished DEF Stages
  <2>3. failures' = failures \/ failures' = [failures EXCEPT ![c] = @ + 1]
    BY <1>6 DEF Post, GatewayTakes, GatewayTakesAndFails, GatewayRejects,
      GatewayUnreachable, ClientGivesUp
  <2>4. \A d \in Commands \ published : failures'[d] = failures[d]
    BY <1>0, <2>2, <2>3 DEF JobTypeOK
  <2> QED
    BY <1>1, <2>1, <2>4
<1>7. ASSUME NEW c \in Commands, StrayEnds(c) \/ Relay(c) PROVE GroundOK'
  BY <1>1, <1>7 DEF StrayEnds, Relay, OnMessageSent, Repost, brokerVars
<1>8. CASE LinkDrops \/ OnConnect \/ CallbackSatCom \/ Crash \/ Restart
  BY <1>1, <1>8 DEF LinkDrops, OnConnect, CallbackSatCom, Crash, Restart,
    brokerVars, mtVars
<1>9. CASE Session \/ ReadCommand \/ ReadRaises \/ ClearTelemetry
             \/ BrokerGets \/ RelayAcknowledged \/ UNCHANGED vars
  BY <1>1, <1>9 DEF Session, ReadCommand, ReadRaises, ClearTelemetry,
    BrokerGets, RelayAcknowledged, vars, brokerVars, mtVars
<1>10. ASSUME NEW t \in Telemetry,
              WriteTelemetry(t) \/ RelayPost(t) \/ PostFails(t)
       PROVE  GroundOK'
  BY <1>1, <1>10 DEF WriteTelemetry, RelayPost, PostFails, brokerVars, mtVars
<1> QED
  BY <1>2, <1>3, <1>4, <1>5, <1>6, <1>7, <1>8, <1>9, <1>10 DEF Next, Post

------------------------------------------------------------------------------
(* NoStaleCommand                                                            *)

\* No element of the sequence comes after one it is before.
NoneStale(s, pairs) ==
  \A i, j \in DOMAIN s : i < j => <<s[j], s[i]>> \notin pairs

(* An element that is in no pair with one before it may be appended.         *)
LEMMA NoneStaleAppend ==
  ASSUME NEW S, NEW s \in Seq(S), NEW x \in S, NEW pairs,
         NoneStale(s, pairs), \A y \in Range(s) : <<x, y>> \notin pairs
  PROVE  NoneStale(Append(s, x), pairs)
<1> SUFFICES ASSUME NEW i \in DOMAIN Append(s, x), NEW j \in DOMAIN Append(s, x),
                    i < j
             PROVE  <<Append(s, x)[j], Append(s, x)[i]>> \notin pairs
  BY DEF NoneStale
<1>1. i \in DOMAIN s /\ Append(s, x)[i] = s[i]
  OBVIOUS
<1>2. CASE j \in DOMAIN s
  BY <1>1, <1>2 DEF NoneStale
<1>3. CASE j = Len(s) + 1
  BY <1>1, <1>3 DEF Range
<1> QED
  BY <1>2, <1>3

(* New pairs whose second is not in the sequence, or whose first is not, do  *)
(* it no harm.                                                               *)
LEMMA NoneStaleMore ==
  ASSUME NEW s, NEW pairs, NEW A, NEW b, NoneStale(s, pairs),
         b \notin Range(s) \/ A \cap Range(s) = {}
  PROVE  NoneStale(s, pairs \cup A \X {b})
BY DEF NoneStale, Range

(* A command whose books are closed has no post left to come.                *)
LEMMA SettledDone ==
  ASSUME TypeOK, GroundOK, OneCopyOK, BooksOK, NEW b \in Commands, Settled(b)
  PROVE  /\ b \in published /\ \A s \in Stages \ {"ok"} : job[b][s] = 0
         /\ stray[b] = 0
<1>1. /\ b \in confirmed /\ resends[b] = 0 /\ stray[b] = 0
  BY DEF Settled
<1>2. Work(b) + Confirmed(b) <= 1 /\ Confirmed(b) >= 1 /\ Work(b) \in Nat
  BY <1>1, BooksType DEF OneCopyOK, Confirmed, Stages
<1>3. Work(b) = 0
  BY <1>2, BooksType
<1>4. /\ job[b]["posted"] \in Nat /\ job[b]["error"] \in Nat
      /\ job[b]["asleep"] \in Nat
      /\ Count(toRelay, b) \in Nat /\ ToSend(b) \in 0..1
  BY BooksType DEF Stages
<1>5. job[b]["posted"] = 0 /\ job[b]["error"] = 0 /\ job[b]["asleep"] = 0
  <2> DEFINE t == ToSend(b)  n == Count(toRelay, b)  p == job[b]["posted"]
             e == job[b]["error"]  a == job[b]["asleep"]
  <2>1. t + n + p + e + a = 0
    BY <1>3 DEF Work
  <2>2. t \in Nat /\ n \in Nat /\ p \in Nat /\ e \in Nat /\ a \in Nat
    BY <1>4
  <2> HIDE DEF t, n, p, e, a
  <2>3. p = 0 /\ e = 0 /\ a = 0
    BY <2>1, <2>2
  <2> QED
    BY <2>3 DEF p, e, a
<1> QED
  BY <1>1, <1>5, Unpublished DEF Stages

(* A settled command stays so: nothing posts it or sends it again.           *)
LEMMA SettledStays ==
  ASSUME TypeOK, GroundOK, OneCopyOK, BooksOK, Next,
         NEW b \in Commands, Settled(b)
  PROVE  Settled(b)'
<1>0. /\ BrokerTypeOK /\ JobTypeOK /\ groundOut \in Seq(Commands)
      /\ b \in published /\ stray[b] = 0 /\ job[b]["posted"] = 0
      /\ b \in confirmed /\ resends[b] = 0 /\ b \notin Range(groundOut)
  BY SettledDone DEF TypeOK, BrokerTypeOK, Settled, Stages
<1>1. ASSUME confirmed \subseteq confirmed', stray'[b] = stray[b],
             resends'[b] = resends[b],
             \A c \in Range(groundOut') : c \in Range(groundOut) \/ c # b
      PROVE  Settled(b)'
  BY <1>0, <1>1 DEF Settled
<1>2. CASE UNCHANGED <<mtVars, groundVars>>
  BY <1>1, <1>2 DEF mtVars, groundVars
<1>3. ASSUME NEW c \in Commands, Publish(c) PROVE Settled(b)'
  <2>1. c # b /\ UNCHANGED <<resends, stray, confirmed>>
    BY <1>0, <1>3 DEF Publish, mtVars
  <2>2. Range(groundOut') \subseteq Range(groundOut) \cup {c}
    BY <1>0, <1>3, PublishGround
  <2> QED
    BY <1>1, <2>1, <2>2
<1>4. CASE BrokerTakes \/ GroundAcknowledged \/ GroundEnds
  <2>1. UNCHANGED <<resends, stray, confirmed>>
    BY <1>4 DEF BrokerTakes, GroundAcknowledged, GroundEnds, mtVars
  <2>2. Range(groundOut') \subseteq Range(groundOut)
    BY <1>0, <1>4, AcknowledgedGround, DropsGround DEF BrokerTakes
  <2> QED
    BY <1>1, <2>1, <2>2
<1>5. CASE GroundLinkDrops
  <2>1. b \notin BrokerHas
    BY <1>0, GroundParts
  <2>2. resends'[b] = resends[b] + 0
    BY <1>5, <2>1 DEF GroundLinkDrops
  <2>3. UNCHANGED <<groundOut, stray, confirmed>>
    BY <1>5 DEF GroundLinkDrops, mtVars
  <2> QED
    BY <1>0, <1>1, <2>2, <2>3
<1>6. ASSUME NEW c \in Commands, Post(c) PROVE Settled(b)'
  <2>1. UNCHANGED <<groundVars, confirmed>>
    BY <1>6 DEF Post, GatewayTakes, GatewayTakesAndFails, GatewayRejects,
      GatewayUnreachable, ClientGivesUp, StrayEnds, brokerVars
  <2>2. stray'[b] = stray[b]
    <3>1. CASE StrayEnds(c)
      <4>1. stray[c] > 0 /\ stray' = [stray EXCEPT ![c] = @ - 1]
        BY <3>1 DEF StrayEnds
      <4>2. c # b
        BY <1>0, <4>1
      <4> QED
        BY <1>0, <4>1, <4>2 DEF JobTypeOK
    <3>2. CASE ~StrayEnds(c)
      <4>1. c # b
        <5>1. job[c]["posted"] > 0
          BY <1>0, <1>6, <3>2, PostJob DEF Move
        <5> QED
          BY <1>0, <5>1
      <4>2. stray' = stray \/ stray' = [stray EXCEPT ![c] = @ + 1]
        BY <1>6, <3>2 DEF Post, GatewayTakes, GatewayTakesAndFails,
          GatewayRejects, GatewayUnreachable, ClientGivesUp
      <4> QED
        BY <1>0, <4>1, <4>2 DEF JobTypeOK
    <3> QED
      BY <3>1, <3>2
  <2> QED
    BY <1>1, <2>1, <2>2 DEF groundVars
<1>7. ASSUME NEW c \in Commands, Relay(c) PROVE Settled(b)'
  <2>1. UNCHANGED <<groundVars, stray>>
    BY <1>7, RelayJob DEF brokerVars
  <2>2. confirmed \subseteq confirmed'
    BY <1>7, RelayJob DEF Confirm
  <2> QED
    BY <1>1, <2>1, <2>2 DEF groundVars
<1>8. CASE Crash
  <2>1. UNCHANGED <<groundVars, confirmed>>
    BY <1>8 DEF Crash
  <2>2. stray'[b] = stray[b] + job[b]["posted"]
    BY <1>8 DEF Crash
  <2> QED
    BY <1>0, <1>1, <2>1, <2>2 DEF groundVars
<1>9. CASE LinkDrops \/ OnConnect \/ CallbackSatCom \/ Restart
  BY <1>1, <1>9 DEF LinkDrops, OnConnect, CallbackSatCom, Restart, groundVars,
    brokerVars, mtVars
<1>10. CASE Session \/ ReadCommand \/ ReadRaises \/ ClearTelemetry
              \/ BrokerGets \/ RelayAcknowledged
  BY <1>2, <1>10 DEF Session, ReadCommand, ReadRaises, ClearTelemetry,
    BrokerGets, RelayAcknowledged, brokerVars
<1>11. ASSUME NEW t \in Telemetry,
              WriteTelemetry(t) \/ RelayPost(t) \/ PostFails(t)
       PROVE  Settled(b)'
  BY <1>2, <1>11 DEF WriteTelemetry, RelayPost, PostFails, brokerVars
<1> QED
  BY <1>3, <1>4, <1>5, <1>6, <1>7, <1>8, <1>9, <1>10, <1>11 DEF Next

(* What is before something is settled, so it cannot come to the gateway     *)
(* again; what came there was published.                                     *)
SettledOK ==
  /\ \A b \in Commands, c \in Messages : <<b, c>> \in before => Settled(b)
  /\ Range(arrived) \subseteq published

CommandOrderOK == SettledOK /\ NoStaleCommand

(* A command that arrives has a post or a given-up one, so nothing it is     *)
(* before has arrived yet.                                                   *)
LEMMA NextCommandOrderOK ==
  TypeOK /\ GroundOK /\ OneCopyOK /\ BooksOK /\ CommandOrderOK /\ [Next]_vars
    => CommandOrderOK'
<1> SUFFICES ASSUME TypeOK, GroundOK, OneCopyOK, BooksOK, CommandOrderOK,
                    [Next]_vars
             PROVE  CommandOrderOK'
  OBVIOUS
<1>0. /\ JobTypeOK /\ arrived \in Seq(Commands)
      /\ published \subseteq Commands /\ written \subseteq Telemetry
  BY DEF TypeOK, BrokerTypeOK, ModemTypeOK, TelemetryTypeOK
<1>1. NoneStale(arrived, before)
  BY DEF CommandOrderOK, NoStaleCommand, NoneStale
<1>2. ASSUME NoneStale(arrived', before'), Range(arrived') \subseteq published',
             Next,
             \A b \in Commands, c \in Messages :
               <<b, c>> \in before' => <<b, c>> \in before \/ Settled(b)
      PROVE  CommandOrderOK'
  <2>1. ASSUME NEW b \in Commands, NEW c \in Messages, <<b, c>> \in before'
        PROVE  Settled(b)'
    <3>1. Settled(b)
      BY <1>2, <2>1 DEF CommandOrderOK, SettledOK
    <3> QED
      BY <1>2, <3>1, SettledStays
  <2> QED
    BY <1>2, <2>1 DEF CommandOrderOK, SettledOK, NoStaleCommand, NoneStale
<1>3. ASSUME UNCHANGED <<arrived, published, before>>, Next
      PROVE  CommandOrderOK'
  BY <1>1, <1>2, <1>3 DEF CommandOrderOK, SettledOK
<1>4. CASE UNCHANGED vars
  <2>1. UNCHANGED <<arrived, published, before, confirmed, stray, resends, groundOut>>
    BY <1>4 DEF vars, brokerVars, groundVars, mtVars, queueVars, historyVars
  <2> QED
    BY <2>1 DEF CommandOrderOK, SettledOK, Settled, NoStaleCommand
<1> SUFFICES ASSUME Next PROVE CommandOrderOK'
  BY <1>4
<1>5. ASSUME NEW c \in Commands, Publish(c) PROVE CommandOrderOK'
  <2> DEFINE past == {b \in confirmed : Settled(b)}
  <2>1. /\ c \notin published /\ published' = published \cup {c}
        /\ before' = before \cup past \X {c} /\ arrived' = arrived
    BY <1>5 DEF Publish, queueVars
  <2>2. NoneStale(arrived, before \cup past \X {c})
    BY <1>1, <2>1, NoneStaleMore DEF CommandOrderOK, SettledOK
  <2> QED
    BY <1>2, <2>1, <2>2 DEF CommandOrderOK, SettledOK
<1>6. ASSUME NEW c \in Commands, Enqueue(c),
             job[c]["posted"] > 0 \/ stray[c] > 0,
             UNCHANGED <<published, before>>
      PROVE  CommandOrderOK'
  <2>1. ~Settled(c)
    BY <1>6, SettledDone DEF Stages
  <2>2. c \in published
    BY <1>6, Unpublished DEF Stages
  <2>3. \A d \in Messages : <<c, d>> \notin before
    BY <2>1 DEF CommandOrderOK, SettledOK
  <2>4. Range(arrived) \subseteq Messages
    BY <1>0, RangeIn DEF Messages
  <2>5. arrived' = Append(arrived, c) /\ Range(arrived') = Range(arrived) \cup {c}
    BY <1>0, <1>6, AppendRange DEF Enqueue
  <2>6. NoneStale(arrived', before)
    BY <1>0, <1>1, <2>3, <2>4, <2>5, NoneStaleAppend
  <2> QED
    BY <1>2, <1>6, <2>2, <2>5, <2>6 DEF CommandOrderOK, SettledOK
<1>7. ASSUME NEW c \in Commands, Post(c) PROVE CommandOrderOK'
  <2>1. CASE GatewayTakes(c) \/ GatewayTakesAndFails(c)
    <3>1. job[c]["posted"] > 0 /\ Enqueue(c) /\ UNCHANGED <<published, before>>
      BY <2>1 DEF GatewayTakes, GatewayTakesAndFails, Move, brokerVars,
        groundVars, historyVars
    <3> QED
      BY <1>6, <3>1
  <2>2. CASE StrayEnds(c)
    <3>1. /\ stray[c] > 0 /\ (Enqueue(c) \/ UNCHANGED arrived)
          /\ UNCHANGED <<published, before>>
      BY <2>2 DEF StrayEnds, brokerVars, groundVars, historyVars, queueVars
    <3> QED
      BY <1>3, <1>6, <3>1
  <2>3. CASE GatewayRejects(c) \/ GatewayUnreachable(c) \/ ClientGivesUp(c)
    BY <1>3, <2>3 DEF GatewayRejects, GatewayUnreachable, ClientGivesUp,
      brokerVars, groundVars, queueVars, historyVars
  <2> QED
    BY <1>7, <2>1, <2>2, <2>3 DEF Post
<1>8. ASSUME NEW t \in Telemetry, WriteTelemetry(t) PROVE CommandOrderOK'
  <2> DEFINE past == {u \in written : Ended(u)}
  <2>1. before' = before \cup past \X {t} /\ UNCHANGED <<arrived, published>>
    BY <1>8 DEF WriteTelemetry, brokerVars, groundVars, queueVars
  <2>2. t \notin Range(arrived)
    BY <1>0, RangeIn, MessagesAssumption
  <2>3. NoneStale(arrived, before \cup past \X {t})
    BY <1>1, <2>2, NoneStaleMore
  <2>4. \A b \in Commands : b \notin past
    BY <1>0, MessagesAssumption
  <2> HIDE DEF past
  <2> QED
    BY <1>2, <2>1, <2>3, <2>4 DEF CommandOrderOK, SettledOK
<1>9. ASSUME NEW c \in Commands, Relay(c) PROVE CommandOrderOK'
  BY <1>3, <1>9, RelayJob DEF brokerVars, groundVars, queueVars, historyVars
<1>10. CASE BrokerTakes \/ GroundAcknowledged \/ GroundLinkDrops \/ GroundEnds
  BY <1>3, <1>10 DEF BrokerTakes, GroundAcknowledged, GroundLinkDrops,
    GroundEnds, queueVars, historyVars
<1>11. CASE LinkDrops \/ OnConnect \/ CallbackSatCom \/ Crash \/ Restart
  BY <1>3, <1>11 DEF LinkDrops, OnConnect, CallbackSatCom, Crash, Restart,
    brokerVars, groundVars, queueVars, historyVars
<1>12. CASE Session \/ ReadCommand \/ ReadRaises \/ ClearTelemetry
              \/ BrokerGets \/ RelayAcknowledged
  BY <1>3, <1>12 DEF Session, ReadCommand, ReadRaises, ClearTelemetry,
    BrokerGets, RelayAcknowledged, brokerVars, groundVars, queueVars,
    historyVars
<1>13. ASSUME NEW t \in Telemetry, RelayPost(t) \/ PostFails(t)
       PROVE  CommandOrderOK'
  BY <1>3, <1>13 DEF RelayPost, PostFails, brokerVars, groundVars, queueVars,
    historyVars
<1> QED
  BY <1>5, <1>7, <1>8, <1>9, <1>10, <1>11, <1>12, <1>13 DEF Next

------------------------------------------------------------------------------
(* NoStaleTelemetry                                                          *)

(* What is before something has no post left and is not in the modem.        *)
EndedOK ==
  /\ \A u \in Telemetry, t \in Messages :
       <<u, t>> \in before =>
         u \in written /\ moWire[u] = 0 /\ mo_buffer # u /\ u # t
  /\ mo_buffer \in written \cup {None}
  /\ \A t \in Telemetry : moWire[t] > 0 => t \in written
  /\ Range(toBroker) \cup Range(seen) \subseteq written

(* The broker has what the relay has sent on this connection, the last of    *)
(* it last; what is before nothing the relay holds or the broker has is what *)
(* the relay holds last.                                                     *)
SentOK ==
  /\ \A i \in 1..relaySent : toBroker[i] \in Range(seen)
  /\ relaySent > 0 => Last(seen) = toBroker[relaySent]
  /\ NoneStale(toBroker, before)
  /\ toBroker # <<>> =>
       \A b \in Range(seen) : <<Last(toBroker), b>> \notin before

TelemetryOrderOK == EndedOK /\ SentOK /\ NoStaleTelemetry

(* Telemetry that the relay takes has a post, so nothing it is before is in  *)
(* the relay or at the broker; what the broker gets last was taken last.     *)
LEMMA NextTelemetryOrderOK ==
  TypeOK /\ TelemetryOrderOK /\ [Next]_vars => TelemetryOrderOK'
<1> SUFFICES ASSUME TypeOK, TelemetryOrderOK, [Next]_vars
             PROVE  TelemetryOrderOK'
  OBVIOUS
<1> USE DEF TelemetryOrderOK
<1>0. /\ JobTypeOK /\ toBroker \in Seq(Telemetry) /\ seen \in Seq(Telemetry)
      /\ relaySent \in 0..Len(toBroker) /\ moWire \in [Telemetry -> Nat]
      /\ mo_buffer \in Telemetry \cup {None} /\ written \subseteq Telemetry
      /\ Range(toBroker) \subseteq Telemetry /\ Range(seen) \subseteq Telemetry
  BY RangeIn DEF TypeOK, TelemetryTypeOK
<1>1. ASSUME UNCHANGED <<before, toBroker, relaySent, seen, cut>>
      PROVE  SentOK' /\ NoStaleTelemetry'
  BY <1>1 DEF SentOK, NoStaleTelemetry
<1>2. CASE UNCHANGED <<before, written, moWire, mo_buffer, toBroker, relaySent, seen,
                       cut>>
  BY <1>1, <1>2 DEF EndedOK
<1>3. ASSUME NEW past, NEW x, before' = before \cup past \X {x},
             x \notin Range(toBroker) \cup Range(seen),
             UNCHANGED <<toBroker, relaySent, seen, cut>>
      PROVE  SentOK' /\ NoStaleTelemetry'
  <2>1. NoneStale(toBroker', before')
    BY <1>3, NoneStaleMore DEF SentOK
  <2>2. \A a, b : b \in Range(seen) /\ <<a, b>> \notin before
                    => <<a, b>> \notin before'
    BY <1>3
  <2> QED
    BY <1>3, <2>1, <2>2 DEF SentOK, NoStaleTelemetry
<1>4. ASSUME NEW c \in Commands, Publish(c) PROVE TelemetryOrderOK'
  <2> DEFINE past == {b \in confirmed : Settled(b)}
  <2>1. /\ before' = before \cup past \X {c}
        /\ UNCHANGED <<written, moWire, mo_buffer, toBroker, relaySent, seen, cut>>
    BY <1>4 DEF Publish, moVars, relayMoVars
  <2>2. c \notin Range(toBroker) \cup Range(seen)
    BY <1>0, MessagesAssumption
  <2>3. \A u \in Telemetry : u \notin past
    BY <1>0, MessagesAssumption DEF JobTypeOK
  <2> HIDE DEF past
  <2>4. SentOK' /\ NoStaleTelemetry'
    BY <1>3, <2>1, <2>2
  <2>5. EndedOK'
    BY <2>1, <2>3 DEF EndedOK
  <2> QED
    BY <2>4, <2>5
<1>5. ASSUME NEW c \in Commands, Post(c) \/ Relay(c) PROVE TelemetryOrderOK'
  BY <1>2, <1>5 DEF Post, GatewayTakes, GatewayTakesAndFails, GatewayRejects,
    GatewayUnreachable, ClientGivesUp, StrayEnds, Relay, OnMessageSent, Repost,
    moVars, relayMoVars, historyVars
<1>6. CASE Session
  <2>1. UNCHANGED <<before, written, mo_buffer, toBroker, relaySent, seen, cut>>
    BY <1>6 DEF Session
  <2>2. CASE UNCHANGED moWire
    BY <1>2, <2>1, <2>2
  <2>3. CASE mo_buffer # None /\ moWire' = [moWire EXCEPT ![mo_buffer] = @ + 1]
    <3>1. mo_buffer \in Telemetry /\ mo_buffer \in written
      BY <1>0, <2>3 DEF EndedOK
    <3>2. \A t \in Telemetry : t # mo_buffer => moWire'[t] = moWire[t]
      BY <1>0, <2>3
    <3>3. EndedOK'
      BY <2>1, <3>1, <3>2 DEF EndedOK
    <3> QED
      BY <1>1, <2>1, <3>3
  <2> QED
    BY <1>6, <2>2, <2>3 DEF Session
<1>7. ASSUME NEW t \in Telemetry, WriteTelemetry(t) PROVE TelemetryOrderOK'
  <2> DEFINE past == {u \in written : Ended(u)}
  <2>1. /\ t \notin written /\ written' = written \cup {t} /\ mo_buffer' = t
        /\ before' = before \cup past \X {t}
        /\ UNCHANGED <<moWire, toBroker, relaySent, seen, cut>>
    BY <1>7 DEF WriteTelemetry, relayMoVars
  <2>2. t \notin Range(toBroker) \cup Range(seen)
    BY <2>1 DEF EndedOK
  <2>3. \A u \in past : u \in written /\ moWire[u] = 0
    BY DEF Ended
  <2>4. t # None
    BY MessagesAssumption
  <2> HIDE DEF past
  <2>5. SentOK' /\ NoStaleTelemetry'
    BY <1>3, <2>1, <2>2
  <2>6. EndedOK'
    BY <2>1, <2>3, <2>4 DEF EndedOK
  <2> QED
    BY <2>5, <2>6
<1>8. ASSUME NEW t \in Telemetry, RelayPost(t) PROVE TelemetryOrderOK'
  <2>1. /\ moWire[t] > 0 /\ toBroker' = Append(toBroker, t)
        /\ UNCHANGED <<before, written, mo_buffer, relaySent, seen, cut>>
    BY <1>8 DEF RelayPost, moVars, historyVars
  <2>2. PICK answered \in BOOLEAN :
          moWire' = [moWire EXCEPT ![t] = IF answered THEN @ - 1 ELSE @]
    BY <1>8 DEF RelayPost
  <2>3. \A u \in Telemetry : /\ u # t => moWire'[u] = moWire[u]
                             /\ moWire'[u] > 0 => moWire[u] > 0
    BY <1>0, <2>1, <2>2
  <2>4. t \in written /\ \A u \in Messages : <<t, u>> \notin before
    BY <1>0, <2>1 DEF EndedOK
  <2>5. Range(toBroker') = Range(toBroker) \cup {t}
    BY <1>0, <2>1, AppendRange
  <2>6. \A u \in Range(toBroker) \cup Range(seen) : u \in Messages
    BY <1>0 DEF Messages
  <2>7. NoneStale(toBroker', before)
    BY <1>0, <2>1, <2>4, <2>6, NoneStaleAppend DEF SentOK
  <2>8. EndedOK'
    <3>1. \A u \in Telemetry : moWire[u] = 0 => moWire'[u] = 0
      BY <2>1, <2>3
    <3> QED
      BY <2>1, <2>3, <2>4, <2>5, <3>1 DEF EndedOK
  <2>9. /\ \A i \in 1..relaySent : toBroker'[i] = toBroker[i]
        /\ Last(toBroker') = t /\ relaySent # Len(toBroker')
        /\ relaySent > 0 => relaySent \in 1..relaySent
    BY <1>0, <2>1 DEF Last
  <2>10. SentOK'
    BY <2>1, <2>4, <2>6, <2>7, <2>9 DEF SentOK
  <2>11. NoStaleTelemetry'
    BY <2>1, <2>9 DEF NoStaleTelemetry
  <2> QED
    BY <2>8, <2>10, <2>11
<1>9. ASSUME NEW t \in Telemetry, PostFails(t) PROVE TelemetryOrderOK'
  <2>1. /\ moWire[t] > 0 /\ moWire' = [moWire EXCEPT ![t] = @ - 1]
        /\ UNCHANGED <<before, written, mo_buffer, toBroker, relaySent, seen, cut>>
    BY <1>9 DEF PostFails, moVars
  <2>2. \A u \in Telemetry : /\ u # t => moWire'[u] = moWire[u]
                             /\ moWire'[u] > 0 => moWire[u] > 0
    BY <1>0, <2>1
  <2> QED
    BY <1>1, <2>1, <2>2 DEF EndedOK
<1>10. CASE BrokerGets
  <2> DEFINE x == toBroker[relaySent + 1]
  <2>1. /\ relaySent < Len(toBroker) /\ relaySent' = relaySent + 1
        /\ seen' = Append(seen, x)
        /\ UNCHANGED <<before, written, mo_buffer, moWire, toBroker>>
    BY <1>10 DEF BrokerGets, moVars, historyVars
  <2>2. /\ relaySent + 1 \in DOMAIN toBroker /\ Len(toBroker) \in DOMAIN toBroker
        /\ relaySent + 1 <= Len(toBroker) /\ toBroker # <<>>
    BY <1>0, <2>1
  <2>3. x \in Telemetry /\ x \in Range(toBroker)
    BY <1>0, <2>2 DEF Range
  <2> HIDE DEF x
  <2>4. Range(seen') = Range(seen) \cup {x} /\ Last(seen') = x
    BY <1>0, <2>1, <2>3, AppendRange DEF Last
  <2>5. <<Last(toBroker), x>> \notin before
    <3>1. CASE relaySent + 1 < Len(toBroker)
      BY <2>2, <3>1 DEF SentOK, NoneStale, Last, x
    <3>2. CASE relaySent + 1 = Len(toBroker)
      <4>1. Last(toBroker) = x
        BY <3>2 DEF Last, x
      <4>2. x \in Messages
        BY <2>3 DEF Messages
      <4> QED
        BY <2>3, <4>1, <4>2 DEF EndedOK
    <3> QED
      BY <1>0, <2>2, <3>1, <3>2
  <2>6. EndedOK'
    BY <2>1, <2>3, <2>4 DEF EndedOK
  <2>7. \A b \in Range(seen') : <<Last(toBroker), b>> \notin before
    BY <2>2, <2>4, <2>5 DEF SentOK
  <2>8. SentOK'
    <3>1. ASSUME NEW i \in 1..relaySent' PROVE toBroker[i] \in Range(seen')
      <4>1. CASE i = relaySent + 1
        BY <2>4, <4>1 DEF x
      <4>2. CASE i # relaySent + 1
        <5>1. i \in 1..relaySent
          BY <1>0, <2>1, <4>2
        <5> QED
          BY <2>4, <5>1 DEF SentOK
      <4> QED
        BY <4>1, <4>2
    <3>2. Last(seen') = toBroker[relaySent']
      BY <2>1, <2>4 DEF x
    <3> QED
      BY <2>1, <2>7, <3>1, <3>2 DEF SentOK
  <2>9. NoStaleTelemetry'
    <3>1. relaySent' = Len(toBroker) => Last(seen') = Last(toBroker)
      BY <2>1, <2>4 DEF Last, x
    <3> QED
      BY <2>1, <2>7, <3>1 DEF NoStaleTelemetry
  <2> QED
    BY <2>6, <2>8, <2>9
<1>11. CASE RelayAcknowledged
  <2>1. /\ relaySent > 0 /\ relaySent' = relaySent - 1 /\ toBroker' = Tail(toBroker)
        /\ UNCHANGED <<before, written, mo_buffer, moWire, seen, cut>>
    BY <1>11 DEF RelayAcknowledged, moVars, historyVars
  <2>2. toBroker # <<>> /\ Len(toBroker') = Len(toBroker) - 1
    BY <1>0, <2>1
  <2>3. /\ \A i \in DOMAIN toBroker' :
             i \in Nat /\ i + 1 \in DOMAIN toBroker /\ toBroker'[i] = toBroker[i + 1]
        /\ \A i \in 1..relaySent' : i \in DOMAIN toBroker' /\ i + 1 \in 1..relaySent
    BY <1>0, <2>1, <2>2
  <2>4. Range(toBroker') \subseteq Range(toBroker)
    BY <1>0, <2>1, <2>2, TailRange
  <2>5. EndedOK'
    BY <2>1, <2>4 DEF EndedOK
  <2>6. NoneStale(toBroker', before)
    <3> SUFFICES ASSUME NEW i \in DOMAIN toBroker', NEW j \in DOMAIN toBroker', i < j
                 PROVE  <<toBroker'[j], toBroker'[i]>> \notin before
      BY DEF NoneStale
    <3>1. i + 1 < j + 1
      BY <2>3
    <3> QED
      BY <2>3, <3>1 DEF SentOK, NoneStale
  <2>7. toBroker' # <<>> => Last(toBroker') = Last(toBroker)
    BY <1>0, <2>1 DEF Last
  <2>8. relaySent' > 0 => toBroker'[relaySent'] = toBroker[relaySent]
    BY <1>0, <2>1
  <2>9. \A i \in 1..relaySent' : toBroker'[i] \in Range(seen)
    BY <2>3 DEF SentOK
  <2>10. SentOK'
    BY <2>1, <2>2, <2>6, <2>7, <2>8, <2>9 DEF SentOK
  <2>11. relaySent' = Len(toBroker') => relaySent = Len(toBroker)
    <3>1. relaySent \in Nat /\ Len(toBroker) \in Nat
      BY <1>0
    <3>2. relaySent' = relaySent - 1 /\ Len(toBroker') = Len(toBroker) - 1
      BY <2>1, <2>2
    <3> QED
      BY <3>1, <3>2
  <2>12. NoStaleTelemetry'
    BY <2>1, <2>11 DEF NoStaleTelemetry
  <2> QED
    BY <2>5, <2>10, <2>12
<1>12. CASE LinkDrops
  <2>1. /\ relaySent' = 0
        /\ UNCHANGED <<before, written, mo_buffer, moWire, toBroker, seen, cut>>
    BY <1>12 DEF LinkDrops, moVars
  <2>2. EndedOK' /\ SentOK'
    BY <2>1 DEF EndedOK, SentOK
  <2>3. relaySent' = Len(toBroker') => relaySent = Len(toBroker)
    BY <1>0, <2>1
  <2>4. NoStaleTelemetry'
    BY <2>1, <2>3 DEF NoStaleTelemetry
  <2> QED
    BY <2>2, <2>4
<1>13. CASE ClearTelemetry
  <2>1. /\ mo_buffer' = None
        /\ UNCHANGED <<before, written, moWire, toBroker, relaySent, seen, cut>>
    BY <1>13 DEF ClearTelemetry, relayMoVars, historyVars
  <2>2. None \notin Telemetry
    BY MessagesAssumption
  <2>3. EndedOK'
    BY <2>1, <2>2 DEF EndedOK
  <2> QED
    BY <1>1, <2>1, <2>3
<1>14. CASE Crash
  <2>1. /\ toBroker' = <<>> /\ relaySent' = 0
        /\ cut' = IF toBroker = <<>> THEN cut ELSE relaySent < Len(toBroker)
        /\ UNCHANGED <<before, written, moWire, mo_buffer, seen>>
    BY <1>14 DEF Crash, moVars
  <2>2. Range(toBroker') = {} /\ DOMAIN toBroker' = {}
    BY <2>1, EmptyRange
  <2>3. EndedOK'
    BY <2>1, <2>2 DEF EndedOK
  <2>4. SentOK'
    BY <2>1, <2>2 DEF SentOK, NoneStale
  <2>5. NoStaleTelemetry'
    <3>1. CASE toBroker = <<>>
      <4>1. relaySent = Len(toBroker) /\ (cut' <=> cut)
        BY <1>0, <2>1, <3>1
      <4> QED
        BY <2>1, <4>1 DEF NoStaleTelemetry
    <3>2. CASE toBroker # <<>> /\ relaySent = Len(toBroker)
      <4>1. relaySent > 0
        BY <1>0, <3>2
      <4>2. Last(seen) = Last(toBroker)
        BY <3>2, <4>1 DEF SentOK, Last
      <4> QED
        BY <2>1, <3>2, <4>2 DEF SentOK, NoStaleTelemetry
    <3>3. CASE toBroker # <<>> /\ relaySent # Len(toBroker)
      <4>1. relaySent < Len(toBroker)
        BY <1>0, <3>3
      <4>2. cut'
        BY <2>1, <3>3, <4>1
      <4> QED
        BY <4>2 DEF NoStaleTelemetry
    <3> QED
      BY <3>1, <3>2, <3>3
  <2> QED
    BY <2>3, <2>4, <2>5
<1>15. CASE BrokerTakes \/ GroundAcknowledged \/ GroundLinkDrops \/ GroundEnds
              \/ OnConnect \/ CallbackSatCom \/ Restart
  BY <1>2, <1>15 DEF BrokerTakes, GroundAcknowledged, GroundLinkDrops,
    GroundEnds, OnConnect, CallbackSatCom, Restart, moVars, relayMoVars,
    historyVars
<1>16. CASE ReadCommand \/ ReadRaises \/ UNCHANGED vars
  BY <1>2, <1>16 DEF ReadCommand, ReadRaises, vars, moVars, relayMoVars,
    historyVars
<1> QED
  BY <1>4, <1>5, <1>6, <1>7, <1>8, <1>9, <1>10, <1>11, <1>12, <1>13, <1>14, <1>15,
    <1>16 DEF Next


------------------------------------------------------------------------------
(* LossExplained                                                             *)

(* What came to the gateway is there, in the modem, read or explained: so a  *)
(* crash after that loses nothing.                                           *)
ArrivedKept ==
  \A c \in Range(arrived) :
    \/ c \in Range(mt_queue) \/ mt_buffer = c
    \/ c \in read \cup hit

CommandsKept ==
  /\ ArrivedKept
  /\ \A c \in published \ (read \cup hit) : CommandOnItsWay(c)

TelemetryKept ==
  \A t \in Telemetry \ hit : posts[t] > 0 => TelemetryOnItsWay(t)

(* What udp2mqtt alone has is what is unsent and was not sent before.        *)
LEMMA GroundOnlyUnsent ==
  BrokerTypeOK /\ GroundOK => GroundOnly = {c \in Unsent : resends[c] = 0}
BY GroundParts

(* A command leaves each place for the next one, or is hit on the way.       *)
LEMMA NextCommandsKept ==
  TypeOK /\ GroundOK /\ OneCopyOK /\ BooksOK /\ CommandsKept /\ [Next]_vars
    => CommandsKept'
<1> SUFFICES ASSUME TypeOK, GroundOK, OneCopyOK, BooksOK, CommandsKept, [Next]_vars
             PROVE  CommandsKept'
  OBVIOUS
<1>0. /\ BrokerTypeOK /\ JobTypeOK /\ toRelay \in Seq(Commands)
      /\ mt_queue \in Seq(Commands) /\ arrived \in Seq(Commands)
      /\ job \in [Commands -> [Stages -> Nat]]
      /\ resends \in [Commands -> Nat] /\ published \subseteq Commands
  BY DEF TypeOK, BrokerTypeOK, JobTypeOK, ModemTypeOK
<1>1. /\ GroundOnly = {c \in Unsent : resends[c] = 0}
      /\ GroundOnly' = {c \in Unsent' : resends'[c] = 0}
  <2>1. BrokerTypeOK' /\ GroundOK'
    BY NextTypeOK, NextGroundOK DEF TypeOK
  <2>2. (BrokerTypeOK /\ GroundOK => GroundOnly = {c \in Unsent : resends[c] = 0})'
    BY GroundOnlyUnsent, PTL
  <2> QED
    BY <1>0, <2>1, <2>2, GroundOnlyUnsent
<1>2. ASSUME hit \subseteq hit', read \subseteq read', ArrivedKept',
             Range(arrived) \subseteq Range(arrived'),
             \A c \in published' : c \in published \cup hit' \cup GroundOnly',
             \A c \in published :
               CommandOnItsWay(c) =>
                 \/ CommandOnItsWay(c)'
                 \/ c \in read' \cup hit' \cup Range(arrived')
      PROVE  CommandsKept'
  <2> SUFFICES ASSUME NEW c \in published' \ (read' \cup hit')
               PROVE  CommandOnItsWay(c)'
    BY <1>2 DEF CommandsKept
  <2>1. CASE c \in GroundOnly'
    BY <2>1 DEF CommandOnItsWay
  <2>2. CASE c \in Range(arrived')
    BY <1>2, <2>2 DEF ArrivedKept, CommandOnItsWay
  <2>3. CASE c \in published
    BY <1>2, <2>2, <2>3 DEF CommandsKept
  <2> QED
    BY <1>2, <2>1, <2>3
<1>3. ASSUME UNCHANGED <<queueVars, bufferVars>>, hit \subseteq hit'
      PROVE  ArrivedKept' /\ UNCHANGED <<arrived, read, mt_queue, mt_buffer>>
  BY <1>3 DEF CommandsKept, ArrivedKept, queueVars, bufferVars
<1>4. ASSUME UNCHANGED <<job, queueVars, bufferVars>>, hit \subseteq hit',
             \A c \in published' : c \in published \cup hit' \cup GroundOnly',
             \A c \in GroundOnly \cup Range(toRelay) :
               c \in GroundOnly' \cup Range(toRelay') \cup hit'
      PROVE  CommandsKept'
  <2>1. \A c : InRelay(c) => InRelay(c)'
    BY <1>4 DEF InRelay
  <2> QED
    BY <1>2, <1>3, <1>4, <2>1 DEF CommandOnItsWay
<1>5. ASSUME UNCHANGED groundVars
      PROVE  GroundOnly' = GroundOnly /\ published' = published
  BY <1>5 DEF groundVars, GroundOnly, BrokerHas
<1>6. CASE UNCHANGED <<brokerVars, job, queueVars, bufferVars>> /\ hit \subseteq hit'
  BY <1>4, <1>5, <1>6 DEF brokerVars
<1>7. ASSUME NEW c \in Commands, Publish(c) PROVE CommandsKept'
  <2>1. /\ c \notin published /\ published' = published \cup {c}
        /\ UNCHANGED <<resends, toRelay, job, queueVars, bufferVars>>
        /\ hit \subseteq hit'
    BY <1>7 DEF Publish, mtVars
  <2>2. \/ Unsent' = Unsent /\ c \in hit'
        \/ Unsent' = Unsent \cup {c}
    BY <1>0, <1>7, PublishGround
  <2>3. resends[c] = 0
    BY <2>1 DEF GroundOK
  <2> QED
    BY <1>1, <1>4, <2>1, <2>2, <2>3
<1>8. CASE BrokerTakes
  <2> DEFINE c == groundOut[groundSent + 1]
  <2>1. /\ UNCHANGED <<published, resends, job, queueVars, bufferVars>>
        /\ \/ toRelay' = Append(toRelay, c) /\ UNCHANGED hit
           \/ hit' = hit \cup {c} /\ UNCHANGED toRelay
    BY <1>8 DEF BrokerTakes, mtVars
  <2>2. c \in Commands /\ Unsent' = Unsent \ {c}
    BY <1>0, <1>8, TakesGround
  <2> HIDE DEF c
  <2>3. Range(Append(toRelay, c)) = Range(toRelay) \cup {c}
    BY <1>0, <2>2, AppendRange
  <2> QED
    BY <1>1, <1>4, <2>1, <2>2, <2>3
<1>9. CASE GroundAcknowledged
  <2>1. UNCHANGED <<published, resends, toRelay, job, queueVars, bufferVars, hit>>
    BY <1>9 DEF GroundAcknowledged, mtVars, historyVars
  <2>2. Unsent' = Unsent
    BY <1>0, <1>9, AcknowledgedGround
  <2> QED
    BY <1>1, <1>4, <2>1, <2>2
<1>10. CASE GroundLinkDrops
  <2>1. UNCHANGED <<published, toRelay, job, queueVars, bufferVars, hit>>
    BY <1>10 DEF GroundLinkDrops, mtVars, historyVars
  <2>2. Unsent \cap BrokerHas = {} /\ Unsent \subseteq Unsent'
    BY <1>0, <1>10, GroundParts, DropsGround
  <2>3. \A c \in Commands : c \notin BrokerHas => resends'[c] = resends[c]
    BY <1>0, <1>10 DEF GroundLinkDrops
  <2>4. GroundOnly \subseteq Commands
    BY <1>0, RangeIn DEF GroundOnly, BrokerTypeOK
  <2> QED
    BY <1>1, <1>4, <2>1, <2>2, <2>3, <2>4
<1>11. CASE GroundEnds
  <2>1. /\ hit' = hit \cup GroundOnly
        /\ UNCHANGED <<published, toRelay, job, queueVars, bufferVars>>
    BY <1>11 DEF GroundEnds, mtVars
  <2> QED
    BY <1>4, <2>1
<1>12. CASE LinkDrops
  <2>1. /\ hit' = hit \cup Range(toRelay)
        /\ UNCHANGED <<groundVars, job, queueVars, bufferVars>>
    BY <1>12 DEF LinkDrops, mtVars
  <2> QED
    BY <1>4, <1>5, <2>1
<1>13. CASE CallbackSatCom
  <2>1. PICK h \in Commands : h = Head(toRelay)
    BY <1>0, <1>13, CallbackJob
  <2>2. /\ UNCHANGED <<groundVars, queueVars, bufferVars, hit>>
        /\ toRelay # <<>> /\ toRelay' = Tail(toRelay)
    BY <1>13 DEF CallbackSatCom, historyVars
  <2>3. Range(toRelay) = Range(toRelay') \cup {h}
    BY <1>0, <2>1, <2>2, TailRange
  <2>4. job[h]["posted"] \in Nat /\ job'[h]["posted"] = job[h]["posted"] + 1
    BY <1>0, <1>13, <2>1, CallbackJob DEF Stages
  <2>5. InRelay(h)'
    BY <2>4 DEF InRelay, Stages
  <2>6. \A c \in Commands : InRelay(c) => InRelay(c)'
    <3>1. \A c \in Commands : c # h => job'[c] = job[c]
      BY <1>0, <1>13, <2>1, CallbackJob
    <3> QED
      BY <2>5, <3>1 DEF InRelay
  <2> QED
    BY <1>0, <1>2, <1>3, <1>5, <2>2, <2>3, <2>5, <2>6 DEF CommandOnItsWay
<1>14. ASSUME NEW c \in Commands, UNCHANGED <<brokerVars, bufferVars>>,
              \A d \in Commands : d # c => job'[d] = job[d],
              \/ Enqueue(c) /\ UNCHANGED hit
              \/ /\ UNCHANGED queueVars
                 /\ \/ hit' = hit \cup {c}
                    \/ UNCHANGED hit /\ (InRelay(c) => InRelay(c)')
       PROVE  CommandsKept'
  <2>1. /\ UNCHANGED <<groundVars, toRelay, mt_buffer, read>> /\ hit \subseteq hit'
    BY <1>14 DEF brokerVars, bufferVars
  <2>2. /\ Range(mt_queue) \subseteq Range(mt_queue')
        /\ Range(arrived) \subseteq Range(arrived')
        /\ Range(arrived') \subseteq Range(arrived) \cup Range(mt_queue')
        /\ UNCHANGED queueVars \/ c \in Range(arrived')
    <3>1. CASE Enqueue(c)
      <4>1. /\ Range(mt_queue') = Range(mt_queue) \cup {c}
            /\ Range(arrived') = Range(arrived) \cup {c}
        BY <1>0, <3>1, AppendRange DEF Enqueue
      <4> QED
        BY <4>1
    <3>2. CASE UNCHANGED queueVars
      BY <3>2 DEF queueVars
    <3> QED
      BY <1>14, <3>1, <3>2
  <2>3. ArrivedKept'
    BY <2>1, <2>2 DEF CommandsKept, ArrivedKept
  <2>4. \A d \in Commands :
          InRelay(d) => InRelay(d)' \/ d \in hit' \cup Range(arrived')
    <3>1. \A d \in Commands : d # c => (InRelay(d) => InRelay(d)')
      BY <1>14 DEF InRelay
    <3>2. InRelay(c) => InRelay(c)' \/ c \in hit' \cup Range(arrived')
      <4>1. CASE Enqueue(c)
        BY <1>0, <4>1, AppendRange DEF Enqueue
      <4> QED
        BY <1>14, <4>1
    <3> QED
      BY <3>1, <3>2
  <2> QED
    BY <1>0, <1>2, <1>5, <2>1, <2>2, <2>3, <2>4 DEF CommandOnItsWay
<1>15. ASSUME NEW c \in Commands, NEW from \in Stages, NEW to \in Stages \ {"ok"},
              from # to, Move(c, from, to)
       PROVE  InRelay(c)' /\ \A d \in Commands : d # c => job'[d] = job[d]
  <2>1. /\ job'[c][to] = job[c][to] + 1 /\ job[c][to] \in Nat
        /\ \A d \in Commands : d # c => job'[d] = job[d]
    BY <1>0, <1>15, MoveJob
  <2>2. job'[c][to] > 0
    BY <2>1
  <2> QED
    BY <2>1, <2>2 DEF InRelay
<1>16. ASSUME NEW c \in Commands, Move(c, "posted", "ok")
       PROVE  \A d \in Commands : d # c => job'[d] = job[d]
  BY <1>0, <1>16, MoveJob DEF Stages
<1>17. ASSUME NEW c \in Commands, Post(c) PROVE CommandsKept'
  <2>1. CASE GatewayTakes(c)
    BY <1>14, <1>16, <2>1 DEF GatewayTakes, historyVars
  <2>2. CASE GatewayRejects(c)
    BY <1>14, <1>16, <2>2 DEF GatewayRejects, queueVars
  <2>3. CASE GatewayTakesAndFails(c)
    <3>1. \A d \in Commands : d # c => job'[d] = job[d]
      BY <1>15, <2>3 DEF GatewayTakesAndFails, Stages
    <3> QED
      BY <1>14, <2>3, <3>1 DEF GatewayTakesAndFails, historyVars
  <2>4. CASE GatewayUnreachable(c) \/ ClientGivesUp(c)
    <3>1. InRelay(c)' /\ \A d \in Commands : d # c => job'[d] = job[d]
      BY <1>15, <2>4 DEF GatewayUnreachable, ClientGivesUp, Stages
    <3>2. UNCHANGED <<brokerVars, bufferVars, queueVars, hit>>
      BY <2>4 DEF GatewayUnreachable, ClientGivesUp, historyVars
    <3> QED
      BY <1>14, <3>1, <3>2
  <2>5. CASE StrayEnds(c)
    <3>1. UNCHANGED <<brokerVars, bufferVars, job, hit>>
      BY <2>5 DEF StrayEnds, historyVars
    <3>2. InRelay(c) => InRelay(c)'
      BY <3>1 DEF InRelay
    <3> QED
      BY <1>14, <2>5, <3>1, <3>2 DEF StrayEnds
  <2> QED
    BY <1>17, <2>1, <2>2, <2>3, <2>4, <2>5 DEF Post
<1>18. ASSUME NEW c \in Commands, Relay(c) PROVE CommandsKept'
  <2>1. UNCHANGED <<brokerVars, bufferVars, queueVars, hit>>
    BY <1>18, RelayJob DEF historyVars
  <2>2. CASE Confirm(c)
    <3>1. /\ \A d \in Commands : d # c => job'[d] = job[d]
          /\ \A s \in Stages : s # "ok" => job'[c][s] = job[c][s]
      BY <1>0, <2>2, ConfirmJob
    <3>2. InRelay(c) => InRelay(c)'
      BY <3>1 DEF InRelay
    <3> QED
      BY <1>14, <2>1, <3>1, <3>2
  <2>3. CASE Move(c, "error", "asleep") \/ Move(c, "asleep", "posted")
    <3>1. InRelay(c)' /\ \A d \in Commands : d # c => job'[d] = job[d]
      BY <1>15, <2>3 DEF Stages
    <3> QED
      BY <1>14, <2>1, <3>1
  <2> QED
    BY <1>18, <2>2, <2>3, RelayJob
<1>19. CASE Session
  <2>1. UNCHANGED <<groundVars, toRelay, job, read, arrived>> /\ hit \subseteq hit'
    BY <1>19 DEF Session, TakeCommand, brokerVars, mtVars
  <2>2. mt_buffer # None => mt_buffer \in read \cup hit'
    BY <1>19 DEF Session, TakeCommand, Unread
  <2>3. Range(mt_queue) \subseteq Range(mt_queue') \cup {mt_buffer'}
    <3>1. CASE mt_queue = <<>>
      BY <3>1, EmptyRange
    <3>2. CASE mt_queue # <<>>
      BY <1>0, <1>19, <3>2, TailRange DEF Session, TakeCommand
    <3> QED
      BY <3>1, <3>2
  <2>4. None \notin Commands
    BY MessagesAssumption
  <2>5. ArrivedKept'
    BY <1>0, <2>1, <2>2, <2>3, <2>4, RangeIn DEF CommandsKept, ArrivedKept
  <2>6. \A c : InRelay(c) => InRelay(c)'
    BY <2>1 DEF InRelay
  <2> QED
    BY <1>0, <1>2, <1>5, <2>1, <2>2, <2>3, <2>4, <2>5, <2>6 DEF CommandOnItsWay
<1>20. CASE ReadCommand
  <2>1. /\ read \subseteq read' /\ UNCHANGED <<mt_buffer, hit>>
        /\ UNCHANGED <<groundVars, toRelay, job, queueVars>>
    BY <1>20 DEF ReadCommand, brokerVars, mtVars, historyVars
  <2>2. ArrivedKept' /\ UNCHANGED <<arrived, mt_queue>>
    BY <2>1 DEF CommandsKept, ArrivedKept, queueVars
  <2>3. \A c : InRelay(c) => InRelay(c)'
    BY <2>1 DEF InRelay
  <2> QED
    BY <1>2, <1>5, <2>1, <2>2, <2>3 DEF CommandOnItsWay
<1>21. CASE Crash
  <2>1. /\ UNCHANGED <<groundVars, queueVars, bufferVars>>
        /\ hit \cup Range(toRelay) \subseteq hit'
        /\ \A c \in Commands : InRelay(c) => HasArrived(c) \/ c \in hit'
    BY <1>21 DEF Crash
  <2> QED
    BY <1>0, <1>2, <1>3, <1>5, <2>1 DEF CommandOnItsWay, HasArrived
<1>22. CASE OnConnect \/ Restart \/ ReadRaises \/ ClearTelemetry
              \/ BrokerGets \/ RelayAcknowledged \/ UNCHANGED vars
  <2>1. hit \subseteq hit'
    BY <1>22 DEF OnConnect, Restart, ReadRaises, ClearTelemetry, BrokerGets,
      RelayAcknowledged, vars, historyVars
  <2>2. UNCHANGED <<groundVars, toRelay, job, queueVars, bufferVars>>
    BY <1>22 DEF OnConnect, Restart, ReadRaises, ClearTelemetry, BrokerGets,
      RelayAcknowledged, vars, brokerVars, mtVars
  <2> QED
    BY <1>4, <1>5, <2>1, <2>2
<1>23. ASSUME NEW t \in Telemetry,
              WriteTelemetry(t) \/ RelayPost(t) \/ PostFails(t)
       PROVE  CommandsKept'
  <2>1. hit \subseteq hit' /\ UNCHANGED <<brokerVars, job, queueVars, bufferVars>>
    BY <1>23 DEF WriteTelemetry, RelayPost, PostFails, mtVars, historyVars
  <2> QED
    BY <1>6, <2>1
<1> QED
  BY <1>7, <1>8, <1>9, <1>10, <1>11, <1>12, <1>13, <1>17, <1>18, <1>19, <1>20,
    <1>21, <1>22, <1>23 DEF Next

(* Telemetry leaves each place for the next one, or is hit on the way.       *)
LEMMA NextTelemetryKept ==
  TypeOK /\ SentOK /\ TelemetryKept /\ [Next]_vars => TelemetryKept'
<1> SUFFICES ASSUME TypeOK, SentOK, TelemetryKept, [Next]_vars
             PROVE  TelemetryKept'
  OBVIOUS
<1>0. /\ toBroker \in Seq(Telemetry) /\ seen \in Seq(Telemetry)
      /\ relaySent \in 0..Len(toBroker)
      /\ posts \in [Telemetry -> Nat] /\ moWire \in [Telemetry -> Nat]
      /\ mo_buffer \in Telemetry \cup {None}
  BY DEF TypeOK, TelemetryTypeOK
<1> USE DEF TelemetryKept, TelemetryOnItsWay
<1>1. CASE UNCHANGED <<posts, moWire, toBroker, seen>> /\ hit \subseteq hit'
  BY <1>1
<1>2. CASE Session
  <2>1. UNCHANGED <<toBroker, seen>> /\ hit \subseteq hit'
    BY <1>2 DEF Session, TakeCommand
  <2>2. \A t \in Telemetry : posts'[t] > 0 =>
          \/ moWire'[t] > 0
          \/ posts[t] > 0 /\ (moWire[t] > 0 => moWire'[t] > 0)
    <3>1. CASE mo_buffer = None
      BY <1>2, <3>1 DEF Session
    <3>2. CASE mo_buffer # None
      <4>1. /\ mo_buffer \in Telemetry
            /\ posts' = [posts EXCEPT ![mo_buffer] = @ + 1]
            /\ moWire' = [moWire EXCEPT ![mo_buffer] = @ + 1]
        BY <1>0, <1>2, <3>2 DEF Session
      <4> QED
        BY <1>0, <4>1
    <3> QED
      BY <3>1, <3>2
  <2> QED
    BY <2>1, <2>2
<1>3. ASSUME NEW t \in Telemetry, RelayPost(t) PROVE TelemetryKept'
  <2>1. /\ UNCHANGED <<posts, seen, hit>>
        /\ Range(toBroker') = Range(toBroker) \cup {t}
    BY <1>0, <1>3, AppendRange DEF RelayPost, moVars, historyVars
  <2>2. PICK answered \in BOOLEAN :
          moWire' = [moWire EXCEPT ![t] = IF answered THEN @ - 1 ELSE @]
    BY <1>3 DEF RelayPost
  <2>3. \A u \in Telemetry : u # t => moWire'[u] = moWire[u]
    BY <1>0, <2>2
  <2> QED
    BY <2>1, <2>3
<1>4. ASSUME NEW t \in Telemetry, PostFails(t) PROVE TelemetryKept'
  <2>1. UNCHANGED <<posts, toBroker, seen>> /\ hit' = hit \cup {t}
    BY <1>4 DEF PostFails, moVars
  <2>2. \A u \in Telemetry : u # t => moWire'[u] = moWire[u]
    BY <1>0, <1>4 DEF PostFails
  <2> QED
    BY <2>1, <2>2
<1>5. CASE BrokerGets
  <2>1. /\ UNCHANGED <<posts, moWire, toBroker, hit>>
        /\ relaySent < Len(toBroker)
        /\ seen' = Append(seen, toBroker[relaySent + 1])
    BY <1>5 DEF BrokerGets, moVars, historyVars
  <2>2. toBroker[relaySent + 1] \in Telemetry
    BY <1>0, <2>1
  <2>3. Range(seen) \subseteq Range(seen')
    BY <1>0, <2>1, <2>2, AppendRange
  <2> QED
    BY <2>1, <2>3
<1>6. CASE RelayAcknowledged
  <2>1. /\ UNCHANGED <<posts, moWire, seen, hit>> /\ relaySent > 0
        /\ toBroker' = Tail(toBroker)
    BY <1>6 DEF RelayAcknowledged, moVars, historyVars
  <2>2. 1 \in 1..relaySent /\ toBroker # <<>> /\ Head(toBroker) = toBroker[1]
    BY <1>0, <2>1
  <2>3. Range(toBroker) = Range(toBroker') \cup {Head(toBroker)}
    BY <1>0, <2>1, <2>2, TailRange
  <2>4. Head(toBroker) \in Range(seen)
    BY <2>2 DEF SentOK
  <2> QED
    BY <2>1, <2>3, <2>4
<1>7. CASE Crash
  <2>1. /\ UNCHANGED <<posts, moWire, seen>>
        /\ hit \cup (Range(toBroker) \ Range(seen)) \subseteq hit'
    BY <1>7 DEF Crash, moVars
  <2> QED
    BY <2>1
<1>8. ASSUME NEW c \in Commands, Publish(c) PROVE TelemetryKept'
  BY <1>1, <1>8 DEF Publish, moVars, relayMoVars
<1>9. ASSUME NEW c \in Commands, Post(c) PROVE TelemetryKept'
  BY <1>1, <1>9 DEF Post, GatewayTakes, GatewayTakesAndFails, GatewayRejects,
    GatewayUnreachable, ClientGivesUp, StrayEnds, moVars, relayMoVars,
    historyVars
<1>10. ASSUME NEW c \in Commands, Relay(c) PROVE TelemetryKept'
  BY <1>1, <1>10, RelayJob DEF moVars, relayMoVars, historyVars
<1>11. CASE BrokerTakes \/ GroundAcknowledged \/ GroundLinkDrops \/ GroundEnds
  BY <1>1, <1>11 DEF BrokerTakes, GroundAcknowledged, GroundLinkDrops,
    GroundEnds, moVars, relayMoVars, historyVars
<1>12. CASE LinkDrops \/ OnConnect \/ CallbackSatCom \/ Restart
  BY <1>1, <1>12 DEF LinkDrops, OnConnect, CallbackSatCom, Restart, moVars,
    relayMoVars, historyVars
<1>13. CASE ReadCommand \/ ReadRaises \/ ClearTelemetry \/ UNCHANGED vars
  BY <1>1, <1>13 DEF ReadCommand, ReadRaises, ClearTelemetry, vars, moVars,
    relayMoVars, historyVars
<1>14. ASSUME NEW t \in Telemetry, WriteTelemetry(t) PROVE TelemetryKept'
  BY <1>1, <1>14 DEF WriteTelemetry, relayMoVars
<1> QED
  BY <1>2, <1>3, <1>4, <1>5, <1>6, <1>7, <1>8, <1>9, <1>10, <1>11, <1>12, <1>13,
    <1>14 DEF Next

------------------------------------------------------------------------------
(* Theorems                                                                  *)

(* The inductive invariant.                                                  *)
IInv ==
  /\ TypeOK /\ GroundOK /\ OneCopyOK /\ BooksOK
  /\ CommandOrderOK /\ TelemetryOrderOK
  /\ CommandsKept /\ TelemetryKept

(* Nothing has been published or written at the start.                       *)
LEMMA InitIInv == Init => IInv
<1> SUFFICES ASSUME Init PROVE IInv
  OBVIOUS
<1>1. /\ BrokerTypeOK /\ JobTypeOK
      /\ \A c \in Commands, s \in Stages : job[c][s] = 0
  BY EmptyRange DEF Init, BrokerTypeOK, JobTypeOK, NoJob
<1>2. TypeOK
  <2>1. ModemTypeOK /\ HistoryTypeOK
    BY EmptyRange DEF Init, ModemTypeOK, HistoryTypeOK
  <2>2. relaySent \in 0..Len(toBroker)
    <3>1. relaySent = 0 /\ toBroker = <<>>
      BY DEF Init
    <3> QED
      BY <3>1
  <2>3. TelemetryTypeOK
    <3>1. cut \in BOOLEAN
      BY Zenon DEF Init
    <3> QED
      BY <2>2, <3>1, EmptyRange DEF Init, TelemetryTypeOK
  <2> QED
    BY <1>1, <2>1, <2>3 DEF TypeOK
<1>3. Range(<<>>) = {} /\ DOMAIN <<>> = {} /\ Len(<<>>) = 0
  BY EmptyRange
<1>4. GroundOK
  BY <1>3 DEF Init, GroundOK
<1>5. OneCopyOK /\ BooksOK
  <2> SUFFICES ASSUME NEW c \in Commands
               PROVE  /\ Work(c) + Confirmed(c) <= 1 + resends[c]
                      /\ Count(arrived, c) + stray[c] + Work(c)
                           <= 1 + resends[c] + failures[c]
    BY DEF OneCopyOK, BooksOK
  <2>1. Count(arrived, c) = 0 /\ Count(toRelay, c) = 0 /\ stray[c] = 0
    BY CountEmpty DEF Init
  <2>2. ToSend(c) = 1 /\ resends[c] = 0 /\ failures[c] = 0
    BY DEF Init, ToSend
  <2>3. Confirmed(c) = 0 /\ Work(c) = 1
    BY <1>1, <2>1, <2>2 DEF Init, Confirmed, Work, Stages
  <2> QED
    BY <2>1, <2>2, <2>3
<1>6. CommandOrderOK
  BY <1>3 DEF Init, CommandOrderOK, SettledOK, NoStaleCommand
<1>7. TelemetryOrderOK
  BY <1>3 DEF Init, TelemetryOrderOK, EndedOK, SentOK, NoStaleTelemetry,
    NoneStale
<1>8. CommandsKept /\ TelemetryKept
  BY <1>3 DEF Init, CommandsKept, ArrivedKept, TelemetryKept
<1> QED
  BY <1>2, <1>4, <1>5, <1>6, <1>7, <1>8 DEF IInv

(* The inductive invariant holds in every reachable state: each command is   *)
(* accounted for on its way to the gateway, nothing that is before another   *)
(* is still to come, and what is not lost in a known way is on its way.      *)
THEOREM Invariance == Spec => []IInv
<1>1. IInv /\ [Next]_vars => IInv'
  <2> SUFFICES ASSUME IInv, [Next]_vars PROVE IInv'
    OBVIOUS
  <2> USE DEF IInv
  <2>1. TypeOK' /\ GroundOK'
    BY NextTypeOK, NextGroundOK
  <2>2. OneCopyOK' /\ BooksOK'
    BY NextBooksOK
  <2>3. CommandOrderOK' /\ TelemetryOrderOK'
    BY NextCommandOrderOK, NextTelemetryOrderOK
  <2>4. CommandsKept' /\ TelemetryKept'
    BY NextCommandsKept, NextTelemetryKept DEF TelemetryOrderOK
  <2> QED
    BY <2>1, <2>2, <2>3, <2>4
<1> QED
  BY InitIInv, <1>1, PTL DEF Spec

(* Every variable of the composed system keeps its type.                     *)
THEOREM TypeCorrect == Spec => []TypeOK
<1>1. IInv => TypeOK
  BY DEF IInv
<1> QED
  BY Invariance, <1>1, PTL

(* Whatever faults there are, in whatever number, a message that is lost is  *)
(* lost in a known way: blocked by the filter, in a client, in the relay, at *)
(* the broker or over the modem.                                             *)
THEOREM LossesExplained == Spec => []LossExplained
<1>1. IInv => LossExplained
  BY DEF IInv, CommandsKept, TelemetryKept, LossExplained
<1> QED
  BY Invariance, <1>1, PTL

(* A command that was settled when another was published never comes after   *)
(* it.                                                                       *)
THEOREM CommandsNotStale == Spec => []NoStaleCommand
<1>1. IInv => NoStaleCommand
  BY DEF IInv, CommandOrderOK
<1> QED
  BY Invariance, <1>1, PTL

(* When the relay's client has sent all it holds, the broker does not retain *)
(* telemetry whose posts had ended before newer telemetry it has got was     *)
(* written, over lost connections and messages sent again.                   *)
THEOREM TelemetryNotStale == Spec => []NoStaleTelemetry
<1>1. IInv => NoStaleTelemetry
  BY DEF IInv, TelemetryOrderOK
<1> QED
  BY Invariance, <1>1, PTL

(* The plane gets a command once, once more for each post that failed        *)
(* although it was taken, and once more for each time udp2mqtt sent it       *)
(* again, at most.                                                           *)
THEOREM CopiesExplained == Spec => []DuplicatesExplained
<1>1. IInv => DuplicatesExplained
  <2> SUFFICES ASSUME IInv, NEW c \in Commands
               PROVE  Count(arrived, c) <= 1 + resends[c] + failures[c]
    BY DEF DuplicatesExplained
  <2>1. /\ Count(arrived, c) \in Nat /\ stray[c] \in Nat /\ resends[c] \in Nat
        /\ failures[c] \in Nat /\ Work(c) \in Nat
    BY BooksType DEF IInv
  <2>2. Count(arrived, c) + stray[c] + Work(c) <= 1 + resends[c] + failures[c]
    BY DEF IInv, BooksOK
  <2> QED
    BY <2>1, <2>2
<1> QED
  BY Invariance, <1>1, PTL
==============================================================================
