---------------------------- MODULE MqttLink_proofs ----------------------------
(***************************************************************************)
(* Proofs about MqttLink, for any messages, timeout, bounds: the type of   *)
(* its variables, in three parts, that telemetry reaches the broker in its *)
(* order and the latest is retained, and that it is cleared only after     *)
(* silence.  For the last the relay's clock must not run ahead of the      *)
(* silence, which holds because both are reset by the same message and the *)
(* relay's also by a restart.                                              *)
(***************************************************************************)
EXTENDS MqttLink, TLAPS

(* TypeOK in three parts: the queue of the client, the flags, the rest.    *)
QueueOK ==
  /\ outq \in Seq(Messages)
  /\ sent \in 0..Len(outq)
  /\ retained \in Messages \cup {None}
  /\ posted \in Seq(Messages) /\ arrived \in Seq(Messages)

FlagsOK ==
  /\ connected \in BOOLEAN /\ bad \in BOOLEAN /\ cleared \in BOOLEAN

RestOK ==
  /\ main \in {"down", "waiting", "running"}
  /\ age \in 0..(Timeout + 1)
  /\ conn \in {"down", "connecting", "up", "dead"}
  /\ subs \in {"none", "sent", "active"}
  /\ drops \in 0..MaxDrops
  /\ refusals \in 0..MaxRefusals
  /\ crashes \in 0..MaxCrashes
  /\ silence \in 0..(Timeout + 1)

(* The relay's clock shows no more time than has passed since a message.   *)
AgeOK == age <= silence

(* The client may find a message of an earlier run at the broker, and holds*)
(* none itself.                                                            *)
LEMMA InitParts == Init => QueueOK /\ FlagsOK /\ RestOK /\ AgeOK
<1> SUFFICES ASSUME Init PROVE QueueOK /\ FlagsOK /\ RestOK /\ AgeOK
  OBVIOUS
<1>1. QueueOK
  BY DEF Init, QueueOK
<1>2. FlagsOK
  BY DEF Init, FlagsOK
<1>3. RestOK
  <2>1. 0 \in 0..(Timeout + 1) /\ 0 \in 0..MaxDrops /\ 0 \in 0..MaxRefusals
        /\ 0 \in 0..MaxCrashes
    BY LinkAssumption
  <2> QED
    BY <2>1 DEF Init, RestOK
<1>4. AgeOK
  BY DEF Init, AgeOK
<1> QED
  BY <1>1, <1>2, <1>3, <1>4

(* Messages are appended when they are published and leave from the front  *)
(* when they are acknowledged; no more are under way than are held.        *)
LEMMA NextQueueOK == QueueOK /\ [Next]_vars => QueueOK'
<1> SUFFICES ASSUME QueueOK, [Next]_vars PROVE QueueOK'
  OBVIOUS
<1> USE DEF QueueOK
<1>1. CASE UNCHANGED <<outq, sent, retained, posted, arrived>>
  BY <1>1
<1>2. CASE EndProcess
  BY <1>2 DEF EndProcess
<1>3. CASE Connect \/ Poll
  BY <1>1, <1>2, <1>3 DEF Connect, Poll, clientVars, history
<1>4. ASSUME NEW m \in Messages, PublishSatcomMessage(m) PROVE QueueOK'
  BY <1>4 DEF PublishSatcomMessage
<1>5. CASE OnReceiveTimeout
  BY <1>5 DEF OnReceiveTimeout, ClearRetained, clientVars, history
<1>6. CASE Callback
  BY <1>6 DEF Callback, OnConnect, OnConnectFails,
    OnDisconnect, history
<1>7. CASE Reconnect \/ Drop \/ BrokerSubscribes
  BY <1>1, <1>7 DEF Reconnect, Drop, BrokerSubscribes, history
<1>8. CASE BrokerGets
  <2>1. outq[sent + 1] \in Messages
    BY <1>8 DEF BrokerGets
  <2>2. arrived' \in Seq(Messages) /\ retained' \in Messages
    BY <1>8, <2>1 DEF BrokerGets
  <2> QED
    BY <1>8, <2>2 DEF BrokerGets
<1>9. CASE Acknowledged
  <2>1. outq # <<>>
    BY <1>9 DEF Acknowledged
  <2> QED
    BY <1>9, <2>1 DEF Acknowledged, history
<1>10. CASE Tick \/ UNCHANGED vars
  BY <1>1, <1>10 DEF Tick, vars, clientVars, history
<1>11. CASE Crash
  BY <1>2, <1>11 DEF Crash
<1> QED
  BY <1>3, <1>4, <1>5, <1>6, <1>7, <1>8, <1>9, <1>10, <1>11
    DEF Next, Process, Link

(* A flag is set, reset or left alone.                                     *)
LEMMA NextFlagsOK == FlagsOK /\ [Next]_vars => FlagsOK'
<1> SUFFICES ASSUME FlagsOK, [Next]_vars PROVE FlagsOK'
  OBVIOUS
<1> USE DEF FlagsOK
<1>1. CASE EndProcess
  BY <1>1 DEF EndProcess
<1>2. CASE Connect \/ Poll \/ Crash
  BY <1>1, <1>2 DEF Connect, Poll, Crash, history
<1>3. ASSUME NEW m \in Messages, PublishSatcomMessage(m) PROVE FlagsOK'
  BY <1>3 DEF PublishSatcomMessage
<1>4. CASE OnReceiveTimeout
  BY <1>4 DEF OnReceiveTimeout, history
<1>5. CASE OnConnect \/ OnDisconnect
  BY <1>5 DEF OnConnect, OnDisconnect, history
<1>6. CASE OnConnectFails
  BY <1>6 DEF OnConnectFails, processVars, history
<1>7. CASE Link \/ Tick
  BY <1>7 DEF Link, Reconnect, Drop, BrokerSubscribes, BrokerGets, Acknowledged,
    Tick, processVars, history
<1>8. CASE UNCHANGED vars
  BY <1>8 DEF vars, processVars, history
<1> QED
  BY <1>2, <1>3, <1>4, <1>5, <1>6, <1>7, <1>8 DEF Next, Process, Callback

(* Everything but the clocks is assigned a value of its kind; the clocks   *)
(* stop one past the timeout.                                              *)
LEMMA NextRestOK == RestOK /\ [Next]_vars => RestOK'
<1> SUFFICES ASSUME RestOK, [Next]_vars PROVE RestOK'
  OBVIOUS
<1> USE LinkAssumption DEF RestOK
<1>1. CASE EndProcess /\ crashes' \in 0..MaxCrashes
  BY <1>1 DEF EndProcess
<1>2. CASE Connect \/ Poll
  BY <1>1, <1>2 DEF Connect, Poll, clientVars, bounds, history
<1>3. ASSUME NEW m \in Messages, PublishSatcomMessage(m) PROVE RestOK'
  BY <1>3 DEF PublishSatcomMessage, bounds
<1>4. CASE OnReceiveTimeout
  BY <1>4 DEF OnReceiveTimeout, clientVars, bounds, history
<1>5. CASE OnConnect \/ OnDisconnect
  BY <1>5 DEF OnConnect, OnDisconnect, bounds, history
<1>6. CASE OnConnectFails
  BY <1>6 DEF OnConnectFails, processVars, history
<1>7. CASE Link
  BY <1>7 DEF Link, Reconnect, Drop, BrokerSubscribes, BrokerGets, Acknowledged,
    processVars, bounds, history
<1>8. CASE Tick
  BY <1>8 DEF Tick, clientVars, bounds
<1>9. CASE Crash
  BY <1>1, <1>9 DEF Crash
<1>10. CASE UNCHANGED vars
  BY <1>10 DEF vars, processVars, clientVars, bounds, history
<1> QED
  BY <1>2, <1>3, <1>4, <1>5, <1>6, <1>7, <1>8, <1>9, <1>10
    DEF Next, Process, Callback

(* A message resets both clocks, a restart only the relay's, and both tick.*)
LEMMA NextAgeOK == RestOK /\ AgeOK /\ [Next]_vars => AgeOK'
<1> SUFFICES ASSUME RestOK, AgeOK, [Next]_vars PROVE AgeOK'
  OBVIOUS
<1> USE LinkAssumption DEF AgeOK
<1>1. CASE UNCHANGED <<age, silence>>
  BY <1>1
<1>2. CASE EndProcess
  BY <1>2 DEF EndProcess, RestOK
<1>3. CASE Tick
  BY <1>3 DEF Tick, RestOK
<1>4. ASSUME NEW m \in Messages, PublishSatcomMessage(m) PROVE AgeOK'
  BY <1>4 DEF PublishSatcomMessage
<1>5. CASE Connect \/ Poll \/ OnReceiveTimeout
  BY <1>1, <1>2, <1>5 DEF Connect, Poll, OnReceiveTimeout, history
<1>6. CASE Callback
  BY <1>1, <1>6 DEF Callback, OnConnect, OnConnectFails,
    OnDisconnect, processVars, history
<1>7. CASE Link
  BY <1>1, <1>7 DEF Link, Reconnect, Drop, BrokerSubscribes, BrokerGets,
    Acknowledged, processVars, history
<1>8. CASE Crash
  BY <1>2, <1>8 DEF Crash
<1>9. CASE UNCHANGED vars
  BY <1>1, <1>9 DEF vars, processVars, history
<1> QED
  BY <1>3, <1>4, <1>5, <1>6, <1>7, <1>8, <1>9 DEF Next, Process

(* What the broker retains is replaced by telemetry, which is not None, and*)
(* removed by the timeout only.                                            *)
LEMMA NextClear ==
  QueueOK /\ RestOK /\ AgeOK /\ [Next]_vars =>
    [retained # None /\ retained' = None => silence > Timeout]_vars
<1> SUFFICES ASSUME QueueOK, RestOK, AgeOK, Next, retained # None, retained' = None
             PROVE  silence > Timeout
  OBVIOUS
<1>1. retained' # retained
  OBVIOUS
<1>2. CASE OnReceiveTimeout
  BY <1>2, LinkAssumption DEF OnReceiveTimeout, RestOK, AgeOK
<1>3. CASE BrokerGets
  <2>1. outq[sent + 1] \in Messages
    BY <1>3 DEF BrokerGets, QueueOK
  <2> QED
    BY <1>3, <2>1, TelemetryAssumption DEF BrokerGets
<1>4. CASE Connect \/ Poll \/ Crash
  BY <1>1, <1>4 DEF Connect, Poll, Crash, EndProcess
<1>5. ASSUME NEW m \in Messages, PublishSatcomMessage(m) PROVE FALSE
  BY <1>1, <1>5 DEF PublishSatcomMessage
<1>6. CASE Callback \/ Tick
  BY <1>1, <1>6 DEF Callback, OnConnect, OnConnectFails,
    OnDisconnect, Tick
<1>7. CASE Reconnect \/ Drop \/ BrokerSubscribes \/ Acknowledged
  BY <1>1, <1>7 DEF Reconnect, Drop, BrokerSubscribes, Acknowledged
<1> QED
  BY <1>2, <1>3, <1>4, <1>5, <1>6, <1>7 DEF Next, Process, Link

(* Telemetry leaves the client in the order it came.  The client has       *)
(* forgotten the first ones of what was posted and holds the others; of    *)
(* these the first "sent" are among those that arrived.                    *)
Forgotten == Len(posted) - Len(outq)

OrderOK ==
  /\ Len(outq) <= Len(posted)
  /\ Len(arrived) <= Len(posted)
  /\ Forgotten + sent <= Len(arrived)
  /\ \A i \in 1..Len(arrived) : arrived[i] = posted[i]
  /\ \A i \in 1..Len(outq) : outq[i] = posted[Forgotten + i]

(* No message is posted twice.                                             *)
OnceOK == \A i, j \in 1..Len(posted) : posted[i] = posted[j] => i = j

(* While the client holds messages it has not sent on this connection, and *)
(* has sent none, the broker may retain any; otherwise the last it was sent.*)
LastSentOK ==
  (sent > 0 \/ outq = <<>>) /\ posted # <<>> /\ retained # None =>
    retained = posted[Forgotten + sent]

LEMMA InitOrder == Init => OrderOK /\ OnceOK /\ LastSentOK
BY DEF Init, OrderOK, OnceOK, LastSentOK, Forgotten

(* A message is appended to what was posted and to what the client holds.  *)
LEMMA PublishOrder ==
  ASSUME QueueOK, OrderOK, OnceOK, LastSentOK,
         NEW m \in Messages, PublishSatcomMessage(m)
  PROVE  OrderOK' /\ OnceOK' /\ LastSentOK'
<1> USE DEF QueueOK
<1>1. /\ posted' = Append(posted, m) /\ outq' = Append(outq, m)
      /\ UNCHANGED <<sent, retained, arrived>>
      /\ m \notin Range(posted)
  BY DEF PublishSatcomMessage
<1>2. /\ Len(posted') = Len(posted) + 1
      /\ Len(outq') = Len(outq) + 1
      /\ \A i \in 1..Len(posted) : posted'[i] = posted[i]
      /\ posted'[Len(posted) + 1] = m
      /\ \A i \in 1..Len(outq) : outq'[i] = outq[i]
      /\ outq'[Len(outq) + 1] = m
  BY <1>1
<1>3. Forgotten' = Forgotten /\ Forgotten \in Int
  BY <1>2 DEF Forgotten
<1>4. Forgotten + Len(outq) = Len(posted) /\ Forgotten \in Nat
  BY DEF Forgotten, OrderOK
<1>5. OrderOK'
  <2>1. Len(outq') <= Len(posted') /\ Len(arrived') <= Len(posted')
        /\ Forgotten' + sent' <= Len(arrived')
    BY <1>1, <1>2, <1>3 DEF OrderOK
  <2>2. \A i \in 1..Len(arrived') : arrived'[i] = posted'[i]
    BY <1>1, <1>2 DEF OrderOK
  <2>3. ASSUME NEW i \in 1..Len(outq') PROVE outq'[i] = posted'[Forgotten' + i]
    <3>1. CASE i = Len(outq) + 1
      BY <1>2, <1>3, <1>4, <3>1
    <3>2. CASE i \in 1..Len(outq)
      <4>1. Forgotten + i \in 1..Len(posted)
        BY <1>4, <3>2
      <4> QED
        BY <1>2, <1>3, <3>2, <4>1 DEF OrderOK
    <3> QED
      BY <1>2, <3>1, <3>2
  <2> QED
    BY <2>1, <2>2, <2>3 DEF OrderOK
<1>6. OnceOK'
  <2>1. \A i \in 1..Len(posted) : posted[i] # m
    BY <1>1 DEF Range
  <2> QED
    BY <1>2, <2>1 DEF OnceOK
<1>7. LastSentOK'
  <2>1. ASSUME sent > 0, retained # None PROVE retained = posted'[Forgotten + sent]
    <3>1. Forgotten + sent \in 1..Len(posted)
      BY <2>1, <1>4
    <3>2. posted # <<>>
      BY <3>1
    <3> QED
      BY <1>2, <2>1, <3>1, <3>2 DEF LastSentOK
  <2>2. outq' # <<>>
    BY <1>2
  <2> QED
    BY <1>1, <1>3, <2>1, <2>2 DEF LastSentOK
<1> QED
  BY <1>5, <1>6, <1>7

(* The broker gets the next message: one it has had already, or the next of*)
(* what was posted.                                                        *)
LEMMA BrokerGetsOrder ==
  ASSUME QueueOK, OrderOK, OnceOK, BrokerGets
  PROVE  OrderOK' /\ OnceOK' /\ LastSentOK'
<1> USE DEF QueueOK
<1> DEFINE m == outq[sent + 1]
<1> DEFINE next == Forgotten + sent + 1
<1>1. /\ UNCHANGED <<outq, posted>>
      /\ sent' = sent + 1 /\ sent < Len(outq)
      /\ retained' = m
      /\ arrived' = IF m \in Range(arrived) THEN arrived ELSE Append(arrived, m)
  BY DEF BrokerGets
<1>2. Forgotten' = Forgotten /\ Forgotten \in Nat
      /\ Forgotten + Len(outq) = Len(posted)
  BY <1>1 DEF Forgotten, OrderOK
<1>3. next \in 1..Len(posted) /\ m = posted[next] /\ m \in Messages
  BY <1>1, <1>2 DEF OrderOK
<1>4. next <= Len(arrived) + 1
  BY <1>2 DEF OrderOK
<1>5. /\ Len(arrived') <= Len(posted) /\ next <= Len(arrived')
      /\ \A i \in 1..Len(arrived') : arrived'[i] = posted[i]
  <2>1. CASE next \in 1..Len(arrived)
    <3>1. arrived[next] = m
      BY <1>3, <2>1 DEF OrderOK
    <3>2. m \in Range(arrived)
      BY <2>1, <3>1 DEF Range
    <3> QED
      BY <1>1, <2>1, <3>2 DEF OrderOK
  <2>2. CASE next = Len(arrived) + 1
    <3>1. ASSUME NEW i \in 1..Len(arrived) PROVE arrived[i] # m
      <4>1. i \in 1..Len(posted) /\ i # next /\ arrived[i] = posted[i]
        BY <2>2 DEF OrderOK
      <4> QED
        BY <1>3, <4>1 DEF OnceOK
    <3>2. m \notin Range(arrived)
      BY <3>1 DEF Range
    <3>3. arrived' = Append(arrived, m)
      BY <1>1, <3>2
    <3>4. /\ Len(arrived') = Len(arrived) + 1
          /\ \A i \in 1..Len(arrived) : arrived'[i] = arrived[i]
          /\ arrived'[Len(arrived) + 1] = m
      BY <1>3, <3>3
    <3> HIDE DEF m
    <3> QED
      BY <1>3, <2>2, <3>4 DEF OrderOK
  <2> QED
    BY <1>3, <1>4, <2>1, <2>2
<1> HIDE DEF m
<1>6. OrderOK'
  BY <1>1, <1>2, <1>5 DEF OrderOK
<1>7. OnceOK'
  BY <1>1 DEF OnceOK
<1>8. LastSentOK'
  BY <1>1, <1>2, <1>3 DEF LastSentOK
<1> QED
  BY <1>6, <1>7, <1>8

(* The first message the client holds is forgotten; it is among those that *)
(* were sent, so it has arrived.                                           *)
LEMMA AcknowledgedOrder ==
  ASSUME QueueOK, OrderOK, OnceOK, LastSentOK, Acknowledged
  PROVE  OrderOK' /\ OnceOK' /\ LastSentOK'
<1> USE DEF QueueOK
<1>1. /\ outq' = Tail(outq) /\ sent' = sent - 1 /\ sent > 0
      /\ UNCHANGED <<retained, posted, arrived>>
  BY DEF Acknowledged, history
<1>2. outq # <<>>
  BY <1>1
<1>3. /\ Len(outq') = Len(outq) - 1
      /\ \A i \in 1..(Len(outq) - 1) : outq'[i] = outq[i + 1]
  BY <1>1, <1>2
<1>4. Forgotten' = Forgotten + 1 /\ Forgotten \in Nat
  <2>1. Len(outq) <= Len(posted)
    BY DEF OrderOK
  <2>2. /\ Len(outq) \in Nat /\ Len(posted) \in Nat
        /\ posted' = posted /\ Len(outq') = Len(outq) - 1
    BY <1>1, <1>3
  <2> QED
    BY <2>1, <2>2 DEF Forgotten
<1>5. OrderOK'
  <2>1. ASSUME NEW i \in 1..Len(outq') PROVE outq'[i] = posted'[Forgotten' + i]
    <3>1. i + 1 \in 1..Len(outq) /\ outq'[i] = outq[i + 1]
      BY <1>3
    <3>2. outq[i + 1] = posted[Forgotten + (i + 1)]
      BY <3>1 DEF OrderOK
    <3>3. Forgotten + (i + 1) = Forgotten' + i
      BY <1>4
    <3> QED
      BY <1>1, <3>1, <3>2, <3>3
  <2> QED
    BY <1>1, <1>3, <1>4, <2>1 DEF OrderOK
<1>6. OnceOK'
  BY <1>1 DEF OnceOK
<1>7. LastSentOK'
  <2>1. Forgotten' + sent' = Forgotten + sent
    BY <1>1, <1>4
  <2> QED
    BY <1>1, <2>1 DEF LastSentOK
<1> QED
  BY <1>5, <1>6, <1>7

(* The other steps leave the order alone: a lost connection only starts the*)
(* sending again, the empty message only clears what is retained, and with *)
(* the process all that was posted to it is forgotten.                     *)
LEMMA NextOrder ==
  QueueOK /\ OrderOK /\ OnceOK /\ LastSentOK /\ [Next]_vars =>
    OrderOK' /\ OnceOK' /\ LastSentOK'
<1> SUFFICES ASSUME QueueOK, OrderOK, OnceOK, LastSentOK, [Next]_vars
             PROVE  OrderOK' /\ OnceOK' /\ LastSentOK'
  OBVIOUS
<1>1. CASE UNCHANGED <<outq, posted, arrived>>
           /\ (sent' = sent \/ sent' = 0)
           /\ (retained' = retained \/ retained' = None)
  <2>1. Forgotten' = Forgotten
    BY <1>1 DEF Forgotten
  <2>2. OrderOK' /\ OnceOK'
    BY <1>1, <2>1 DEF OrderOK, OnceOK, Forgotten, QueueOK
  <2>3. LastSentOK'
    <3>1. CASE sent' = sent
      BY <1>1, <2>1, <3>1 DEF LastSentOK
    <3>2. CASE sent' = 0 /\ outq = <<>>
      <4>1. sent = 0
        BY <3>2 DEF QueueOK
      <4> QED
        BY <1>1, <2>1, <3>2, <4>1 DEF LastSentOK
    <3>3. CASE sent' = 0 /\ outq # <<>>
      BY <1>1, <3>3 DEF LastSentOK
    <3> QED
      BY <1>1, <3>1, <3>2, <3>3
  <2> QED
    BY <2>2, <2>3
<1>2. CASE EndProcess
  BY <1>2 DEF EndProcess, OrderOK, OnceOK, LastSentOK, Forgotten
<1>3. ASSUME NEW m \in Messages, PublishSatcomMessage(m)
      PROVE  OrderOK' /\ OnceOK' /\ LastSentOK'
  BY <1>3, PublishOrder
<1>4. CASE BrokerGets
  BY <1>4, BrokerGetsOrder
<1>5. CASE Acknowledged
  BY <1>5, AcknowledgedOrder
<1>6. CASE Connect \/ Poll \/ Crash
  BY <1>1, <1>2, <1>6 DEF Connect, Poll, Crash, clientVars, history
<1>7. CASE OnReceiveTimeout
  BY <1>1, <1>7 DEF OnReceiveTimeout, ClearRetained, clientVars, history
<1>8. CASE Callback
  BY <1>1, <1>8 DEF Callback, OnConnect, OnConnectFails,
    OnDisconnect, history
<1>9. CASE Reconnect \/ Drop \/ BrokerSubscribes \/ Tick \/ UNCHANGED vars
  BY <1>1, <1>9 DEF Reconnect, Drop, BrokerSubscribes, Tick, vars, clientVars, history
<1> QED
  BY <1>3, <1>4, <1>5, <1>6, <1>7, <1>8, <1>9 DEF Next, Process, Link

(* The parts hold in every reachable state.                                *)
LEMMA Invariance == Spec => [](QueueOK /\ FlagsOK /\ RestOK /\ AgeOK)
BY InitParts, NextQueueOK, NextFlagsOK, NextRestOK, NextAgeOK, PTL DEF Spec

LEMMA OrderInvariance == Spec => [](QueueOK /\ OrderOK /\ OnceOK /\ LastSentOK)
BY InitParts, InitOrder, NextQueueOK, NextOrder, PTL DEF Spec

(* Every variable of the relay's link to the broker keeps its type.        *)
THEOREM TypeCorrect == Spec => []TypeOK
<1>1. QueueOK /\ FlagsOK /\ RestOK => TypeOK
  BY DEF QueueOK, FlagsOK, RestOK, TypeOK
<1> QED
  BY Invariance, <1>1, PTL

(* The last position of a plane that is heard from stays at the broker,    *)
(* through lost connections, refusals and restarts: the relay clears it    *)
(* only when nothing came for longer than the timeout of relay.cfg.        *)
THEOREM ClearedAfterSilence == Spec => ClearOnlyAfterSilence
BY Invariance, NextClear, PTL DEF Spec, ClearOnlyAfterSilence

(* Telemetry reaches the broker in the order it came, and what has not     *)
(* reached it is held by the client, through any number of lost connections*)
(* and of messages sent twice.                                             *)
THEOREM TelemetryInOrder == Spec => []TelemetryKept
<1>1. ASSUME QueueOK, OrderOK PROVE TelemetryKept
  <2> USE DEF QueueOK
  <2>1. IsPrefix(arrived, posted)
    <3>1. Len(arrived) <= Len(posted)
      BY <1>1 DEF OrderOK
    <3>2. SubSeq(arrived, 1, Len(arrived)) = SubSeq(posted, 1, Len(arrived))
      BY <1>1 DEF OrderOK
    <3> QED
      BY <3>1, <3>2 DEF IsPrefix
  <2>2. Len(outq) <= Len(posted) /\ Len(posted) <= Len(arrived) + Len(outq)
    BY <1>1 DEF OrderOK, Forgotten
  <2>3. outq = SubSeq(posted, Len(posted) - Len(outq) + 1, Len(posted))
    BY <1>1 DEF OrderOK, Forgotten
  <2> QED
    BY <2>1, <2>2, <2>3 DEF TelemetryKept
<1> QED
  BY <1>1, OrderInvariance, PTL

(* When the client has got rid of all it held, the broker retains the latest*)
(* telemetry, or none: a message sent again never stays in the place of a  *)
(* newer one.                                                              *)
THEOREM LatestRetained == Spec => []RetainedIsLatest
<1>1. ASSUME QueueOK, LastSentOK PROVE RetainedIsLatest
  <2> SUFFICES ASSUME outq = <<>>, posted # <<>>, retained # None
               PROVE  retained = Latest
    BY DEF RetainedIsLatest
  <2>1. sent = 0 /\ Forgotten = Len(posted)
    BY <1>1 DEF QueueOK, Forgotten
  <2> QED
    BY <1>1, <2>1 DEF LastSentOK, Latest, QueueOK
<1> QED
  BY <1>1, OrderInvariance, PTL

(* What the broker gets is the next message of what was posted, or one it  *)
(* has had: after the step the arrivals are still the front of what was    *)
(* posted.                                                                 *)
LEMMA BrokerGetsNext ==
  ASSUME QueueOK, OrderOK, OrderOK', BrokerGets
  PROVE  [OD!Deliver]_<<posted, arrived>>
<1> USE DEF QueueOK
<1> DEFINE m == outq[sent + 1]
<1>1. /\ UNCHANGED posted
      /\ sent < Len(outq)
      /\ arrived' = IF m \in Range(arrived) THEN arrived ELSE Append(arrived, m)
  BY DEF BrokerGets
<1>2. m \in Messages
  BY <1>1
<1> HIDE DEF m
<1>3. CASE arrived' = arrived
  BY <1>1, <1>3
<1>4. CASE arrived' = Append(arrived, m)
  <2>1. Len(arrived') = Len(arrived) + 1 /\ arrived'[Len(arrived) + 1] = m
    BY <1>2, <1>4
  <2>2. Len(arrived) + 1 \in 1..Len(arrived') /\ Len(arrived') <= Len(posted)
    BY <1>1, <2>1 DEF OrderOK
  <2>3. m = posted[Len(arrived) + 1]
    BY <1>1, <2>1, <2>2 DEF OrderOK
  <2>4. Len(arrived) < Len(posted)
    BY <2>1, <2>2
  <2> QED
    BY <1>1, <1>4, <2>3, <2>4 DEF OD!Deliver
<1> QED
  BY <1>1, <1>3, <1>4

(* The relay and its client implement OrderedDelivery towards the broker:  *)
(* telemetry posted is sent, the broker gets the next, the end of the      *)
(* process forgets both, and lost connections, refusals, timeouts and      *)
(* messages that are sent again are stutters.                              *)
THEOREM Implementation == Spec => ImplementsOrderedDelivery
<1>1. Init => OD!Init
  BY DEF Init, OD!Init
<1>2. QueueOK /\ OrderOK /\ OrderOK' /\ [Next]_vars => [OD!Next]_OD!vars
  <2> SUFFICES ASSUME QueueOK, OrderOK, OrderOK', [Next]_vars
               PROVE  [OD!Next]_OD!vars
    OBVIOUS
  <2> USE DEF OD!vars
  <2>1. CASE UNCHANGED <<posted, arrived>>
    BY <2>1
  <2>2. CASE EndProcess
    BY <2>2 DEF EndProcess, OD!Next, OD!Forget
  <2>3. ASSUME NEW m \in Messages, PublishSatcomMessage(m) PROVE OD!Next
    BY <2>3 DEF PublishSatcomMessage, OD!Next, OD!Send
  <2>4. CASE BrokerGets
    BY <2>4, BrokerGetsNext DEF OD!Next
  <2>5. CASE Connect \/ Poll \/ Crash
    BY <2>1, <2>2, <2>5 DEF Connect, Poll, Crash, history
  <2>6. CASE OnReceiveTimeout \/ Callback
    BY <2>1, <2>6 DEF OnReceiveTimeout, Callback, OnConnect, OnConnectFails, OnDisconnect, history
  <2>7. CASE Reconnect \/ Drop \/ BrokerSubscribes \/ Acknowledged \/ Tick
             \/ UNCHANGED vars
    BY <2>1, <2>7 DEF Reconnect, Drop, BrokerSubscribes, Acknowledged, Tick, vars,
      history
  <2> QED
    BY <2>3, <2>4, <2>5, <2>6, <2>7 DEF Next, Process, Link
<1>3. Spec => []OrderOK
  BY OrderInvariance, PTL
<1> QED
  BY <1>1, <1>2, <1>3, OrderInvariance, PTL
    DEF Spec, ImplementsOrderedDelivery, OD!Spec
=============================================================================
