---------------------------- MODULE MtRelay_proofs ----------------------------
(***********************************************************************)
(* Proofs about MtRelay, for any messages, threads, requests and       *)
(* bounds.  The invariant of the books (Accounting) is not inductive:  *)
(* it needs to know what is in the hands of whom (IInv of MtRelay).    *)
(* The proof has two halves for each action.  The lemmas called        *)
(* ...Core show that the parts of IInv other than the books are kept;  *)
(* those called ...Books show what the action does to the books, in    *)
(* one of five shapes (BooksStep).  Both the invariance of Accounting  *)
(* and the refinement of AtLeastOnce follow from these shapes, without *)
(* looking at the actions again.                                       *)
(* The last part is about the list of threads: which ones CleanUp and  *)
(* Redeliver leave in it, and how long it gets.  The bound comes from  *)
(* counting: a thread that sleeps or posts has a message of its own.   *)
(***********************************************************************)
EXTENDS MtRelay, SequenceTheorems, FiniteSetTheorems, TLAPS

(* What is left of a list after one element is removed is a list over  *)
(* the same set: the thread list while dead threads are taken out of   *)
(* it.                                                                 *)
LEMMA RemoveAtType ==
  ASSUME NEW S, NEW s \in Seq(S), NEW i \in 1..Len(s)
  PROVE  RemoveAt(s, i) \in Seq(S)
BY DEF RemoveAt

(* Nothing has come in and nobody holds anything at the start.         *)
LEMMA InitIInv == Init => IInv
<1> SUFFICES ASSUME Init PROVE IInv
  OBVIOUS
<1>1. TypeOK
  <2>1. pc \in [Posters -> PosterStates]
    BY DEF Init, PosterStates
  <2>2. threads \in Seq(Threads)
    BY DEF Init
  <2>3. lost \in [Messages -> 0..MaxLost]
    BY BoundsAssumption DEF Init
  <2> QED
    BY <2>1, <2>2, <2>3 DEF Init, TypeOK
<1>2. HeldOK /\ WaitingOK /\ PoppedOK /\ RegisterOK /\ FetchOK
  BY DEF Init, HeldOK, WaitingOK, PoppedOK, RegisterOK, FetchOK, Carrying
<1>3. \A m \in Messages : /\ \A p \in Posters : ~Holds(p, m)
                          /\ \A r \in Requests : ~InFlight(r, m)
                          /\ ~Handled(m) /\ ~Taken(m)
  BY DEF Init, Holds, InFlight, Handled, Taken, Carrying
<1>4. OneAttempt
  BY <1>3 DEF OneAttempt
<1>5. Accounting
  BY <1>3 DEF Accounting, Init
<1> QED
  BY <1>1, <1>2, <1>4, <1>5 DEF IInv

(* IInv without the books.                                             *)
Core ==
  /\ TypeOK /\ HeldOK /\ WaitingOK /\ PoppedOK /\ RegisterOK /\ FetchOK
  /\ OneAttempt

(* A message that has just come in gets a number nobody has used and   *)
(* goes to one idle thread.                                            *)
LEMMA CallbackSatComCore ==
  ASSUME IInv, NEW m \in Messages, CallbackSatCom(m)
  PROVE  Core'
<1> USE DEF IInv, CallbackSatCom, gatewayVars, relayVars
<1>1. TypeOK'
  BY DEF TypeOK, Posters, PosterStates, Carrying, Jobs
<1>2. HeldOK'
  BY DEF HeldOK, TypeOK, JobOK, Jobs, Taken
<1>3. WaitingOK'
  BY DEF WaitingOK, JobOK, Taken
<1>4. PoppedOK'
  BY DEF PoppedOK, JobOK, Taken
<1>5. RegisterOK'
  BY DEF RegisterOK
<1>6. FetchOK'
  BY DEF FetchOK
<1>7. OneAttempt'
  BY DEF OneAttempt, Holds, InFlight, Handled, HeldOK, WaitingOK, PoppedOK,
         TypeOK, JobOK
<1> QED
  BY <1>1, <1>2, <1>3, <1>4, <1>5, <1>6, <1>7 DEF Core

(* A redelivery thread that has slept goes on with the job it has.     *)
LEMMA WakeUpCore ==
  ASSUME IInv, NEW t \in Threads, WakeUp(t)
  PROVE  Core'
<1> USE DEF IInv, WakeUp, gatewayVars, relayVars
<1>1. TypeOK'
  BY DEF TypeOK, PosterStates, Carrying
<1>2. HeldOK'
  BY DEF HeldOK, TypeOK, JobOK, Taken, PosterStates
<1>3. WaitingOK'
  BY DEF WaitingOK, JobOK, Taken
<1>4. PoppedOK'
  BY DEF PoppedOK, JobOK, Taken
<1>5. RegisterOK'
  BY DEF RegisterOK
<1>6. FetchOK'
  BY DEF FetchOK
<1>7. OneAttempt'
  BY DEF OneAttempt, Holds, InFlight, Handled, Carrying
<1> QED
  BY <1>1, <1>2, <1>3, <1>4, <1>5, <1>6, <1>7 DEF Core

(* The lock is free when the payload goes into the shared dictionary,  *)
(* so it stays that of the thread that put it there.                   *)
LEMMA PostEncodeCore ==
  ASSUME IInv, NEW p \in Posters, PostEncode(p)
  PROVE  Core'
<1> USE DEF IInv, PostEncode, gatewayVars, relayVars
<1>1. TypeOK'
  BY DEF TypeOK, HeldOK, PosterStates, Carrying, JobOK, Jobs
<1>2. HeldOK'
  BY DEF HeldOK, TypeOK, JobOK, Taken, PosterStates
<1>3. WaitingOK'
  BY DEF WaitingOK, JobOK, Taken
<1>4. PoppedOK'
  BY ActorsAssumption DEF PoppedOK
<1>5. RegisterOK'
  BY ActorsAssumption DEF RegisterOK
<1>6. FetchOK'
  BY DEF FetchOK
<1>7. OneAttempt'
  BY DEF OneAttempt, Holds, InFlight, Handled, Carrying
<1> QED
  BY <1>1, <1>2, <1>3, <1>4, <1>5, <1>6, <1>7 DEF Core

(* The request takes its payload from the shared dictionary and is     *)
(* entered under the job of the thread that still holds the lock.      *)
LEMMA PostRegisterCore ==
  ASSUME IInv, NEW p \in Posters, NEW r \in Requests, PostRegister(p, r)
  PROVE  Core'
<1> USE DEF IInv, PostRegister, gatewayVars, relayVars
<1>1. TypeOK'
  BY DEF TypeOK, PosterStates
<1>2. HeldOK'
  BY DEF HeldOK, TypeOK, JobOK, Taken, PosterStates
<1>3. WaitingOK'
  BY DEF WaitingOK, HeldOK, RegisterOK, TypeOK, JobOK, Taken, Carrying
<1>4. PoppedOK'
  BY ActorsAssumption DEF PoppedOK, RegisterOK
<1>5. RegisterOK'
  BY DEF RegisterOK, TypeOK
<1>6. FetchOK'
  BY DEF FetchOK, TypeOK
<1>7. OneAttempt'
  BY DEF OneAttempt, Holds, InFlight, Handled, TypeOK, Carrying
<1> QED
  BY <1>1, <1>2, <1>3, <1>4, <1>5, <1>6, <1>7 DEF Core

(* Only the poster that built a request hands it to the IOLoop.        *)
LEMMA PostFetchCore ==
  ASSUME IInv, NEW p \in Posters, PostFetch(p)
  PROVE  Core'
<1> USE DEF IInv, PostFetch, gatewayVars, relayVars
<1>1. TypeOK'
  BY DEF TypeOK, PosterStates
<1>2. HeldOK'
  BY DEF HeldOK, JobOK, Taken, Carrying
<1>3. WaitingOK'
  BY DEF FetchOK, WaitingOK, JobOK, Taken
<1>4. PoppedOK'
  BY DEF PoppedOK, JobOK, Taken
<1>5. RegisterOK'
  BY DEF RegisterOK
<1>6. FetchOK'
  BY DEF FetchOK, TypeOK
<1>7. OneAttempt'
  BY DEF FetchOK, OneAttempt, Holds, InFlight, Handled, Carrying
<1> QED
  BY <1>1, <1>2, <1>3, <1>4, <1>5, <1>6, <1>7 DEF Core

(* A thread that ends holds nothing.                                   *)
LEMMA ExitCore ==
  ASSUME IInv, NEW t \in Threads, Exit(t)
  PROVE  Core'
<1> USE DEF IInv, Exit, gatewayVars, relayVars
<1>1. TypeOK'
  BY DEF TypeOK, PosterStates
<1>2. HeldOK'
  BY DEF HeldOK, JobOK, Taken, Carrying
<1>3. WaitingOK'
  BY DEF WaitingOK, JobOK, Taken
<1>4. PoppedOK'
  BY DEF PoppedOK, JobOK, Taken
<1>5. RegisterOK'
  BY DEF RegisterOK
<1>6. FetchOK'
  BY DEF FetchOK
<1>7. OneAttempt'
  BY DEF OneAttempt, Holds, InFlight, Handled, Carrying
<1> QED
  BY <1>1, <1>2, <1>3, <1>4, <1>5, <1>6, <1>7 DEF Core

(* An answer changes nothing in the relay until its callback runs.     *)
LEMMA GatewayAcceptsCore ==
  ASSUME IInv, NEW r \in Requests, GatewayAccepts(r)
  PROVE  Core'
<1> USE DEF IInv, GatewayAccepts, gatewayVars, relayVars
<1>1. TypeOK'
  <2>1. body[r] \in Messages
    BY DEF WaitingOK, JobOK, Jobs
  <2>2. accepted' \in [Messages -> Nat]
    BY <2>1 DEF TypeOK
  <2> QED
    BY <2>2 DEF TypeOK
<1>2. HeldOK'
  BY DEF HeldOK, JobOK, Taken
<1>3. WaitingOK'
  BY DEF WaitingOK, JobOK, Taken
<1>4. PoppedOK'
  BY DEF PoppedOK, JobOK, Taken
<1>5. RegisterOK'
  BY DEF RegisterOK
<1>6. FetchOK'
  BY DEF FetchOK
<1>7. OneAttempt'
  BY DEF OneAttempt, Holds, InFlight, Handled
<1> QED
  BY <1>1, <1>2, <1>3, <1>4, <1>5, <1>6, <1>7 DEF Core

(* A refusal looks like any other answer.                              *)
LEMMA GatewayRejectsCore ==
  ASSUME IInv, NEW r \in Requests, GatewayRejects(r)
  PROVE  Core'
<1> USE DEF IInv, GatewayRejects, gatewayVars, relayVars
<1>1. TypeOK'
  <2>1. body[r] \in Messages
    BY DEF WaitingOK, JobOK, Jobs
  <2> QED
    BY <2>1 DEF TypeOK
<1>2. HeldOK'
  BY DEF HeldOK, JobOK, Taken
<1>3. WaitingOK'
  BY DEF WaitingOK, JobOK, Taken
<1>4. PoppedOK'
  BY DEF PoppedOK, JobOK, Taken
<1>5. RegisterOK'
  BY DEF RegisterOK
<1>6. FetchOK'
  BY DEF FetchOK
<1>7. OneAttempt'
  BY DEF OneAttempt, Holds, InFlight, Handled
<1> QED
  BY <1>1, <1>2, <1>3, <1>4, <1>5, <1>6, <1>7 DEF Core

(* Neither does an answer that gets lost.                              *)
LEMMA GatewayAcceptsAnswerLostCore ==
  ASSUME IInv, NEW r \in Requests, GatewayAcceptsAnswerLost(r)
  PROVE  Core'
<1> USE DEF IInv, GatewayAcceptsAnswerLost, gatewayVars, relayVars
<1>1. TypeOK'
  <2>1. body[r] \in Messages
    BY DEF WaitingOK, JobOK, Jobs
  <2>2. accepted' \in [Messages -> Nat]
    BY <2>1 DEF TypeOK
  <2>3. lost' \in [Messages -> 0..MaxLost]
    BY <2>1, BoundsAssumption DEF TypeOK
  <2>4. wire' \in [Requests -> {"free", "built", "sent", "ok", "error"}]
    BY DEF TypeOK
  <2> QED
    BY <2>2, <2>3, <2>4 DEF TypeOK
<1>2. HeldOK'
  BY DEF HeldOK, JobOK, Taken
<1>3. WaitingOK'
  BY DEF WaitingOK, JobOK, Taken
<1>4. PoppedOK'
  BY DEF PoppedOK, JobOK, Taken
<1>5. RegisterOK'
  BY DEF RegisterOK
<1>6. FetchOK'
  BY DEF FetchOK
<1>7. OneAttempt'
  BY DEF OneAttempt, Holds, InFlight, Handled
<1> QED
  BY <1>1, <1>2, <1>3, <1>4, <1>5, <1>6, <1>7 DEF Core

(* Nor an error of the gateway.                                        *)
LEMMA GatewayFailsCore ==
  ASSUME IInv, NEW r \in Requests, GatewayFails(r)
  PROVE  Core'
<1> USE DEF IInv, GatewayFails, gatewayVars, relayVars
<1>1. TypeOK'
  BY DEF TypeOK
<1>2. HeldOK'
  BY DEF HeldOK, JobOK, Taken
<1>3. WaitingOK'
  BY DEF WaitingOK, JobOK, Taken
<1>4. PoppedOK'
  BY DEF PoppedOK, JobOK, Taken
<1>5. RegisterOK'
  BY DEF RegisterOK
<1>6. FetchOK'
  BY DEF FetchOK
<1>7. OneAttempt'
  BY DEF OneAttempt, Holds, InFlight, Handled
<1> QED
  BY <1>1, <1>2, <1>3, <1>4, <1>5, <1>6, <1>7 DEF Core

(* The callback takes the job out of __waiting_for_confirm and then    *)
(* has it alone.                                                       *)
LEMMA OnMessageSentCore ==
  ASSUME IInv, NEW r \in Requests, OnMessageSent(r)
  PROVE  Core'
<1> USE DEF IInv, OnMessageSent, gatewayVars, relayVars
<1>1. TypeOK'
  BY DEF TypeOK
<1>2. HeldOK'
  BY DEF HeldOK, JobOK, Taken
<1>3. WaitingOK'
  BY DEF WaitingOK, TypeOK, JobOK, Taken
<1>4. PoppedOK'
  BY DEF PoppedOK, WaitingOK, JobOK, Taken
<1>5. RegisterOK'
  BY ActorsAssumption DEF RegisterOK
<1>6. FetchOK'
  BY DEF FetchOK
<1>7. OneAttempt'
  BY DEF OneAttempt, Holds, InFlight, Handled, TypeOK
<1> QED
  BY <1>1, <1>2, <1>3, <1>4, <1>5, <1>6, <1>7 DEF Core

(* The loop over the thread list touches the list only.                *)
LEMMA CleanUpCore ==
  ASSUME IInv, CleanUp
  PROVE  Core'
<1> USE DEF IInv, CleanUp, gatewayVars, relayVars
<1>1. TypeOK'
  <2>1. threads' \in Seq(Threads)
    <3>1. CASE Alive(threads[scan])
      BY <3>1 DEF TypeOK
    <3>2. CASE ~Alive(threads[scan])
      <4>1. scan \in 1..Len(threads)
        BY DEF TypeOK, PoppedOK
      <4> QED
        BY <4>1, RemoveAtType DEF TypeOK
    <3> QED
      BY <3>1, <3>2
  <2> QED
    BY <2>1 DEF TypeOK
<1>2. HeldOK'
  BY DEF HeldOK, JobOK, Taken
<1>3. WaitingOK'
  BY DEF WaitingOK, JobOK, Taken
<1>4. PoppedOK'
  BY DEF PoppedOK, TypeOK, JobOK, Taken
<1>5. RegisterOK'
  BY DEF RegisterOK
<1>6. FetchOK'
  BY DEF FetchOK
<1>7. OneAttempt'
  BY DEF OneAttempt, Holds, InFlight, Handled
<1> QED
  BY <1>1, <1>2, <1>3, <1>4, <1>5, <1>6, <1>7 DEF Core

(* A confirmed message is dropped by its callback, the last to hold    *)
(* it.                                                                 *)
LEMMA ConfirmCore ==
  ASSUME IInv, Confirm
  PROVE  Core'
<1> USE DEF IInv, Confirm, ReturnFromCallback, gatewayVars, relayVars
<1>1. TypeOK'
  BY DEF TypeOK
<1>2. HeldOK'
  BY DEF HeldOK, JobOK, Taken
<1>3. WaitingOK'
  BY DEF WaitingOK, JobOK, Taken
<1>4. PoppedOK'
  BY DEF PoppedOK
<1>5. RegisterOK'
  BY ActorsAssumption DEF RegisterOK, PoppedOK
<1>6. FetchOK'
  BY DEF FetchOK
<1>7. OneAttempt'
  BY DEF OneAttempt, Holds, InFlight, Handled
<1> QED
  BY <1>1, <1>2, <1>3, <1>4, <1>5, <1>6, <1>7 DEF Core

(* An unconfirmed one goes from the callback to one new thread.        *)
LEMMA RedeliverCore ==
  ASSUME IInv, NEW t \in Threads, Redeliver(t)
  PROVE  Core'
<1> USE DEF IInv, Redeliver, ReturnFromCallback, Fresh, gatewayVars, relayVars
<1>1. TypeOK'
  <2>1. threads' \in Seq(Threads)
    BY DEF TypeOK
  <2>2. pc' \in [Posters -> PosterStates]
    BY DEF TypeOK, PosterStates, Carrying
  <2> QED
    BY <2>1, <2>2 DEF TypeOK
<1>2. HeldOK'
  BY DEF HeldOK, PoppedOK, TypeOK, JobOK, Taken
<1>3. WaitingOK'
  BY DEF WaitingOK, JobOK, Taken
<1>4. PoppedOK'
  BY DEF PoppedOK
<1>5. RegisterOK'
  BY ActorsAssumption DEF RegisterOK, PoppedOK
<1>6. FetchOK'
  BY DEF FetchOK
<1>7. OneAttempt'
  BY DEF OneAttempt, Holds, InFlight, Handled, TypeOK
<1> QED
  BY <1>1, <1>2, <1>3, <1>4, <1>5, <1>6, <1>7 DEF Core

(* A step that changes nothing keeps everything.                       *)
LEMMA StutterCore ==
  ASSUME IInv, UNCHANGED vars
  PROVE  Core'
<1> USE DEF IInv, vars, gatewayVars, relayVars
<1>1. TypeOK'
  BY DEF TypeOK
<1>2. HeldOK'
  BY DEF HeldOK, JobOK, Taken
<1>3. WaitingOK'
  BY DEF WaitingOK, JobOK, Taken
<1>4. PoppedOK'
  BY DEF PoppedOK, JobOK, Taken
<1>5. RegisterOK'
  BY DEF RegisterOK
<1>6. FetchOK'
  BY DEF FetchOK
<1>7. OneAttempt'
  BY DEF OneAttempt, Holds, InFlight, Handled
<1> QED
  BY <1>1, <1>2, <1>3, <1>4, <1>5, <1>6, <1>7 DEF Core

------------------------------------------------------------------------------

(* The five things a step can do to the books: nothing; take a message *)
(* in; deliver one without the relay knowing; deliver one and confirm  *)
(* it; refuse one.                                                     *)
SameOutstanding(m) == Outstanding(m)' <=> Outstanding(m)

SameBooks ==
  /\ UNCHANGED <<number, gatewayVars>>
  /\ \A m \in Messages : SameOutstanding(m)

TakeStep(m) ==
  /\ ~Taken(m) /\ Taken(m)' /\ Outstanding(m)'
  /\ \A n \in Messages \ {m} : Taken(n)' = Taken(n) /\ SameOutstanding(n)
  /\ UNCHANGED gatewayVars

UnconfirmedStep(m) ==
  /\ m \in Messages /\ Taken(m) /\ Outstanding(m)
  /\ accepted' = [accepted EXCEPT ![m] = @ + 1]
  /\ lost' = [lost EXCEPT ![m] = @ + 1]
  /\ \A n \in Messages : SameOutstanding(n)
  /\ UNCHANGED <<number, refused>>

ConfirmedStep(m) ==
  /\ m \in Messages /\ Taken(m) /\ Outstanding(m) /\ ~Outstanding(m)'
  /\ accepted' = [accepted EXCEPT ![m] = @ + 1]
  /\ \A n \in Messages \ {m} : SameOutstanding(n)
  /\ UNCHANGED <<number, lost, refused>>

RefusedStep(m) ==
  /\ m \in Messages /\ Taken(m) /\ Outstanding(m) /\ ~Outstanding(m)'
  /\ refused' = refused \cup {m}
  /\ \A n \in Messages \ {m} : SameOutstanding(n)
  /\ UNCHANGED <<number, accepted, lost>>

(* Taking a message from MQTT is the step that makes it outstanding.   *)
LEMMA CallbackSatComBooks ==
  ASSUME IInv, NEW m \in Messages, CallbackSatCom(m)
  PROVE  TakeStep(m)
BY DEF IInv, CallbackSatCom, TakeStep, SameOutstanding, Outstanding, Holds,
       InFlight, Handled, Taken, TypeOK, Posters, Carrying

(* A thread that wakes up leaves the books alone: the message stays    *)
(* outstanding wherever it is.                                         *)
LEMMA WakeUpBooks ==
  ASSUME IInv, NEW t \in Threads, WakeUp(t)
  PROVE  SameBooks
BY DEF WakeUp, SameBooks, SameOutstanding, Outstanding, Holds, InFlight,
       Handled, Carrying

(* So does a thread that fills the shared dictionary.                  *)
LEMMA PostEncodeBooks ==
  ASSUME IInv, NEW p \in Posters, PostEncode(p)
  PROVE  SameBooks
BY DEF PostEncode, SameBooks, SameOutstanding, Outstanding, Holds, InFlight,
       Handled, Carrying

(* The message passes from the poster to the request, both of which    *)
(* make it outstanding.                                                *)
LEMMA PostRegisterBooks ==
  ASSUME IInv, NEW p \in Posters, NEW r \in Requests, PostRegister(p, r)
  PROVE  SameBooks
BY DEF IInv, PostRegister, SameBooks, SameOutstanding, Outstanding, Holds,
       InFlight, Handled, TypeOK, Carrying

(* Sending the request changes neither side of the books.              *)
LEMMA PostFetchBooks ==
  ASSUME IInv, NEW p \in Posters, PostFetch(p)
  PROVE  SameBooks
BY DEF IInv, PostFetch, SameBooks, SameOutstanding, Outstanding, Holds,
       InFlight, Handled, FetchOK, Carrying

(* A thread that ends holds no message.                                *)
LEMMA ExitBooks ==
  ASSUME IInv, NEW t \in Threads, Exit(t)
  PROVE  SameBooks
BY DEF Exit, SameBooks, SameOutstanding, Outstanding, Holds, InFlight,
       Handled, Carrying

(* A post answered without error ends the message's stay in the relay: *)
(* what is left of it is dropped when the callback comes to it.        *)
LEMMA AnsweredSettles ==
  ASSUME IInv, NEW r \in Requests, wire[r] = "sent",
         wire' = [wire EXCEPT ![r] = "ok"], UNCHANGED relayVars
  PROVE  /\ body[r] \in Messages /\ Taken(body[r])
         /\ Outstanding(body[r]) /\ ~Outstanding(body[r])'
         /\ \A n \in Messages \ {body[r]} : SameOutstanding(n)
<1> USE DEF IInv, relayVars
<1>1. /\ body[r] \in Messages /\ Taken(body[r])
      /\ InFlight(r, body[r]) /\ wire[r] # "ok"
  BY DEF WaitingOK, JobOK, Jobs, InFlight
<1>2. Outstanding(body[r])
  BY <1>1 DEF Outstanding
<1>3. ~Outstanding(body[r])'
  <2>1. /\ \A p \in Posters : ~Holds(p, body[r])
        /\ \A s \in Requests : InFlight(s, body[r]) => s = r
        /\ ~Handled(body[r])
    BY <1>1 DEF OneAttempt
  <2>2. \A p \in Posters : ~Holds(p, body[r])'
    BY <2>1 DEF Holds
  <2>3. \A s \in Requests : InFlight(s, body[r])' => wire'[s] = "ok"
    BY <2>1 DEF InFlight, TypeOK
  <2>4. ~Handled(body[r])'
    BY <2>1 DEF Handled
  <2> QED
    BY <2>2, <2>3, <2>4 DEF Outstanding
<1>4. ASSUME NEW n \in Messages \ {body[r]}
      PROVE  SameOutstanding(n)
  BY DEF SameOutstanding, Outstanding, Holds, InFlight, Handled, WaitingOK
<1> QED
  BY <1>1, <1>2, <1>3, <1>4

(* The one step in which the gateway gets a message and the relay will *)
(* know.                                                               *)
LEMMA GatewayAcceptsBooks ==
  ASSUME IInv, NEW r \in Requests, GatewayAccepts(r)
  PROVE  ConfirmedStep(body[r])
BY AnsweredSettles DEF GatewayAccepts, ConfirmedStep, relayVars

(* The one in which it refuses the message and the relay is content.   *)
LEMMA GatewayRejectsBooks ==
  ASSUME IInv, NEW r \in Requests, GatewayRejects(r)
  PROVE  RefusedStep(body[r])
BY AnsweredSettles DEF GatewayRejects, RefusedStep, relayVars

(* The gateway gets the message and the relay will take it for a       *)
(* failure: the message stays outstanding and the loss is counted.     *)
LEMMA GatewayAcceptsAnswerLostBooks ==
  ASSUME IInv, NEW r \in Requests, GatewayAcceptsAnswerLost(r)
  PROVE  UnconfirmedStep(body[r])
<1> USE DEF IInv, GatewayAcceptsAnswerLost, relayVars
<1>1. /\ body[r] \in Messages /\ Taken(body[r])
      /\ InFlight(r, body[r]) /\ wire[r] # "ok"
  BY DEF WaitingOK, JobOK, Jobs, InFlight
<1>2. Outstanding(body[r])
  BY <1>1 DEF Outstanding
<1>3. ASSUME NEW n \in Messages
      PROVE  SameOutstanding(n)
  BY DEF SameOutstanding, Outstanding, Holds, InFlight, Handled
<1> QED
  BY <1>1, <1>2, <1>3 DEF UnconfirmedStep

(* A failed post leaves the books alone.                               *)
LEMMA GatewayFailsBooks ==
  ASSUME IInv, NEW r \in Requests, GatewayFails(r)
  PROVE  SameBooks
BY DEF GatewayFails, SameBooks, SameOutstanding, Outstanding, Holds, InFlight,
       Handled, relayVars

(* So does the callback: a failed message is outstanding in its hands, *)
(* a confirmed one was not outstanding any more.                       *)
LEMMA OnMessageSentBooks ==
  ASSUME IInv, NEW r \in Requests, OnMessageSent(r)
  PROVE  SameBooks
<1> USE DEF IInv, OnMessageSent
<1>1. ASSUME NEW n \in Messages, n # waiting[r].data
      PROVE  SameOutstanding(n)
  BY DEF SameOutstanding, Outstanding, Holds, InFlight, Handled, TypeOK
<1>2. ASSUME NEW n \in Messages, n = waiting[r].data
      PROVE  SameOutstanding(n)
  <2>1. InFlight(r, n)
    BY <1>2 DEF InFlight
  <2>2. /\ \A p \in Posters : ~Holds(p, n) /\ ~Holds(p, n)'
        /\ \A s \in Requests : InFlight(s, n) => s = r
    BY <2>1 DEF OneAttempt, Holds
  <2>3. \A s \in Requests : ~InFlight(s, n)'
    BY <2>2 DEF InFlight, TypeOK
  <2>4. ~Handled(n) /\ Handled(n)'
    BY <1>2 DEF Handled
  <2>5. Outstanding(n) <=> wire[r] # "ok"
    BY <2>1, <2>2, <2>4 DEF Outstanding
  <2>6. Outstanding(n)' <=> failed'
    BY <2>2, <2>3, <2>4 DEF Outstanding
  <2> QED
    BY <2>5, <2>6 DEF SameOutstanding
<1> QED
  BY <1>1, <1>2 DEF SameBooks

(* The loop over the threads does not touch a message.                 *)
LEMMA CleanUpBooks ==
  ASSUME IInv, CleanUp
  PROVE  SameBooks
BY DEF CleanUp, SameBooks, SameOutstanding, Outstanding, Holds, InFlight,
       Handled

(* Dropping a confirmed message: it was not outstanding any more.      *)
LEMMA ConfirmBooks ==
  ASSUME IInv, Confirm
  PROVE  SameBooks
BY DEF Confirm, ReturnFromCallback, SameBooks, SameOutstanding, Outstanding,
       Holds, InFlight

(* Redelivery hands the message on; it is outstanding before and       *)
(* after.                                                              *)
LEMMA RedeliverBooks ==
  ASSUME IInv, NEW t \in Threads, Redeliver(t)
  PROVE  SameBooks
BY DEF IInv, Redeliver, ReturnFromCallback, Fresh, SameBooks, SameOutstanding,
       Outstanding, Holds, InFlight, Handled, TypeOK, Posters, Carrying

(* Nothing changes.                                                    *)
LEMMA StutterBooks ==
  ASSUME IInv, UNCHANGED vars
  PROVE  SameBooks
BY DEF vars, SameBooks, SameOutstanding, Outstanding, Holds, InFlight,
       Handled, relayVars

(* What Next does to the books.                                        *)
BooksStep ==
  \/ SameBooks
  \/ \E m \in Messages :
       TakeStep(m) \/ UnconfirmedStep(m) \/ ConfirmedStep(m) \/ RefusedStep(m)

(* Every step keeps the core of the invariant and changes the books in *)
(* one of the five ways.                                               *)
LEMMA NextCases ==
  ASSUME IInv, [Next]_vars
  PROVE  Core' /\ BooksStep
<1>1. ASSUME NEW m \in Messages, CallbackSatCom(m) PROVE Core' /\ BooksStep
  BY <1>1, CallbackSatComCore, CallbackSatComBooks DEF BooksStep
<1>2. ASSUME NEW p \in Posters, PostEncode(p) PROVE Core' /\ BooksStep
  BY <1>2, PostEncodeCore, PostEncodeBooks DEF BooksStep
<1>3. ASSUME NEW p \in Posters, NEW r \in Requests, PostRegister(p, r)
      PROVE  Core' /\ BooksStep
  BY <1>3, PostRegisterCore, PostRegisterBooks DEF BooksStep
<1>4. ASSUME NEW p \in Posters, PostFetch(p) PROVE Core' /\ BooksStep
  BY <1>4, PostFetchCore, PostFetchBooks DEF BooksStep
<1>5. ASSUME NEW t \in Threads, WakeUp(t) PROVE Core' /\ BooksStep
  BY <1>5, WakeUpCore, WakeUpBooks DEF BooksStep
<1>6. ASSUME NEW t \in Threads, Exit(t) PROVE Core' /\ BooksStep
  BY <1>6, ExitCore, ExitBooks DEF BooksStep
<1>7. ASSUME NEW r \in Requests, GatewayAccepts(r) PROVE Core' /\ BooksStep
  <2>1. ConfirmedStep(body[r])
    BY <1>7, GatewayAcceptsBooks
  <2>2. body[r] \in Messages
    BY <2>1 DEF ConfirmedStep
  <2>3. BooksStep
    BY <2>1, <2>2 DEF BooksStep
  <2> QED
    BY <1>7, <2>3, GatewayAcceptsCore
<1>8. ASSUME NEW r \in Requests, GatewayAcceptsAnswerLost(r)
      PROVE  Core' /\ BooksStep
  BY <1>8, GatewayAcceptsAnswerLostCore, GatewayAcceptsAnswerLostBooks
     DEF BooksStep, UnconfirmedStep
<1>9. ASSUME NEW r \in Requests, GatewayFails(r) PROVE Core' /\ BooksStep
  BY <1>9, GatewayFailsCore, GatewayFailsBooks DEF BooksStep
<1>10. ASSUME NEW r \in Requests, OnMessageSent(r) PROVE Core' /\ BooksStep
  BY <1>10, OnMessageSentCore, OnMessageSentBooks DEF BooksStep
<1>11. ASSUME CleanUp PROVE Core' /\ BooksStep
  BY <1>11, CleanUpCore, CleanUpBooks DEF BooksStep
<1>12. ASSUME Confirm PROVE Core' /\ BooksStep
  BY <1>12, ConfirmCore, ConfirmBooks DEF BooksStep
<1>13. ASSUME NEW t \in Threads, Redeliver(t) PROVE Core' /\ BooksStep
  BY <1>13, RedeliverCore, RedeliverBooks DEF BooksStep
<1>14. ASSUME UNCHANGED vars PROVE Core' /\ BooksStep
  BY <1>14, StutterCore, StutterBooks DEF BooksStep
<1>15. ASSUME NEW r \in Requests, GatewayRejects(r) PROVE Core' /\ BooksStep
  <2>1. RefusedStep(body[r])
    BY <1>15, GatewayRejectsBooks
  <2>2. body[r] \in Messages
    BY <2>1 DEF RefusedStep
  <2>3. BooksStep
    BY <2>1, <2>2 DEF BooksStep
  <2> QED
    BY <1>15, <2>3, GatewayRejectsCore
<1> QED
  BY <1>1, <1>2, <1>3, <1>4, <1>5, <1>6, <1>7, <1>8, <1>9, <1>10, <1>11,
     <1>12, <1>13, <1>14, <1>15
     DEF Next, Post, Repost, Answer, Return, Posters

(* Each of the five ways keeps the books balanced.                     *)
LEMMA NextAccounting ==
  ASSUME IInv, [Next]_vars
  PROVE  Accounting'
<1> USE DEF IInv, TypeOK, Accounting, SameOutstanding, Taken, gatewayVars
<1>1. CASE SameBooks
  BY <1>1 DEF SameBooks
<1>2. ASSUME NEW m \in Messages, TakeStep(m) PROVE Accounting'
  BY <1>2 DEF TakeStep
<1>3. ASSUME NEW m \in Messages, UnconfirmedStep(m) PROVE Accounting'
  BY <1>3 DEF UnconfirmedStep
<1>4. ASSUME NEW m \in Messages, ConfirmedStep(m) PROVE Accounting'
  BY <1>4 DEF ConfirmedStep
<1>5. ASSUME NEW m \in Messages, RefusedStep(m) PROVE Accounting'
  BY <1>5 DEF RefusedStep
<1> QED
  BY <1>1, <1>2, <1>3, <1>4, <1>5, NextCases DEF BooksStep

(* IInv holds in every state relay.py reaches, whatever the number of  *)
(* messages, threads and requests: the lock is held by the thread      *)
(* whose payload is in the shared dictionary, every job in anyone's    *)
(* hands carries its number, and the books balance.                    *)
THEOREM Invariance == Spec => []IInv
<1>1. IInv /\ [Next]_vars => IInv'
  BY NextCases, NextAccounting DEF Core, IInv
<1> QED
  BY InitIInv, <1>1, PTL DEF Spec

(* Every variable of the mobile-terminated path keeps its type.        *)
THEOREM TypeCorrect == Spec => []TypeOK
BY Invariance, PTL DEF IInv

(* A request carries the payload and the number under which            *)
(* __waiting_for_confirm remembers it, although all threads write      *)
(* their payload into one dictionary: the lock around it is enough.    *)
THEOREM BodiesMatch == Spec => []BodyMatches
<1>1. IInv => BodyMatches
  BY DEF IInv, WaitingOK, BodyMatches, JobOK
<1> QED
  BY Invariance, <1>1, PTL

(* A message is never in two hands at once, so no message is posted    *)
(* twice because two threads or two requests have it.                  *)
THEOREM AttemptsUnique == Spec => []OneAttempt
BY Invariance, PTL DEF IInv

(* The gateway takes a message as often as an answer was lost, and     *)
(* once more with the answer that arrives, unless that answer is a     *)
(* refusal: redelivery never repeats what was answered without error,  *)
(* refusals included, and never drops what was not.                    *)
THEOREM BooksBalance == Spec => []Accounting
BY Invariance, PTL DEF IInv

(* relay.py implements AtLeastOnce: each step takes a message in,      *)
(* delivers one, confirms one, has one refused for good, or is not     *)
(* seen by the sender and the gateway.                                 *)
THEOREM Implementation == Spec => ImplementsAtLeastOnce
<1>1. Init => ALO!Init
  BY DEF Init, ALO!Init, Taken
<1>2. IInv /\ [Next]_vars => [ALO!Next]_ALO!vars
  <2> SUFFICES ASSUME IInv, [Next]_vars PROVE [ALO!Next]_ALO!vars
    OBVIOUS
  <2> USE DEF IInv, TypeOK, SameOutstanding, Taken, gatewayVars, ALO!Next, ALO!vars
  <2>1. CASE SameBooks
    BY <2>1 DEF SameBooks
  <2>2. ASSUME NEW m \in Messages, TakeStep(m) PROVE ALO!Take(m)
    BY <2>2 DEF TakeStep, ALO!Take
  <2>3. ASSUME NEW m \in Messages, UnconfirmedStep(m) PROVE ALO!DeliverUnconfirmed(m)
    BY <2>3 DEF UnconfirmedStep, ALO!DeliverUnconfirmed
  <2>4. ASSUME NEW m \in Messages, ConfirmedStep(m) PROVE ALO!DeliverConfirmed(m)
    BY <2>4 DEF ConfirmedStep, ALO!DeliverConfirmed, Accounting
  <2>5. ASSUME NEW m \in Messages, RefusedStep(m) PROVE ALO!Refuse(m)
    BY <2>5 DEF RefusedStep, ALO!Refuse, Accounting
  <2> QED
    BY <2>1, <2>2, <2>3, <2>4, <2>5, NextCases DEF BooksStep
<1> QED
  BY <1>1, <1>2, Invariance, PTL DEF Spec, ImplementsAtLeastOnce, ALO!Spec

(* A thread that has never been started is not in the thread list.     *)
NewNotListed == \A i \in DOMAIN threads : pc[threads[i]] # "new"

ThreadsOK == LiveThreadsTracked /\ NewNotListed

(* Removing an element moves those behind it down by one.              *)
LEMMA RemoveAtElements ==
  ASSUME NEW S, NEW s \in Seq(S), NEW i \in 1..Len(s)
  PROVE  /\ Len(RemoveAt(s, i)) = Len(s) - 1
         /\ \A j \in 1..(Len(s) - 1) :
              RemoveAt(s, i)[j] = IF j < i THEN s[j] ELSE s[j + 1]
<1> DEFINE before == SubSeq(s, 1, i - 1)
<1> DEFINE behind == SubSeq(s, i + 1, Len(s))
<1>1. /\ before \in Seq(S) /\ Len(before) = i - 1
      /\ \A j \in 1..(i - 1) : before[j] = s[j]
  OBVIOUS
<1>2. /\ behind \in Seq(S) /\ Len(behind) = Len(s) - i
      /\ \A j \in 1..(Len(s) - i) : behind[j] = s[j + i]
  OBVIOUS
<1> HIDE DEF before, behind
<1>3. /\ Len(before \o behind) = Len(before) + Len(behind)
      /\ \A j \in 1..(Len(before) + Len(behind)) :
           (before \o behind)[j] =
             IF j <= Len(before) THEN before[j] ELSE behind[j - Len(before)]
  BY <1>1, <1>2, ConcatProperties
<1>4. Len(before) + Len(behind) = Len(s) - 1
  BY <1>1, <1>2
<1>5. ASSUME NEW j \in 1..(Len(s) - 1)
      PROVE  (before \o behind)[j] = IF j < i THEN s[j] ELSE s[j + 1]
  <2>1. CASE j < i
    <3>1. j \in 1..(i - 1) /\ j <= Len(before)
      BY <1>1, <2>1
    <3> QED
      BY <1>1, <1>3, <1>4, <2>1, <3>1
  <2>2. CASE j >= i
    <3>1. PICK k \in 1..(Len(s) - i) : k = j - Len(before) /\ k + i = j + 1
      <4> DEFINE k == j - Len(before)
      <4>1. i \in Int /\ j \in Int /\ Len(s) \in Int /\ j <= Len(s) - 1
        OBVIOUS
      <4>2. Len(before) = i - 1
        BY <1>1
      <4>3. k = j - i + 1
        BY <4>1, <4>2
      <4>4. k \in 1..(Len(s) - i)
        BY <2>2, <4>1, <4>3
      <4>5. k + i = j + 1
        BY <4>1, <4>3
      <4> HIDE DEF k
      <4> QED
        BY <4>4, <4>5 DEF k
    <3>2. behind[k] = s[k + i]
      BY <1>2
    <3>3. behind[k] = s[j + 1]
      BY <3>1, <3>2
    <3>4. ~(j < i) /\ ~(j <= Len(before))
      BY <1>1, <2>2
    <3>5. (before \o behind)[j] = behind[j - Len(before)]
      BY <1>3, <1>4, <3>4
    <3>6. behind[j - Len(before)] = behind[k]
      BY <3>1
    <3> QED
      BY <3>3, <3>4, <3>5, <3>6
  <2>3. j < i \/ j >= i
    OBVIOUS
  <2> QED
    BY <2>1, <2>2, <2>3
<1> QED
  BY <1>3, <1>4, <1>5 DEF RemoveAt, before, behind

(* A step that starts no thread and leaves the list alone keeps it in  *)
(* order: threads only die.                                            *)
LEMMA SameListThreads ==
  ASSUME ThreadsOK, threads \in Seq(Threads), threads' = threads,
         \A t \in Threads : pc[t] \in {"new", "dead"} => pc'[t] \in {"dead", pc[t]},
         \A t \in Threads : pc'[t] = "new" => pc[t] = "new"
  PROVE  ThreadsOK'
<1>1. LiveThreadsTracked'
  BY DEF ThreadsOK, LiveThreadsTracked
<1>2. NewNotListed'
  BY DEF ThreadsOK, NewNotListed
<1> QED
  BY <1>1, <1>2 DEF ThreadsOK

(* The loop over the thread list removes a dead thread or none, and the*)
(* others keep their order.                                            *)
LEMMA CleanUpThreads ==
  ASSUME IInv, ThreadsOK, CleanUp
  PROVE  ThreadsOK'
<1>1. threads \in Seq(Threads) /\ scan \in 1..Len(threads)
  BY DEF IInv, TypeOK, PoppedOK, CleanUp
<1>2. pc' = pc
  BY DEF CleanUp
<1>3. CASE Alive(threads[scan])
  BY <1>1, <1>2, <1>3, SameListThreads DEF CleanUp
<1>4. CASE ~Alive(threads[scan])
  <2> DEFINE old(j) == IF j < scan THEN j ELSE j + 1
  <2>1. /\ DOMAIN threads' = 1..(Len(threads) - 1)
        /\ \A j \in DOMAIN threads' : threads'[j] = threads[old(j)]
    <3>1. threads' = RemoveAt(threads, scan)
      BY <1>4 DEF CleanUp
    <3>2. threads' \in Seq(Threads)
      BY <1>1, <3>1, RemoveAtType
    <3>3. /\ Len(threads') = Len(threads) - 1
          /\ \A j \in 1..(Len(threads) - 1) :
               threads'[j] = IF j < scan THEN threads[j] ELSE threads[j + 1]
      BY <1>1, <3>1, RemoveAtElements
    <3>4. DOMAIN threads' = 1..(Len(threads) - 1)
      BY <3>2, <3>3
    <3> QED
      BY <3>3, <3>4
  <2>2. /\ \A j \in DOMAIN threads' : old(j) \in DOMAIN threads
        /\ \A i, j \in DOMAIN threads' : old(i) = old(j) => i = j
    BY <1>1, <2>1
  <2>3. \A k \in DOMAIN threads : k # scan => \E j \in DOMAIN threads' : old(j) = k
    <3> SUFFICES ASSUME NEW k \in DOMAIN threads, k # scan
                 PROVE  \E j \in DOMAIN threads' : old(j) = k
      OBVIOUS
    <3>1. CASE k < scan
      <4>1. k \in DOMAIN threads' /\ old(k) = k
        BY <1>1, <2>1, <3>1
      <4> QED
        BY <4>1
    <3>2. CASE k > scan
      <4>1. (k - 1) \in DOMAIN threads' /\ old(k - 1) = k
        BY <1>1, <2>1, <3>2
      <4> QED
        BY <4>1
    <3> QED
      BY <1>1, <3>1, <3>2
  <2> HIDE DEF old
  <2>4. LiveThreadsTracked'
    <3>1. ASSUME NEW t \in Threads, pc[t] \notin {"new", "dead"}
          PROVE  \E j \in DOMAIN threads' : threads'[j] = t
      <4>1. PICK k \in DOMAIN threads : threads[k] = t
        BY <3>1 DEF ThreadsOK, LiveThreadsTracked
      <4>2. k # scan
        BY <1>4, <3>1, <4>1 DEF Alive
      <4>3. PICK j \in DOMAIN threads' : old(j) = k
        BY <2>3, <4>2
      <4> QED
        BY <2>1, <4>1, <4>3
    <3>2. ASSUME NEW i \in DOMAIN threads', NEW j \in DOMAIN threads',
                 threads'[i] = threads'[j]
          PROVE  i = j
      <4>1. threads[old(i)] = threads[old(j)]
        BY <2>1, <3>2
      <4>2. old(i) = old(j)
        BY <2>2, <4>1 DEF ThreadsOK, LiveThreadsTracked
      <4> QED
        BY <2>2, <4>2
    <3> QED
      BY <1>2, <3>1, <3>2 DEF LiveThreadsTracked
  <2>5. NewNotListed'
    BY <1>2, <2>1, <2>2 DEF ThreadsOK, NewNotListed
  <2> QED
    BY <2>4, <2>5 DEF ThreadsOK
<1> QED
  BY <1>3, <1>4

(* A redelivery thread is new, or was ended and forgotten, so its entry*)
(* in the list is the only one.                                        *)
LEMMA RedeliverThreads ==
  ASSUME IInv, ThreadsOK, NEW t \in Threads, Redeliver(t)
  PROVE  ThreadsOK'
<1>1. /\ threads \in Seq(Threads)
      /\ threads' = Append(threads, t)
      /\ pc \in [Posters -> PosterStates]
      /\ pc' = [pc EXCEPT ![t] = "sleep"]
  BY DEF IInv, TypeOK, Redeliver
<1>2. \A i \in DOMAIN threads : threads[i] # t
  BY DEF Redeliver, Fresh, Range, ThreadsOK, NewNotListed
<1>3. /\ DOMAIN threads' = 1..(Len(threads) + 1)
      /\ \A i \in DOMAIN threads : threads'[i] = threads[i]
      /\ threads'[Len(threads) + 1] = t
      /\ DOMAIN threads = 1..Len(threads) /\ Len(threads) \in Nat
  BY <1>1
<1>4. /\ pc'[t] = "sleep"
      /\ \A u \in Threads \ {t} : pc'[u] = pc[u]
  BY <1>1 DEF Posters
<1>5. LiveThreadsTracked'
  <2>1. ASSUME NEW u \in Threads, pc'[u] \notin {"new", "dead"}
        PROVE  \E i \in DOMAIN threads' : threads'[i] = u
    <3>1. CASE u = t
      BY <1>3, <3>1
    <3>2. CASE u # t
      <4>1. PICK i \in DOMAIN threads : threads[i] = u
        BY <1>4, <2>1, <3>2 DEF ThreadsOK, LiveThreadsTracked
      <4> QED
        BY <1>3, <4>1
    <3> QED
      BY <3>1, <3>2
  <2>2. ASSUME NEW i \in DOMAIN threads', NEW j \in DOMAIN threads',
               threads'[i] = threads'[j]
        PROVE  i = j
    BY <1>2, <1>3, <2>2 DEF ThreadsOK, LiveThreadsTracked
  <2> QED
    BY <2>1, <2>2 DEF LiveThreadsTracked
<1>6. NewNotListed'
  <2>1. ASSUME NEW i \in DOMAIN threads PROVE pc'[threads[i]] # "new"
    <3>1. threads[i] \in Threads \ {t}
      BY <1>1, <1>2
    <3> QED
      BY <1>4, <3>1 DEF ThreadsOK, NewNotListed
  <2> QED
    BY <1>3, <1>4, <2>1 DEF NewNotListed
<1> QED
  BY <1>5, <1>6 DEF ThreadsOK

(* No other step starts a thread or touches the list.                  *)
LEMMA NextThreads == IInv /\ ThreadsOK /\ [Next]_vars => ThreadsOK'
<1> SUFFICES ASSUME IInv, ThreadsOK, [Next]_vars PROVE ThreadsOK'
  OBVIOUS
<1>1. threads \in Seq(Threads) /\ pc \in [Posters -> PosterStates]
  BY DEF IInv, TypeOK
<1>2. CASE UNCHANGED <<pc, threads>>
  BY <1>1, <1>2, SameListThreads
<1>3. ASSUME NEW p \in Posters, UNCHANGED threads,
             pc[p] \notin {"new", "dead"} \/ p \notin Threads,
             NEW q \in PosterStates, q # "new", pc' = [pc EXCEPT ![p] = q]
      PROVE  ThreadsOK'
  <2>1. \A t \in Threads : t # p => pc'[t] = pc[t]
    BY <1>1, <1>3 DEF Posters
  <2>2. pc'[p] = q
    BY <1>1, <1>3
  <2>3. \A t \in Threads :
          /\ pc[t] \in {"new", "dead"} => pc'[t] \in {"dead", pc[t]}
          /\ pc'[t] = "new" => pc[t] = "new"
    BY <1>3, <2>1, <2>2
  <2> QED
    BY <1>1, <1>3, <2>3, SameListThreads
<1>4. ASSUME NEW m \in Messages, CallbackSatCom(m) PROVE ThreadsOK'
  <2>1. MqttThread \in Posters /\ MqttThread \notin Threads
    BY ActorsAssumption DEF Posters
  <2>2. /\ UNCHANGED threads /\ "post" \in PosterStates
        /\ pc' = [pc EXCEPT ![MqttThread] = "post"]
    BY <1>4 DEF CallbackSatCom, PosterStates, Carrying
  <2> QED
    BY <1>3, <2>1, <2>2
<1>5. ASSUME NEW p \in Posters, Post(p) PROVE ThreadsOK'
  <2>1. PICK q \in {"register", "fetch", "idle", "exit"} :
          pc' = [pc EXCEPT ![p] = q]
    BY <1>5 DEF Post, PostEncode, PostRegister, PostFetch
  <2>2. UNCHANGED threads /\ pc[p] \notin {"new", "dead"}
    BY <1>5 DEF Post, PostEncode, PostRegister, PostFetch
  <2>3. q \in PosterStates /\ q # "new"
    BY DEF PosterStates, Carrying
  <2> QED
    BY <1>3, <2>1, <2>2, <2>3
<1>6. ASSUME NEW t \in Threads, WakeUp(t) \/ Exit(t) PROVE ThreadsOK'
  <2>1. t \in Posters
    BY DEF Posters
  <2>2. PICK q \in {"post", "dead"} : pc' = [pc EXCEPT ![t] = q]
    BY <1>6 DEF WakeUp, Exit
  <2>3. UNCHANGED threads /\ pc[t] \notin {"new", "dead"}
    BY <1>6 DEF WakeUp, Exit
  <2>4. q \in PosterStates /\ q # "new"
    BY DEF PosterStates, Carrying
  <2> QED
    BY <1>3, <2>1, <2>2, <2>3, <2>4
<1>7. ASSUME NEW r \in Requests, Answer(r) \/ OnMessageSent(r) PROVE ThreadsOK'
  BY <1>2, <1>7 DEF Answer, GatewayAccepts, GatewayAcceptsAnswerLost,
    GatewayRejects, GatewayFails, OnMessageSent, relayVars
<1>8. CASE Confirm \/ UNCHANGED vars
  BY <1>2, <1>8 DEF Confirm, vars, relayVars
<1>9. ASSUME NEW t \in Threads, Redeliver(t) PROVE ThreadsOK'
  BY <1>9, RedeliverThreads
<1>10. CASE CleanUp
  BY <1>10, CleanUpThreads
<1> QED
  BY <1>4, <1>5, <1>6, <1>7, <1>8, <1>9, <1>10 DEF Next, Repost, Return, Posters

(* No thread has been started at the start, and none is listed.        *)
LEMMA InitThreads == Init => ThreadsOK
<1> SUFFICES ASSUME Init PROVE ThreadsOK
  OBVIOUS
<1>1. threads = <<>> /\ DOMAIN threads = {}
  BY DEF Init
<1>2. \A t \in Threads : pc[t] = "new"
  BY ActorsAssumption DEF Init, Posters
<1> QED
  BY <1>1, <1>2 DEF ThreadsOK, LiveThreadsTracked, NewNotListed

(* However answers, ends of threads and rounds of the loop interleave, *)
(* the loop over the list it changes never drops a live thread, and no *)
(* thread is listed twice.                                             *)
THEOREM ThreadsTracked == Spec => []LiveThreadsTracked
<1>1. ThreadsOK => LiveThreadsTracked
  BY DEF ThreadsOK
<1> QED
  BY InitThreads, <1>1, NextThreads, Invariance, PTL DEF Spec

(* The redelivery threads, by what they are doing; those that have     *)
(* slept are posting or, after the fetch, ending.                      *)
Asleep == {t \in Threads : pc[t] = "sleep"}
Posting == {t \in Threads : pc[t] \in {"post", "register", "fetch"}}
Ending == {t \in Threads : pc[t] = "exit"}
Live == {t \in Threads : pc[t] \notin {"new", "dead"}}

Carriers == Asleep \cup Posting
Woken == Posting \cup Ending

\* The message a carrier has: its job, or in the request it will fetch.
CarriedBy(t) == IF pc[t] = "fetch" THEN waiting[req[t]].data ELSE cur[t].data

(* The union of two finite sets has no more elements than both.        *)
LEMMA UnionBounded ==
  ASSUME NEW S, NEW T, IsFiniteSet(S), IsFiniteSet(T)
  PROVE  /\ IsFiniteSet(S \cup T) /\ Cardinality(S \cup T) \in Nat
         /\ Cardinality(S \cup T) <= Cardinality(S) + Cardinality(T)
<1>1. /\ IsFiniteSet(S \cup T)
      /\ Cardinality(S \cup T) = Cardinality(S) + Cardinality(T) - Cardinality(S \cap T)
  BY FS_Union
<1>2. IsFiniteSet(S \cap T)
  BY FS_Intersection
<1>3. /\ Cardinality(S) \in Nat /\ Cardinality(T) \in Nat
      /\ Cardinality(S \cap T) \in Nat /\ Cardinality(S \cup T) \in Nat
  BY <1>1, <1>2, FS_CardinalityType
<1> QED
  BY <1>1, <1>3

(* Each carrier has a message of its own, and none has the message     *)
(* whose answer the callback handles.                                  *)
LEMMA CarriersBounded ==
  IInv /\ IsFiniteSet(Messages) =>
    /\ IsFiniteSet(Carriers)
    /\ Cardinality(Carriers) <= Cardinality(Messages)
    /\ ioloop = "cleanup" => Cardinality(Carriers) <= Cardinality(Messages) - 1
<1> SUFFICES ASSUME IInv, IsFiniteSet(Messages)
             PROVE  /\ IsFiniteSet(Carriers)
                    /\ Cardinality(Carriers) <= Cardinality(Messages)
                    /\ ioloop = "cleanup" =>
                         Cardinality(Carriers) <= Cardinality(Messages) - 1
  OBVIOUS
<1> DEFINE Others == IF ioloop = "cleanup" THEN Messages \ {popped.data} ELSE Messages
<1> DEFINE f == [t \in Carriers |-> CarriedBy(t)]
<1>1. ASSUME NEW t \in Carriers
      PROVE  /\ t \in Posters /\ CarriedBy(t) \in Messages
             /\ pc[t] # "fetch" => Holds(t, CarriedBy(t))
             /\ pc[t] = "fetch" => req[t] \in Requests /\ InFlight(req[t], CarriedBy(t))
  <2>1. t \in Posters
    BY DEF Carriers, Asleep, Posting, Posters
  <2>2. CASE pc[t] = "fetch"
    BY <2>1, <2>2 DEF IInv, FetchOK, WaitingOK, JobOK, Jobs, CarriedBy, InFlight
  <2>3. CASE pc[t] # "fetch"
    <3>1. pc[t] \in Carrying
      BY <2>3 DEF Carriers, Asleep, Posting, Carrying
    <3> QED
      BY <2>1, <2>3, <3>1 DEF IInv, HeldOK, JobOK, Jobs, CarriedBy, Holds
  <2> QED
    BY <2>1, <2>2, <2>3
<1>2. ASSUME NEW t \in Carriers PROVE CarriedBy(t) \in Others
  <2>1. CASE ioloop = "cleanup"
    <3>1. Handled(popped.data) /\ popped.data \in Messages
      BY <2>1 DEF Handled, IInv, PoppedOK, JobOK, Jobs
    <3>2. /\ \A p \in Posters : ~Holds(p, popped.data)
          /\ \A r \in Requests : ~InFlight(r, popped.data)
      BY <3>1 DEF IInv, OneAttempt
    <3> QED
      BY <1>1, <2>1, <3>2
  <2> QED
    BY <1>1, <2>1
<1>3. ASSUME NEW t \in Carriers, NEW u \in Carriers, CarriedBy(t) = CarriedBy(u)
      PROVE  t = u
  <2> DEFINE m == CarriedBy(t)
  <2>1. m \in Messages /\ t \in Posters /\ u \in Posters
    BY <1>1
  <2>2. CASE pc[t] # "fetch" /\ pc[u] # "fetch"
    BY <1>1, <1>3, <2>1, <2>2 DEF IInv, OneAttempt
  <2>3. CASE pc[t] = "fetch" /\ pc[u] = "fetch"
    <3>1. req[t] = req[u]
      BY <1>1, <1>3, <2>1, <2>3 DEF IInv, OneAttempt
    <3> QED
      BY <2>1, <2>3, <3>1 DEF IInv, FetchOK
  <2>4. CASE pc[t] # "fetch" /\ pc[u] = "fetch"
    BY <1>1, <1>3, <2>1, <2>4 DEF IInv, OneAttempt
  <2>5. CASE pc[t] = "fetch" /\ pc[u] # "fetch"
    BY <1>1, <1>3, <2>1, <2>5 DEF IInv, OneAttempt
  <2> QED
    BY <2>2, <2>3, <2>4, <2>5
<1>4. f \in Injection(Carriers, Others)
  BY <1>2, <1>3 DEF Injection, IsInjective
<1>5. IsFiniteSet(Others) /\ Cardinality(Others) \in Nat /\ Cardinality(Messages) \in Nat
  BY FS_RemoveElement, FS_CardinalityType
<1>6. IsFiniteSet(Carriers) /\ Cardinality(Carriers) <= Cardinality(Others)
  <2> HIDE DEF f, Others
  <2> QED
    BY <1>4, <1>5, FS_Injection
<1>7. Cardinality(Carriers) \in Nat
  BY <1>6, FS_CardinalityType
<1>8. CASE ioloop = "cleanup"
  <2>1. popped.data \in Messages
    BY <1>8 DEF IInv, PoppedOK, JobOK, Jobs
  <2>2. Cardinality(Messages \ {popped.data}) = Cardinality(Messages) - 1
    BY <2>1, FS_RemoveElement
  <2> QED
    BY <1>5, <1>6, <1>7, <1>8, <2>2
<1>9. CASE ioloop # "cleanup"
  BY <1>6, <1>9
<1> QED
  BY <1>8, <1>9

(* No thread wakes up while more than MaxExiting are ending, so those  *)
(* that have slept are bounded as well.                                *)
WokenOK ==
  /\ \A t \in Threads : pc[t] # "idle"
  /\ IsFiniteSet(Woken)
  /\ Cardinality(Woken) <= Cardinality(Messages) + MaxExiting

Capacity == 2 * Cardinality(Messages) + MaxExiting

(* The list is no longer than Capacity, and while the callback scans   *)
(* a list of that length it still has a dead thread before it to       *)
(* remove.                                                             *)
ListOK ==
  /\ Len(threads) <= Capacity
  /\ ioloop = "cleanup" /\ Len(threads) = Capacity =>
       \E i \in DOMAIN threads : i >= scan /\ pc[threads[i]] = "dead"

(* What a step does to the threads, other than those of the callback.  *)
QuietStep ==
  /\ UNCHANGED <<threads, ioloop, scan>>
  /\ \A t \in Threads : pc[t] = "dead" => pc'[t] = "dead"

NeverIdle == \A t \in Threads : pc'[t] = "idle" => pc[t] = "idle"

(* Only the steps of the callback touch the list, only WakeUp adds to  *)
(* the threads that have slept, and none of them is ever idle.         *)
LEMMA ThreadSteps ==
  ASSUME IInv, [Next]_vars
  PROVE  /\ \/ QuietStep \/ CleanUp \/ Confirm
            \/ (\E r \in Requests : OnMessageSent(r)) \/ (\E t \in Threads : Redeliver(t))
         /\ \/ Woken' \subseteq Woken
            \/ \E t \in Threads : WakeUp(t)
         /\ NeverIdle
<1>1. pc \in [Posters -> PosterStates]
  BY DEF IInv, TypeOK
<1>2. ASSUME UNCHANGED pc PROVE Woken' \subseteq Woken /\ NeverIdle
  BY <1>2 DEF Woken, Posting, Ending, NeverIdle
<1>3. ASSUME NEW p \in Posters, NEW q, pc' = [pc EXCEPT ![p] = q],
             pc[p] # "dead" \/ p \notin Threads, UNCHANGED <<threads, ioloop, scan>>
      PROVE  QuietStep
  BY <1>1, <1>3 DEF QuietStep, Posters
<1>4. ASSUME NEW p \in Posters, NEW q, pc' = [pc EXCEPT ![p] = q],
             \/ p \notin Threads
             \/ q \in {"sleep", "dead"}
             \/ q # "idle" /\ pc[p] \in {"post", "register", "fetch"}
      PROVE  Woken' \subseteq Woken /\ NeverIdle
  <2>1. \A t \in Threads : t # p => pc'[t] = pc[t]
    BY <1>1, <1>4 DEF Posters
  <2>2. p \in Threads => pc'[p] = q
    BY <1>1, <1>4
  <2>3. ASSUME NEW t \in Woken' PROVE t \in Woken
    <3>1. t \in Threads /\ pc'[t] \in {"post", "register", "fetch", "exit"}
      BY DEF Woken, Posting, Ending
    <3>2. pc[t] \in {"post", "register", "fetch", "exit"}
      BY <1>4, <2>1, <2>2, <3>1
    <3> QED
      BY <3>1, <3>2 DEF Woken, Posting, Ending
  <2>4. NeverIdle
    BY <1>4, <2>1, <2>2 DEF NeverIdle
  <2> QED
    BY <2>3, <2>4
<1>5. MqttThread \in Posters /\ MqttThread \notin Threads /\ Threads \subseteq Posters
  BY ActorsAssumption DEF Posters
<1> DEFINE Shrinks == QuietStep /\ Woken' \subseteq Woken /\ NeverIdle
<1>6. ASSUME NEW m \in Messages, CallbackSatCom(m) PROVE Shrinks
  BY <1>3, <1>4, <1>5, <1>6 DEF CallbackSatCom
<1>7. ASSUME NEW p \in Posters, Post(p) PROVE Shrinks
  <2>1. PICK q \in {"register", "fetch", "idle", "exit"} :
          /\ pc' = [pc EXCEPT ![p] = q]
          /\ p \in Threads => q # "idle"
    <3>1. CASE PostFetch(p) /\ p = MqttThread
      <4>1. pc' = [pc EXCEPT ![p] = "idle"] /\ p \notin Threads
        BY <1>5, <3>1 DEF PostFetch
      <4> QED
        BY <4>1
    <3>2. CASE PostFetch(p) /\ p # MqttThread
      <4>1. pc' = [pc EXCEPT ![p] = "exit"]
        BY <3>2 DEF PostFetch
      <4> QED
        BY <4>1
    <3>3. CASE PostEncode(p) \/ \E r \in Requests : PostRegister(p, r)
      BY <3>3 DEF PostEncode, PostRegister
    <3> QED
      BY <1>7, <3>1, <3>2, <3>3 DEF Post
  <2>2. UNCHANGED <<threads, ioloop, scan>> /\ pc[p] \in {"post", "register", "fetch"}
    BY <1>7 DEF Post, PostEncode, PostRegister, PostFetch
  <2> QED
    BY <1>3, <1>4, <2>1, <2>2
<1>8. ASSUME NEW t \in Threads, WakeUp(t) PROVE QuietStep /\ NeverIdle
  <2>1. pc' = [pc EXCEPT ![t] = "post"] /\ pc[t] = "sleep"
        /\ UNCHANGED <<threads, ioloop, scan>>
    BY <1>8 DEF WakeUp
  <2> QED
    BY <1>1, <1>3, <1>5, <2>1 DEF NeverIdle
<1>9. ASSUME NEW t \in Threads, Exit(t) PROVE Shrinks
  BY <1>3, <1>4, <1>5, <1>9 DEF Exit
<1>10. ASSUME NEW r \in Requests, Answer(r) PROVE Shrinks
  <2>1. UNCHANGED <<pc, threads, ioloop, scan>>
    BY <1>10 DEF Answer, GatewayAccepts, GatewayAcceptsAnswerLost,
                  GatewayRejects, GatewayFails, relayVars
  <2> QED
    BY <1>2, <2>1 DEF QuietStep
<1>11. ASSUME NEW r \in Requests, OnMessageSent(r) PROVE Woken' \subseteq Woken /\ NeverIdle
  BY <1>2, <1>11 DEF OnMessageSent
<1>12. CASE CleanUp \/ Confirm
  BY <1>2, <1>12 DEF CleanUp, Confirm
<1>13. ASSUME NEW t \in Threads, Redeliver(t) PROVE Woken' \subseteq Woken /\ NeverIdle
  BY <1>4, <1>5, <1>13 DEF Redeliver
<1>14. CASE UNCHANGED vars
  <2>1. UNCHANGED <<pc, threads, ioloop, scan>>
    BY <1>14 DEF vars, relayVars
  <2> QED
    BY <1>2, <2>1 DEF QuietStep
<1> QED
  BY <1>6, <1>7, <1>8, <1>9, <1>10, <1>11, <1>12, <1>13, <1>14
     DEF Next, Repost, Return, Posters

(* A thread wakes up with at most MaxExiting ending and at most one    *)
(* posting for each message.                                           *)
LEMMA NextWokenOK ==
  ASSUME IInv, IInv', WokenOK, [Next]_vars, IsFiniteSet(Messages)
  PROVE  WokenOK'
<1>0. \A t \in Threads : pc'[t] # "idle"
  BY ThreadSteps DEF WokenOK, NeverIdle
<1>1. CASE Woken' \subseteq Woken
  <2>1. /\ IsFiniteSet(Woken') /\ Cardinality(Woken') <= Cardinality(Woken)
        /\ Cardinality(Woken) \in Nat /\ Cardinality(Woken') \in Nat
    BY <1>1, FS_Subset, FS_CardinalityType DEF WokenOK
  <2>2. Cardinality(Messages) + MaxExiting \in Nat
    BY FS_CardinalityType, BoundsAssumption
  <2> QED
    BY <1>0, <2>1, <2>2 DEF WokenOK
<1>2. ASSUME NEW t \in Threads, WakeUp(t) PROVE WokenOK'
  <2>1. Ending' = Ending
    <3>1. pc \in [Posters -> PosterStates] /\ t \in Posters
      BY DEF IInv, TypeOK, Posters
    <3> QED
      BY <1>2, <3>1 DEF WakeUp, Ending, Posters
  <2>2. Cardinality(Ending') <= MaxExiting
    BY <1>2, <2>1 DEF WakeUp, Ending
  <2>3. IsFiniteSet(Ending') /\ Cardinality(Ending') \in Nat
    BY <2>1, FS_Subset, FS_CardinalityType DEF WokenOK, Woken
  <2>4. IsFiniteSet(Carriers') /\ Cardinality(Carriers') <= Cardinality(Messages)
        /\ Cardinality(Carriers') \in Nat
    <3>1. (IInv /\ IsFiniteSet(Messages) =>
             /\ IsFiniteSet(Carriers)
             /\ Cardinality(Carriers) <= Cardinality(Messages)
             /\ ioloop = "cleanup" =>
                  Cardinality(Carriers) <= Cardinality(Messages) - 1)'
      BY CarriersBounded, PTL
    <3> QED
      BY <3>1, FS_CardinalityType
  <2>5. IsFiniteSet(Posting') /\ Cardinality(Posting') <= Cardinality(Carriers')
        /\ Cardinality(Posting') \in Nat
    <3>1. Posting' \in SUBSET Carriers'
      BY DEF Carriers
    <3> QED
      BY <2>4, <3>1, FS_Subset, FS_CardinalityType
  <2>6. /\ IsFiniteSet(Woken') /\ Cardinality(Woken') \in Nat
        /\ Cardinality(Woken') <= Cardinality(Posting') + Cardinality(Ending')
    BY <2>3, <2>5, UnionBounded DEF Woken
  <2>7. Cardinality(Messages) \in Nat /\ MaxExiting \in Nat
    BY FS_CardinalityType, BoundsAssumption
  <2> QED
    BY <1>0, <2>2, <2>3, <2>4, <2>5, <2>6, <2>7 DEF WokenOK
<1> QED
  BY <1>1, <1>2, ThreadSteps

(* While an answer is handled fewer threads live than the list may     *)
(* have.                                                               *)
LEMMA LiveBounded ==
  IInv /\ WokenOK /\ IsFiniteSet(Messages) /\ ioloop = "cleanup" =>
    IsFiniteSet(Live) /\ Cardinality(Live) \in Nat /\ Cardinality(Live) < Capacity
<1> SUFFICES ASSUME IInv, WokenOK, IsFiniteSet(Messages), ioloop = "cleanup"
             PROVE  /\ IsFiniteSet(Live) /\ Cardinality(Live) \in Nat
                    /\ Cardinality(Live) < Capacity
  OBVIOUS
<1>1. Live \subseteq Carriers \cup Woken
  <2>1. pc \in [Posters -> PosterStates] /\ Threads \subseteq Posters
    BY DEF IInv, TypeOK, Posters
  <2>2. ASSUME NEW t \in Live PROVE t \in Carriers \cup Woken
    <3>1. t \in Threads /\ pc[t] \in PosterStates /\ pc[t] \notin {"new", "dead"}
      BY <2>1 DEF Live
    <3>2. pc[t] # "idle"
      BY <3>1 DEF WokenOK
    <3> QED
      BY <3>1, <3>2 DEF PosterStates, Carrying, Carriers, Woken, Asleep, Posting, Ending
  <2> QED
    BY <2>2
<1>2. /\ IsFiniteSet(Carriers) /\ Cardinality(Carriers) \in Nat
      /\ Cardinality(Carriers) <= Cardinality(Messages) - 1
  BY CarriersBounded, FS_CardinalityType
<1>3. /\ IsFiniteSet(Woken) /\ Cardinality(Woken) \in Nat
      /\ Cardinality(Woken) <= Cardinality(Messages) + MaxExiting
  BY FS_CardinalityType DEF WokenOK
<1>4. Cardinality(Messages) \in Nat /\ MaxExiting \in Nat
  BY FS_CardinalityType, BoundsAssumption
<1>5. /\ IsFiniteSet(Carriers \cup Woken) /\ Cardinality(Carriers \cup Woken) \in Nat
      /\ Cardinality(Carriers \cup Woken) <= Cardinality(Carriers) + Cardinality(Woken)
  BY <1>2, <1>3, UnionBounded
<1>6. /\ IsFiniteSet(Live) /\ Cardinality(Live) \in Nat
      /\ Cardinality(Live) <= Cardinality(Carriers \cup Woken)
  BY <1>1, <1>5, FS_Subset, FS_CardinalityType
<1> QED
  BY <1>2, <1>3, <1>4, <1>5, <1>6 DEF Capacity

(* A list that is full then has a dead thread in it.                   *)
LEMMA FullListHasDead ==
  IInv /\ ThreadsOK /\ IsFiniteSet(Live) /\ Cardinality(Live) < Len(threads) =>
    \E i \in DOMAIN threads : pc[threads[i]] = "dead"
<1> SUFFICES ASSUME IInv, ThreadsOK, IsFiniteSet(Live), Cardinality(Live) < Len(threads),
                    \A i \in DOMAIN threads : pc[threads[i]] # "dead"
             PROVE  FALSE
  OBVIOUS
<1>1. threads \in Seq(Threads) /\ DOMAIN threads = 1..Len(threads) /\ Len(threads) \in Nat
  BY DEF IInv, TypeOK
<1>2. \A i \in DOMAIN threads : threads[i] \in Live
  BY <1>1 DEF Live, ThreadsOK, NewNotListed
<1> DEFINE Places == 1..Len(threads)
<1>3. threads \in Injection(Places, Live)
  BY <1>1, <1>2 DEF Injection, IsInjective, ThreadsOK, LiveThreadsTracked
<1>4. Cardinality(Places) <= Cardinality(Live)
  <2> HIDE DEF Places
  <2> QED
    BY <1>3, FS_Injection
<1>5. Cardinality(Places) = Len(threads)
  <2> DEFINE n == Len(threads)
  <2>1. n \in Nat /\ 1 \in Int /\ n \in Int
    BY <1>1
  <2> HIDE DEF n
  <2>2. Cardinality(1..n) = IF 1 > n THEN 0 ELSE n - 1 + 1
    BY <2>1, FS_Interval
  <2>3. Cardinality(1..n) = n
    BY <2>1, <2>2
  <2> QED
    BY <2>3 DEF n
<1>6. Cardinality(Live) \in Nat
  BY FS_CardinalityType
<1> QED
  BY <1>1, <1>4, <1>5, <1>6

(* The loop removes a dead thread or passes a live one, so it comes    *)
(* to the dead thread that a full list has.                            *)
LEMMA CleanUpList ==
  ASSUME IInv, ListOK, CleanUp, Capacity \in Nat
  PROVE  ListOK'
<1>1. threads \in Seq(Threads) /\ scan \in 1..Len(threads) /\ Len(threads) \in Nat
      /\ DOMAIN threads = 1..Len(threads)
  BY DEF IInv, TypeOK, PoppedOK, CleanUp
<1>2. pc' = pc /\ ioloop' = ioloop /\ ioloop = "cleanup" /\ scan' = scan + 1
      /\ Capacity' = Capacity
  BY DEF CleanUp, Capacity
<1>3. CASE Alive(threads[scan])
  <2>1. threads' = threads
    BY <1>3 DEF CleanUp
  <2>2. ASSUME NEW i \in DOMAIN threads, i >= scan, pc[threads[i]] = "dead"
        PROVE  i >= scan + 1
    BY <1>1, <1>3, <2>2 DEF Alive
  <2> QED
    BY <1>2, <2>1, <2>2 DEF ListOK
<1>4. CASE ~Alive(threads[scan])
  <2>1. threads' = RemoveAt(threads, scan)
    BY <1>4 DEF CleanUp
  <2>2. Len(threads') = Len(threads) - 1
    BY <1>1, <2>1, RemoveAtElements
  <2> QED
    <3>1. Len(threads) <= Capacity
      BY DEF ListOK
    <3>2. Len(threads') <= Capacity' /\ Len(threads') # Capacity'
      <4>1. Len(threads) \in Nat /\ Capacity \in Nat /\ Capacity' = Capacity
        BY <1>1, <1>2
      <4> QED
        BY <2>2, <3>1, <4>1
    <3> QED
      BY <3>2 DEF ListOK
<1> QED
  BY <1>3, <1>4

(* A thread is appended when the loop is over, and then the list is    *)
(* not full.                                                           *)
LEMMA NextListOK ==
  ASSUME IInv, IInv', ThreadsOK, ThreadsOK', WokenOK, WokenOK', ListOK,
         [Next]_vars, IsFiniteSet(Messages)
  PROVE  ListOK'
<1>1. Capacity \in Nat /\ Capacity' = Capacity
  BY FS_CardinalityType, BoundsAssumption DEF Capacity
<1>2. threads \in Seq(Threads) /\ Len(threads) \in Nat /\ scan \in Nat
      /\ DOMAIN threads = 1..Len(threads)
  BY DEF IInv, TypeOK
<1>3. CASE QuietStep
  <2>1. \A i \in DOMAIN threads : threads[i] \in Threads
    BY <1>2
  <2> QED
    BY <1>1, <1>3, <2>1 DEF QuietStep, ListOK
<1>4. CASE CleanUp
  BY <1>1, <1>4, CleanUpList
<1>5. CASE Confirm
  BY <1>1, <1>5 DEF Confirm, ReturnFromCallback, ListOK
<1>6. ASSUME NEW r \in Requests, OnMessageSent(r) PROVE ListOK'
  <2>1. threads' = threads /\ scan' = 1 /\ ioloop' = "cleanup"
    BY <1>6 DEF OnMessageSent
  <2>2. (IsFiniteSet(Live) /\ Cardinality(Live) \in Nat /\ Cardinality(Live) < Capacity)'
    <3>1. (IInv /\ WokenOK /\ IsFiniteSet(Messages) /\ ioloop = "cleanup" =>
             IsFiniteSet(Live) /\ Cardinality(Live) \in Nat /\ Cardinality(Live) < Capacity)'
      BY LiveBounded, PTL
    <3> QED
      BY <2>1, <3>1
  <2>3. CASE Len(threads) = Capacity
    <3>1. (\E i \in DOMAIN threads : pc[threads[i]] = "dead")'
      <4>1. (Cardinality(Live) < Len(threads))'
        BY <1>1, <2>1, <2>2, <2>3
      <4>2. (IInv /\ ThreadsOK /\ IsFiniteSet(Live) /\ Cardinality(Live) < Len(threads) =>
               \E i \in DOMAIN threads : pc[threads[i]] = "dead")'
        BY FullListHasDead, PTL
      <4> QED
        BY <2>2, <4>1, <4>2
    <3> QED
      BY <1>1, <1>2, <2>1, <2>3, <3>1 DEF ListOK
  <2>4. CASE Len(threads) # Capacity
    BY <1>1, <2>1, <2>4 DEF ListOK
  <2> QED
    BY <2>3, <2>4
<1>7. ASSUME NEW t \in Threads, Redeliver(t) PROVE ListOK'
  <2>1. ioloop = "cleanup" /\ scan > Len(threads) /\ ioloop' = "idle"
        /\ threads' = Append(threads, t)
    BY <1>7 DEF Redeliver, ReturnFromCallback
  <2>2. Len(threads) # Capacity
    BY <1>2, <2>1 DEF ListOK
  <2>3. Len(threads') = Len(threads) + 1
    BY <1>2, <2>1
  <2>4. Len(threads') <= Capacity
    <3>1. Len(threads) <= Capacity
      BY DEF ListOK
    <3>2. Len(threads) \in Nat /\ Capacity \in Nat
      BY <1>1, <1>2
    <3> QED
      BY <2>2, <2>3, <3>1, <3>2
  <2> QED
    BY <1>1, <1>2, <2>1, <2>4 DEF ListOK
<1> QED
  BY <1>3, <1>4, <1>5, <1>6, <1>7, ThreadSteps

(* However often redelivery is repeated, and although the loop skips   *)
(* the thread after one it removes, the list of threads never has      *)
(* more than two entries per message and those still ending.           *)
THEOREM ListBounded ==
  ASSUME IsFiniteSet(Messages)
  PROVE  Spec => []ThreadListBounded
<1>1. Init => ThreadsOK
  BY InitThreads
<1>2. Init => WokenOK /\ ListOK
  <2> SUFFICES ASSUME Init PROVE WokenOK /\ ListOK
    OBVIOUS
  <2>1. \A t \in Threads : pc[t] = "new"
    BY ActorsAssumption DEF Init, Posters
  <2>2. Woken = {}
    BY <2>1 DEF Woken, Posting, Ending
  <2>3. Cardinality(Messages) \in Nat /\ MaxExiting \in Nat
    BY FS_CardinalityType, BoundsAssumption
  <2>4. WokenOK
    BY <2>1, <2>2, <2>3, FS_EmptySet DEF WokenOK
  <2>5. Len(threads) = 0 /\ ioloop = "idle"
    BY DEF Init
  <2>6. ListOK
    BY <2>3, <2>5 DEF ListOK, Capacity
  <2> QED
    BY <2>4, <2>6
<1>3. ListOK => ThreadListBounded
  BY DEF ListOK, ThreadListBounded, Capacity
<1>4. IInv /\ IInv' /\ WokenOK /\ [Next]_vars => WokenOK'
  BY NextWokenOK
<1>5. (/\ IInv /\ IInv' /\ ThreadsOK /\ ThreadsOK' /\ WokenOK /\ WokenOK'
       /\ ListOK /\ [Next]_vars) => ListOK'
  BY NextListOK
<1> QED
  BY <1>1, <1>2, <1>3, <1>4, <1>5, NextThreads, Invariance, PTL DEF Spec
==============================================================================
