------------------------------- MODULE MtRelay -------------------------------
(***************************************************************************)
(* The mobile-terminated path of relay.py: MqttInterface.__callback_SatCom *)
(* hands each message of 'telem/SatCom_to_plane' to                        *)
(* IridiumInterface.post_message, which posts it to the Iridium gateway;   *)
(* __on_message_sent handles the answer and, after an error, starts a      *)
(* daemon thread that sleeps ten seconds and posts the message again.      *)
(*                                                                         *)
(* Three kinds of thread run here: the MQTT client thread (MqttThread),    *)
(* the redelivery threads (Threads), and the tornado IOLoop (IoLoop), which *)
(* answers requests.  They share __post_data, __waiting_for_confirm and    *)
(* __threads under one Lock.  A step is what a thread does between two     *)
(* points at which another thread can see the difference.                  *)
(***************************************************************************)
EXTENDS Naturals, FiniteSets, Sequences, SequencesExt

CONSTANTS
  Messages,     \* payloads published on 'telem/SatCom_to_plane'
  Requests,     \* HTTPRequest objects
  Threads,      \* Thread objects for redelivery
  MqttThread,   \* the paho client thread
  IoLoop,       \* the tornado IOLoop thread
  None,         \* Python's None, and the owner of a free lock
  MaxLost,      \* bound: posts of one message whose answer may be lost
  MaxExiting    \* bound: threads still ending when another wakes up

Posters == {MqttThread} \cup Threads

ASSUME ActorsAssumption ==
  /\ MqttThread \notin Threads
  /\ IoLoop \notin Posters
  /\ None \notin Posters \cup {IoLoop} \cup Messages

ASSUME BoundsAssumption == MaxLost \in Nat /\ MaxExiting \in Nat

VARIABLES
  counter,      \* __iridium_counter
  number,       \* idx given to each message, 0 before it is taken
  lock,         \* owner of IridiumInterface.__lock
  postData,     \* __post_data['data'], shared by every post
  waiting,      \* __waiting_for_confirm: the (idx, data) of a request
  body,         \* the message encoded in the body of a request
  wire,         \* progress of a request: free, built, sent, ok, error
  pc,           \* where each poster is
  cur,          \* the (idx, data) arguments of the poster's post_message
  req,          \* the request the poster is about to fetch
  threads,      \* __threads
  ioloop,       \* "idle", or "cleanup" inside __on_message_sent
  popped,       \* the local (idx, data) of __on_message_sent
  failed,       \* response.error of the answer being handled
  scan,         \* index of the for loop over __threads
  accepted,     \* how often the gateway has taken each message
  lost,         \* how often the answer to that was lost
  refused       \* messages the gateway has refused in an answer without error

relayVars == <<counter, number, lock, postData, waiting, body, pc, cur, req,
               threads, ioloop, popped, failed, scan>>
gatewayVars == <<accepted, lost, refused>>
vars == <<relayVars, wire, gatewayVars>>

Jobs == [idx : Nat, data : Messages]

\* A poster holds a message from the call until post_message has registered it.
Carrying == {"sleep", "post", "register"}
PosterStates == {"idle", "new", "fetch", "exit", "dead"} \cup Carrying

(* Every variable holds a value of its kind; in particular the thread list *)
(* holds redelivery threads only and a number is never negative.           *)
TypeOK ==
  /\ counter \in Nat
  /\ number \in [Messages -> Nat]
  /\ lock \in Posters \cup {IoLoop, None}
  /\ postData \in Messages \cup {None}
  /\ waiting \in [Requests -> Jobs \cup {None}]
  /\ body \in [Requests -> Messages \cup {None}]
  /\ wire \in [Requests -> {"free", "built", "sent", "ok", "error"}]
  /\ pc \in [Posters -> PosterStates]
  /\ cur \in [Posters -> Jobs \cup {None}]
  /\ req \in [Posters -> Requests \cup {None}]
  /\ threads \in Seq(Threads)
  /\ ioloop \in {"idle", "cleanup"}
  /\ popped \in Jobs \cup {None}
  /\ failed \in BOOLEAN
  /\ scan \in Nat
  /\ accepted \in [Messages -> Nat]
  /\ lost \in [Messages -> 0..MaxLost]
  /\ refused \subseteq Messages

Init ==
  /\ counter = 0
  /\ number = [m \in Messages |-> 0]
  /\ lock = None
  /\ postData = None
  /\ waiting = [r \in Requests |-> None]
  /\ body = [r \in Requests |-> None]
  /\ wire = [r \in Requests |-> "free"]
  /\ pc = [p \in Posters |-> IF p = MqttThread THEN "idle" ELSE "new"]
  /\ cur = [p \in Posters |-> None]
  /\ req = [p \in Posters |-> None]
  /\ threads = <<>>
  /\ ioloop = "idle"
  /\ popped = None
  /\ failed = FALSE
  /\ scan = 0
  /\ accepted = [m \in Messages |-> 0]
  /\ lost = [m \in Messages |-> 0]
  /\ refused = {}

------------------------------------------------------------------------------
(* The posters                                                              *)

Taken(m) == number[m] # 0

\* __callback_SatCom: number the message and call post_message with it.
CallbackSatCom(m) ==
  /\ pc[MqttThread] = "idle"
  /\ ~Taken(m)
  /\ counter' = counter + 1
  /\ number' = [number EXCEPT ![m] = counter + 1]
  /\ cur' = [cur EXCEPT ![MqttThread] = [idx |-> counter + 1, data |-> m]]
  /\ pc' = [pc EXCEPT ![MqttThread] = "post"]
  /\ UNCHANGED <<lock, postData, waiting, body, wire, req, threads, ioloop,
                 popped, failed, scan, gatewayVars>>

\* __repost_message: the ten seconds are over.  A thread needs an instant to
\* end after its fetch, so no more than MaxExiting of them are at it by now.
WakeUp(t) ==
  /\ pc[t] = "sleep"
  /\ Cardinality({u \in Threads : pc[u] = "exit"}) <= MaxExiting
  /\ pc' = [pc EXCEPT ![t] = "post"]
  /\ UNCHANGED <<counter, number, lock, postData, waiting, body, wire, cur,
                 req, threads, ioloop, popped, failed, scan, gatewayVars>>

\* Mutant of PostEncode: post_message without the acquire().
PostEncodeUnlocked(p) ==
  /\ pc[p] = "post"
  /\ lock' = p
  /\ postData' = cur[p].data
  /\ pc' = [pc EXCEPT ![p] = "register"]
  /\ UNCHANGED <<counter, number, waiting, body, wire, cur, req, threads,
                 ioloop, popped, failed, scan, gatewayVars>>

\* post_message: take the lock and write the payload into the shared form.
PostEncode(p) ==
  /\ pc[p] = "post"
  /\ lock = None
  /\ lock' = p
  /\ postData' = cur[p].data
  /\ pc' = [pc EXCEPT ![p] = "register"]
  /\ UNCHANGED <<counter, number, waiting, body, wire, cur, req, threads,
                 ioloop, popped, failed, scan, gatewayVars>>

\* A request object that is not in use.  Objects of one class are alike, so
\* which of them Python creates is left to CHOOSE.
IsNewRequest(r) == r = CHOOSE q \in Requests : wire[q] = "free"

\* Mutant of PostRegister: the dictionary keeps the payload without its number.
PostRegisterPayloadOnly(p, r) ==
  /\ pc[p] = "register"
  /\ wire[r] = "free"
  /\ IsNewRequest(r)
  /\ body' = [body EXCEPT ![r] = postData]
  /\ waiting' = [waiting EXCEPT ![r] = cur[p].data]
  /\ wire' = [wire EXCEPT ![r] = "built"]
  /\ req' = [req EXCEPT ![p] = r]
  /\ lock' = None
  /\ pc' = [pc EXCEPT ![p] = "fetch"]
  /\ UNCHANGED <<counter, number, postData, cur, threads, ioloop, popped,
                 failed, scan, gatewayVars>>

\* post_message: build the request from the shared form, remember what it
\* carries, release the lock.
PostRegister(p, r) ==
  /\ pc[p] = "register"
  /\ wire[r] = "free"
  /\ IsNewRequest(r)
  /\ body' = [body EXCEPT ![r] = postData]
  /\ waiting' = [waiting EXCEPT ![r] = cur[p]]
  /\ wire' = [wire EXCEPT ![r] = "built"]
  /\ req' = [req EXCEPT ![p] = r]
  /\ lock' = None
  /\ pc' = [pc EXCEPT ![p] = "fetch"]
  /\ UNCHANGED <<counter, number, postData, cur, threads, ioloop, popped,
                 failed, scan, gatewayVars>>

\* post_message: hand the request to the HTTP client, outside the lock.  The
\* answer can be handled before the thread that posted it has ended.
PostFetch(p) ==
  /\ pc[p] = "fetch"
  /\ wire' = [wire EXCEPT ![req[p]] = "sent"]
  /\ req' = [req EXCEPT ![p] = None]
  /\ cur' = [cur EXCEPT ![p] = None]
  /\ pc' = [pc EXCEPT ![p] = IF p = MqttThread THEN "idle" ELSE "exit"]
  /\ UNCHANGED <<counter, number, lock, postData, waiting, body, threads,
                 ioloop, popped, failed, scan, gatewayVars>>

\* A redelivery thread returns from __repost_message: is_alive() turns false.
Exit(t) ==
  /\ pc[t] = "exit"
  /\ pc' = [pc EXCEPT ![t] = "dead"]
  /\ UNCHANGED <<counter, number, lock, postData, waiting, body, wire, cur,
                 req, threads, ioloop, popped, failed, scan, gatewayVars>>

------------------------------------------------------------------------------
(* The Iridium gateway and the HTTP client, which are outside the repository *)

\* The gateway takes the message and its answer arrives.
GatewayAccepts(r) ==
  /\ wire[r] = "sent"
  /\ wire' = [wire EXCEPT ![r] = "ok"]
  /\ accepted' = [accepted EXCEPT ![body[r]] = @ + 1]
  /\ UNCHANGED <<relayVars, lost, refused>>

\* The gateway refuses the message.  It says so with status 200 and "FAILED" in
\* the body, which to the HTTP client is an answer like any other.
GatewayRejects(r) ==
  /\ wire[r] = "sent"
  /\ wire' = [wire EXCEPT ![r] = "ok"]
  /\ refused' = refused \cup {body[r]}
  /\ UNCHANGED <<relayVars, accepted, lost>>

\* The gateway takes the message, the answer is lost or comes after the
\* client's timeout: the relay sees an error.
GatewayAcceptsAnswerLost(r) ==
  /\ wire[r] = "sent"
  /\ lost[body[r]] < MaxLost
  /\ wire' = [wire EXCEPT ![r] = "error"]
  /\ accepted' = [accepted EXCEPT ![body[r]] = @ + 1]
  /\ lost' = [lost EXCEPT ![body[r]] = @ + 1]
  /\ UNCHANGED <<relayVars, refused>>

\* The gateway is not reached, or its refusal does not arrive.
GatewayFails(r) ==
  /\ wire[r] = "sent"
  /\ wire' = [wire EXCEPT ![r] = "error"]
  /\ UNCHANGED <<relayVars, gatewayVars>>

------------------------------------------------------------------------------
(* The IOLoop: __on_message_sent                                            *)

Alive(t) == pc[t] # "dead"

\* Mutant of OnMessageSent: the entry is read and not popped, so an answer
\* delivered twice is handled twice.
OnMessageSentKeepsEntry(r) ==
  /\ ioloop = "idle"
  /\ wire[r] \in {"ok", "error"}
  /\ lock = None
  /\ lock' = IoLoop
  /\ ioloop' = "cleanup"
  /\ popped' = waiting[r]
  /\ failed' = (wire[r] = "error")
  /\ scan' = 1
  /\ UNCHANGED <<counter, number, postData, waiting, body, wire, pc, cur, req,
                 threads, gatewayVars>>

\* Take the lock, take the entry of the request out of the dictionary.
OnMessageSent(r) ==
  /\ ioloop = "idle"
  /\ wire[r] \in {"ok", "error"}
  /\ lock = None
  /\ lock' = IoLoop
  /\ ioloop' = "cleanup"
  /\ popped' = waiting[r]
  /\ failed' = (wire[r] = "error")
  /\ waiting' = [waiting EXCEPT ![r] = None]
  /\ body' = [body EXCEPT ![r] = None]
  /\ wire' = [wire EXCEPT ![r] = "free"]
  /\ scan' = 1
  /\ UNCHANGED <<counter, number, postData, pc, cur, req, threads, gatewayVars>>

\* Mutants of CleanUp: the neighbour of the dead thread is removed; nothing is.
CleanUpNeighbour ==
  /\ ioloop = "cleanup"
  /\ scan <= Len(threads)
  /\ threads' = IF Alive(threads[scan]) \/ scan = Len(threads)
                  THEN threads ELSE RemoveAt(threads, scan + 1)
  /\ scan' = scan + 1
  /\ UNCHANGED <<counter, number, lock, postData, waiting, body, wire, pc, cur,
                 req, ioloop, popped, failed, gatewayVars>>

CleanUpNothing ==
  /\ ioloop = "cleanup"
  /\ scan <= Len(threads)
  /\ scan' = scan + 1
  /\ UNCHANGED <<counter, number, lock, postData, waiting, body, wire, pc, cur,
                 req, threads, ioloop, popped, failed, gatewayVars>>

\* One round of "for thr in self.__threads".  Python walks the list by index
\* and removing an element moves the rest down, so the thread that follows a
\* removed one is not looked at.
CleanUp ==
  /\ ioloop = "cleanup"
  /\ scan <= Len(threads)
  /\ threads' = IF Alive(threads[scan]) THEN threads ELSE RemoveAt(threads, scan)
  /\ scan' = scan + 1
  /\ UNCHANGED <<counter, number, lock, postData, waiting, body, wire, pc, cur,
                 req, ioloop, popped, failed, gatewayVars>>

\* Mutant of ReturnFromCallback: the error path returns without release().
ReturnHoldingLock ==
  /\ ioloop = "cleanup"
  /\ scan > Len(threads)
  /\ ioloop' = "idle"
  /\ lock' = IF failed THEN lock ELSE None
  /\ popped' = None
  /\ failed' = FALSE
  /\ scan' = 0
  /\ UNCHANGED <<counter, number, postData, waiting, body, wire, req,
                 gatewayVars>>

\* The loop is over: forget the local variables and release the lock.
ReturnFromCallback ==
  /\ ioloop = "cleanup"
  /\ scan > Len(threads)
  /\ ioloop' = "idle"
  /\ lock' = None
  /\ popped' = None
  /\ failed' = FALSE
  /\ scan' = 0
  /\ UNCHANGED <<counter, number, postData, waiting, body, wire, req,
                 gatewayVars>>

\* Mutant of Confirm: the answer is not looked at, an error ends the attempt.
ConfirmAnything ==
  /\ ReturnFromCallback
  /\ UNCHANGED <<pc, cur, threads>>

Confirm ==
  /\ ~failed
  /\ ReturnFromCallback
  /\ UNCHANGED <<pc, cur, threads>>

\* A Thread object that is not in use: never started, or ended and forgotten.
Fresh(t) == pc[t] = "new" \/ (pc[t] = "dead" /\ t \notin Range(threads))

IsNewThread(t) == t = CHOOSE u \in Threads : Fresh(u)

\* Mutant of Redeliver: every answer is taken for an error.
RedeliverAlways(t) ==
  /\ Fresh(t)
  /\ IsNewThread(t)
  /\ ReturnFromCallback
  /\ cur' = [cur EXCEPT ![t] = popped]
  /\ pc' = [pc EXCEPT ![t] = "sleep"]
  /\ threads' = Append(threads, t)

\* response.error is set: start a redelivery thread with the popped entry.
Redeliver(t) ==
  /\ failed
  /\ Fresh(t)
  /\ IsNewThread(t)
  /\ ReturnFromCallback
  /\ cur' = [cur EXCEPT ![t] = popped]
  /\ pc' = [pc EXCEPT ![t] = "sleep"]
  /\ threads' = Append(threads, t)

------------------------------------------------------------------------------
Answer(r) ==
  \/ GatewayAccepts(r)
  \/ GatewayAcceptsAnswerLost(r)
  \/ GatewayRejects(r)
  \/ GatewayFails(r)

Post(p) == PostEncode(p) \/ (\E r \in Requests : PostRegister(p, r)) \/ PostFetch(p)

Repost(t) == WakeUp(t) \/ Post(t) \/ Exit(t)

Return == Confirm \/ (\E t \in Threads : Redeliver(t))

Next ==
  \/ \E m \in Messages : CallbackSatCom(m)
  \/ Post(MqttThread)
  \/ \E t \in Threads : Repost(t)
  \/ \E r \in Requests : Answer(r) \/ OnMessageSent(r)
  \/ CleanUp
  \/ Return

Spec == Init /\ [][Next]_vars

(***************************************************************************)
(* Fairness.  Threads run.  A Python Lock is not a queue, so a thread that *)
(* waits for it gets it only under strong fairness: the lock is held for   *)
(* microseconds, and a redelivery asks for it once in ten seconds.  (A     *)
(* thread is at one place until it steps, so strong fairness of all its    *)
(* steps is strong fairness of each.)  The HTTP client ends every fetch,   *)
(* with an answer or a timeout.  That the gateway, tried again and again   *)
(* with a message, gives an answer that arrives, be it a refusal, is       *)
(* assumed of the outside world.                                           *)
(***************************************************************************)
Fairness ==
  /\ SF_vars(Post(MqttThread))
  /\ \A t \in Threads : SF_vars(Repost(t))
  /\ \A r \in Requests : SF_vars(Answer(r) \/ OnMessageSent(r))
  /\ WF_vars(CleanUp \/ Return)
  /\ \A m \in Messages :
       SF_vars(\E r \in Requests :
                 body[r] = m /\ (GatewayAccepts(r) \/ GatewayRejects(r)))

FairSpec == Spec /\ Fairness

------------------------------------------------------------------------------
(* Properties                                                               *)

Holds(p, m) == pc[p] \in Carrying /\ cur[p].data = m
InFlight(r, m) == wire[r] # "free" /\ waiting[r].data = m
Handled(m) == ioloop = "cleanup" /\ popped.data = m

\* Some thread or request still has to get an answer without error for m.
Outstanding(m) ==
  \/ \E p \in Posters : Holds(p, m)
  \/ \E r \in Requests : InFlight(r, m) /\ wire[r] # "ok"
  \/ Handled(m) /\ failed

(* A request carries the very payload that __waiting_for_confirm remembers *)
(* for it, under the number the message was given when it came in.  All    *)
(* posts write their payload into one shared dictionary (relay.py:142), so *)
(* two threads that overlap there would send one message twice and the     *)
(* other never.                                                            *)
BodyMatches ==
  \A r \in Requests :
    wire[r] # "free" =>
      /\ waiting[r] \in Jobs
      /\ body[r] = waiting[r].data
      /\ waiting[r].idx = number[body[r]]

(* Whatever the order of answers, retries and new messages, a message is in *)
(* one place only: with one poster, in one request or with the callback.    *)
(* A second copy would be posted, and redelivered, on its own.              *)
OneAttempt ==
  \A m \in Messages :
    /\ \A p, q \in Posters : Holds(p, m) /\ Holds(q, m) => p = q
    /\ \A r, s \in Requests : InFlight(r, m) /\ InFlight(s, m) => r = s
    /\ \A p \in Posters, r \in Requests : ~(Holds(p, m) /\ InFlight(r, m))
    /\ Handled(m) => /\ \A p \in Posters : ~Holds(p, m)
                     /\ \A r \in Requests : ~InFlight(r, m)

(* The relay posts a message until an answer without error is on its way and *)
(* not once more: while the message is outstanding the gateway has taken it  *)
(* only by posts whose answer was lost; afterwards exactly one time more, or *)
(* not at all because the gateway refused it, which the relay takes for a    *)
(* delivery as it looks at response.error alone (relay.py:109).              *)
Accounting ==
  \A m \in Messages :
    /\ accepted[m] =
         lost[m] + (IF Taken(m) /\ ~Outstanding(m) /\ m \notin refused THEN 1 ELSE 0)
    /\ m \in refused => Taken(m) /\ ~Outstanding(m)

(* The loop that removes dead threads changes the list it walks, and threads *)
(* die while it runs; still the list has every live redelivery thread, once. *)
LiveThreadsTracked ==
  /\ \A t \in Threads :
       pc[t] \notin {"new", "dead"} => \E i \in DOMAIN threads : threads[i] = t
  /\ \A i, j \in DOMAIN threads : threads[i] = threads[j] => i = j

(* The loop skips the thread after one it removes, so dead threads stay in  *)
(* the list; it is still bounded, however often redelivery is repeated.     *)
ThreadListBounded ==
  Len(threads) <= 2 * Cardinality(Messages) + MaxExiting

(* The strengthening of the three invariants above that steps preserve: what *)
(* a job in anyone's hands is, who holds the lock, and that a request about  *)
(* to be fetched is its poster's own.                                        *)
JobOK(j) == j \in Jobs /\ j.idx = number[j.data] /\ Taken(j.data)

HeldOK == \A p \in Posters : pc[p] \in Carrying => JobOK(cur[p])

WaitingOK ==
  \A r \in Requests :
    wire[r] # "free" => JobOK(waiting[r]) /\ body[r] = waiting[r].data

PoppedOK == ioloop = "cleanup" => JobOK(popped) /\ lock = IoLoop /\ scan > 0

RegisterOK ==
  \A p \in Posters : pc[p] = "register" => lock = p /\ postData = cur[p].data

FetchOK ==
  /\ \A p \in Posters :
       pc[p] = "fetch" => req[p] \in Requests /\ wire[req[p]] = "built"
  /\ \A p, q \in Posters :
       pc[p] = "fetch" /\ pc[q] = "fetch" /\ req[p] = req[q] => p = q

IInv ==
  /\ TypeOK
  /\ HeldOK
  /\ WaitingOK
  /\ PoppedOK
  /\ RegisterOK
  /\ FetchOK
  /\ OneAttempt
  /\ Accounting

ALO == INSTANCE AtLeastOnce WITH
  status <- [m \in Messages |-> IF ~Taken(m) THEN "unknown"
                                ELSE IF Outstanding(m) THEN "pending"
                                ELSE IF m \in refused THEN "refused"
                                ELSE "delivered"],
  got <- accepted

(* relay.py keeps the promise of AtLeastOnce: a taken message is kept until  *)
(* a post of it is answered without error, and not posted after that; if it  *)
(* was not refused in that answer, the gateway has it.                       *)
ImplementsAtLeastOnce == ALO!Spec

(* Every message taken from MQTT is delivered, or refused by the gateway,    *)
(* through errors, lost answers and redelivery.                              *)
EveryMessageSettled == ALO!AllSettled
==============================================================================
