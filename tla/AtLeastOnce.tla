----------------------------- MODULE AtLeastOnce -----------------------------
(***************************************************************************)
(* What the relay promises to the operator for the mobile-terminated (MT)  *)
(* direction: a message it takes from the topic 'telem/SatCom_to_plane' is *)
(* kept until a post of it is answered by the Iridium gateway.  A post may *)
(* reach the gateway and its answer be lost; the message is then posted    *)
(* again, so the gateway can get it more than once.  The one message it    *)
(* may never get is one that it refuses: the refusal is an answer too, and *)
(* the operator is not told.                                               *)
(*                                                                         *)
(* This is the abstract specification; MtRelay is shown to implement it.   *)
(***************************************************************************)
EXTENDS Naturals

CONSTANT Messages       \* the messages published for the plane

VARIABLES
  status,               \* per message, one of Statuses
  got                   \* how often the gateway has got each message

vars == <<status, got>>

Statuses == {"unknown", "pending", "delivered", "refused"}

TypeOK ==
  /\ status \in [Messages -> Statuses]
  /\ got \in [Messages -> Nat]

Init ==
  /\ status = [m \in Messages |-> "unknown"]
  /\ got = [m \in Messages |-> 0]

Take(m) ==
  /\ status[m] = "unknown"
  /\ status' = [status EXCEPT ![m] = "pending"]
  /\ UNCHANGED got

\* The gateway gets the message, the relay does not learn of it.
DeliverUnconfirmed(m) ==
  /\ status[m] = "pending"
  /\ got' = [got EXCEPT ![m] = @ + 1]
  /\ UNCHANGED status

\* The gateway gets the message and its confirmation is on its way back: from
\* here on the message is never posted again.
DeliverConfirmed(m) ==
  /\ status[m] = "pending"
  /\ got' = [got EXCEPT ![m] = @ + 1]
  /\ status' = [status EXCEPT ![m] = "delivered"]

\* The gateway refuses the message; it is not posted again either.
Refuse(m) ==
  /\ status[m] = "pending"
  /\ status' = [status EXCEPT ![m] = "refused"]
  /\ UNCHANGED got

Next ==
  \E m \in Messages :
    Take(m) \/ DeliverUnconfirmed(m) \/ DeliverConfirmed(m) \/ Refuse(m)

Spec == Init /\ [][Next]_vars

\* Every message the relay has taken is delivered or refused in the end.
AllSettled ==
  \A m \in Messages :
    (status[m] = "pending") ~> (status[m] \in {"delivered", "refused"})
==============================================================================
