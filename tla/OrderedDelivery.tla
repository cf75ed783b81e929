--------------------------- MODULE OrderedDelivery ---------------------------
(***************************************************************************)
(* What a queue on the way of a message promises: the receiver gets what    *)
(* was sent, one message after the other, in the order they were sent, each *)
(* once.  A queue that lives in a process loses what it holds when the      *)
(* process ends; both sides then count from the start again.                *)
(*                                                                         *)
(* This is the abstract specification of two queues of the link: mt_queue   *)
(* of the simulator (Modem) and the queue of the relay's MQTT client        *)
(* (MqttLink).                                                              *)
(***************************************************************************)
EXTENDS Naturals, Sequences

CONSTANTS
  Messages,
  Volatile              \* the process that holds the queue can end

VARIABLES
  sent,                 \* the messages given to the queue, oldest first
  got                   \* the messages the receiver has got, oldest first

vars == <<sent, got>>

Init == sent = <<>> /\ got = <<>>

Send(m) ==
  /\ sent' = Append(sent, m)
  /\ UNCHANGED got

\* The receiver gets the oldest message it has not got.
Deliver ==
  /\ Len(got) < Len(sent)
  /\ got' = Append(got, sent[Len(got) + 1])
  /\ UNCHANGED sent

Forget ==
  /\ Volatile
  /\ sent' = <<>> /\ got' = <<>>

Next == (\E m \in Messages : Send(m)) \/ Deliver \/ Forget

Spec == Init /\ [][Next]_vars
==============================================================================
