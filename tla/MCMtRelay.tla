------------------------------ MODULE MCMtRelay ------------------------------
(* TLC instance of MtRelay: the model values come from the .cfg files.      *)
EXTENDS MtRelay

(* Thread objects differ by their place in the list and their state only;   *)
(* the safety run identifies states that differ in which object is which.   *)
Position(t) == CHOOSE i \in DOMAIN threads : threads[i] = t

Owner ==
  IF lock \in Threads
    THEN IF lock \in Range(threads) THEN <<"list", Position(lock)>> ELSE <<"none">>
    ELSE <<lock>>

State(p) == <<pc[p], cur[p], req[p]>>

View ==
  <<counter, number, Owner, postData, waiting, body, wire, State(MqttThread),
    [i \in DOMAIN threads |-> State(threads[i])],
    {State(t) : t \in {u \in Threads : u \notin Range(threads) /\ ~Fresh(u)}},
    ioloop, popped, failed, scan, accepted, lost, refused>>
==============================================================================
