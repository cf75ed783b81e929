---------------------------- MODULE LteLink_proofs ----------------------------
(***************************************************************************)
(* Proofs about LteLink, for any hosts, ports and timeout.  IInv adds to    *)
(* the two invariants where the IOLoop is in its pair of assignments and    *)
(* what a send has read and can still read; ClockOK relates the clock of    *)
(* the relay to the silence.                                                *)
(***************************************************************************)
EXTENDS LteLink, TLAPS

LEMMA InitIInv == Init => IInv
<1> SUFFICES ASSUME Init PROVE IInv
  OBVIOUS
<1> USE DEF Init
<1>1. TypeOK
  <2>1. 0 \in 0..(Timeout + 1)
    BY TimeoutAssumption
  <2> QED
    BY <2>1 DEF TypeOK
<1>2. PlaceOK /\ SendOK
  BY DEF PlaceOK, SendOK, Sending, NoAddress
<1> QED
  BY <1>1, <1>2 DEF IInv

LEMMA NextTypeOK == TypeOK /\ PlaceOK /\ [Next]_vars => TypeOK'
<1> SUFFICES ASSUME TypeOK, PlaceOK, [Next]_vars PROVE TypeOK'
  OBVIOUS
<1> USE TimeoutAssumption DEF TypeOK, Addresses, NoAddress
<1>1. CASE Tick
  BY <1>1 DEF Tick
<1>2. CASE \E a \in Addresses : OnReceive(a)
  BY <1>2 DEF OnReceive
<1>3. CASE OnReceiveHost
  BY <1>3 DEF OnReceiveHost, PlaceOK, NoteAddress, Sending
<1>4. CASE OnReceivePort
  BY <1>4 DEF OnReceivePort, PlaceOK, NoteAddress, Sending
<1>5. CASE Expire
  BY <1>5 DEF Expire, OnReceiveTimeout, OnReceiveTimeoutPort, NoteAddress, Sending
<1>6. CASE Send
  BY <1>6 DEF Send, SendCheck, SendReadHost, SendtoAddress, SendtoRaises
<1>7. CASE UNCHANGED vars
  BY <1>7 DEF vars
<1> QED
  BY <1>1, <1>2, <1>3, <1>4, <1>5, <1>6, <1>7 DEF Next, Receive

(* The two assignments of a callback are always finished before the next    *)
(* callback begins.                                                         *)
LEMMA NextPlaceOK == TypeOK /\ PlaceOK /\ [Next]_vars => PlaceOK'
<1> SUFFICES ASSUME TypeOK, PlaceOK, [Next]_vars PROVE PlaceOK'
  OBVIOUS
<1> USE DEF TypeOK, PlaceOK, Addresses, NoAddress
<1>1. CASE Tick
  BY <1>1 DEF Tick
<1>2. CASE Receive
  BY <1>2 DEF Receive, OnReceive, OnReceiveHost, OnReceivePort, NoteAddress, Sending
<1>3. CASE Expire
  BY <1>3 DEF Expire, OnReceiveTimeout, OnReceiveTimeoutPort, NoteAddress, Sending
<1>4. CASE Send
  BY <1>4 DEF Send, SendCheck, SendReadHost, SendtoAddress, SendtoRaises
<1>5. CASE UNCHANGED vars
  BY <1>5 DEF vars
<1> QED
  BY <1>1, <1>2, <1>3, <1>4, <1>5 DEF Next

(* A step of the IOLoop either leaves host and port alone or takes them from *)
(* an address that is noted; send reads what is there.                       *)
LEMMA NextSendOK == IInv /\ [Next]_vars => SendOK'
<1> SUFFICES ASSUME TypeOK, PlaceOK, SendOK, [Next]_vars, Sending' PROVE SendOK'
  BY DEF IInv, SendOK
<1> USE DEF PlaceOK, SendOK, Sending
<1>1. CASE Tick
  BY <1>1 DEF Tick
<1>2. CASE \E a \in Addresses : OnReceive(a)
  BY <1>2 DEF OnReceive
<1>3. CASE OnReceiveHost
  BY <1>3 DEF OnReceiveHost, NoteAddress
<1>4. CASE OnReceivePort
  BY <1>4 DEF OnReceivePort
<1>5. CASE OnReceiveTimeout
  <2>1. /\ host' = None /\ ioloop' = "reset_port" /\ seen' = seen \cup {NoAddress}
        /\ UNCHANGED <<port, mqtt, dstHost>>
    BY <1>5 DEF OnReceiveTimeout, NoteAddress
  <2>2. host' = NoAddress[1]
    BY <2>1 DEF NoAddress
  <2> QED
    BY <2>1, <2>2
<1>6. CASE OnReceiveTimeoutPort
  BY <1>6 DEF OnReceiveTimeoutPort, NoAddress
<1>7. CASE SendCheck
  <2>1. /\ seen' = {last} \cup (IF ioloop = "rx_port" THEN {src} ELSE {})
        /\ host # None /\ mqtt' = "read_host"
        /\ UNCHANGED <<host, port, ioloop, src, last>>
    BY <1>7 DEF SendCheck
  <2>2. CASE ioloop = "rx_port"
    BY <2>1, <2>2
  <2>3. CASE ioloop \in {"rx_host", "idle"}
    <3>1. host = last[1] /\ port = last[2]
      BY <2>3
    <3> QED
      BY <2>1, <2>3, <3>1
  <2> QED
    BY <2>1, <2>2, <2>3 DEF TypeOK
<1>8. CASE SendReadHost
  BY <1>8 DEF SendReadHost
<1>9. CASE SendtoAddress \/ SendtoRaises
  BY <1>9 DEF SendtoAddress, SendtoRaises
<1>10. CASE UNCHANGED vars
  BY <1>10 DEF vars
<1> QED
  BY <1>1, <1>2, <1>3, <1>4, <1>5, <1>6, <1>7, <1>8, <1>9, <1>10
     DEF Next, Receive, Expire, Send

\* The relay's clock shows no more time than has passed since a datagram.
ClockOK == age <= silence

(* Both clocks run together and a datagram sets back both.                  *)
LEMMA NextClockOK == TypeOK /\ ClockOK /\ [Next]_vars => ClockOK'
<1> SUFFICES ASSUME TypeOK, ClockOK, [Next]_vars PROVE ClockOK'
  OBVIOUS
<1> USE TimeoutAssumption DEF TypeOK, ClockOK
<1>1. CASE Tick
  BY <1>1 DEF Tick
<1>2. CASE Receive
  BY <1>2 DEF Receive, OnReceive, OnReceiveHost, OnReceivePort
<1>3. CASE Expire
  BY <1>3 DEF Expire, OnReceiveTimeout, OnReceiveTimeoutPort
<1>4. CASE Send
  BY <1>4 DEF Send, SendCheck, SendReadHost, SendtoAddress, SendtoRaises
<1>5. CASE UNCHANGED vars
  BY <1>5 DEF vars
<1> QED
  BY <1>1, <1>2, <1>3, <1>4, <1>5 DEF Next

(* Only the timeout forgets the host: a datagram, also one that is handled  *)
(* in several steps, replaces it by that of its sender, which is not None.  *)
LEMMA NextReset ==
  IInv /\ ClockOK /\ [Next]_vars =>
    [host # None /\ host' = None => silence > Timeout]_vars
<1> SUFFICES ASSUME TypeOK, PlaceOK, ClockOK, Next, host # None, host' = None
             PROVE  silence > Timeout
  BY DEF IInv
<1>1. host' # host
  OBVIOUS
<1>2. CASE OnReceiveHost
  <2>1. src[1] \in Hosts
    BY <1>2 DEF OnReceiveHost, PlaceOK, Addresses
  <2> QED
    BY <1>2, <2>1, NoneAssumption DEF OnReceiveHost
<1>3. CASE OnReceiveTimeout
  BY <1>3, TimeoutAssumption DEF OnReceiveTimeout, TypeOK, ClockOK
<1>4. CASE Tick \/ Send
  BY <1>1, <1>4 DEF Tick, Send, SendCheck, SendReadHost, SendtoAddress,
    SendtoRaises
<1>5. CASE (\E a \in Addresses : OnReceive(a)) \/ OnReceivePort
  BY <1>1, <1>5 DEF OnReceive, OnReceivePort
<1>6. CASE OnReceiveTimeoutPort
  BY <1>1, <1>6 DEF OnReceiveTimeoutPort
<1> QED
  BY <1>2, <1>3, <1>4, <1>5, <1>6 DEF Next, Receive, Expire

(* Where the IOLoop and send are, and the clocks, in every reachable state. *)
LEMMA Invariance == Spec => [](IInv /\ ClockOK)
<1>1. Init => ClockOK
  BY DEF Init, ClockOK
<1>2. IInv /\ [Next]_vars => IInv'
  BY NextTypeOK, NextPlaceOK, NextSendOK DEF IInv
<1>3. IInv /\ ClockOK /\ [Next]_vars => ClockOK'
  BY NextClockOK DEF IInv
<1> QED
  BY InitIInv, <1>1, <1>2, <1>3, PTL DEF Spec

(* The variables keep their types.                                          *)
THEOREM Typing == Spec => []TypeOK
BY Invariance, PTL DEF IInv

(* Between callbacks the address is whole: the source of one datagram.      *)
THEOREM AddressIsWhole == Spec => []AddressWhole
<1>1. IInv => AddressWhole
  BY DEF IInv, PlaceOK, AddressWhole
<1> QED
  BY Invariance, <1>1, PTL

(* send does not take the lock, and can therefore mix two addresses; but it *)
(* uses no half of an address that was given up before it began.            *)
THEOREM SendsUseSeenAddresses == Spec => []SendUsesSeenAddresses
<1>1. IInv => SendUsesSeenAddresses
  BY DEF IInv, SendOK, Sending, SendUsesSeenAddresses
<1> QED
  BY Invariance, <1>1, PTL

(* A plane that was heard from within the timeout stays reachable: however  *)
(* datagrams, the timer and calls of send interleave, its host is forgotten *)
(* only after a silence longer than the timeout of relay.cfg.               *)
THEOREM KeptWhileHeard == Spec => ResetOnlyAfterSilence
BY Invariance, NextReset, PTL DEF Spec, ResetOnlyAfterSilence
==============================================================================
