------------------------------- MODULE LteLink -------------------------------
(***************************************************************************)
(* LteInterface of relay.py.  The plane has no fixed address: the relay     *)
(* sends to where the last datagram came from, and forgets that address     *)
(* when nothing has been heard for Timeout seconds.                         *)
(*                                                                         *)
(* on_receive and __on_receive_timeout are callbacks of the tornado IOLoop  *)
(* and run one at a time.  send is called from the MQTT client thread and   *)
(* does not take the lock, so it can run between any two of their           *)
(* assignments; each step below is one access to __host_ip or __tx_port.    *)
(* Nothing but the IOLoop takes the lock, so it is always free when asked   *)
(* for and is not a variable here.                                          *)
(***************************************************************************)
EXTENDS Naturals

CONSTANTS
  Hosts, Ports,     \* addresses the plane can have
  None,             \* Python's None
  Timeout           \* the timeout of relay.cfg, in ticks of one second

ASSUME NoneAssumption == None \notin Hosts \cup Ports
ASSUME TimeoutAssumption == Timeout \in Nat

VARIABLES
  host,             \* __host_ip
  port,             \* __tx_port
  age,              \* time.time() - __receive_time, up to Timeout + 1
  ioloop,           \* place of the IOLoop: idle, rx_host, rx_port, reset_port
  src,              \* source_ip_port of the datagram being handled
  mqtt,             \* place of the MQTT thread: idle, read_host, sendto, dead
  dstHost,          \* the host send has read for its call of sendto
  last,             \* history: the address last learned and not reset
  seen,             \* history: addresses known, wholly or half, during this send
  silence           \* history: ticks since the last datagram

vars == <<host, port, age, ioloop, src, mqtt, dstHost, last, seen, silence>>

Addresses == Hosts \X Ports
NoAddress == <<None, None>>

(* host and port are None or those of some sender; the clock of the        *)
(* receive timeout runs to one past the timeout.                           *)
TypeOK ==
  /\ host \in Hosts \cup {None}
  /\ port \in Ports \cup {None}
  /\ age \in 0..(Timeout + 1)
  /\ ioloop \in {"idle", "rx_host", "rx_port", "reset_port"}
  /\ src \in Addresses \cup {NoAddress}
  /\ mqtt \in {"idle", "read_host", "sendto", "dead"}
  /\ dstHost \in Hosts \cup {None}
  /\ last \in Addresses \cup {NoAddress}
  /\ seen \subseteq Addresses \cup {NoAddress}
  /\ silence \in 0..(Timeout + 1)

Init ==
  /\ host = None
  /\ port = None
  /\ age = 0
  /\ ioloop = "idle"
  /\ src = NoAddress
  /\ mqtt = "idle"
  /\ dstHost = None
  /\ last = NoAddress
  /\ seen = {}
  /\ silence = 0

Sending == mqtt \in {"read_host", "sendto"}

\* The IOLoop begins to replace the address by a while a send is in progress.
NoteAddress(a) == seen' = IF Sending THEN seen \cup {a} ELSE seen

\* A second passes.
Tick ==
  /\ age' = IF age <= Timeout THEN age + 1 ELSE age
  /\ silence' = IF silence <= Timeout THEN silence + 1 ELSE silence
  /\ UNCHANGED <<host, port, ioloop, src, mqtt, dstHost, last, seen>>

------------------------------------------------------------------------------
(* The IOLoop                                                               *)

\* Mutant of OnReceive: the time is kept only while no host is known.
OnReceiveFirstTime(a) ==
  /\ ioloop = "idle"
  /\ src' = a
  /\ age' = IF host = None THEN 0 ELSE age
  /\ silence' = 0
  /\ ioloop' = "rx_host"
  /\ UNCHANGED <<host, port, mqtt, dstHost, last, seen>>

\* on_receive: take the datagram and note the time.
OnReceive(a) ==
  /\ ioloop = "idle"
  /\ src' = a
  /\ age' = 0
  /\ silence' = 0
  /\ ioloop' = "rx_host"
  /\ UNCHANGED <<host, port, mqtt, dstHost, last, seen>>

\* on_receive: self.__host_ip = source_ip_port[0].
OnReceiveHost ==
  /\ ioloop = "rx_host"
  /\ host' = src[1]
  /\ ioloop' = "rx_port"
  /\ NoteAddress(src)
  /\ UNCHANGED <<port, age, src, mqtt, dstHost, last, silence>>

\* Mutants of OnReceivePort: the host is stored as the port; the port is
\* learned once.
OnReceivePortSwapped ==
  /\ ioloop = "rx_port"
  /\ port' = src[1]
  /\ last' = src
  /\ src' = NoAddress
  /\ ioloop' = "idle"
  /\ UNCHANGED <<host, age, mqtt, dstHost, seen, silence>>

OnReceivePortOnce ==
  /\ ioloop = "rx_port"
  /\ port' = IF port = None THEN src[2] ELSE port
  /\ last' = src
  /\ src' = NoAddress
  /\ ioloop' = "idle"
  /\ UNCHANGED <<host, age, mqtt, dstHost, seen, silence>>

\* on_receive: self.__tx_port = source_ip_port[1], then the data is published.
OnReceivePort ==
  /\ ioloop = "rx_port"
  /\ port' = src[2]
  /\ last' = src
  /\ src' = NoAddress
  /\ ioloop' = "idle"
  /\ UNCHANGED <<host, age, mqtt, dstHost, seen, silence>>

\* __on_receive_timeout, called every second: self.__host_ip = None.
OnReceiveTimeout ==
  /\ ioloop = "idle"
  /\ age > Timeout
  /\ host # None
  /\ host' = None
  /\ ioloop' = "reset_port"
  /\ NoteAddress(NoAddress)
  /\ UNCHANGED <<port, age, src, mqtt, dstHost, last, silence>>

\* Mutant of OnReceiveTimeoutPort: only the host is reset.
OnReceiveTimeoutKeepsPort ==
  /\ ioloop = "reset_port"
  /\ last' = NoAddress
  /\ ioloop' = "idle"
  /\ UNCHANGED <<host, port, age, src, mqtt, dstHost, seen, silence>>

\* __on_receive_timeout: self.__tx_port = None.
OnReceiveTimeoutPort ==
  /\ ioloop = "reset_port"
  /\ port' = None
  /\ last' = NoAddress
  /\ ioloop' = "idle"
  /\ UNCHANGED <<host, age, src, mqtt, dstHost, seen, silence>>

------------------------------------------------------------------------------
(* The MQTT client thread: send                                             *)

\* The test of __host_ip.  Without a host the message is dropped with a warning
\* and nothing changes.  The history starts with the address in force and, if the
\* IOLoop is between lines 59 and 60, the one of which only the host is set.
SendCheck ==
  /\ mqtt = "idle"
  /\ host # None
  /\ mqtt' = "read_host"
  /\ seen' = {last} \cup (IF ioloop = "rx_port" THEN {src} ELSE {})
  /\ UNCHANGED <<host, port, age, ioloop, src, dstHost, last, silence>>

\* The first element of the address tuple.
SendReadHost ==
  /\ mqtt = "read_host"
  /\ dstHost' = host
  /\ mqtt' = "sendto"
  /\ UNCHANGED <<host, port, age, ioloop, src, last, seen, silence>>

\* The second element, and the datagram leaves for that address.
SendtoAddress ==
  /\ mqtt = "sendto"
  /\ dstHost # None /\ port # None
  /\ mqtt' = "idle"
  /\ dstHost' = None
  /\ seen' = {}
  /\ UNCHANGED <<host, port, age, ioloop, src, last, silence>>

\* sendto raises TypeError for None.  No handler of relay.py is on the stack:
\* whether the client thread survives depends on the version of paho.
SendtoRaises ==
  /\ mqtt = "sendto"
  /\ dstHost = None \/ port = None
  /\ mqtt' \in {"idle", "dead"}
  /\ dstHost' = None
  /\ seen' = {}
  /\ UNCHANGED <<host, port, age, ioloop, src, last, silence>>

------------------------------------------------------------------------------
Receive == (\E a \in Addresses : OnReceive(a)) \/ OnReceiveHost \/ OnReceivePort
Expire == OnReceiveTimeout \/ OnReceiveTimeoutPort
Send == SendCheck \/ SendReadHost \/ SendtoAddress \/ SendtoRaises

Next == Tick \/ Receive \/ Expire \/ Send

Spec == Init /\ [][Next]_vars

\* The IOLoop finishes a callback it has entered and calls the timeout every
\* second; the clock runs.  Strong fairness for the timeout: a busy socket can
\* be served first each time, but not for ever.
FairSpec ==
  /\ Spec
  /\ WF_vars(Tick)
  /\ WF_vars(OnReceiveHost \/ OnReceivePort \/ OnReceiveTimeoutPort)
  /\ SF_vars(OnReceiveTimeout)

------------------------------------------------------------------------------
(* Properties                                                               *)

(* Host and port are written one after the other; between callbacks they    *)
(* are the two halves of one source address, or both None (relay.py:37,59). *)
AddressWhole == ioloop = "idle" => <<host, port>> = last

(* What an unlocked send can use: its host and its port are each that of an  *)
(* address in force, or being set, at some moment since the test of line 65. *)
(* So a send goes to the address the plane was last heard from if no other   *)
(* comes or goes meanwhile; if one does, host and port can be of different   *)
(* datagrams, and one of them None, but never older than the send.           *)
SendUsesSeenAddresses ==
  mqtt = "sendto" =>
    /\ \E a \in seen : dstHost = a[1]
    /\ \E a \in seen : port = a[2]

(* relay.cfg: "If no messages are received during this timespan the host ip *)
(* and port of the plane are reset", and only then: a plane heard from      *)
(* within the timeout stays reachable.                                      *)
ResetOnlyAfterSilence ==
  [][host # None /\ host' = None => silence > Timeout]_vars

(* The same comment read forwards: silence ends in a reset.                 *)
SilenceResets ==
  (silence > Timeout) ~> (<<host, port>> = NoAddress \/ silence <= Timeout)

(* What the test of relay.py:65 and the warning of line 69, "No IP port      *)
(* available, unable to send over UDP", say of send: it never calls sendto   *)
(* without an address.  But the test looks at the host alone, which the      *)
(* first datagram sets before the port (lines 59 and 60); a reset between    *)
(* the test and the call (lines 37 and 38) leads to the same.                *)
SendHasAddress == [][SendtoRaises => FALSE]_vars

\* The inductive strengthening of AddressWhole and SendUsesSeenAddresses: where
\* the IOLoop is in its pair of assignments, and what send can still read.
PlaceOK ==
  /\ ioloop \in {"rx_host", "idle"} => <<host, port>> = last
  /\ ioloop \in {"rx_host", "rx_port"} => src \in Addresses
  /\ ioloop = "rx_port" => host = src[1] /\ port = last[2]
  /\ ioloop = "reset_port" => host = None

SendOK ==
  Sending =>
    /\ \E a \in seen : host = a[1]
    /\ \E a \in seen : port = a[2]
    /\ ioloop = "rx_port" => src \in seen
    /\ ioloop = "reset_port" => NoAddress \in seen
    /\ mqtt = "sendto" => \E a \in seen : dstHost = a[1]

IInv == TypeOK /\ PlaceOK /\ SendOK
==============================================================================
