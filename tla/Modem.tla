-------------------------------- MODULE Modem --------------------------------
(***************************************************************************)
(* IridiumSimulator of simulator.py, the stand-in for the Iridium 9602       *)
(* modem and the gateway behind it.  The autopilot (the host) drives it over *)
(* a serial line with AT commands; the relay posts mobile-terminated (MT)    *)
(* messages to it over HTTP, which it queues and announces with SBDRING; a   *)
(* session (SBDIX, SBDIXA) posts the mobile-originated (MO) buffer to the    *)
(* relay and takes one message from the queue.                               *)
(*                                                                           *)
(* Everything runs on one IOLoop, so a step is a callback, or one character  *)
(* of on_serial_receive: how the line cuts the stream into reads does not    *)
(* matter.  The host is not modelled: any command, in any state, at any time *)
(* may come, whole or glued to another, and any byte during a write.         *)
(***************************************************************************)
EXTENDS Integers, Sequences

CONSTANTS
  Messages,       \* MT messages
  Heavy,          \* those whose bytes add up to more than a 2-byte checksum
  None,           \* an empty mt_buffer
  WriteLengths,   \* arguments of AT+SBDWB that int() accepts
  SessionResults, \* TRUE: good signal; {TRUE} with fraction_good_signal = 1
  MaxArrivals,    \* bound: MT messages posted to the simulator
  MaxWritten,     \* bound: bytes taken by a write that does not end
  MaxUnplugs      \* bound: times the serial device disappears

ASSUME ModemAssumption ==
  /\ Heavy \subseteq Messages
  /\ None \notin Messages
  /\ WriteLengths \subseteq Int
  /\ SessionResults \subseteq BOOLEAN
  /\ MaxArrivals \in Nat /\ MaxWritten \in Nat /\ MaxUnplugs \in Nat

VARIABLES
  state,          \* idle, command or writing_mo (ATstate.session is never set)
  command_buffer, \* the text of the command line so far
  mo_buffer,      \* its length and what it holds
  mo_length,
  mt_buffer,
  mt_queue,
  ring_pending,
  ring_message_pending,
  timers,         \* number of call_later(1, ring) under way
  open,           \* the serial port is open
  unplugs,
  out,            \* what the last step wrote to the serial line
  noticed,        \* history: the host was told that there are messages
  missed,         \* history: the ring now pending met a closed port
  stuck,          \* history: the last command line was answered 3 or raised
  raised,         \* history: ring() ended in an exception, no timer since
  arrived,        \* history: MT messages in the order they were posted
  taken           \* history: MT messages in the order sessions took them

sessionVars == <<mt_buffer, mt_queue, taken>>
ringVars == <<ring_pending, timers, raised>>
pendingVars == <<ring_message_pending, missed, noticed>>
lineVars == <<state, command_buffer, mo_buffer, mo_length, stuck>>
portVars == <<open, unplugs>>
vars == <<lineVars, pendingVars, sessionVars, ringVars, portVars, out, arrived>>

------------------------------------------------------------------------------
(* Command lines.  A text is a command name and the argument of AT+SBDWB.    *)

Text(cmd) == [cmd |-> cmd, length |-> 0]
NoText == Text("")
Junk == Text("junk")
BadWrite == Text("AT+SBDWB=?")
Write(n) == [cmd |-> "AT+SBDWB", length |-> n]

Commands ==
  {Text(c) : c \in {"AT", "AT&K0", "ATE0", "AT+CSQ", "AT+SBDD0", "AT+SBDIX",
                    "AT+SBDIXA", "AT+SBDRB", "junk", "AT+SBDWB=?"}}
  \cup {Write(n) : n \in WriteLengths}

\* Text that follows other text on one line: AT+SBDWB= is recognised by its
\* first nine characters, everything else only as a whole.
Glue(old, new) ==
  IF old = NoText THEN new
  ELSE IF old.cmd \in {"AT+SBDWB", "AT+SBDWB=?"} THEN BadWrite
  ELSE Junk

\* mo_buffer: nothing, a message being written, a message whose checksum was
\* right, or one whose checksum was wrong with the two checksum bytes.
MoBuffer(len, holds) == [len |-> len, holds |-> holds]
NoMo == MoBuffer(0, "nothing")

\* What the simulator writes to the line; the bodies of lines are left out.
Answers == {"OK", "READY", "SBDRING", "0", "2", "3", "+CSQ", "+SBDIX:0",
            "+SBDIX:32", "(message)", "(post)"}

(* Every variable holds a value of its kind: the length of a write is always *)
(* one that int() accepted, the text at hand one that the host can type, and *)
(* only lines of Answers reach the host.                                     *)
TypeOK ==
  /\ state \in {"idle", "command", "writing_mo"}
  /\ command_buffer \in Commands \cup {NoText}
  /\ mo_buffer \in [len : Nat,
                    holds : {"nothing", "part", "message", "corrupt"}]
  /\ mo_length \in WriteLengths \cup {0}
  /\ mt_buffer \in Messages \cup {None}
  /\ mt_queue \in Seq(Messages)
  /\ ring_pending \in BOOLEAN
  /\ ring_message_pending \in BOOLEAN
  /\ timers \in Nat
  /\ open \in BOOLEAN
  /\ unplugs \in 0..MaxUnplugs
  /\ out \in Seq(Answers)
  /\ noticed \in BOOLEAN
  /\ missed \in BOOLEAN
  /\ stuck \in BOOLEAN
  /\ raised \in BOOLEAN
  /\ arrived \in Seq(Messages)
  /\ taken \in Seq(Messages)

Init ==
  /\ state = "idle"
  /\ command_buffer = NoText
  /\ mo_buffer = NoMo
  /\ mo_length = 0
  /\ mt_buffer = None
  /\ mt_queue = <<>>
  /\ ring_pending = FALSE
  /\ ring_message_pending = FALSE
  /\ timers = 0
  /\ open \in BOOLEAN      \* the device may be missing at the start
  /\ unplugs = 0
  /\ out = <<>>
  /\ noticed = FALSE
  /\ missed = FALSE
  /\ stuck = FALSE
  /\ raised = FALSE
  /\ arrived = <<>>
  /\ taken = <<>>

------------------------------------------------------------------------------
(* Ringing                                                                   *)

\* The history noticed, where SBDRING may have been written.
NoteRing ==
  noticed' = /\ mt_queue' # <<>>
             /\ noticed \/ \E i \in DOMAIN out' : out'[i] = "SBDRING"

\* Mutant of ReturnToIdle: the state is assigned and changeState not called.
ReturnToIdleSilently(text) ==
  /\ state' = "idle"
  /\ out' = text
  /\ stuck' = FALSE
  /\ UNCHANGED <<ring_message_pending, missed>>

\* changeState(idle), after text has been sent: a ring held back is sent now.
ReturnToIdle(text) ==
  /\ state' = "idle"
  /\ out' = IF ring_message_pending THEN Append(text, "SBDRING") ELSE text
  /\ ring_message_pending' = FALSE
  /\ missed' = FALSE
  /\ stuck' = FALSE

\* Mutant of SendRing: a ring is sent in the middle of a write.
SendRingAnytime ==
  /\ out' = IF state # "command" THEN <<"SBDRING">> ELSE <<>>
  /\ ring_message_pending' = (state = "command")
  /\ missed' = FALSE

\* send_ring on an open port: a ring waits while a command is under way.
SendRing ==
  /\ out' = IF state = "idle" THEN <<"SBDRING">> ELSE <<>>
  /\ ring_message_pending' = (state # "idle")
  /\ missed' = FALSE

\* Mutants of Rearm: the old timeout is not removed; the ring is sent once.
RearmAgain(left) == timers' = left + 1 /\ raised' = FALSE
RearmNever(left) == timers' = left /\ raised' = FALSE

\* The end of ring(): the old timeout, if it is still under way, is replaced.
Rearm(left) == timers' = 1 /\ raised' = FALSE

\* Mutant of Ring: send_ring marks the ring as sent before it is written.
RingForgotten(left) ==
  \/ /\ open \/ state # "idle"
     /\ SendRing
     /\ Rearm(left)
  \/ /\ ~open /\ state = "idle"
     /\ ring_message_pending' = FALSE
     /\ missed' = TRUE
     /\ out' = <<>>
     /\ timers' = left
     /\ raised' = (left = 0)

\* ring() with left timers under way.  A write to a closed port raises (None
\* has no write): the ring stays pending and no new timeout is set.
Ring(left) ==
  \/ /\ open \/ state # "idle"
     /\ SendRing
     /\ Rearm(left)
  \/ /\ ~open /\ state = "idle"
     /\ ring_message_pending' = TRUE
     /\ missed' = TRUE
     /\ out' = <<>>
     /\ timers' = left
     /\ raised' = (left = 0)

\* The timeout set by ring() fires.
RingTimeout ==
  /\ timers > 0
  /\ Ring(timers - 1)
  /\ UNCHANGED <<lineVars, sessionVars, ring_pending, portVars, arrived>>
  /\ NoteRing

\* on_web_receive: queue the message and ring.
OnWebReceive(m) ==
  /\ Len(arrived) < MaxArrivals
  /\ arrived' = Append(arrived, m)
  /\ mt_queue' = Append(mt_queue, m)
  /\ ring_pending' = TRUE
  /\ Ring(timers)
  /\ UNCHANGED <<lineVars, mt_buffer, taken, portVars>>
  /\ NoteRing

------------------------------------------------------------------------------
(* The serial line: text of a command, and its bytes during a write          *)

OnText(text) ==
  /\ open /\ state # "writing_mo"
  /\ command_buffer' = Glue(command_buffer, text)
  /\ out' = <<>>
  /\ UNCHANGED <<state, mo_buffer, mo_length, stuck, pendingVars, sessionVars,
                 ringVars, portVars, arrived>>

\* on_serial_receive during a write, before the last byte.  A negative length
\* has no last byte.
OnByte ==
  /\ open /\ state = "writing_mo"
  /\ mo_buffer.len < MaxWritten
  /\ mo_buffer.len + 1 # mo_length + 2 \/ mo_length < 0
  /\ mo_buffer' = MoBuffer(mo_buffer.len + 1, "part")
  /\ out' = <<>>
  /\ UNCHANGED <<state, command_buffer, mo_length, stuck, pendingVars,
                 sessionVars, ringVars, portVars, arrived>>

\* The last byte: the checksum is right, or it is wrong and everything that
\* was written stays in the buffer.
OnLastByte ==
  /\ open /\ state = "writing_mo"
  /\ mo_length >= 0 /\ mo_buffer.len + 1 = mo_length + 2
  /\ \/ /\ mo_buffer' = IF mo_length = 0 THEN NoMo
                         ELSE MoBuffer(mo_length, "message")
        /\ ReturnToIdle(<<"0", "OK">>)
     \/ /\ mo_buffer' = MoBuffer(mo_length + 2, "corrupt")
        /\ ReturnToIdle(<<"2", "OK">>)
  /\ UNCHANGED <<command_buffer, mo_length, sessionVars, ringVars, portVars,
                 arrived>>
  /\ NoteRing

------------------------------------------------------------------------------
(* on_command, at the end of a line                                          *)

\* on_command(command_buffer) for one of cmds; the line starts anew.
CommandLine(cmds) ==
  /\ open /\ state # "writing_mo"
  /\ command_buffer.cmd \in cmds
  /\ command_buffer' = NoText
  /\ UNCHANGED <<portVars, arrived>>

\* AT, AT&K0, ATE0 and AT+CSQ only answer; anything unknown is not answered.
AtAnswer ==
  /\ \/ CommandLine({"AT", "AT&K0", "ATE0"}) /\ ReturnToIdle(<<"OK">>)
     \/ CommandLine({"AT+CSQ"}) /\ ReturnToIdle(<<"+CSQ", "OK">>)
     \/ CommandLine({"junk", ""}) /\ ReturnToIdle(<<>>)
  /\ UNCHANGED <<mo_buffer, mo_length, sessionVars, ringVars>>
  /\ NoteRing

AtSbdd0 ==
  /\ CommandLine({"AT+SBDD0"})
  /\ mo_buffer' = NoMo
  /\ ReturnToIdle(<<"0", "OK">>)
  /\ UNCHANGED <<mo_length, sessionVars, ringVars>>
  /\ NoteRing

\* Mutant of SessionTakes: pop() takes the newest message.
SessionTakesNewest ==
  IF mt_queue = <<>>
    THEN mt_buffer' = None /\ UNCHANGED <<mt_queue, taken>>
    ELSE /\ mt_buffer' = mt_queue[Len(mt_queue)]
         /\ mt_queue' = SubSeq(mt_queue, 1, Len(mt_queue) - 1)
         /\ taken' = Append(taken, mt_queue[Len(mt_queue)])

\* A good session moves the oldest MT message into the buffer, or clears it.
SessionTakes ==
  IF mt_queue = <<>>
    THEN mt_buffer' = None /\ UNCHANGED <<mt_queue, taken>>
    ELSE /\ mt_buffer' = Head(mt_queue)
         /\ mt_queue' = Tail(mt_queue)
         /\ taken' = Append(taken, Head(mt_queue))

\* at_sbdix.  The MO buffer is posted to the relay if it holds anything; the
\* outcome of that post is not looked at, and the buffer is kept.  The answer
\* tells how many messages are left in the queue.
Session ==
  /\ \E good \in SessionResults :
       /\ IF good THEN SessionTakes ELSE UNCHANGED <<mt_buffer, mt_queue, taken>>
       /\ ReturnToIdle((IF good /\ mo_buffer # NoMo THEN <<"(post)">> ELSE <<>>)
                       \o <<IF good THEN "+SBDIX:0" ELSE "+SBDIX:32", "OK">>)
  /\ noticed' = (mt_queue' # <<>>)
  /\ UNCHANGED <<mo_buffer, mo_length>>

AtSbdix ==
  /\ CommandLine({"AT+SBDIX"})
  /\ Session
  /\ UNCHANGED ringVars

\* Mutant of AtSbdixa: a timeout is removed without the test that there is one.
AtSbdixaUnchecked ==
  /\ CommandLine({"AT+SBDIXA"})
  /\ ring_pending' = FALSE
  /\ timers' = timers - 1
  /\ raised' = FALSE
  /\ Session

\* at_sbdixa: ring_off, then the same session.
AtSbdixa ==
  /\ CommandLine({"AT+SBDIXA"})
  /\ ring_pending' = FALSE
  /\ timers' = 0
  /\ raised' = FALSE
  /\ Session

\* at_sbdwb with a length that is an integer, whatever its value.
AtSbdwb ==
  /\ CommandLine({"AT+SBDWB"})
  /\ mo_length' = command_buffer.length
  /\ mo_buffer' = NoMo
  /\ state' = "writing_mo"
  /\ out' = <<"READY">>
  /\ stuck' = FALSE
  /\ UNCHANGED <<pendingVars, sessionVars, ringVars>>

\* at_sbdwb with anything else: the answer is 3 and the state stays command.
AtSbdwbFails ==
  /\ CommandLine({"AT+SBDWB=?"})
  /\ state' = "command"
  /\ out' = <<"3">>
  /\ stuck' = TRUE
  /\ UNCHANGED <<mo_buffer, mo_length, pendingVars, sessionVars, ringVars>>

AtSbdrb ==
  /\ mt_buffer \notin Heavy
  /\ CommandLine({"AT+SBDRB"})
  /\ ReturnToIdle(<<"(message)", "OK">>)
  /\ UNCHANGED <<mo_buffer, mo_length, sessionVars, ringVars>>
  /\ NoteRing

\* chr() of a checksum that needs more than two bytes raises: no answer, the
\* state stays command, and the command line is not cleared.
AtSbdrbRaises ==
  /\ open /\ state # "writing_mo"
  /\ command_buffer.cmd = "AT+SBDRB"
  /\ mt_buffer \in Heavy
  /\ state' = "command"
  /\ out' = <<>>
  /\ stuck' = TRUE
  /\ UNCHANGED <<command_buffer, mo_buffer, mo_length, pendingVars, sessionVars,
                 ringVars, portVars, arrived>>

------------------------------------------------------------------------------
(* SerialInterface                                                           *)

\* Reading fails: the port is closed and opened again a second later.  The
\* command line and a write in progress survive that.
Unplug ==
  /\ open
  /\ unplugs < MaxUnplugs
  /\ unplugs' = unplugs + 1
  /\ open' = FALSE
  /\ out' = <<>>
  /\ UNCHANGED <<lineVars, pendingVars, sessionVars, ringVars, arrived>>

Reopen ==
  /\ ~open
  /\ open' = TRUE
  /\ out' = <<>>
  /\ UNCHANGED <<unplugs, lineVars, pendingVars, sessionVars, ringVars, arrived>>

------------------------------------------------------------------------------
OnCommand ==
  \/ AtAnswer \/ AtSbdd0 \/ AtSbdix \/ AtSbdixa \/ AtSbdwb \/ AtSbdwbFails
  \/ AtSbdrb \/ AtSbdrbRaises

Next ==
  \/ RingTimeout
  \/ \E m \in Messages : OnWebReceive(m)
  \/ \E text \in Commands : OnText(text)
  \/ OnByte \/ OnLastByte
  \/ OnCommand
  \/ Unplug \/ Reopen

Spec == Init /\ [][Next]_vars

\* The IOLoop fires timeouts that are due and tries to open the port again.
\* Nothing is assumed of the host, the relay or the device.
FairSpec == Spec /\ WF_vars(RingTimeout) /\ WF_vars(Reopen)

------------------------------------------------------------------------------
(* Properties                                                                *)

(* A ring is held back during a binary write.  It must not be at any other   *)
(* time, and it is in three cases the code does not provide for: after       *)
(* AT+SBDWB was answered 3 and after AT+SBDRB raised, since both leave the   *)
(* state at command with nothing under way until the host speaks again       *)
(* (simulator.py:240 and 254), and after send_ring met a closed port.  All   *)
(* other ways in which commands and writes end give the ring out at once.    *)
RingDeferred == ring_message_pending => state = "writing_mo" \/ stuck \/ missed

(* Nothing is written into the middle of a binary write: between READY and   *)
(* the verdict on the last byte the line is silent.                          *)
QuietDuringWrite ==
  [][state = "writing_mo" /\ state' = "writing_mo" => out' = <<>>]_vars

(* While messages wait, the host has had an SBDRING or the count of a        *)
(* session that says so, or one SBDRING is still to come when the modem      *)
(* returns to idle.  SBDIXA turns the ring off however many wait, and ring() *)
(* ends in an exception when the port is closed, after which no timeout      *)
(* repeats it: the pending SBDRING is then all there is.                     *)
NoSilentBacklog == mt_queue # <<>> => noticed \/ ring_message_pending

(* While the ring is on exactly one timeout is under way to repeat it, and   *)
(* none when it is off, unless ringing has failed on a closed port.          *)
OneRingTimer == timers = IF ring_pending /\ ~raised THEN 1 ELSE 0

(* A pending ring is repeated until SBDIXA turns it off, the modem is busy   *)
(* or the port is closed.                                                    *)
RingRepeats ==
  (ring_pending /\ ~raised) ~>
    (~ring_pending \/ state # "idle" \/ ~open \/ out = <<"SBDRING">>)

(* Sessions hand the messages over in the order they came, none twice and    *)
(* none lost, whatever ringing, commands and failed sessions come between.   *)
MtInOrder == arrived = taken \o mt_queue

OD == INSTANCE OrderedDelivery WITH
  Volatile <- FALSE, sent <- arrived, got <- taken

(* From on_web_receive to at_sbdix the simulator is a queue, whatever else   *)
(* the host and the port do: a post adds one message at the end, a session   *)
(* takes the oldest that is left, and no other callback does either.         *)
ImplementsOrderedDelivery == OD!Spec
==============================================================================
