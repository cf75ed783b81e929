----------------------------- MODULE Modem_proofs -----------------------------
(***********************************************************************)
(* Proofs about Modem, for any messages, lengths of writes and bounds. *)
(* Most of its invariants are inductive by themselves, since the       *)
(* actions that disturb one go through a single operation:             *)
(* OneRingTimer through Ring and ring_off, RingDeferred and            *)
(* NoSilentBacklog through Ring and ReturnToIdle; RingDeferred needs   *)
(* that only a stuck command outlives its callback.  MtInOrder needs   *)
(* that the queue holds messages, and the type of the variables        *)
(* follows part by part: the                                           *)
(* command line and mo_length for the write, mo_length for mo_buffer,  *)
(* the queue for mt_buffer.                                            *)
(***********************************************************************)
EXTENDS Modem, TLAPS

(* No ring is on and no timeout under way when the simulator starts.   *)
LEMMA InitOneRingTimer == Init => OneRingTimer
BY DEF Init, OneRingTimer

(* Timers are whole numbers by OneRingTimer itself.                          *)
(* A ring replaces the timeout that is left, whether it is repeated or *)
(* started by a message in between; ring_off leaves none; nothing else *)
(* has to do with timeouts.                                            *)
LEMMA NextOneRingTimer == OneRingTimer /\ [Next]_vars => OneRingTimer'
<1> SUFFICES ASSUME OneRingTimer, [Next]_vars PROVE OneRingTimer'
  OBVIOUS
<1>1. timers \in {0, 1}
  BY DEF OneRingTimer
<1>2. CASE RingTimeout
  <2>1. ring_pending /\ timers = 1 /\ UNCHANGED ring_pending
    BY <1>1, <1>2 DEF RingTimeout, OneRingTimer
  <2>2. Ring(0)
    BY <1>2, <2>1 DEF RingTimeout
  <2> QED
    BY <2>1, <2>2 DEF Ring, Rearm, OneRingTimer
<1>3. ASSUME NEW m \in Messages, OnWebReceive(m) PROVE OneRingTimer'
  <2>1. ring_pending' = TRUE /\ Ring(timers)
    BY <1>3 DEF OnWebReceive
  <2> QED
    BY <1>1, <2>1 DEF Ring, Rearm, OneRingTimer
<1>4. CASE AtSbdixa
  BY <1>4 DEF AtSbdixa, OneRingTimer
<1>5. CASE UNCHANGED ringVars
  BY <1>5 DEF ringVars, OneRingTimer
<1>6. CASE OnByte \/ OnLastByte \/ Unplug \/ Reopen \/ UNCHANGED vars
  BY <1>5, <1>6 DEF OnByte, OnLastByte, Unplug, Reopen, vars
<1>7. ASSUME NEW text \in Commands, OnText(text) PROVE OneRingTimer'
  BY <1>5, <1>7 DEF OnText
<1>8. CASE OnCommand
  BY <1>4, <1>5, <1>8 DEF OnCommand, AtAnswer, AtSbdd0, AtSbdix, AtSbdwb,
    AtSbdwbFails, AtSbdrb, AtSbdrbRaises
<1> QED
  BY <1>2, <1>3, <1>6, <1>7, <1>8 DEF Next

(* The state is command between two callbacks only if the last command *)
(* got stuck: every other one ends within its callback.                *)
StateOK ==
  /\ state \in {"idle", "command", "writing_mo"}
  /\ state = "command" => stuck

(* Every way back to idle sends the ring that was held back; a ring on *)
(* an open port is held back only when the modem is not idle.          *)
LEMMA NextRingDeferred ==
  StateOK /\ RingDeferred /\ [Next]_vars => StateOK' /\ RingDeferred'
<1> SUFFICES ASSUME StateOK, RingDeferred, [Next]_vars PROVE StateOK' /\ RingDeferred'
  OBVIOUS
<1>1. ASSUME NEW left, Ring(left), UNCHANGED lineVars PROVE StateOK' /\ RingDeferred'
  BY <1>1 DEF Ring, SendRing, RingDeferred, StateOK, lineVars
<1>2. ASSUME NEW text, ReturnToIdle(text) PROVE StateOK' /\ RingDeferred'
  BY <1>2 DEF ReturnToIdle, RingDeferred, StateOK
<1>3. CASE RingTimeout
  BY <1>1, <1>3 DEF RingTimeout
<1>4. ASSUME NEW m \in Messages, OnWebReceive(m) PROVE StateOK' /\ RingDeferred'
  BY <1>1, <1>4 DEF OnWebReceive
<1>5. CASE UNCHANGED <<state, stuck, ring_message_pending, missed>>
  BY <1>5 DEF RingDeferred, StateOK
<1>6. CASE OnByte \/ Unplug \/ Reopen \/ UNCHANGED vars
  BY <1>5, <1>6 DEF OnByte, Unplug, Reopen, vars, lineVars, pendingVars
<1>7. ASSUME NEW text \in Commands, OnText(text) PROVE StateOK' /\ RingDeferred'
  BY <1>5, <1>7 DEF OnText, pendingVars
<1>8. CASE OnLastByte \/ AtAnswer \/ AtSbdd0 \/ AtSbdix \/ AtSbdixa \/ AtSbdrb
  BY <1>2, <1>8 DEF OnLastByte, AtAnswer, AtSbdd0, AtSbdix, AtSbdixa, AtSbdrb, Session
<1>9. CASE AtSbdwb \/ AtSbdwbFails \/ AtSbdrbRaises
  BY <1>9 DEF AtSbdwb, AtSbdwbFails, AtSbdrbRaises, RingDeferred, StateOK
<1> QED
  BY <1>3, <1>4, <1>6, <1>7, <1>8, <1>9 DEF Next, OnCommand

(* The queue and the two histories of it are sequences of messages.    *)
QueueOK ==
  /\ mt_queue \in Seq(Messages)
  /\ arrived \in Seq(Messages)
  /\ taken \in Seq(Messages)

(* A message is added at the end when it is posted and leaves from the *)
(* front in a session that has good signal; nothing else touches the   *)
(* queue.                                                              *)
LEMMA NextMtInOrder == QueueOK /\ MtInOrder /\ [Next]_vars => QueueOK' /\ MtInOrder'
<1> SUFFICES ASSUME QueueOK, MtInOrder, [Next]_vars PROVE QueueOK' /\ MtInOrder'
  OBVIOUS
<1>1. CASE UNCHANGED <<mt_queue, arrived, taken>>
  BY <1>1 DEF QueueOK, MtInOrder
<1>2. CASE SessionTakes /\ UNCHANGED arrived
  <2>1. CASE mt_queue = <<>>
    BY <1>1, <1>2, <2>1 DEF SessionTakes
  <2>2. CASE mt_queue # <<>>
    <3>1. /\ mt_queue' = Tail(mt_queue)
          /\ taken' = Append(taken, Head(mt_queue))
      BY <1>2, <2>2 DEF SessionTakes
    <3>2. /\ Head(mt_queue) \in Messages
          /\ Tail(mt_queue) \in Seq(Messages)
      BY <2>2 DEF QueueOK
    <3>3. QueueOK'
      BY <1>2, <3>1, <3>2 DEF QueueOK
    <3>4. Append(taken, Head(mt_queue)) \o Tail(mt_queue) = taken \o mt_queue
      BY <2>2, <3>2 DEF QueueOK
    <3> QED
      BY <1>2, <3>1, <3>3, <3>4 DEF MtInOrder
  <2> QED
    BY <2>1, <2>2
<1>3. ASSUME NEW m \in Messages, OnWebReceive(m) PROVE QueueOK' /\ MtInOrder'
  <2>1. /\ arrived' = Append(arrived, m)
        /\ mt_queue' = Append(mt_queue, m)
        /\ taken' = taken
    BY <1>3 DEF OnWebReceive
  <2>2. QueueOK'
    BY <2>1 DEF QueueOK
  <2>3. taken \o Append(mt_queue, m) = Append(taken \o mt_queue, m)
    BY DEF QueueOK
  <2> QED
    BY <2>1, <2>2, <2>3 DEF MtInOrder
<1>4. CASE AtSbdix \/ AtSbdixa
  BY <1>1, <1>2, <1>4 DEF AtSbdix, AtSbdixa, Session, CommandLine
<1>5. CASE RingTimeout \/ OnByte \/ OnLastByte \/ Unplug \/ Reopen \/ UNCHANGED vars
  BY <1>1, <1>5 DEF RingTimeout, OnByte, OnLastByte, Unplug, Reopen, vars, sessionVars
<1>6. ASSUME NEW text \in Commands, OnText(text) PROVE QueueOK' /\ MtInOrder'
  BY <1>1, <1>6 DEF OnText, sessionVars
<1>7. CASE OnCommand
  BY <1>1, <1>4, <1>7 DEF OnCommand, AtAnswer, AtSbdd0, AtSbdwb, AtSbdwbFails,
    AtSbdrb, AtSbdrbRaises, sessionVars, CommandLine
<1> QED
  BY <1>3, <1>5, <1>6, <1>7 DEF Next

(* A ring is written, which the host notices, or stays pending; a way  *)
(* back to idle writes what is pending; a session tells how many       *)
(* messages are left.                                                  *)
LEMMA NextNoSilentBacklog == NoSilentBacklog /\ [Next]_vars => NoSilentBacklog'
<1> SUFFICES ASSUME NoSilentBacklog, [Next]_vars PROVE NoSilentBacklog'
  OBVIOUS
<1>1. CASE UNCHANGED <<mt_queue, noticed, ring_message_pending>>
  BY <1>1 DEF NoSilentBacklog
<1>2. ASSUME NEW left, Ring(left), NoteRing PROVE NoSilentBacklog'
  <2>1. CASE out' = <<"SBDRING">>
    <3>1. 1 \in DOMAIN out' /\ out'[1] = "SBDRING"
      BY <2>1
    <3> QED
      BY <1>2, <3>1 DEF NoteRing, NoSilentBacklog
  <2>2. CASE ring_message_pending'
    BY <2>2 DEF NoSilentBacklog
  <2> QED
    BY <1>2, <2>1, <2>2 DEF Ring, SendRing
<1>3. ASSUME NEW text \in Seq(Answers), ReturnToIdle(text), NoteRing, UNCHANGED mt_queue
      PROVE  NoSilentBacklog'
  <2>1. CASE ring_message_pending
    <3>1. out' = Append(text, "SBDRING")
      BY <1>3, <2>1 DEF ReturnToIdle
    <3>2. Len(text) + 1 \in DOMAIN out' /\ out'[Len(text) + 1] = "SBDRING"
      BY <3>1
    <3> QED
      BY <1>3, <3>2 DEF NoteRing, NoSilentBacklog
  <2>2. CASE ~ring_message_pending
    BY <1>3, <2>2 DEF NoteRing, NoSilentBacklog
  <2> QED
    BY <2>1, <2>2
<1>4. CASE RingTimeout
  BY <1>2, <1>4 DEF RingTimeout
<1>5. ASSUME NEW m \in Messages, OnWebReceive(m) PROVE NoSilentBacklog'
  BY <1>2, <1>5 DEF OnWebReceive
<1>6. CASE AtSbdix \/ AtSbdixa
  BY <1>6 DEF AtSbdix, AtSbdixa, Session, NoSilentBacklog
<1>7. CASE OnLastByte \/ AtAnswer \/ AtSbdd0 \/ AtSbdrb
  <2>1. /\ <<>> \in Seq(Answers) /\ <<"OK">> \in Seq(Answers)
        /\ <<"0", "OK">> \in Seq(Answers) /\ <<"2", "OK">> \in Seq(Answers)
        /\ <<"+CSQ", "OK">> \in Seq(Answers)
        /\ <<"(message)", "OK">> \in Seq(Answers)
    BY DEF Answers
  <2>2. UNCHANGED mt_queue /\ NoteRing
    BY <1>7 DEF OnLastByte, AtAnswer, AtSbdd0, AtSbdrb, sessionVars
  <2>3. \E text \in Seq(Answers) : ReturnToIdle(text)
    <3>1. CASE OnLastByte
      BY <2>1, <3>1 DEF OnLastByte
    <3>2. CASE AtAnswer
      BY <2>1, <3>2 DEF AtAnswer
    <3>3. CASE AtSbdd0 \/ AtSbdrb
      BY <2>1, <3>3 DEF AtSbdd0, AtSbdrb
    <3> QED
      BY <1>7, <3>1, <3>2, <3>3
  <2> QED
    BY <1>3, <2>2, <2>3
<1>8. CASE OnByte \/ Unplug \/ Reopen \/ UNCHANGED vars
  BY <1>1, <1>8 DEF OnByte, Unplug, Reopen, vars, sessionVars, pendingVars
<1>9. ASSUME NEW text \in Commands, OnText(text) PROVE NoSilentBacklog'
  BY <1>1, <1>9 DEF OnText, sessionVars, pendingVars
<1>10. CASE AtSbdwb \/ AtSbdwbFails \/ AtSbdrbRaises
  BY <1>1, <1>10 DEF AtSbdwb, AtSbdwbFails, AtSbdrbRaises, sessionVars, pendingVars
<1> QED
  BY <1>4, <1>5, <1>6, <1>7, <1>8, <1>9, <1>10 DEF Next, OnCommand

(* During a write a ring is held back and no command line is read; the *)
(* verdict ends the write.                                             *)
LEMMA NextQuiet ==
  [Next]_vars => [state = "writing_mo" /\ state' = "writing_mo" => out' = <<>>]_vars
<1> SUFFICES ASSUME Next, state = "writing_mo", state' = "writing_mo"
             PROVE  out' = <<>>
  OBVIOUS
<1>1. ASSUME NEW left, Ring(left) PROVE out' = <<>>
  BY <1>1 DEF Ring, SendRing
<1>2. CASE RingTimeout
  BY <1>1, <1>2 DEF RingTimeout
<1>3. ASSUME NEW m \in Messages, OnWebReceive(m) PROVE out' = <<>>
  BY <1>1, <1>3 DEF OnWebReceive
<1>4. CASE OnByte \/ Unplug \/ Reopen
  BY <1>4 DEF OnByte, Unplug, Reopen
<1>5. CASE OnLastByte
  BY <1>5 DEF OnLastByte, ReturnToIdle
<1>6. CASE OnCommand
  BY <1>6 DEF OnCommand, AtAnswer, AtSbdd0, AtSbdix, AtSbdixa, AtSbdwb,
    AtSbdwbFails, AtSbdrb, AtSbdrbRaises, CommandLine
<1>7. ASSUME NEW text \in Commands, OnText(text) PROVE out' = <<>>
  BY <1>7 DEF OnText
<1> QED
  BY <1>2, <1>3, <1>4, <1>5, <1>6, <1>7 DEF Next

(* Gluing texts gives a text, and the argument of AT+SBDWB is one that *)
(* int() accepted.                                                     *)
LEMMA TextTypes ==
  /\ NoText \in Commands \cup {NoText}
  /\ \A old, new \in Commands \cup {NoText} : Glue(old, new) \in Commands \cup {NoText}
  /\ \A c \in Commands \cup {NoText} : c.cmd = "AT+SBDWB" => c.length \in WriteLengths
<1>1. BadWrite \in Commands /\ Junk \in Commands
  BY DEF Commands, BadWrite, Junk
<1>2. \A old, new \in Commands \cup {NoText} : Glue(old, new) \in Commands \cup {NoText}
  BY <1>1 DEF Glue
<1>3. ASSUME NEW c \in Commands \cup {NoText}, c.cmd = "AT+SBDWB"
      PROVE  c.length \in WriteLengths
  <2>1. CASE \E n \in WriteLengths : c = Write(n)
    BY <2>1 DEF Write
  <2>2. CASE \E t \in {"AT", "AT&K0", "ATE0", "AT+CSQ", "AT+SBDD0", "AT+SBDIX",
                        "AT+SBDIXA", "AT+SBDRB", "junk", "AT+SBDWB=?", ""} :
               c = Text(t)
    BY <1>3, <2>2 DEF Text
  <2> QED
    BY <2>1, <2>2 DEF Commands, NoText
<1> QED
  BY <1>2, <1>3

(* TypeOK in parts, in the order one needs the other.                  *)
LineOK ==
  /\ state \in {"idle", "command", "writing_mo"}
  /\ command_buffer \in Commands \cup {NoText}
  /\ mo_length \in WriteLengths \cup {0}
  /\ stuck \in BOOLEAN

WrittenOK ==
  mo_buffer \in [len : Nat, holds : {"nothing", "part", "message", "corrupt"}]

RingOK ==
  /\ ring_pending \in BOOLEAN
  /\ ring_message_pending \in BOOLEAN
  /\ timers \in Nat
  /\ noticed \in BOOLEAN
  /\ missed \in BOOLEAN
  /\ raised \in BOOLEAN

PortOK == open \in BOOLEAN /\ unplugs \in 0..MaxUnplugs

BufferOK == mt_buffer \in Messages \cup {None}

OutOK == out \in Seq(Answers)

(* The command line is cleared or glued; the length of a write is the  *)
(* argument of the command that begins it.                             *)
LEMMA NextLineOK == LineOK /\ [Next]_vars => LineOK'
<1> SUFFICES ASSUME LineOK, [Next]_vars PROVE LineOK'
  OBVIOUS
<1> USE TextTypes DEF LineOK
<1>1. CASE RingTimeout
  BY <1>1 DEF RingTimeout, lineVars
<1>2. ASSUME NEW m \in Messages, OnWebReceive(m) PROVE LineOK'
  BY <1>2 DEF OnWebReceive, lineVars
<1>3. ASSUME NEW text \in Commands, OnText(text) PROVE LineOK'
  BY <1>3 DEF OnText
<1>4. CASE OnByte \/ Unplug \/ Reopen \/ UNCHANGED vars
  BY <1>4 DEF OnByte, Unplug, Reopen, vars, lineVars
<1>5. CASE OnLastByte
  BY <1>5 DEF OnLastByte, ReturnToIdle
<1>6. ASSUME NEW cmds, CommandLine(cmds) PROVE command_buffer' = NoText
  BY <1>6 DEF CommandLine
<1>7. ASSUME NEW text, ReturnToIdle(text) PROVE state' = "idle" /\ stuck' = FALSE
  BY <1>7 DEF ReturnToIdle
<1>8. CASE AtAnswer \/ AtSbdd0 \/ AtSbdrb \/ AtSbdix \/ AtSbdixa
  <2>1. /\ state' = "idle" /\ command_buffer' = NoText /\ mo_length' = mo_length
        /\ stuck' = FALSE
    BY <1>6, <1>7, <1>8 DEF AtAnswer, AtSbdd0, AtSbdrb, AtSbdix, AtSbdixa, Session
  <2> QED
    BY <2>1
<1>9. CASE AtSbdwb
  BY <1>9 DEF AtSbdwb, CommandLine
<1>10. CASE AtSbdwbFails \/ AtSbdrbRaises
  BY <1>6, <1>10 DEF AtSbdwbFails, AtSbdrbRaises
<1> QED
  BY <1>1, <1>2, <1>3, <1>4, <1>5, <1>8, <1>9, <1>10 DEF Next, OnCommand

(* mo_buffer grows by a byte, loses the checksum that ends it, or is   *)
(* cleared; its length never drops below zero, since a write of        *)
(* negative length has no last byte.                                   *)
LEMMA NextWrittenOK == LineOK /\ WrittenOK /\ [Next]_vars => WrittenOK'
<1> SUFFICES ASSUME LineOK, WrittenOK, [Next]_vars PROVE WrittenOK'
  OBVIOUS
<1> USE DEF WrittenOK
<1>1. CASE UNCHANGED mo_buffer
  BY <1>1
<1>2. CASE OnByte
  BY <1>2 DEF OnByte, MoBuffer
<1>3. CASE OnLastByte
  <2>1. mo_length \in Int /\ mo_length >= 0
    BY <1>3, ModemAssumption DEF LineOK, OnLastByte
  <2> QED
    BY <1>3, <2>1 DEF OnLastByte, MoBuffer, NoMo
<1>4. CASE AtSbdd0 \/ AtSbdwb
  BY <1>4 DEF AtSbdd0, AtSbdwb, MoBuffer, NoMo
<1>5. CASE RingTimeout \/ Unplug \/ Reopen \/ UNCHANGED vars
  BY <1>1, <1>5 DEF RingTimeout, Unplug, Reopen, vars, lineVars
<1>6. ASSUME NEW m \in Messages, OnWebReceive(m) PROVE WrittenOK'
  BY <1>1, <1>6 DEF OnWebReceive, lineVars
<1>7. ASSUME NEW text \in Commands, OnText(text) PROVE WrittenOK'
  BY <1>1, <1>7 DEF OnText
<1>8. CASE OnCommand
  BY <1>1, <1>4, <1>8 DEF OnCommand, AtAnswer, AtSbdix, AtSbdixa, AtSbdwbFails,
    AtSbdrb, AtSbdrbRaises, Session
<1> QED
  BY <1>2, <1>3, <1>5, <1>6, <1>7, <1>8 DEF Next

(* A timeout that fires was one of those counted.                      *)
LEMMA NextRingOK == RingOK /\ [Next]_vars => RingOK'
<1> SUFFICES ASSUME RingOK, [Next]_vars PROVE RingOK'
  OBVIOUS
<1> USE DEF RingOK
<1>1. ASSUME NEW left \in Nat, Ring(left), NoteRing, ring_pending' \in BOOLEAN
      PROVE  RingOK'
  <2>1. timers' \in Nat
    BY <1>1 DEF Ring, Rearm
  <2>2. (state # "idle") \in BOOLEAN /\ (left = 0) \in BOOLEAN
    OBVIOUS
  <2>3. ring_message_pending' \in BOOLEAN /\ missed' \in BOOLEAN
    BY <1>1, <2>2, Zenon DEF Ring, SendRing
  <2>4. raised' \in BOOLEAN
    BY <1>1, <2>2, Zenon DEF Ring, Rearm
  <2>5. noticed' \in BOOLEAN
    BY <1>1, Zenon DEF NoteRing
  <2> QED
    BY <1>1, <2>1, <2>3, <2>4, <2>5
<1>2. ASSUME NEW text, ReturnToIdle(text)
      PROVE  ring_message_pending' \in BOOLEAN /\ missed' \in BOOLEAN
  BY <1>2 DEF ReturnToIdle
<1>3. CASE RingTimeout
  <2>1. timers - 1 \in Nat /\ Ring(timers - 1) /\ NoteRing /\ ring_pending' = ring_pending
    BY <1>3 DEF RingTimeout
  <2> QED
    BY <1>1, <2>1
<1>4. ASSUME NEW m \in Messages, OnWebReceive(m) PROVE RingOK'
  BY <1>1, <1>4 DEF OnWebReceive
<1>5. CASE OnLastByte \/ AtAnswer \/ AtSbdd0 \/ AtSbdix \/ AtSbdrb
  <2>1. noticed' \in BOOLEAN
    BY <1>5, Zenon DEF OnLastByte, AtAnswer, AtSbdd0, AtSbdix, AtSbdrb, Session, NoteRing
  <2> QED
    BY <1>2, <1>5, <2>1 DEF OnLastByte, AtAnswer, AtSbdd0, AtSbdix, AtSbdrb, Session,
      ringVars
<1>6. CASE AtSbdixa
  <2>1. noticed' \in BOOLEAN
    BY <1>6, Zenon DEF AtSbdixa, Session
  <2> QED
    BY <1>2, <1>6, <2>1 DEF AtSbdixa, Session
<1>7. CASE AtSbdwb \/ AtSbdwbFails \/ AtSbdrbRaises
  BY <1>7 DEF AtSbdwb, AtSbdwbFails, AtSbdrbRaises, ringVars, pendingVars
<1>8. CASE OnByte \/ Unplug \/ Reopen \/ UNCHANGED vars
  BY <1>8 DEF OnByte, Unplug, Reopen, vars, pendingVars, ringVars
<1>9. ASSUME NEW text \in Commands, OnText(text) PROVE RingOK'
  BY <1>9 DEF OnText, ringVars, pendingVars
<1> QED
  BY <1>3, <1>4, <1>5, <1>6, <1>7, <1>8, <1>9 DEF Next, OnCommand

(* The port is closed and opened; it is lost at most MaxUnplugs times. *)
LEMMA NextPortOK == PortOK /\ [Next]_vars => PortOK'
<1> SUFFICES ASSUME PortOK, [Next]_vars PROVE PortOK'
  OBVIOUS
<1>1. CASE UNCHANGED portVars
  BY <1>1 DEF portVars, PortOK
<1>2. CASE Unplug \/ Reopen
  <2>1. open' \in BOOLEAN
    BY <1>2, Zenon DEF Unplug, Reopen
  <2>2. unplugs' = unplugs \/ (unplugs < MaxUnplugs /\ unplugs' = unplugs + 1)
    BY <1>2 DEF Unplug, Reopen
  <2>3. unplugs' \in 0..MaxUnplugs
    BY <2>2, ModemAssumption DEF PortOK
  <2> QED
    BY <2>1, <2>3 DEF PortOK
<1>3. ASSUME NEW m \in Messages, OnWebReceive(m) PROVE PortOK'
  BY <1>1, <1>3 DEF OnWebReceive
<1>4. ASSUME NEW text \in Commands, OnText(text) PROVE PortOK'
  BY <1>1, <1>4 DEF OnText
<1>5. CASE RingTimeout \/ OnByte \/ OnLastByte \/ UNCHANGED vars
  BY <1>1, <1>5 DEF RingTimeout, OnByte, OnLastByte, vars
<1>6. CASE OnCommand
  BY <1>1, <1>6 DEF OnCommand, AtAnswer, AtSbdd0, AtSbdix, AtSbdixa, AtSbdwb,
    AtSbdwbFails, AtSbdrb, AtSbdrbRaises, CommandLine
<1> QED
  BY <1>2, <1>3, <1>4, <1>5, <1>6 DEF Next

(* A session fills mt_buffer from the queue.                           *)
LEMMA NextBufferOK == QueueOK /\ BufferOK /\ [Next]_vars => BufferOK'
<1> SUFFICES ASSUME QueueOK, BufferOK, [Next]_vars PROVE BufferOK'
  OBVIOUS
<1>1. CASE UNCHANGED mt_buffer
  BY <1>1 DEF BufferOK
<1>2. CASE AtSbdix \/ AtSbdixa
  <2>1. SessionTakes \/ UNCHANGED mt_buffer
    BY <1>2 DEF AtSbdix, AtSbdixa, Session
  <2> QED
    BY <2>1 DEF SessionTakes, BufferOK, QueueOK
<1>3. ASSUME NEW m \in Messages, OnWebReceive(m) PROVE BufferOK'
  BY <1>1, <1>3 DEF OnWebReceive
<1>4. ASSUME NEW text \in Commands, OnText(text) PROVE BufferOK'
  BY <1>1, <1>4 DEF OnText, sessionVars
<1>5. CASE RingTimeout \/ OnByte \/ OnLastByte \/ Unplug \/ Reopen \/ UNCHANGED vars
  BY <1>1, <1>5 DEF RingTimeout, OnByte, OnLastByte, Unplug, Reopen, vars,
    sessionVars
<1>6. CASE OnCommand
  BY <1>1, <1>2, <1>6 DEF OnCommand, AtAnswer, AtSbdd0, AtSbdwb, AtSbdwbFails,
    AtSbdrb, AtSbdrbRaises, sessionVars
<1> QED
  BY <1>3, <1>4, <1>5, <1>6 DEF Next

(* Every line that is written is one of Answers.                       *)
LEMMA NextOutOK == OutOK /\ [Next]_vars => OutOK'
<1> SUFFICES ASSUME OutOK, [Next]_vars PROVE OutOK'
  OBVIOUS
<1> USE DEF OutOK
<1>1. ASSUME NEW left, Ring(left) PROVE OutOK'
  <2>1. out' \in {<<>>, <<"SBDRING">>}
    BY <1>1 DEF Ring, SendRing
  <2>2. <<>> \in Seq(Answers) /\ <<"SBDRING">> \in Seq(Answers)
    BY DEF Answers
  <2> QED
    BY <2>1, <2>2
<1>2. ASSUME NEW text \in Seq(Answers), ReturnToIdle(text) PROVE OutOK'
  <2>1. Append(text, "SBDRING") \in Seq(Answers)
    BY DEF Answers
  <2> QED
    BY <1>2, <2>1 DEF ReturnToIdle
<1>3. /\ <<>> \in Seq(Answers)
      /\ \A a \in Answers : <<a>> \in Seq(Answers)
      /\ \A a, b \in Answers : <<a, b>> \in Seq(Answers)
  OBVIOUS
<1>4. CASE RingTimeout
  BY <1>1, <1>4 DEF RingTimeout
<1>5. ASSUME NEW m \in Messages, OnWebReceive(m) PROVE OutOK'
  BY <1>1, <1>5 DEF OnWebReceive
<1>6. ASSUME NEW text \in Commands, OnText(text) PROVE OutOK'
  BY <1>3, <1>6 DEF OnText
<1>7. CASE OnByte \/ Unplug \/ Reopen \/ AtSbdrbRaises
  BY <1>3, <1>7 DEF OnByte, Unplug, Reopen, AtSbdrbRaises
<1>8. CASE OnLastByte \/ AtAnswer \/ AtSbdd0 \/ AtSbdrb
  <2>1. \E text \in Seq(Answers) : ReturnToIdle(text)
    <3>1. /\ <<>> \in Seq(Answers) /\ <<"OK">> \in Seq(Answers)
          /\ <<"0", "OK">> \in Seq(Answers) /\ <<"2", "OK">> \in Seq(Answers)
          /\ <<"+CSQ", "OK">> \in Seq(Answers)
          /\ <<"(message)", "OK">> \in Seq(Answers)
      BY DEF Answers
    <3> QED
      BY <1>8, <3>1 DEF OnLastByte, AtAnswer, AtSbdd0, AtSbdrb
  <2> QED
    BY <1>2, <2>1
<1>9. CASE AtSbdix \/ AtSbdixa
  <2>1. \A a, b \in Seq(Answers) : a \o b \in Seq(Answers)
    OBVIOUS
  <2>2. PICK good \in SessionResults :
          ReturnToIdle((IF good /\ mo_buffer # NoMo THEN <<"(post)">> ELSE <<>>)
                       \o <<IF good THEN "+SBDIX:0" ELSE "+SBDIX:32", "OK">>)
    BY <1>9 DEF AtSbdix, AtSbdixa, Session
  <2>3. (IF good /\ mo_buffer # NoMo THEN <<"(post)">> ELSE <<>>) \in Seq(Answers)
    <3>1. <<"(post)">> \in Seq(Answers)
      BY DEF Answers
    <3> QED
      BY <1>3, <3>1
  <2>4. <<IF good THEN "+SBDIX:0" ELSE "+SBDIX:32", "OK">> \in Seq(Answers)
    <3>1. "+SBDIX:0" \in Answers /\ "+SBDIX:32" \in Answers /\ "OK" \in Answers
      BY DEF Answers
    <3> QED
      BY <1>3, <3>1
  <2> QED
    BY <1>2, <2>1, <2>2, <2>3, <2>4
<1>10. CASE AtSbdwb \/ AtSbdwbFails
  <2>1. out' \in {<<"READY">>, <<"3">>}
    BY <1>10 DEF AtSbdwb, AtSbdwbFails
  <2>2. <<"READY">> \in Seq(Answers) /\ <<"3">> \in Seq(Answers)
    BY DEF Answers
  <2> QED
    BY <2>1, <2>2
<1>11. CASE UNCHANGED vars
  BY <1>11 DEF vars
<1> QED
  BY <1>4, <1>5, <1>6, <1>7, <1>8, <1>9, <1>10, <1>11 DEF Next, OnCommand

(* The parts hold at the start.                                        *)
LEMMA InitParts ==
  Init => /\ LineOK /\ WrittenOK /\ RingOK /\ PortOK /\ BufferOK
          /\ QueueOK /\ OutOK /\ MtInOrder
<1> SUFFICES ASSUME Init
             PROVE  /\ LineOK /\ WrittenOK /\ RingOK /\ PortOK /\ BufferOK
                    /\ QueueOK /\ OutOK /\ MtInOrder
  OBVIOUS
<1>1. WrittenOK
  BY DEF Init, WrittenOK, NoMo, MoBuffer
<1>2. PortOK
  BY ModemAssumption DEF Init, PortOK
<1>3. LineOK
  BY DEF Init, LineOK
<1>4. RingOK
  BY DEF Init, RingOK
<1>5. BufferOK /\ QueueOK /\ OutOK /\ MtInOrder
  BY DEF Init, BufferOK, QueueOK, OutOK, MtInOrder
<1> QED
  BY <1>1, <1>2, <1>3, <1>4, <1>5

(* Every variable of the simulator keeps its type, whatever the host   *)
(* sends in whatever state.                                            *)
THEOREM TypeCorrect == Spec => []TypeOK
<1> DEFINE IInv == /\ LineOK /\ WrittenOK /\ RingOK /\ PortOK /\ BufferOK
                   /\ QueueOK /\ OutOK /\ MtInOrder
<1>1. Init => IInv
  BY InitParts
<1>2. IInv /\ [Next]_vars => IInv'
  BY NextLineOK, NextWrittenOK, NextRingOK, NextPortOK, NextBufferOK,
     NextMtInOrder, NextOutOK
<1>3. IInv => TypeOK
  BY DEF TypeOK, LineOK, WrittenOK, RingOK, PortOK, BufferOK, QueueOK, OutOK
<1> QED
  BY <1>1, <1>2, <1>3, PTL DEF Spec

(* At most one timeout repeats the ring, however messages, timeouts,   *)
(* SBDIXA and closed ports follow each other: ring() removes the old   *)
(* one before it sets the next.                                        *)
THEOREM OneTimer == Spec => []OneRingTimer
BY InitOneRingTimer, NextOneRingTimer, PTL DEF Spec

(* A ring is held back during a binary write, after a command that got *)
(* stuck in its state (an answer of 3, a checksum that does not fit),  *)
(* or after it met a closed port, and in no other case: whichever way  *)
(* a command or a write ends else, the ring goes out with its end.     *)
THEOREM RingsAreDeferred == Spec => []RingDeferred
<1>1. Init => StateOK /\ RingDeferred
  BY DEF Init, StateOK, RingDeferred
<1> QED
  BY <1>1, NextRingDeferred, PTL DEF Spec

(* What MtInOrder needs, and MtInOrder.                                *)
LEMMA QueueInvariance == Spec => [](QueueOK /\ MtInOrder)
<1>1. Init => QueueOK /\ MtInOrder
  BY DEF Init, QueueOK, MtInOrder
<1> QED
  BY <1>1, NextMtInOrder, PTL DEF Spec

(* No MT message is lost, repeated or overtaken inside the simulator.  *)
THEOREM InOrder == Spec => []MtInOrder
BY QueueInvariance, PTL

(* While messages wait the host was told, by an SBDRING or the count   *)
(* of a session, or an SBDRING is pending for the next return to idle: *)
(* also after ring() has raised and no timeout repeats it.             *)
THEOREM BacklogAnnounced == Spec => []NoSilentBacklog
<1>1. Init => NoSilentBacklog
  BY DEF Init, NoSilentBacklog
<1> QED
  BY <1>1, NextNoSilentBacklog, PTL DEF Spec

(* The simulator writes nothing between READY and its verdict on the   *)
(* last byte of a write.                                               *)
THEOREM WritesAreQuiet == Spec => QuietDuringWrite
BY NextQuiet, PTL DEF Spec, QuietDuringWrite

(* A good session takes the message that OrderedDelivery delivers next:*)
(* what was taken is the front of what arrived, so the head of the     *)
(* queue is the first of what is left.                                 *)
LEMMA SessionDelivers ==
  ASSUME QueueOK, MtInOrder, SessionTakes, UNCHANGED arrived
  PROVE  [OD!Deliver]_<<arrived, taken>>
<1>1. CASE mt_queue = <<>>
  BY <1>1 DEF SessionTakes
<1>2. CASE mt_queue # <<>>
  <2>1. taken' = Append(taken, Head(mt_queue))
    BY <1>2 DEF SessionTakes
  <2>2. Len(arrived) = Len(taken) + Len(mt_queue) /\ Len(mt_queue) > 0
    BY <1>2 DEF QueueOK, MtInOrder
  <2>3. arrived[Len(taken) + 1] = mt_queue[1] /\ Head(mt_queue) = mt_queue[1]
    BY <1>2, <2>2 DEF QueueOK, MtInOrder
  <2>4. Len(taken) < Len(arrived)
    BY <2>2 DEF QueueOK
  <2> QED
    BY <2>1, <2>3, <2>4 DEF OD!Deliver
<1> QED
  BY <1>1, <1>2

(* The simulator implements OrderedDelivery from on_web_receive to     *)
(* at_sbdix: a post sends, a session with good signal delivers, and    *)
(* every other callback is a stutter of the queue, whatever it does to *)
(* the ring, the write under way or the port.                          *)
THEOREM Implementation == Spec => ImplementsOrderedDelivery
<1>1. Init => OD!Init
  BY DEF Init, OD!Init
<1>2. QueueOK /\ MtInOrder /\ [Next]_vars => [OD!Next]_OD!vars
  <2> SUFFICES ASSUME QueueOK, MtInOrder, [Next]_vars PROVE [OD!Next]_OD!vars
    OBVIOUS
  <2> USE DEF OD!vars
  <2>1. CASE UNCHANGED <<arrived, taken>>
    BY <2>1
  <2>2. ASSUME NEW m \in Messages, OnWebReceive(m) PROVE OD!Next
    BY <2>2 DEF OnWebReceive, OD!Next, OD!Send
  <2>3. CASE AtSbdix \/ AtSbdixa
    <3>1. UNCHANGED arrived
      BY <2>3 DEF AtSbdix, AtSbdixa, CommandLine
    <3>2. SessionTakes \/ UNCHANGED taken
      BY <2>3 DEF AtSbdix, AtSbdixa, Session
    <3> QED
      BY <2>1, <3>1, <3>2, SessionDelivers DEF OD!Next
  <2>4. CASE RingTimeout \/ OnByte \/ OnLastByte \/ Unplug \/ Reopen \/ UNCHANGED vars
    BY <2>1, <2>4 DEF RingTimeout, OnByte, OnLastByte, Unplug, Reopen, vars, sessionVars
  <2>5. ASSUME NEW text \in Commands, OnText(text) PROVE [OD!Next]_OD!vars
    BY <2>1, <2>5 DEF OnText, sessionVars
  <2>6. CASE OnCommand
    BY <2>1, <2>3, <2>6 DEF OnCommand, AtAnswer, AtSbdd0, AtSbdwb, AtSbdwbFails,
      AtSbdrb, AtSbdrbRaises, sessionVars, CommandLine
  <2> QED
    BY <2>2, <2>4, <2>5, <2>6 DEF Next
<1> QED
  BY <1>1, <1>2, QueueInvariance, PTL DEF Spec, ImplementsOrderedDelivery, OD!Spec
=============================================================================
