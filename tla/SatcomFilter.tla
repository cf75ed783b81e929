----------------------------- MODULE SatcomFilter -----------------------------
(***************************************************************************)
(* publish_satcom_message of udp2mqtt.py.  What QGroundControl sends to the *)
(* UDP port for the satellite is published for the plane, except datagrams  *)
(* with a MANUAL_CONTROL message, which come many times a second and cost   *)
(* money.  To find them the datagram is given to a MAVLink parser; one that *)
(* cannot be parsed is published.                                           *)
(*                                                                         *)
(* The parser of pymavlink keeps what it has not consumed for the next      *)
(* datagram.  A cell stands for some bytes of a frame: <<f, 1>> has the     *)
(* marker and the length, <<f, i>> the rest.  All of this runs on the       *)
(* IOLoop, so a step is a datagram.                                         *)
(***************************************************************************)
EXTENDS Naturals, Sequences, SequencesExt

CONSTANTS
  Frames,           \* kinds of MAVLink frame
  Known,            \* those decode() accepts; for others it raises MAVError
  Control,          \* MANUAL_CONTROL, message id 69
  Size,             \* cells of a frame
  Datagrams,        \* what may come in, as sequences of cells
  MaxBuffer         \* bound: cells in the parser

Cells == UNION {{<<f, i>> : i \in 1..Size[f]} : f \in Frames}

ASSUME FramesAssumption ==
  /\ Control \subseteq Known /\ Known \subseteq Frames
  /\ Size \in [Frames -> Nat \ {0}]
ASSUME DatagramsAssumption == Datagrams \subseteq Seq(Cells) /\ MaxBuffer \in Nat

VARIABLES
  buf,                  \* MAV.buf from buf_index on
  have_prefix_error,
  rejection_counter,    \* __rejection_counter
  datagram,             \* history: the last datagram
  published             \* history: it was published

vars == <<buf, have_prefix_error, rejection_counter, datagram, published>>

(* The parser holds bytes of datagrams that came in, and counts rejections *)
(* below 100.                                                              *)
TypeOK ==
  /\ buf \in Seq(Cells)
  /\ have_prefix_error \in BOOLEAN
  /\ rejection_counter \in 0..99
  /\ datagram \in Datagrams \cup {<<>>}
  /\ published \in BOOLEAN

Init ==
  /\ buf = <<>>
  /\ have_prefix_error = FALSE
  /\ rejection_counter = 0
  /\ datagram = <<>>
  /\ published = FALSE

------------------------------------------------------------------------------
(* The parser                                                               *)

Result(kind, msgs, rest, err) ==
  [kind |-> kind, messages |-> msgs, rest |-> rest, error |-> err]

\* Mutant of ParseChar: a frame that cannot be decoded is not consumed.
ParseCharKeepsBad(b, err) ==
  IF b = <<>> THEN Result("none", <<>>, b, FALSE)
  ELSE LET f == b[1][1] IN
    IF b[1][2] # 1
      THEN Result(IF err THEN "none" ELSE "raise", <<>>, Tail(b), TRUE)
    ELSE IF Len(b) < Size[f] THEN Result("none", <<>>, b, FALSE)
    ELSE IF f \in Known /\ \A i \in 1..Size[f] : b[i] = <<f, i>>
      THEN Result("message", <<f>>, SubSeq(b, Size[f] + 1, Len(b)), FALSE)
      ELSE Result("raise", <<>>, b, FALSE)

\* One call of parse_char.  A cell that begins no frame is dropped, with an
\* exception for the first of several; a frame is consumed when all of it is
\* there, with an exception if it does not decode.
ParseChar(b, err) ==
  IF b = <<>> THEN Result("none", <<>>, b, FALSE)
  ELSE LET f == b[1][1] IN
    IF b[1][2] # 1
      THEN Result(IF err THEN "none" ELSE "raise", <<>>, Tail(b), TRUE)
    ELSE IF Len(b) < Size[f] THEN Result("none", <<>>, b, FALSE)
    ELSE Result(IF f \in Known /\ \A i \in 1..Size[f] : b[i] = <<f, i>>
                  THEN "message" ELSE "raise",
                <<f>>, SubSeq(b, Size[f] + 1, Len(b)), FALSE)

\* The loop of parse_buffer: call parse_char until it returns None.  After a
\* message the prefix error is off.
ParseLoop[b \in Seq(Cells)] ==
  LET first == ParseChar(b, FALSE)
      later == ParseLoop[first.rest]
  IN IF first.kind = "message"
       THEN [later EXCEPT !.messages = first.messages \o @]
       ELSE [first EXCEPT !.messages = <<>>]

ParseBuffer(b, err) ==
  LET first == ParseChar(b, err)
  IN IF first.kind = "none" THEN first ELSE ParseLoop[b]

------------------------------------------------------------------------------
\* Mutant of Blocks: only the first message is looked at.
BlocksFirst(result) ==
  result.kind = "none" /\ result.messages # <<>> /\ result.messages[1] \in Control

\* Mutant of Blocks: what cannot be parsed is blocked as well.
BlocksUnparsed(result) ==
  result.kind # "none" \/ Range(result.messages) \cap Control # {}

\* The messages are looked at only if the parser did not raise: otherwise m is
\* still None.
Blocks(result) ==
  result.kind = "none" /\ Range(result.messages) \cap Control # {}

\* Mutant of Count: off by one.
CountLate == IF rejection_counter = 100 THEN 0 ELSE rejection_counter + 1

Count == IF rejection_counter + 1 = 100 THEN 0 ELSE rejection_counter + 1

\* UdpInterface.on_receive and publish_satcom_message.
PublishSatcomMessage(d) ==
  /\ Len(buf) + Len(d) <= MaxBuffer
  /\ LET result == ParseBuffer(buf \o d, have_prefix_error) IN
       /\ buf' = result.rest
       /\ have_prefix_error' = result.error
       /\ published' = ~Blocks(result)
       /\ rejection_counter' = IF Blocks(result) THEN Count ELSE rejection_counter
  /\ datagram' = d

Next == \E d \in Datagrams : PublishSatcomMessage(d)

Spec == Init /\ [][Next]_vars

------------------------------------------------------------------------------
(* Properties                                                               *)

Cut(f) == [i \in 1..Size[f] |-> <<f, i>>]

\* A frame that is known and whole begins at s.
FrameAt(b, s) ==
  /\ b[s][1] \in Known
  /\ s + Size[b[s][1]] - 1 <= Len(b)
  /\ \A j \in 1..Size[b[s][1]] : b[s + j - 1] = <<b[s][1], j>>

\* Every cell is in such a frame: b is put together of them.
Whole(b) ==
  \A i \in DOMAIN b : \E s \in 1..i : FrameAt(b, s) /\ i < s + Size[b[s][1]]

HasControl(b) == \E i \in DOMAIN b : b[i][1] \in Control

(* For whole frames the filter is exact, and it recovers: if whole frames   *)
(* were left in the parser by an earlier datagram, the next one is judged   *)
(* together with them and nothing is left behind.                           *)
WholeFramesJudged ==
  [][Whole(buf) /\ Whole(datagram') =>
       /\ buf' = <<>>
       /\ published' = ~HasControl(buf \o datagram')]_vars

(* A datagram of one frame that is not known (of a newer dialect) is        *)
(* published and does not disturb the parser.                               *)
UnknownFramePasses ==
  [][\A f \in Frames \ Known :
       buf = <<>> /\ datagram' = Cut(f) => buf' = <<>> /\ published']_vars

(* Whatever else comes in, halves of frames, frames that are not known and  *)
(* the rest of earlier datagrams, a datagram is blocked only if a cell of a *)
(* MANUAL_CONTROL message is in it or was left in the parser.               *)
BlockedOnlyForControl ==
  [][~published' => HasControl(buf \o datagram')]_vars

(* udp2mqtt.py:145 logs "Satcom: Blocking MANUAL_CONTROL message": a        *)
(* datagram of whole frames with such a message is not published.  The code *)
(* publishes it when a frame before it does not decode: an exception ends   *)
(* the parsing of a datagram, and what it left is parsed with the next.     *)
ControlBlocked ==
  [][Whole(datagram') /\ HasControl(datagram') => ~published']_vars
==============================================================================
