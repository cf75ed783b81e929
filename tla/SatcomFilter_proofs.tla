-------------------------- MODULE SatcomFilter_proofs --------------------------
(***********************************************************************)
(* Proofs about SatcomFilter, for any frames of any size.  What they   *)
(* need is what the loop of parse_buffer does with any bytes, however  *)
(* many frames they are.  The library's induction rules cannot be used *)
(* for that (they take an operator), so induction is done with least   *)
(* counterexamples: of the sequences for which the loop does something *)
(* else there would be a shortest one.                                 *)
(***********************************************************************)
EXTENDS SatcomFilter, SequenceTheorems, WellFoundedInduction, TLAPS

(* A set of numbers has a least element.                               *)
LEMMA LeastElement ==
  ASSUME NEW T \in SUBSET Nat, T # {}
  PROVE  \E x \in T : \A y \in T : x <= y
<1> DEFINE R == OpToRel(<, Nat)
<1>1. IsWellFoundedOn(R, Nat)
  BY NatLessThanWellFounded
<1>2. \A x, y \in Nat : y < x => <<y, x>> \in R
  BY DEF OpToRel
<1> HIDE DEF R
<1>3. PICK x \in T : \A y \in T : ~(<<y, x>> \in R)
  BY <1>1, WFMin
<1>4. ASSUME NEW y \in T PROVE x <= y
  <2>1. x \in Nat /\ y \in Nat /\ ~(y < x)
    BY <1>2, <1>3
  <2> QED
    BY <2>1
<1> QED
  BY <1>4

(* A set of sequences has a shortest one.                              *)
LEMMA Shortest ==
  ASSUME NEW S, NEW X \in SUBSET Seq(S), X # {}
  PROVE  \E b \in X : \A c \in X : Len(b) <= Len(c)
<1> DEFINE T == {Len(b) : b \in X}
<1>1. T \in SUBSET Nat /\ T # {}
  <2>1. \A b \in X : Len(b) \in Nat
    BY LenProperties
  <2> QED
    BY <2>1
<1>2. \A b \in X : Len(b) \in T
  OBVIOUS
<1>3. \A n \in T : \E b \in X : n = Len(b)
  OBVIOUS
<1> HIDE DEF T
<1>4. PICK n \in T : \A k \in T : n <= k
  BY <1>1, LeastElement
<1> QED
  BY <1>2, <1>3, <1>4

(* A cell is a frame's marker or one of the rest.                      *)
LEMMA CellType ==
  ASSUME NEW c \in Cells
  PROVE  c[1] \in Frames /\ c[2] \in 1..Size[c[1]] /\ c = <<c[1], c[2]>>
BY DEF Cells

(* The cells that follow the first n.                                  *)
LEMMA RestType ==
  ASSUME NEW b \in Seq(Cells), NEW n \in Nat, n <= Len(b)
  PROVE  LET r == SubSeq(b, n + 1, Len(b)) IN
         /\ r \in Seq(Cells) /\ Len(r) = Len(b) - n
         /\ \A i \in 1..Len(r) : r[i] = b[n + i]
<1> DEFINE r == SubSeq(b, n + 1, Len(b))
<1>1. Len(b) \in Nat /\ n + 1 \in Int /\ Len(b) \in Int
  BY LenProperties
<1>2. \A i \in (n + 1)..Len(b) : b[i] \in Cells
  <2>1. \A i \in (n + 1)..Len(b) : i \in 1..Len(b)
    BY <1>1
  <2> QED
    BY <2>1, ElementOfSeq
<1>3. /\ r \in Seq(Cells)
      /\ Len(r) = IF n + 1 <= Len(b) THEN Len(b) - (n + 1) + 1 ELSE 0
      /\ \A i \in 1 .. (Len(b) - (n + 1) + 1) : r[i] = b[(n + 1) + i - 1]
  BY <1>1, <1>2, SubSeqProperties
<1>4. Len(r) = Len(b) - n
  BY <1>1, <1>3
<1>5. ASSUME NEW i \in 1..Len(r) PROVE r[i] = b[n + i]
  <2>1. i \in 1 .. (Len(b) - (n + 1) + 1) /\ (n + 1) + i - 1 = n + i
    BY <1>1, <1>4
  <2> QED
    BY <1>3, <2>1
<1> QED
  BY <1>3, <1>4, <1>5

Results ==
  [kind : {"none", "raise", "message"}, messages : Seq(Frames),
   rest : Seq(Cells), error : BOOLEAN]

(* What parse_char does with the parser's bytes.  If it returns a      *)
(* message there are fewer of them afterwards.                         *)
LEMMA ParseCharType ==
  ASSUME NEW b \in Seq(Cells), NEW err \in BOOLEAN
  PROVE  LET first == ParseChar(b, err) IN
         /\ first \in Results
         /\ first.kind = "message" =>
              /\ b # <<>> /\ Len(first.rest) < Len(b)
              /\ b[1] = <<b[1][1], 1>> /\ first.messages = <<b[1][1]>>
              /\ Size[b[1][1]] \in Nat \ {0} /\ Size[b[1][1]] <= Len(b)
              /\ first.rest = SubSeq(b, Size[b[1][1]] + 1, Len(b))
<1> DEFINE first == ParseChar(b, err)
<1>1. CASE b = <<>>
  <2>1. first = Result("none", <<>>, b, FALSE)
    BY <1>1 DEF ParseChar
  <2> QED
    BY <2>1 DEF Result, Results
<1>2. CASE b # <<>>
  <2> DEFINE f == b[1][1]
  <2>1. b[1] \in Cells /\ Len(b) \in Nat /\ 1 <= Len(b)
    BY <1>2, EmptySeq, ElementOfSeq, LenProperties
  <2>2. f \in Frames /\ b[1] = <<f, b[1][2]>> /\ Size[f] \in Nat \ {0}
    BY <2>1, CellType, FramesAssumption
  <2>3. Tail(b) \in Seq(Cells)
    BY <1>2, HeadTailProperties
  <2>4. CASE b[1][2] # 1
    <3>1. first = Result(IF err THEN "none" ELSE "raise", <<>>, Tail(b), TRUE)
      BY <1>2, <2>4 DEF ParseChar
    <3> QED
      BY <2>3, <3>1 DEF Result, Results
  <2>5. CASE b[1][2] = 1 /\ Len(b) < Size[f]
    <3>1. first = Result("none", <<>>, b, FALSE)
      BY <1>2, <2>5 DEF ParseChar
    <3> QED
      BY <3>1 DEF Result, Results
  <2>6. CASE b[1][2] = 1 /\ Len(b) >= Size[f]
    <3> DEFINE rest == SubSeq(b, Size[f] + 1, Len(b))
    <3> DEFINE kind == IF f \in Known /\ \A i \in 1..Size[f] : b[i] = <<f, i>>
                         THEN "message" ELSE "raise"
    <3>0. ~(Len(b) < Size[f])
      BY <2>1, <2>2, <2>6
    <3>1. first = Result(kind, <<f>>, rest, FALSE) /\ kind \in {"message", "raise"}
      BY <1>2, <2>6, <3>0 DEF ParseChar
    <3>2. rest \in Seq(Cells) /\ Len(rest) = Len(b) - Size[f]
      BY <2>1, <2>2, <2>6, RestType
    <3> HIDE DEF kind, rest, first
    <3>3. <<f>> \in Seq(Frames)
      BY <2>2
    <3>4. first \in Results
      BY <3>1, <3>2, <3>3 DEF Result, Results
    <3>5. first.rest = rest /\ first.messages = <<f>>
      BY <3>1 DEF Result
    <3>6. Len(rest) < Len(b) /\ Size[f] <= Len(b)
      BY <2>1, <2>2, <2>6, <3>2
    <3> QED
      BY <1>2, <2>2, <2>6, <3>4, <3>5, <3>6 DEF first, rest
  <2> QED
    BY <2>1, <2>2, <2>4, <2>5, <2>6
<1> QED
  BY <1>1, <1>2

(* The loop is one call and, after a message, the loop on what it      *)
(* left.                                                               *)
First(b) == ParseChar(b, FALSE)

Round(b, g) ==
  IF First(b).kind = "message"
    THEN [g[First(b).rest] EXCEPT !.messages = First(b).messages \o @]
    ELSE [First(b) EXCEPT !.messages = <<>>]

UpTo(n) == {b \in Seq(Cells) : Len(b) <= n}

\* g is the loop for the sequences of at most n cells.
IsLoop(g, n) ==
  g \in [UpTo(n) -> Results] /\ \A b \in UpTo(n) : g[b] = Round(b, g)

(* A round needs the loop for shorter sequences only.                  *)
LEMMA RoundProperties ==
  ASSUME NEW b \in Seq(Cells), NEW g,
         First(b).kind = "message" => g[First(b).rest] \in Results
  PROVE  /\ Round(b, g) \in Results
         /\ First(b).kind = "message" =>
              First(b).rest \in Seq(Cells) /\ Len(First(b).rest) < Len(b)
         /\ \A h : (First(b).kind = "message" => h[First(b).rest] = g[First(b).rest])
                     => Round(b, h) = Round(b, g)
<1>1. /\ First(b) \in Results
      /\ First(b).kind = "message" => Len(First(b).rest) < Len(b)
  BY ParseCharType DEF First
<1>2. First(b).rest \in Seq(Cells) /\ First(b).messages \in Seq(Frames)
  BY <1>1 DEF Results
<1>3. Round(b, g) \in Results
  <2>1. CASE First(b).kind = "message"
    <3> DEFINE l == g[First(b).rest]  m == First(b).messages
    <3>1. l \in Results /\ Round(b, g) = [l EXCEPT !.messages = m \o @]
      BY <2>1 DEF Round
    <3>2. m \o l.messages \in Seq(Frames)
      BY <1>2, <3>1, ConcatProperties DEF Results
    <3> HIDE DEF l, m
    <3> QED
      BY <3>1, <3>2 DEF Results
  <2>2. CASE First(b).kind # "message"
    <3> DEFINE l == First(b)
    <3>1. l \in Results /\ Round(b, g) = [l EXCEPT !.messages = <<>>]
      BY <1>1, <2>2 DEF Round
    <3>2. <<>> \in Seq(Frames)
      BY EmptySeq
    <3> HIDE DEF l
    <3> QED
      BY <3>1, <3>2 DEF Results
  <2> QED
    BY <2>1, <2>2
<1>4. ASSUME NEW h, First(b).kind = "message" => h[First(b).rest] = g[First(b).rest]
      PROVE  Round(b, h) = Round(b, g)
  BY <1>4 DEF Round
<1> QED
  BY <1>1, <1>2, <1>3, <1>4

(* The loop exists for sequences of any length.                        *)
LEMMA LoopExists == \A n \in Nat : \E g : IsLoop(g, n)
<1> DEFINE T == {n \in Nat : ~\E g : IsLoop(g, n)}
<1> SUFFICES ASSUME T # {} PROVE FALSE
  OBVIOUS
<1>1. PICK n \in T : \A k \in T : n <= k
  BY LeastElement
<1>2. ASSUME NEW b \in UpTo(n), First(b).kind = "message"
      PROVE  n # 0 /\ First(b).rest \in UpTo(n - 1)
  <2>1. b \in Seq(Cells) /\ Len(b) <= n /\ Len(b) \in Nat
    BY LenProperties DEF UpTo
  <2>2. First(b) \in Results /\ Len(First(b).rest) < Len(b)
    BY <1>2, <2>1, ParseCharType DEF First
  <2>3. First(b).rest \in Seq(Cells) /\ Len(First(b).rest) \in Nat
    BY <2>2, LenProperties DEF Results
  <2> QED
    BY <2>1, <2>2, <2>3 DEF UpTo
<1>3. \E g : \A b \in UpTo(n) : First(b).kind = "message" =>
                g[First(b).rest] \in Results
                /\ g[First(b).rest] = Round(First(b).rest, g)
  <2>1. CASE n = 0
    BY <1>2, <2>1
  <2>2. CASE n # 0
    <3>1. n - 1 \in Nat /\ ~(n <= n - 1)
      BY <2>2
    <3>2. PICK g : IsLoop(g, n - 1)
      BY <1>1, <3>1
    <3> QED
      BY <1>2, <3>2 DEF IsLoop
  <2> QED
    BY <2>1, <2>2
<1>4. PICK g : \A b \in UpTo(n) : First(b).kind = "message" =>
                 g[First(b).rest] \in Results
                 /\ g[First(b).rest] = Round(First(b).rest, g)
  BY <1>3
<1> DEFINE h == [b \in UpTo(n) |-> Round(b, g)]
<1>5. ASSUME NEW b \in UpTo(n)
      PROVE  Round(b, g) \in Results /\ Round(b, g) = Round(b, h)
  <2>1. b \in Seq(Cells)
    BY DEF UpTo
  <2>2. First(b).kind = "message" => h[First(b).rest] = g[First(b).rest]
    <3> SUFFICES ASSUME First(b).kind = "message"
                 PROVE  h[First(b).rest] = g[First(b).rest]
      OBVIOUS
    <3>1. n # 0 /\ First(b).rest \in UpTo(n - 1)
      BY <1>2
    <3>2. First(b).rest \in UpTo(n)
      BY <3>1, LenProperties DEF UpTo
    <3> QED
      BY <1>4, <3>2
  <2> HIDE DEF h
  <2> QED
    BY <1>4, <2>1, <2>2, RoundProperties
<1>6. IsLoop(h, n)
  BY <1>5 DEF IsLoop
<1> QED
  BY <1>6

(* For a sequence all of them do the same.                             *)
LEMMA LoopUnique ==
  ASSUME NEW n \in Nat, NEW k \in Nat, NEW g, IsLoop(g, n), NEW h, IsLoop(h, k),
         NEW b \in UpTo(n) \cap UpTo(k)
  PROVE  g[b] = h[b]
<1> DEFINE X == {c \in UpTo(n) \cap UpTo(k) : g[c] # h[c]}
<1> SUFFICES ASSUME X # {} PROVE FALSE
  OBVIOUS
<1>1. X \in SUBSET Seq(Cells)
  BY DEF UpTo
<1>2. PICK c \in X : \A d \in X : Len(c) <= Len(d)
  <2> HIDE DEF X
  <2> QED
    BY <1>1, Shortest
<1>3. c \in Seq(Cells) /\ Len(c) \in Nat /\ Len(c) <= n /\ Len(c) <= k
  BY LenProperties DEF UpTo
<1>4. ASSUME First(c).kind = "message"
      PROVE  g[First(c).rest] \in Results /\ h[First(c).rest] = g[First(c).rest]
  <2>1. First(c) \in Results /\ Len(First(c).rest) < Len(c)
    BY <1>3, <1>4, ParseCharType DEF First
  <2>2. First(c).rest \in Seq(Cells) /\ Len(First(c).rest) \in Nat
    BY <2>1, LenProperties DEF Results
  <2>3. First(c).rest \in UpTo(n) \cap UpTo(k)
    BY <1>3, <2>1, <2>2 DEF UpTo
  <2>4. First(c).rest \notin X
    BY <1>2, <1>3, <2>1, <2>2
  <2> QED
    BY <2>3, <2>4 DEF IsLoop
<1>5. Round(c, h) = Round(c, g)
  BY <1>3, <1>4, RoundProperties
<1> QED
  BY <1>5 DEF IsLoop

(* So ParseLoop is what its definition says.                           *)
LEMMA ParseLoopDef ==
  /\ ParseLoop \in [Seq(Cells) -> Results]
  /\ \A b \in Seq(Cells) : ParseLoop[b] = Round(b, ParseLoop)
<1> DEFINE loop(n) == CHOOSE g : IsLoop(g, n)
<1> DEFINE p == [b \in Seq(Cells) |-> loop(Len(b))[b]]
<1>1. \A n \in Nat : IsLoop(loop(n), n)
  BY LoopExists
<1> HIDE DEF loop
<1>2. ASSUME NEW b \in Seq(Cells)
      PROVE  p[b] \in Results /\ p[b] = Round(b, p)
  <2>1. Len(b) \in Nat /\ b \in UpTo(Len(b))
    BY LenProperties DEF UpTo
  <2>2. p[b] = loop(Len(b))[b] /\ IsLoop(loop(Len(b)), Len(b))
    BY <1>1, <2>1
  <2>3. ASSUME First(b).kind = "message"
        PROVE  /\ loop(Len(b))[First(b).rest] \in Results
               /\ p[First(b).rest] = loop(Len(b))[First(b).rest]
    <3> DEFINE r == First(b).rest
    <3>1. First(b) \in Results /\ Len(r) < Len(b)
      BY <2>3, ParseCharType DEF First
    <3>2. r \in Seq(Cells) /\ Len(r) \in Nat
      BY <3>1, LenProperties DEF Results
    <3>3. r \in UpTo(Len(b)) /\ r \in UpTo(Len(r))
      BY <2>1, <3>1, <3>2 DEF UpTo
    <3>4. IsLoop(loop(Len(r)), Len(r)) /\ p[r] = loop(Len(r))[r]
      BY <1>1, <3>2
    <3> HIDE DEF p, r
    <3>5. p[r] = loop(Len(b))[r]
      BY <2>1, <2>2, <3>2, <3>3, <3>4, LoopUnique
    <3>6. loop(Len(b))[r] \in Results
      BY <2>2, <3>3 DEF IsLoop
    <3> QED
      BY <3>5, <3>6 DEF r
  <2> HIDE DEF p
  <2>4. Round(b, p) = Round(b, loop(Len(b)))
    BY <2>3, RoundProperties
  <2> QED
    BY <2>1, <2>2, <2>4 DEF IsLoop
<1>3. p = [b \in Seq(Cells) |-> Round(b, p)]
  <2>1. p = [b \in Seq(Cells) |-> p[b]]
    OBVIOUS
  <2> HIDE DEF p
  <2> QED
    BY <1>2, <2>1
<1> DEFINE IsParseLoop(g) == g = [b \in Seq(Cells) |->
     LET first == ParseChar(b, FALSE)
         later == g[first.rest]
     IN IF first.kind = "message"
          THEN [later EXCEPT !.messages = first.messages \o @]
          ELSE [first EXCEPT !.messages = <<>>]]
<1>4. IsParseLoop(p)
  <2> HIDE DEF p
  <2> QED
    BY <1>3 DEF Round, First
<1>5. ParseLoop = CHOOSE g : IsParseLoop(g)
  BY DEF ParseLoop
<1>6. IsParseLoop(ParseLoop)
  <2> HIDE DEF IsParseLoop
  <2> QED
    BY <1>4, <1>5
<1> HIDE DEF p
<1>7. ParseLoop = [b \in Seq(Cells) |-> Round(b, ParseLoop)]
  BY <1>6 DEF Round, First
<1>8. \A b \in Seq(Cells) : ParseLoop[b] = Round(b, ParseLoop)
  BY <1>7
<1> DEFINE X == {b \in Seq(Cells) : ParseLoop[b] \notin Results}
<1>9. ASSUME X # {} PROVE FALSE
  <2>1. PICK b \in X : \A c \in X : Len(b) <= Len(c)
    <3>1. X \in SUBSET Seq(Cells)
      OBVIOUS
    <3> HIDE DEF X
    <3> QED
      BY <1>9, <3>1, Shortest
  <2>2. b \in Seq(Cells) /\ Len(b) \in Nat
    BY LenProperties
  <2>3. ASSUME First(b).kind = "message" PROVE ParseLoop[First(b).rest] \in Results
    <3>1. First(b) \in Results /\ Len(First(b).rest) < Len(b)
      BY <2>2, <2>3, ParseCharType DEF First
    <3>2. First(b).rest \in Seq(Cells) /\ Len(First(b).rest) \in Nat
      BY <3>1, LenProperties DEF Results
    <3> QED
      BY <2>1, <2>2, <3>1, <3>2
  <2>4. Round(b, ParseLoop) \in Results
    BY <2>2, <2>3, RoundProperties
  <2> QED
    BY <1>8, <2>2, <2>4
<1>10. \A b \in Seq(Cells) : ParseLoop[b] \in Results
  BY <1>9
<1> QED
  BY <1>7, <1>8, <1>10

------------------------------------------------------------------------------
(* After a message the loop goes on with what follows its frame.       *)
LEMMA LoopAfterMessage ==
  ASSUME NEW b \in Seq(Cells), First(b).kind = "message"
  PROVE  LET n == Size[b[1][1]]
             r == SubSeq(b, n + 1, Len(b))
         IN /\ n \in 1..Len(b) /\ b[1] = <<b[1][1], 1>> /\ b[1][1] \in Frames
            /\ r \in Seq(Cells) /\ Len(r) = Len(b) - n
            /\ \A i \in 1..Len(r) : r[i] = b[n + i]
            /\ ParseLoop[b].kind = ParseLoop[r].kind
            /\ ParseLoop[b].rest = ParseLoop[r].rest
            /\ ParseLoop[b].error = ParseLoop[r].error
            /\ Range(ParseLoop[b].messages) =
                 {b[1][1]} \cup Range(ParseLoop[r].messages)
<1> DEFINE f == b[1][1]
           n == Size[f]
           r == SubSeq(b, n + 1, Len(b))
           l == ParseLoop[r]
<1>1. /\ b # <<>> /\ b[1] = <<f, 1>> /\ First(b).messages = <<f>>
      /\ n \in Nat \ {0} /\ n <= Len(b) /\ First(b).rest = r
  BY ParseCharType DEF First
<1>2. Len(b) \in Nat /\ n \in 1..Len(b)
  BY <1>1, LenProperties
<1>3. f \in Frames
  BY <1>2, ElementOfSeq, CellType
<1>4. r \in Seq(Cells) /\ Len(r) = Len(b) - n /\ \A i \in 1..Len(r) : r[i] = b[n + i]
  BY <1>1, RestType
<1>5. l \in Results
  BY <1>4, ParseLoopDef
<1>6. ParseLoop[b] = [l EXCEPT !.messages = <<f>> \o @]
  BY <1>1, ParseLoopDef DEF Round
<1> HIDE DEF f, n, r, l
<1>7. /\ ParseLoop[b].kind = l.kind /\ ParseLoop[b].rest = l.rest
      /\ ParseLoop[b].error = l.error
      /\ ParseLoop[b].messages = <<f>> \o l.messages /\ l.messages \in Seq(Frames)
  BY <1>5, <1>6 DEF Results
<1>8. Range(<<f>> \o l.messages) = {f} \cup Range(l.messages)
  <2> DEFINE m == l.messages
  <2>1. m \in Seq(Frames) /\ <<f>> \in Seq(Frames) /\ Len(<<f>>) = 1
    BY <1>3, <1>7
  <2> HIDE DEF m
  <2>2. /\ <<f>> \o m \in Seq(Frames) /\ Len(<<f>> \o m) = 1 + Len(m)
        /\ Len(m) \in Nat /\ DOMAIN m = 1..Len(m)
        /\ \A i \in 1..(1 + Len(m)) :
             (<<f>> \o m)[i] = IF i <= 1 THEN <<f>>[i] ELSE m[i - 1]
    BY <2>1, ConcatProperties, LenProperties
  <2>3. DOMAIN (<<f>> \o m) = 1..(1 + Len(m))
    BY <2>2, LenProperties
  <2>4. ASSUME NEW x \in Range(<<f>> \o m) PROVE x \in {f} \cup Range(m)
    <3>1. PICK i \in 1..(1 + Len(m)) : x = (<<f>> \o m)[i]
      BY <2>3 DEF Range
    <3>2. CASE i = 1
      BY <2>2, <3>1, <3>2
    <3>3. CASE i # 1
      <4>1. i - 1 \in DOMAIN m /\ x = m[i - 1]
        BY <2>2, <3>1, <3>3
      <4> QED
        BY <4>1 DEF Range
    <3> QED
      BY <3>2, <3>3
  <2>5. f \in Range(<<f>> \o m)
    <3>1. 1 \in DOMAIN (<<f>> \o m) /\ (<<f>> \o m)[1] = f
      BY <2>2, <2>3
    <3> QED
      BY <3>1 DEF Range
  <2>6. ASSUME NEW x \in Range(m) PROVE x \in Range(<<f>> \o m)
    <3>1. PICK i \in 1..Len(m) : x = m[i]
      BY <2>2 DEF Range
    <3>2. i + 1 \in DOMAIN (<<f>> \o m) /\ (<<f>> \o m)[i + 1] = m[i]
      BY <2>2, <2>3
    <3> QED
      BY <3>1, <3>2 DEF Range
  <2> QED
    BY <2>4, <2>5, <2>6 DEF m
<1> QED
  BY <1>1, <1>2, <1>3, <1>4, <1>7, <1>8 DEF f, n, r, l

(* Otherwise it ends without a message.                                *)
LEMMA LoopEnds ==
  ASSUME NEW b \in Seq(Cells), First(b).kind # "message"
  PROVE  ParseLoop[b] = [First(b) EXCEPT !.messages = <<>>]
BY ParseLoopDef DEF Round

(* Every message of the loop is of a frame whose bytes came in.        *)
LEMMA MessagesComeIn ==
  ASSUME NEW b \in Seq(Cells)
  PROVE  \A f \in Range(ParseLoop[b].messages) : \E i \in DOMAIN b : b[i][1] = f
<1> DEFINE In(c) == \A f \in Range(ParseLoop[c].messages) : \E i \in DOMAIN c : c[i][1] = f
           X == {c \in Seq(Cells) : ~In(c)}
<1> SUFFICES ASSUME X # {} PROVE FALSE
  OBVIOUS
<1>1. PICK c \in X : \A d \in X : Len(c) <= Len(d)
  <2>1. X \in SUBSET Seq(Cells)
    OBVIOUS
  <2> HIDE DEF X
  <2> QED
    BY <2>1, Shortest
<1>2. c \in Seq(Cells) /\ DOMAIN c = 1..Len(c) /\ Len(c) \in Nat
  BY LenProperties
<1>3. CASE First(c).kind = "message"
  <2> DEFINE n == Size[c[1][1]]
             r == SubSeq(c, n + 1, Len(c))
  <2>1. /\ n \in 1..Len(c) /\ r \in Seq(Cells) /\ Len(r) = Len(c) - n
        /\ \A i \in 1..Len(r) : r[i] = c[n + i]
        /\ Range(ParseLoop[c].messages) = {c[1][1]} \cup Range(ParseLoop[r].messages)
    BY <1>2, <1>3, LoopAfterMessage
  <2> HIDE DEF n, r
  <2>2. Len(r) \in Nat /\ DOMAIN r = 1..Len(r) /\ ~(Len(c) <= Len(r))
    BY <1>2, <2>1, LenProperties
  <2>3. In(r)
    BY <1>1, <2>1, <2>2
  <2>4. ASSUME NEW f \in Range(ParseLoop[c].messages)
        PROVE  \E i \in DOMAIN c : c[i][1] = f
    <3>1. CASE f = c[1][1]
      <4>1. 1 \in DOMAIN c
        BY <1>2, <2>1
      <4> QED
        BY <3>1, <4>1
    <3>2. CASE f \in Range(ParseLoop[r].messages)
      <4>1. PICK i \in 1..Len(r) : r[i][1] = f
        BY <2>2, <2>3, <3>2
      <4>2. n + i \in DOMAIN c /\ c[n + i] = r[i]
        BY <1>2, <2>1
      <4> QED
        BY <4>1, <4>2
    <3> QED
      BY <2>1, <3>1, <3>2
  <2> QED
    BY <2>4
<1>4. CASE First(c).kind # "message"
  <2>1. ParseLoop[c].messages = <<>>
    <3>1. First(c) \in Results
      BY <1>2, ParseCharType DEF First
    <3> QED
      BY <1>2, <1>4, <3>1, LoopEnds DEF Results
  <2> QED
    BY <2>1 DEF Range
<1> QED
  BY <1>3, <1>4

(* Whole frames that follow whole frames.                              *)
LEMMA WholeConcat ==
  ASSUME NEW a \in Seq(Cells), NEW b \in Seq(Cells), Whole(a), Whole(b)
  PROVE  Whole(a \o b)
<1> DEFINE c == a \o b
<1>1. /\ c \in Seq(Cells) /\ Len(c) = Len(a) + Len(b)
      /\ \A i \in 1..(Len(a) + Len(b)) :
           c[i] = IF i <= Len(a) THEN a[i] ELSE b[i - Len(a)]
  BY ConcatProperties
<1>2. /\ Len(a) \in Nat /\ Len(b) \in Nat
      /\ DOMAIN a = 1..Len(a) /\ DOMAIN b = 1..Len(b) /\ DOMAIN c = 1..Len(c)
  BY <1>1, LenProperties
<1>3. \A f \in Known : Size[f] \in Nat \ {0}
  BY FramesAssumption
<1> HIDE DEF c
<1>4. ASSUME NEW i \in 1..Len(a)
      PROVE  \E s \in 1..i : FrameAt(c, s) /\ i < s + Size[c[s][1]]
  <2>1. PICK s \in 1..i : FrameAt(a, s) /\ i < s + Size[a[s][1]]
    BY <1>2 DEF Whole
  <2> DEFINE n == Size[a[s][1]]
  <2>2. n \in Nat \ {0} /\ s + n - 1 <= Len(a)
    BY <1>3, <2>1 DEF FrameAt
  <2>3. \A j \in 1..n : c[s + j - 1] = a[s + j - 1]
    <3> SUFFICES ASSUME NEW j \in 1..n PROVE c[s + j - 1] = a[s + j - 1]
      OBVIOUS
    <3>1. s \in Nat /\ s >= 1 /\ n \in Nat /\ j \in Nat /\ j >= 1 /\ j <= n
      BY <2>2
    <3> HIDE DEF n
    <3>2. s + j - 1 \in 1..(Len(a) + Len(b)) /\ s + j - 1 <= Len(a)
      BY <1>2, <2>2, <3>1
    <3> QED
      BY <1>1, <3>2
  <2>4. c[s] = a[s]
    <3>1. s \in 1..(Len(a) + Len(b)) /\ s <= Len(a)
      BY <1>2
    <3> QED
      BY <1>1, <3>1
  <2>5. s + n - 1 <= Len(c)
    BY <1>1, <1>2, <2>2
  <2>6. FrameAt(c, s)
    BY <2>1, <2>3, <2>4, <2>5 DEF FrameAt
  <2> QED
    BY <2>1, <2>4, <2>6
<1>5. ASSUME NEW i \in 1..Len(b)
      PROVE  \E s \in 1..(Len(a) + i) : FrameAt(c, s) /\ Len(a) + i < s + Size[c[s][1]]
  <2>1. PICK s \in 1..i : FrameAt(b, s) /\ i < s + Size[b[s][1]]
    BY <1>2 DEF Whole
  <2> DEFINE n == Size[b[s][1]]
             t == Len(a) + s
  <2>2. n \in Nat \ {0} /\ s + n - 1 <= Len(b)
    BY <1>3, <2>1 DEF FrameAt
  <2>3. \A j \in 1..n : c[t + j - 1] = b[s + j - 1]
    <3> SUFFICES ASSUME NEW j \in 1..n PROVE c[t + j - 1] = b[s + j - 1]
      OBVIOUS
    <3>1. s \in Nat /\ s >= 1 /\ n \in Nat /\ j \in Nat /\ j >= 1 /\ j <= n
      BY <2>2
    <3>2. /\ t + j - 1 \in 1..(Len(a) + Len(b)) /\ ~(t + j - 1 <= Len(a))
          /\ (t + j - 1) - Len(a) = s + j - 1
      <4> HIDE DEF n
      <4> QED
        BY <1>2, <2>2, <3>1
    <3> HIDE DEF n, t
    <3> QED
      BY <1>1, <3>2
  <2>4. c[t] = b[s]
    <3>1. t \in 1..(Len(a) + Len(b)) /\ ~(t <= Len(a)) /\ t - Len(a) = s
      BY <1>2
    <3> QED
      BY <1>1, <3>1
  <2>5. t + n - 1 <= Len(c) /\ t \in 1..(Len(a) + i) /\ Len(a) + i < t + n
    <3>1. s \in Nat /\ s <= i /\ s >= 1 /\ i < s + n /\ n \in Nat /\ s + n - 1 <= Len(b)
      BY <2>1, <2>2
    <3> HIDE DEF n
    <3> QED
      BY <1>1, <1>2, <3>1
  <2> HIDE DEF t
  <2>6. FrameAt(c, t)
    BY <2>1, <2>3, <2>4, <2>5 DEF FrameAt
  <2> QED
    BY <2>4, <2>5, <2>6
<1>6. ASSUME NEW i \in DOMAIN c
      PROVE  \E s \in 1..i : FrameAt(c, s) /\ i < s + Size[c[s][1]]
  <2>1. CASE i <= Len(a)
    BY <1>1, <1>2, <1>4, <2>1
  <2>2. CASE i > Len(a)
    <3>1. i - Len(a) \in 1..Len(b) /\ Len(a) + (i - Len(a)) = i
      BY <1>1, <1>2, <2>2
    <3> QED
      BY <1>5, <3>1
  <2> QED
    BY <1>2, <2>1, <2>2
<1> QED
  BY <1>6 DEF Whole, c

(* The first of whole frames is decoded and whole frames are left.     *)
LEMMA WholeFirst ==
  ASSUME NEW b \in Seq(Cells), Whole(b), b # <<>>, NEW err \in BOOLEAN
  PROVE  LET n == Size[b[1][1]] IN
         /\ ParseChar(b, err).kind = "message"
         /\ \A i \in 1..n : b[i][1] = b[1][1]
         /\ Whole(SubSeq(b, n + 1, Len(b)))
<1> DEFINE f == b[1][1]
           n == Size[f]
           r == SubSeq(b, n + 1, Len(b))
<1>1. Len(b) \in Nat /\ 1 <= Len(b) /\ DOMAIN b = 1..Len(b)
  BY EmptySeq, LenProperties
<1>2. FrameAt(b, 1)
  BY <1>1 DEF Whole
<1>3. /\ f \in Known /\ n \in Nat \ {0} /\ n <= Len(b)
      /\ \A j \in 1..n : b[j] = <<f, j>>
  <2>1. f \in Known /\ n \in Nat \ {0}
    BY <1>2, FramesAssumption DEF FrameAt
  <2>2. 1 + n - 1 <= Len(b) /\ \A j \in 1..n : b[1 + j - 1] = <<f, j>>
    BY <1>2 DEF FrameAt
  <2>3. \A j \in 1..n : 1 + j - 1 = j
    OBVIOUS
  <2> QED
    BY <1>1, <2>1, <2>2, <2>3
<1>4. ParseChar(b, err).kind = "message"
  <2>1. b[1][2] = 1 /\ ~(Len(b) < n)
    <3>1. b[1] = <<f, 1>>
      BY <1>3
    <3> QED
      BY <1>1, <1>3, <3>1
  <2> QED
    BY <1>3, <2>1 DEF ParseChar, Result
<1>5. \A i \in 1..n : b[i][1] = f
  BY <1>3
<1>6. r \in Seq(Cells) /\ Len(r) = Len(b) - n /\ \A i \in 1..Len(r) : r[i] = b[n + i]
  BY <1>3, RestType
<1> HIDE DEF r
<1>7. Len(r) \in Nat /\ DOMAIN r = 1..Len(r)
  BY <1>6, LenProperties
<1>8. ASSUME NEW i \in 1..Len(r)
      PROVE  \E t \in 1..i : FrameAt(r, t) /\ i < t + Size[r[t][1]]
  <2>1. n + i \in DOMAIN b
    BY <1>1, <1>3, <1>6, <1>7
  <2>2. PICK s \in 1..(n + i) : FrameAt(b, s) /\ n + i < s + Size[b[s][1]]
    BY <2>1 DEF Whole
  <2> DEFINE g == b[s][1]
             k == Size[g]
             t == s - n
  <2>3. /\ g \in Known /\ k \in Nat \ {0} /\ s + k - 1 <= Len(b)
        /\ \A j \in 1..k : b[s + j - 1] = <<g, j>>
    BY <2>2, FramesAssumption DEF FrameAt
  <2>4. s > n
    <3> SUFFICES ASSUME s <= n PROVE FALSE
      BY <1>3
    <3>1. s \in 1..n /\ b[s] = <<f, s>>
      BY <1>3
    <3>2. 1 \in 1..k /\ s + 1 - 1 = s
      BY <2>3
    <3>3. b[s] = <<g, 1>>
      BY <2>3, <3>2
    <3>4. g = f /\ s = 1
      BY <3>1, <3>3
    <3> QED
      BY <1>3, <2>2, <3>4
  <2>5. t \in 1..i /\ n + t = s
    BY <1>3, <2>4
  <2>6. t + k - 1 <= Len(r) /\ i < t + k
    <3>1. /\ s \in Int /\ n \in Int /\ k \in Int /\ i \in Int
          /\ Len(b) \in Int /\ Len(r) = Len(b) - n
          /\ s + k - 1 <= Len(b) /\ n + i < s + k
      BY <1>1, <1>3, <1>6, <2>2, <2>3
    <3> HIDE DEF n, k, g
    <3> QED
      BY <3>1
  <2>7. \A j \in 1..k : r[t + j - 1] = b[s + j - 1]
    <3> SUFFICES ASSUME NEW j \in 1..k PROVE r[t + j - 1] = b[s + j - 1]
      OBVIOUS
    <3>1. t + j - 1 \in 1..Len(r) /\ n + (t + j - 1) = s + j - 1
      <4>1. /\ s \in Int /\ n \in Int /\ k \in Int /\ j \in Int /\ Len(r) \in Int
            /\ t \in Int /\ t >= 1 /\ n + t = s /\ t + k - 1 <= Len(r)
            /\ j >= 1 /\ j <= k
        BY <1>3, <1>7, <2>3, <2>5, <2>6
      <4> HIDE DEF n, k, g, t
      <4> QED
        BY <4>1
    <3> QED
      BY <1>6, <3>1
  <2>8. r[t] = b[s]
    <3>1. t \in 1..Len(r)
      BY <1>7, <2>5
    <3> QED
      BY <1>6, <2>5, <3>1
  <2> HIDE DEF t
  <2>9. FrameAt(r, t)
    BY <2>3, <2>6, <2>7, <2>8 DEF FrameAt
  <2> QED
    BY <2>5, <2>6, <2>8, <2>9
<1>9. Whole(r)
  BY <1>7, <1>8 DEF Whole
<1> QED
  BY <1>4, <1>5, <1>9 DEF r

(* The loop takes whole frames one by one until nothing is left.       *)
LEMMA WholeLoop ==
  ASSUME NEW b \in Seq(Cells), Whole(b)
  PROVE  /\ ParseLoop[b].kind = "none" /\ ParseLoop[b].rest = <<>>
         /\ \A i \in DOMAIN b : b[i][1] \in Range(ParseLoop[b].messages)
<1> DEFINE Good(c) ==
             /\ ParseLoop[c].kind = "none" /\ ParseLoop[c].rest = <<>>
             /\ \A i \in DOMAIN c : c[i][1] \in Range(ParseLoop[c].messages)
           X == {c \in Seq(Cells) : Whole(c) /\ ~Good(c)}
<1> SUFFICES ASSUME X # {} PROVE FALSE
  OBVIOUS
<1>1. PICK c \in X : \A d \in X : Len(c) <= Len(d)
  <2>1. X \in SUBSET Seq(Cells)
    OBVIOUS
  <2> HIDE DEF X
  <2> QED
    BY <2>1, Shortest
<1>2. c \in Seq(Cells) /\ Whole(c) /\ DOMAIN c = 1..Len(c) /\ Len(c) \in Nat
  BY LenProperties
<1>3. CASE c = <<>>
  <2>1. First(c) = Result("none", <<>>, <<>>, FALSE)
    BY <1>3 DEF First, ParseChar
  <2>2. First(c).kind # "message"
    BY <2>1 DEF Result
  <2>3. ParseLoop[c] = [First(c) EXCEPT !.messages = <<>>]
    BY <1>2, <2>2, LoopEnds
  <2>4. ParseLoop[c].kind = "none" /\ ParseLoop[c].rest = <<>>
    BY <2>1, <2>3 DEF Result
  <2> QED
    BY <1>3, <2>4
<1>4. CASE c # <<>>
  <2> DEFINE n == Size[c[1][1]]
             r == SubSeq(c, n + 1, Len(c))
  <2>1. First(c).kind = "message" /\ Whole(r) /\ \A i \in 1..n : c[i][1] = c[1][1]
    BY <1>2, <1>4, WholeFirst DEF First
  <2>2. /\ n \in 1..Len(c) /\ r \in Seq(Cells) /\ Len(r) = Len(c) - n
        /\ \A i \in 1..Len(r) : r[i] = c[n + i]
        /\ ParseLoop[c].kind = ParseLoop[r].kind
        /\ ParseLoop[c].rest = ParseLoop[r].rest
        /\ Range(ParseLoop[c].messages) = {c[1][1]} \cup Range(ParseLoop[r].messages)
    BY <1>2, <2>1, LoopAfterMessage
  <2> HIDE DEF n, r
  <2>3. Len(r) \in Nat /\ DOMAIN r = 1..Len(r) /\ ~(Len(c) <= Len(r))
    BY <1>2, <2>2, LenProperties
  <2>4. Good(r)
    BY <1>1, <2>1, <2>2, <2>3
  <2>5. ASSUME NEW i \in DOMAIN c PROVE c[i][1] \in Range(ParseLoop[c].messages)
    <3>1. CASE i <= n
      BY <1>2, <2>1, <2>2, <3>1
    <3>2. CASE i > n
      <4>1. i - n \in DOMAIN r /\ n + (i - n) = i
        <5>1. i \in 1..Len(c) /\ n \in 1..Len(c)
          BY <1>2, <2>2
        <5>2. i - n \in 1..Len(r)
          BY <1>2, <2>2, <3>2, <5>1
        <5> QED
          BY <2>3, <5>1, <5>2
      <4>2. r[i - n] = c[i]
        BY <2>2, <2>3, <4>1
      <4> QED
        BY <2>2, <2>4, <4>1, <4>2
    <3> QED
      BY <1>2, <2>2, <3>1, <3>2
  <2> QED
    BY <2>2, <2>4, <2>5
<1> QED
  BY <1>3, <1>4

------------------------------------------------------------------------------
(* parse_buffer is the loop, if its first call does not return None.   *)
LEMMA ParseBufferType ==
  ASSUME NEW b \in Seq(Cells), NEW err \in BOOLEAN
  PROVE  /\ ParseBuffer(b, err) \in Results
         /\ \A f \in Range(ParseBuffer(b, err).messages) :
              ParseBuffer(b, err).kind = "none" =>
                \E i \in DOMAIN b : b[i][1] = f
<1> DEFINE first == ParseChar(b, err)
<1>1. first \in Results
  BY ParseCharType
<1>2. CASE first.kind = "none"
  <2>1. ParseBuffer(b, err) = first
    BY <1>2 DEF ParseBuffer
  <2>2. first.messages = <<>>
    BY <1>2 DEF ParseChar, Result
  <2> QED
    BY <1>1, <2>1, <2>2 DEF Range
<1>3. CASE first.kind # "none"
  <2>1. ParseBuffer(b, err) = ParseLoop[b]
    BY <1>3 DEF ParseBuffer
  <2> QED
    BY <2>1, ParseLoopDef, MessagesComeIn
<1> QED
  BY <1>2, <1>3

(* The parser never holds anything but bytes that came in, and the     *)
(* counter of rejections stays below 100.                              *)
THEOREM TypeCorrect == Spec => []TypeOK
<1>1. Init => TypeOK
  <2> SUFFICES ASSUME Init PROVE TypeOK
    OBVIOUS
  <2>1. buf \in Seq(Cells)
    BY EmptySeq DEF Init
  <2>2. rejection_counter \in 0..99
    BY DEF Init
  <2>3. datagram \in Datagrams \cup {<<>>}
    BY DEF Init
  <2>4. have_prefix_error \in BOOLEAN /\ published \in BOOLEAN
    BY DEF Init
  <2> QED
    BY <2>1, <2>2, <2>3, <2>4 DEF TypeOK
<1>2. TypeOK /\ [Next]_vars => TypeOK'
  <2> SUFFICES ASSUME TypeOK, [Next]_vars PROVE TypeOK'
    OBVIOUS
  <2>1. CASE UNCHANGED vars
    BY <2>1 DEF TypeOK, vars
  <2>2. ASSUME NEW d \in Datagrams, PublishSatcomMessage(d) PROVE TypeOK'
    <3> DEFINE result == ParseBuffer(buf \o d, have_prefix_error)
    <3>1. buf \o d \in Seq(Cells)
      BY DatagramsAssumption, ConcatProperties DEF TypeOK
    <3>2. result \in Results
      BY <3>1, ParseBufferType DEF TypeOK
    <3>3. /\ buf' = result.rest /\ have_prefix_error' = result.error
          /\ published' = ~Blocks(result) /\ datagram' = d
          /\ rejection_counter' = IF Blocks(result) THEN Count ELSE rejection_counter
      BY <2>2 DEF PublishSatcomMessage
    <3> HIDE DEF result
    <3>4. rejection_counter' \in 0..99
      BY <3>3 DEF TypeOK, Count
    <3>5. published' \in BOOLEAN
      BY <3>3 DEF Blocks
    <3> QED
      BY <3>2, <3>3, <3>4, <3>5 DEF TypeOK, Results
  <2> QED
    BY <2>1, <2>2 DEF Next
<1> QED
  BY <1>1, <1>2, PTL DEF Spec

(* What a datagram is judged by: the bytes left in the parser and its  *)
(* own, as one sequence.                                               *)
LEMMA Judged ==
  ASSUME TypeOK, NEW d \in Datagrams, PublishSatcomMessage(d)
  PROVE  /\ buf \in Seq(Cells) /\ d \in Seq(Cells) /\ have_prefix_error \in BOOLEAN
         /\ buf \o d \in Seq(Cells) /\ datagram' = d
         /\ buf' = ParseBuffer(buf \o d, have_prefix_error).rest
         /\ published' = ~Blocks(ParseBuffer(buf \o d, have_prefix_error))
<1>1. buf \in Seq(Cells) /\ d \in Seq(Cells)
  BY DatagramsAssumption DEF TypeOK
<1>2. buf \o d \in Seq(Cells)
  BY <1>1, ConcatProperties
<1> QED
  BY <1>1, <1>2 DEF TypeOK, PublishSatcomMessage

(* Datagrams of whole frames of any number and size are judged exactly *)
(* and leave nothing in the parser, also after an exception left whole *)
(* frames in it.                                                       *)
THEOREM WholeFramesExact == Spec => WholeFramesJudged
<1>1. ASSUME TypeOK, Next, Whole(buf), Whole(datagram')
      PROVE  buf' = <<>> /\ published' = ~HasControl(buf \o datagram')
  <2>1. PICK d \in Datagrams : PublishSatcomMessage(d)
    BY <1>1 DEF Next
  <2> DEFINE b == buf \o d
             result == ParseBuffer(b, have_prefix_error)
  <2>2. /\ b \in Seq(Cells) /\ datagram' = d /\ buf' = result.rest
        /\ published' = ~Blocks(result) /\ have_prefix_error \in BOOLEAN
    BY <1>1, <2>1, Judged
  <2>3. Whole(b)
    BY <1>1, <2>1, <2>2, Judged, WholeConcat
  <2>4. /\ result.kind = "none" /\ result.rest = <<>>
        /\ \A i \in DOMAIN b : b[i][1] \in Range(result.messages)
    <3> HIDE DEF b
    <3>1. CASE b = <<>>
      <4>1. result = Result("none", <<>>, <<>>, FALSE)
        BY <3>1 DEF ParseBuffer, ParseChar, Result
      <4> QED
        BY <3>1, <4>1 DEF Result
    <3>2. CASE b # <<>>
      <4>1. result = ParseLoop[b]
        BY <2>2, <2>3, <3>2, WholeFirst DEF ParseBuffer
      <4> QED
        BY <2>2, <2>3, <4>1, WholeLoop
    <3> QED
      BY <3>1, <3>2
  <2>5. \A f \in Range(result.messages) : \E i \in DOMAIN b : b[i][1] = f
    BY <2>2, <2>4, ParseBufferType
  <2> HIDE DEF result
  <2>6. Blocks(result) <=> HasControl(b)
    BY <2>4, <2>5 DEF Blocks, HasControl
  <2>7. published' = ~HasControl(b)
    BY <2>2, <2>6 DEF HasControl, Blocks
  <2> QED
    BY <2>2, <2>4, <2>7
<1>2. TypeOK /\ [Next]_vars =>
        [Whole(buf) /\ Whole(datagram') =>
           /\ buf' = <<>>
           /\ published' = ~HasControl(buf \o datagram')]_vars
  BY <1>1
<1> QED
  BY <1>2, TypeCorrect, PTL DEF Spec, WholeFramesJudged

(* A frame of a newer dialect, of any size, reaches the plane and the  *)
(* parser is empty again afterwards.                                   *)
THEOREM UnknownFramesPass == Spec => UnknownFramePasses
<1>1. ASSUME TypeOK, Next, NEW f \in Frames \ Known, buf = <<>>, datagram' = Cut(f)
      PROVE  buf' = <<>> /\ published'
  <2>1. PICK d \in Datagrams : PublishSatcomMessage(d)
    BY <1>1 DEF Next
  <2> DEFINE b == buf \o d
             n == Size[f]
             result == ParseBuffer(b, have_prefix_error)
  <2>2. /\ d \in Seq(Cells) /\ datagram' = d /\ buf' = result.rest
        /\ published' = ~Blocks(result) /\ have_prefix_error \in BOOLEAN
    BY <1>1, <2>1, Judged
  <2>3. b = d
    BY <1>1, <2>2, ConcatEmptySeq
  <2>4. d = [i \in 1..n |-> <<f, i>>] /\ n \in Nat \ {0}
    BY <1>1, <2>2, FramesAssumption DEF Cut
  <2>5. Len(d) = n /\ d # <<>> /\ d[1] = <<f, 1>>
    <3>1. DOMAIN d = 1..n /\ 1 \in 1..n
      BY <2>4
    <3>2. DOMAIN d = 1..Len(d) /\ Len(d) \in Nat
      BY <2>2, LenProperties
    <3>3. Len(d) = n
      BY <2>4, <3>1, <3>2
    <3> QED
      BY <2>2, <2>4, <3>1, <3>3, EmptySeq
  <2>6. \A err \in BOOLEAN :
          ParseChar(d, err) = Result("raise", <<f>>, SubSeq(d, n + 1, Len(d)), FALSE)
    <3>1. d[1][1] = f /\ d[1][2] = 1 /\ ~(Len(d) < n)
      BY <2>4, <2>5
    <3> QED
      BY <1>1, <2>5, <3>1 DEF ParseChar
  <2>7. SubSeq(d, n + 1, Len(d)) = <<>>
    BY <2>4, <2>5, SubSeqEmpty
  <2> DEFINE raised == Result("raise", <<f>>, <<>>, FALSE)
  <2>8. result = ParseLoop[d]
    BY <2>2, <2>3, <2>6 DEF ParseBuffer, Result
  <2>9. First(d) = raised /\ raised.kind # "message"
    BY <2>6, <2>7 DEF First, Result
  <2>10. ParseLoop[d] = [raised EXCEPT !.messages = <<>>]
    <3> HIDE DEF raised
    <3> QED
      BY <2>2, <2>9, LoopEnds
  <2>11. result.kind = "raise" /\ result.rest = <<>>
    BY <2>8, <2>10 DEF Result
  <2> QED
    BY <2>2, <2>11 DEF Blocks
<1>2. TypeOK /\ [Next]_vars =>
        [\A f \in Frames \ Known :
           buf = <<>> /\ datagram' = Cut(f) => buf' = <<>> /\ published']_vars
  BY <1>1
<1> QED
  BY <1>2, TypeCorrect, PTL DEF Spec, UnknownFramePasses

(* Whatever bytes come in, in whatever pieces, the filter blocks none  *)
(* but those that MANUAL_CONTROL is part of.                           *)
THEOREM BlocksControlOnly == Spec => BlockedOnlyForControl
<1>1. ASSUME TypeOK, Next, ~published'
      PROVE  HasControl(buf \o datagram')
  <2>1. PICK d \in Datagrams : PublishSatcomMessage(d)
    BY <1>1 DEF Next
  <2> DEFINE b == buf \o d
             result == ParseBuffer(b, have_prefix_error)
  <2>2. /\ b \in Seq(Cells) /\ datagram' = d
        /\ published' = ~Blocks(result) /\ have_prefix_error \in BOOLEAN
    BY <1>1, <2>1, Judged
  <2>3. \A f \in Range(result.messages) :
          result.kind = "none" => \E i \in DOMAIN b : b[i][1] = f
    BY <2>2, ParseBufferType
  <2> HIDE DEF result
  <2>4. HasControl(b)
    BY <1>1, <2>2, <2>3 DEF Blocks, HasControl
  <2> QED
    BY <2>2, <2>4
<1>2. TypeOK /\ [Next]_vars => [~published' => HasControl(buf \o datagram')]_vars
  BY <1>1
<1> QED
  BY <1>2, TypeCorrect, PTL DEF Spec, BlockedOnlyForControl
================================================================================
