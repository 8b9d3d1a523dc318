------------------------------ MODULE LiveProofs ------------------------------
(***************************************************************************)
(* Proofs about a live reply: that the chunks of a text read as the text   *)
(* and are no longer than they may be, and that the loop which makes them  *)
(* comes to its end; that RunTurn answers with the last message of a       *)
(* process that ended well; and that the channel shows that answer.        *)
(***************************************************************************)
EXTENDS LiveTurn, WellFoundedInduction, TLAPS

-----------------------------------------------------------------------------
(* Least and greatest *)

LEMMA LeastExists ==
  ASSUME NEW T \in SUBSET Nat, T # {}
  PROVE  \E x \in T : \A y \in T : x <= y
<1> DEFINE R == OpToRel(<, Nat)
<1>1. IsWellFoundedOn(R, Nat)
  BY NatLessThanWellFounded
<1>2. \A x, y \in Nat : x < y => <<x, y>> \in R
  BY DEF OpToRel
<1> HIDE DEF R
<1>3. PICK x \in T : \A y \in T : ~(<<y, x>> \in R)
  BY <1>1, WFMin
<1>4. \A y \in T : x \in Nat /\ y \in Nat /\ ~(y < x)
  BY <1>2, <1>3
<1>5. \A y \in T : x <= y
  BY <1>4
<1>6. QED
  BY <1>5

LEMMA MinIsLeast ==
  ASSUME NEW T \in SUBSET Nat, T # {}
  PROVE  Min(T) \in T /\ \A y \in T : Min(T) <= y
BY LeastExists DEF Min

LEMMA MaxIsGreatest ==
  ASSUME NEW n \in Nat, NEW T \in SUBSET (0..n), T # {}
  PROVE  Max(T) \in T /\ \A y \in T : y <= Max(T)
<1> DEFINE U == {m \in Nat : \A y \in T : y <= m}
<1>1. n \in U /\ U \in SUBSET Nat
  OBVIOUS
<1>2. PICK u \in U : \A m \in U : u <= m
  BY <1>1, LeastExists
<1>3. u \in T
  <2>1. ASSUME u \notin T PROVE FALSE
    <3>1. \A y \in T : y <= u /\ y # u /\ y \in Nat
      BY <1>2, <2>1
    <3>2. u > 0
      <4>1. PICK y \in T : TRUE
        OBVIOUS
      <4>2. y <= u /\ y # u /\ y \in Nat /\ u \in Nat
        BY <1>2, <3>1
      <4>3. QED
        BY <4>2
    <3>3. u - 1 \in Nat /\ \A y \in T : y <= u - 1
      BY <1>2, <3>1, <3>2
    <3>4. u <= u - 1
      BY <1>2, <3>3
    <3>5. QED
      BY <1>2, <3>4
  <2>2. QED
    BY <2>1
<1>4. \E x \in T : \A y \in T : x >= y
  BY <1>2, <1>3
<1>5. QED
  BY <1>4 DEF Max

-----------------------------------------------------------------------------
(* The chunks of a text *)

Pages(b) == Append(b.chunks, b.current)

\* The pages hold the text up to a place, and nothing behind it.
HoldsUpTo(pages, lines, line, from) ==
    /\ InOrder(pages) /\ Within(pages, lines) /\ CompleteUpTo(pages, lines, line, from)
    /\ CutsAtBlanks(pages, lines)
    /\ \A i \in DOMAIN pages : \A k \in DOMAIN pages[i] :
          LET p == pages[i][k]
          IN  IsPiece(p) => p.line < line \/ (p.line = line /\ p.from + p.size <= from)

\* Only the items and their places count.
LEMMA SameItems ==
  ASSUME NEW P, NEW Q, NEW lines, NEW line, NEW from, HoldsUpTo(P, lines, line, from),
         \A i \in DOMAIN Q : \A k \in DOMAIN Q[i] :
            i \in DOMAIN P /\ k \in DOMAIN P[i] /\ P[i][k] = Q[i][k],
         \A i \in DOMAIN P : \A k \in DOMAIN P[i] :
            i \in DOMAIN Q /\ k \in DOMAIN Q[i] /\ P[i][k] = Q[i][k]
  PROVE  HoldsUpTo(Q, lines, line, from)
<1>1. InOrder(Q)
  BY DEF HoldsUpTo, InOrder
<1>2. Within(Q, lines)
  BY DEF HoldsUpTo, Within
<1>3. CompleteUpTo(Q, lines, line, from)
  BY DEF HoldsUpTo, CompleteUpTo
<1>4. CutsAtBlanks(Q, lines)
  BY DEF HoldsUpTo, CutsAtBlanks
<1>5. QED
  BY <1>1, <1>2, <1>3, <1>4 DEF HoldsUpTo

LEMMA PageAdded ==
  ASSUME NEW P \in Seq(Seq(Item)), NEW lines, NEW line, NEW from
  PROVE  HoldsUpTo(P, lines, line, from) <=> HoldsUpTo(Append(P, <<>>), lines, line, from)
<1> DEFINE Q == Append(P, <<>>)
<1>1. DOMAIN Q = 1..Len(P) + 1 /\ DOMAIN P = 1..Len(P) /\ Len(P) \in Nat
  OBVIOUS
<1>2. \A i \in DOMAIN P : Q[i] = P[i]
  OBVIOUS
<1>3. Q[Len(P) + 1] = <<>>
  OBVIOUS
<1> HIDE DEF Q
<1>4. \A i \in DOMAIN Q : \A k \in DOMAIN Q[i] :
         i \in DOMAIN P /\ k \in DOMAIN P[i] /\ P[i][k] = Q[i][k]
  BY <1>1, <1>2, <1>3
<1>5. \A i \in DOMAIN P : \A k \in DOMAIN P[i] :
         i \in DOMAIN Q /\ k \in DOMAIN Q[i] /\ P[i][k] = Q[i][k]
  BY <1>1, <1>2
<1>6. HoldsUpTo(P, lines, line, from) => HoldsUpTo(Q, lines, line, from)
  BY <1>4, <1>5, SameItems
<1>7. HoldsUpTo(Q, lines, line, from) => HoldsUpTo(P, lines, line, from)
  BY <1>4, <1>5, SameItems
<1>8. QED
  BY <1>6, <1>7 DEF Q

\* A line is cut between characters, or has no blank to be cut at.
WellCut(line, from, to) ==
    to \in line.inner => \A blank \in line.blanks : ~(from < blank /\ blank < to)

\* An item at the end of the last page: an added fence, or the next piece.
LEMMA ItemAdded ==
  ASSUME NEW C \in Seq(Seq(Item)), NEW D \in Seq(Item), NEW x \in Item,
         NEW lines, IsText(lines), NEW line \in Nat, NEW from \in Nat, NEW to \in Nat,
         HoldsUpTo(Append(C, D), lines, line, from),
         \/ ~IsPiece(x) /\ to = from
         \/ /\ IsPiece(x) /\ line \in DOMAIN lines /\ from <= to /\ to <= lines[line].size
            /\ x.line = line /\ x.from = from /\ x.size = to - from
            /\ WellCut(lines[line], from, to)
  PROVE  HoldsUpTo(Append(C, Append(D, x)), lines, line, to)
<1> DEFINE P == Append(C, D)
           Q == Append(C, Append(D, x))
           n == Len(C) + 1
           m == Len(D) + 1
<1>1. n \in Nat /\ m \in Nat /\ n >= 1 /\ m >= 1 /\ DOMAIN P = 1..n /\ DOMAIN Q = 1..n
  OBVIOUS
<1>2. \A i \in 1..n : i # n => Q[i] = P[i] /\ P[i] \in Seq(Item)
  OBVIOUS
<1>3. P[n] = D /\ Q[n] = Append(D, x)
  OBVIOUS
<1>4. DOMAIN Q[n] = 1..m /\ DOMAIN P[n] = 1..m - 1 /\ Q[n][m] = x
      /\ \A k \in 1..m - 1 : Q[n][k] = P[n][k]
  BY <1>3
<1> HIDE DEF P, Q, n, m
<1>5. ASSUME NEW i \in 1..n, NEW k \in DOMAIN P[i]
      PROVE  /\ k \in DOMAIN Q[i] /\ Q[i][k] = P[i][k] /\ P[i][k] \in Item
             /\ k \in Nat /\ i \in Nat /\ (i < n \/ (i = n /\ k < m))
  <2>1. CASE i = n
    <3>1. P[n] \in Seq(Item)
      BY <1>3
    <3>2. QED
      BY <1>1, <1>4, <2>1, <3>1
  <2>2. CASE i # n
    BY <1>1, <1>2, <2>2
  <2>3. QED
    BY <2>1, <2>2
<1>6. ASSUME NEW i \in 1..n, NEW k \in DOMAIN Q[i]
      PROVE  \/ k \in DOMAIN P[i] /\ Q[i][k] = P[i][k]
             \/ i = n /\ k = m /\ Q[i][k] = x
  BY <1>1, <1>2, <1>4
<1>7. HoldsUpTo(P, lines, line, from)
  BY DEF P
<1>8. \A i \in 1..n : \A k \in DOMAIN P[i] :
         LET p == P[i][k]
         IN  IsPiece(p) => /\ p.line < line \/ (p.line = line /\ p.from + p.size <= from)
                           /\ p.line \in DOMAIN lines /\ p.from + p.size <= lines[p.line].size
  BY <1>1, <1>7 DEF HoldsUpTo, Within
<1>9. InOrder(Q)
  <2>1. ASSUME NEW i \in 1..n, NEW j \in 1..n, NEW k \in DOMAIN Q[i], NEW l \in DOMAIN Q[j],
               i < j \/ (i = j /\ k < l), IsPiece(Q[i][k]), IsPiece(Q[j][l])
        PROVE  EndsBefore(Q[i][k], Q[j][l])
    <3>1. CASE k \in DOMAIN P[i] /\ l \in DOMAIN P[j]
      <4>1. Q[i][k] = P[i][k] /\ Q[j][l] = P[j][l]
        BY <1>5, <3>1
      <4>2. QED
        BY <1>1, <1>7, <2>1, <3>1, <4>1 DEF HoldsUpTo, InOrder
    <3>2. CASE k \in DOMAIN P[i] /\ l \notin DOMAIN P[j]
      <4>1. Q[i][k] = P[i][k] /\ Q[j][l] = x
        BY <1>5, <1>6, <3>2
      <4>2. QED
        BY <1>8, <2>1, <3>2, <4>1 DEF EndsBefore
    <3>3. CASE k \notin DOMAIN P[i]
      <4>1. i = n /\ k = m
        BY <1>6, <3>3
      <4>2. j = n /\ k < l
        BY <1>1, <2>1, <4>1
      <4>3. QED
        BY <1>1, <1>4, <4>1, <4>2
    <3>4. QED
      BY <3>1, <3>2, <3>3
  <2>2. QED
    BY <1>1, <2>1 DEF InOrder
<1>10. ASSUME NEW i \in 1..n, NEW k \in DOMAIN Q[i], IsPiece(Q[i][k])
       PROVE  /\ Q[i][k].line \in DOMAIN lines
              /\ Q[i][k].from + Q[i][k].size <= lines[Q[i][k].line].size
              /\ Q[i][k].line < line \/ (Q[i][k].line = line /\ Q[i][k].from + Q[i][k].size <= to)
  <2>1. CASE k \in DOMAIN P[i] /\ Q[i][k] = P[i][k]
    <3>1. P[i][k] \in Item /\ from <= to
      BY <1>5, <2>1
    <3>2. QED
      BY <1>8, <1>10, <2>1, <3>1 DEF Item
  <2>2. CASE Q[i][k] = x
    BY <1>10, <2>2
  <2>3. QED
    BY <1>6, <2>1, <2>2
<1>11. CompleteUpTo(Q, lines, line, to)
  <2>1. ASSUME NEW h \in DOMAIN lines, NEW c \in 0..lines[h].size - 1, h < line \/ (h = line /\ c < to)
        PROVE  \E i \in 1..n : \E k \in DOMAIN Q[i] : Covers(Q[i][k], h, c)
    <3>1. CASE h < line \/ (h = line /\ c < from)
      <4>1. PICK i \in 1..n : \E k \in DOMAIN P[i] : Covers(P[i][k], h, c)
        BY <1>1, <1>7, <3>1 DEF HoldsUpTo, CompleteUpTo
      <4>2. QED
        BY <1>5, <4>1
    <3>2. CASE ~(h < line \/ (h = line /\ c < from))
      <4>0. c \in Nat
        BY DEF IsText, Line
      <4>1. h = line /\ from <= c /\ c < to
        BY <2>1, <3>2, <4>0
      <4>2. Covers(x, h, c)
        <5>1. to # from
          BY <4>0, <4>1
        <5>2. x.line = line /\ x.from = from /\ x.size = to - from /\ IsPiece(x)
          BY <5>1
        <5>3. c < from + (to - from)
          BY <4>0, <4>1
        <5>4. QED
          BY <4>1, <5>2, <5>3 DEF Covers
      <4>3. n \in 1..n /\ m \in DOMAIN Q[n] /\ Q[n][m] = x
        BY <1>1, <1>4
      <4>4. QED
        BY <4>2, <4>3
    <3>3. QED
      BY <3>1, <3>2
  <2>2. QED
    BY <1>1, <2>1 DEF CompleteUpTo
<1>12. Within(Q, lines)
  BY <1>1, <1>10 DEF Within
<1>13. CutsAtBlanks(Q, lines)
  <2>1. ASSUME NEW i \in 1..n, NEW k \in DOMAIN Q[i], IsPiece(Q[i][k])
        PROVE  WellCut(lines[Q[i][k].line], Q[i][k].from, Q[i][k].from + Q[i][k].size)
    <3>1. CASE k \in DOMAIN P[i] /\ Q[i][k] = P[i][k]
      BY <1>1, <1>7, <2>1, <3>1 DEF HoldsUpTo, CutsAtBlanks, WellCut
    <3>2. CASE Q[i][k] = x
      <4>1. x.line = line /\ x.from = from /\ x.size = to - from /\ WellCut(lines[line], from, to)
        BY <2>1, <3>2
      <4>2. from + (to - from) = to
        OBVIOUS
      <4>3. QED
        BY <3>2, <4>1, <4>2
    <3>3. QED
      BY <1>6, <3>1, <3>2
  <2>2. QED
    BY <1>1, <2>1 DEF CutsAtBlanks, WellCut
<1>14. HoldsUpTo(Q, lines, line, to)
  BY <1>1, <1>9, <1>10, <1>11, <1>12, <1>13 DEF HoldsUpTo
<1>15. QED
  BY <1>14 DEF Q

LEMMA LineEnds ==
  ASSUME NEW P, NEW lines, IsText(lines), NEW line \in DOMAIN lines,
         HoldsUpTo(P, lines, line, lines[line].size),
         \A i \in DOMAIN P : \A k \in DOMAIN P[i] : P[i][k] \in Item
  PROVE  HoldsUpTo(P, lines, line + 1, 0)
<1>1. line \in Nat /\ DOMAIN lines \subseteq Nat /\ \A h \in DOMAIN lines : lines[h].size \in Nat
  <2>1. lines \in Seq(Line)
    BY DEF IsText
  <2>2. DOMAIN lines = 1..Len(lines) /\ \A h \in DOMAIN lines : lines[h] \in Line
    BY <2>1
  <2>3. \A h \in DOMAIN lines : lines[h].size \in Nat
    BY <2>2 DEF Line
  <2>4. QED
    BY <2>2, <2>3
<1>2. ASSUME NEW h \in DOMAIN lines, NEW c \in 0..lines[h].size - 1, h < line + 1 \/ (h = line + 1 /\ c < 0)
      PROVE  h < line \/ (h = line /\ c < lines[line].size)
  <2>1. h \in Nat /\ c \in Nat /\ c < lines[h].size
    BY <1>1
  <2>2. h < line \/ h = line
    BY <1>1, <1>2, <2>1
  <2>3. QED
    BY <2>1, <2>2
<1>3. CompleteUpTo(P, lines, line + 1, 0)
  BY <1>2 DEF HoldsUpTo, CompleteUpTo
<1>4. ASSUME NEW i \in DOMAIN P, NEW k \in DOMAIN P[i], IsPiece(P[i][k])
      PROVE  P[i][k].line < line + 1
  BY <1>1, <1>4 DEF HoldsUpTo, Item
<1>5. QED
  BY <1>3, <1>4 DEF HoldsUpTo

-----------------------------------------------------------------------------
(* The loop that makes them *)

ChunkInv(b, lines) ==
    /\ b \in LoopState
    /\ b.open = 0 \/ b.open \in DOMAIN lines
    /\ b.line \in 1..Len(lines) + 1
    /\ b.line \in DOMAIN lines => b.from <= lines[b.line].size
    /\ HoldsUpTo(Pages(b), lines, b.line, b.from)

LEMMA LineTypes ==
  ASSUME NEW lines, IsText(lines)
  PROVE  /\ Len(lines) \in Nat /\ DOMAIN lines = 1..Len(lines)
         /\ \A i \in DOMAIN lines :
               /\ i \in Nat /\ lines[i].size \in Nat \ {0} /\ lines[i].fence \in Nat
               /\ lines[i].blanks \in SUBSET Nat /\ lines[i].inner \in SUBSET Nat
               /\ lines[i].size \notin lines[i].inner /\ lines[i].inner \cap lines[i].blanks = {}
<1>1. lines \in Seq(Line)
  BY DEF IsText
<1>2. DOMAIN lines = 1..Len(lines) /\ Len(lines) \in Nat /\ \A i \in DOMAIN lines : lines[i] \in Line
  BY <1>1
<1>3. \A i \in DOMAIN lines :
         /\ lines[i].size \in Nat \ {0} /\ lines[i].fence \in Nat
         /\ lines[i].blanks \in SUBSET Nat /\ lines[i].inner \in SUBSET Nat
  BY <1>2 DEF Line
<1>4. ASSUME NEW i \in DOMAIN lines PROVE lines[i].size \notin lines[i].inner
  <2>1. PICK n \in Nat : n = lines[i].size
    BY <1>3
  <2>2. n \notin 1..n - 1
    OBVIOUS
  <2>3. lines[i].inner \subseteq 1..n - 1
    BY <2>1 DEF IsText
  <2>4. QED
    BY <2>1, <2>2, <2>3
<1>5. \A i \in DOMAIN lines : lines[i].inner \cap lines[i].blanks = {}
  BY DEF IsText
<1>6. QED
  BY <1>2, <1>3, <1>4, <1>5

\* What is written to a chunk.
LEMMA UsedTypes ==
  ASSUME NEW s \in Seq(Item)
  PROVE  Used(s) \in Nat
<1>1. CASE s = <<>>
  BY <1>1 DEF Used
<1>2. CASE s # <<>>
  <2>1. Len(s) \in DOMAIN s
    BY <1>2
  <2>2. Last(s) \in Item
    BY <2>1 DEF Last
  <2>3. QED
    BY <1>2, <2>2 DEF Used, Item
<1>3. QED
  BY <1>1, <1>2

Written(x, s, kind, line, from, size) ==
    /\ x.kind = kind /\ x.line = line /\ x.from = from /\ x.size = size
    /\ x.end = Used(s) + size

LEMMA PutItem ==
  ASSUME NEW s \in Seq(Item), NEW kind \in {"piece", "reopened", "closed"}, NEW line \in Nat,
         NEW from \in Nat, NEW size \in Nat
  PROVE  \E x \in Item : /\ Put(s, kind, line, from, size) = Append(s, x)
                        /\ Written(x, s, kind, line, from, size)
<1>1. PICK x : x = [kind |-> kind, line |-> line, from |-> from, size |-> size,
                    end |-> Used(s) + size]
  OBVIOUS
<1>2. Written(x, s, kind, line, from, size)
  BY <1>1 DEF Written
<1>3. x \in Item
  BY <1>1, UsedTypes DEF Item
<1>4. Put(s, kind, line, from, size) = Append(s, x)
  BY <1>1 DEF Put
<1>5. QED
  BY <1>2, <1>3, <1>4

LEMMA PutTypes ==
  ASSUME NEW s \in Seq(Item), NEW kind \in {"piece", "reopened", "closed"}, NEW line \in Nat,
         NEW from \in Nat, NEW size \in Nat
  PROVE  /\ Put(s, kind, line, from, size) \in Seq(Item) /\ Put(s, kind, line, from, size) # <<>>
         /\ Used(Put(s, kind, line, from, size)) = Used(s) + size
<1>1. PICK x \in Item : /\ Put(s, kind, line, from, size) = Append(s, x)
                        /\ Written(x, s, kind, line, from, size)
  BY PutItem
<1>2. PICK t : t = Put(s, kind, line, from, size)
  OBVIOUS
<1>3. t \in Seq(Item) /\ t # <<>> /\ Last(t) = x
  BY <1>1, <1>2 DEF Last
<1>4. Used(t) = Used(s) + size
  BY <1>1, <1>3 DEF Used, Written
<1>5. QED
  BY <1>2, <1>3, <1>4

LEMMA CloseKeeps ==
  ASSUME NEW lines, IsText(lines), NEW b \in LoopState, HoldsUpTo(Pages(b), lines, b.line, b.from)
  PROVE  /\ Close(b, lines) \in LoopState
         /\ Close(b, lines).open = b.open /\ Close(b, lines).line = b.line
         /\ Close(b, lines).from = b.from
         /\ HoldsUpTo(Pages(Close(b, lines)), lines, b.line, b.from)
<1>1. CASE b.open = 0 \/ EndsFenced(b, lines)
  BY <1>1 DEF Close
<1>2. CASE ~(b.open = 0 \/ EndsFenced(b, lines))
  <2>1. Closing \in Nat /\ b.current \in Seq(Item)
    BY LimitAssumption DEF LoopState
  <2>2. PICK x \in Item : /\ Put(b.current, "closed", 0, 0, Closing) = Append(b.current, x)
                          /\ ~IsPiece(x)
    <3>1. PICK x \in Item : /\ Put(b.current, "closed", 0, 0, Closing) = Append(b.current, x)
                            /\ Written(x, b.current, "closed", 0, 0, Closing)
      BY <2>1, PutItem
    <3>2. QED
      BY <3>1 DEF IsPiece, Written
  <2>3. /\ b.chunks \in Seq(Seq(Item)) /\ b.current \in Seq(Item) /\ b.open \in Nat
        /\ b.line \in Nat /\ b.from \in Nat
    BY DEF LoopState
  <2>4. Append(b.current, x) \in Seq(Item)
    BY <2>2, <2>3
  <2>5. PICK c : c = Close(b, lines)
    OBVIOUS
  <2>6. c = [b EXCEPT !.current = Append(b.current, x)]
    BY <1>2, <2>2, <2>5 DEF Close
  <2>7. /\ c \in LoopState /\ c.open = b.open /\ c.line = b.line /\ c.from = b.from
         /\ c.chunks = b.chunks /\ c.current = Append(b.current, x)
    BY <2>4, <2>6 DEF LoopState
  <2>8. HoldsUpTo(Append(b.chunks, Append(b.current, x)), lines, b.line, b.from)
    BY <2>2, <2>3, ItemAdded DEF Pages
  <2>9. QED
    BY <2>5, <2>7, <2>8 DEF Pages
<1>3. QED
  BY <1>1, <1>2

LEMMA FlushKeeps ==
  ASSUME NEW lines, NEW b \in LoopState, HoldsUpTo(Pages(b), lines, b.line, b.from)
  PROVE  /\ Flush(b) \in LoopState
         /\ Flush(b).open = b.open /\ Flush(b).line = b.line /\ Flush(b).from = b.from
         /\ Flush(b).current = <<>>
         /\ HoldsUpTo(Pages(Flush(b)), lines, b.line, b.from)
<1>1. CASE b.current = <<>>
  BY <1>1 DEF Flush
<1>2. CASE b.current # <<>>
  <2>1. /\ b.chunks \in Seq(Seq(Item)) /\ b.current \in Seq(Item) /\ b.open \in Nat
        /\ b.line \in Nat /\ b.from \in Nat
    BY DEF LoopState
  <2>2. PICK pages \in Seq(Seq(Item)) : pages = Append(b.chunks, b.current)
    <3>1. Append(b.chunks, b.current) \in Seq(Seq(Item))
      BY <2>1
    <3>2. QED
      BY <3>1
  <2>3. Flush(b) = [b EXCEPT !.chunks = pages, !.current = <<>>] /\ <<>> \in Seq(Item)
    BY <1>2, <2>2 DEF Flush
  <2>4. /\ Flush(b) \in LoopState /\ Flush(b).open = b.open /\ Flush(b).line = b.line
        /\ Flush(b).from = b.from /\ Flush(b).chunks = pages
        /\ Flush(b).current = <<>>
    BY <2>2, <2>3 DEF LoopState
  <2>5. HoldsUpTo(Append(pages, <<>>), lines, b.line, b.from)
    BY <2>2, PageAdded DEF Pages
  <2>6. QED
    BY <2>4, <2>5 DEF Pages
<1>3. QED
  BY <1>1, <1>2

\* A chunk ends, and a code block in it is closed.
LEMMA EndKeeps ==
  ASSUME NEW lines, IsText(lines), NEW b, ChunkInv(b, lines)
  PROVE  /\ ChunkInv(Flush(Close(b, lines)), lines) /\ Flush(Close(b, lines)).current = <<>>
         /\ Flush(Close(b, lines)).line = b.line /\ Flush(Close(b, lines)).from = b.from
<1>1. /\ Close(b, lines) \in LoopState
      /\ Close(b, lines).open = b.open /\ Close(b, lines).line = b.line
      /\ Close(b, lines).from = b.from
      /\ HoldsUpTo(Pages(Close(b, lines)), lines, b.line, b.from)
  BY CloseKeeps DEF ChunkInv
<1>2. PICK c : c = Close(b, lines)
  OBVIOUS
<1>3. /\ Flush(c) \in LoopState
      /\ Flush(c).open = c.open /\ Flush(c).line = c.line /\ Flush(c).from = c.from
      /\ Flush(c).current = <<>>
      /\ HoldsUpTo(Pages(Flush(c)), lines, c.line, c.from)
  BY <1>1, <1>2, FlushKeeps
<1>4. QED
  BY <1>1, <1>2, <1>3 DEF ChunkInv

LEMMA TakeKeeps ==
  ASSUME NEW lines, IsText(lines), NEW b, ChunkInv(b, lines), b.line \in DOMAIN lines,
         NEW n \in Nat, b.from + n <= lines[b.line].size,
         WellCut(lines[b.line], b.from, b.from + n)
  PROVE  /\ ChunkInv(Take(b, lines, n), lines)
         /\ Take(b, lines, n).line = b.line /\ Take(b, lines, n).from = b.from + n
<1>1. /\ b.chunks \in Seq(Seq(Item)) /\ b.current \in Seq(Item) /\ b.open \in Nat
      /\ b.line \in Nat /\ b.from \in Nat
  BY DEF ChunkInv, LoopState
<1>2. Prefix(b, lines) \in Nat
  BY LineTypes DEF Prefix, ChunkInv
<1>3. PICK start : start = Begun(b, lines)
  OBVIOUS
<1>4. start \in Seq(Item) /\ HoldsUpTo(Append(b.chunks, start), lines, b.line, b.from)
  <2>1. CASE Prefix(b, lines) > 0
    <3>1. PICK x \in Item :
            /\ Put(b.current, "reopened", 0, 0, Prefix(b, lines)) = Append(b.current, x)
            /\ Written(x, b.current, "reopened", 0, 0, Prefix(b, lines))
      BY <1>1, <1>2, PutItem
    <3>2. ~IsPiece(x)
      BY <3>1 DEF IsPiece, Written
    <3>3. start = Append(b.current, x)
      BY <1>3, <2>1, <3>1 DEF Begun
    <3>4. start \in Seq(Item)
      BY <1>1, <3>3
    <3>5. QED
      BY <1>1, <3>2, <3>3, <3>4, ItemAdded DEF ChunkInv, Pages
  <2>2. CASE ~(Prefix(b, lines) > 0)
    BY <1>1, <1>3, <2>2 DEF Begun, ChunkInv, Pages
  <2>3. QED
    BY <2>1, <2>2
<1>5. PICK x \in Item :
        /\ Put(start, "piece", b.line, b.from, n) = Append(start, x)
        /\ x.kind = "piece" /\ x.line = b.line /\ x.from = b.from /\ x.size = n
  <2>1. PICK x \in Item : /\ Put(start, "piece", b.line, b.from, n) = Append(start, x)
                          /\ Written(x, start, "piece", b.line, b.from, n)
    BY <1>1, <1>4, PutItem
  <2>2. QED
    BY <2>1 DEF Written
<1>6. x \in Item /\ IsPiece(x) /\ x.line = b.line /\ x.from = b.from /\ x.size = n
  BY <1>5 DEF IsPiece
<1>7. PICK to \in Nat : to = b.from + n
  BY <1>1
<1>8. b.from <= to /\ n = to - b.from /\ to <= lines[b.line].size
  <2>1. lines[b.line].size \in Nat
    BY LineTypes
  <2>2. QED
    BY <1>1, <1>7, <2>1
<1>9. HoldsUpTo(Append(b.chunks, Append(start, x)), lines, b.line, to)
  BY <1>1, <1>4, <1>6, <1>7, <1>8, ItemAdded
<1>10. Take(b, lines, n) = [b EXCEPT !.current = Append(start, x), !.from = to]
  BY <1>3, <1>5, <1>7 DEF Take
<1>11. Append(start, x) \in Seq(Item)
  BY <1>4, <1>6
<1>12. PICK c : c = Take(b, lines, n)
  OBVIOUS
<1>13. /\ c \in LoopState /\ c.chunks = b.chunks /\ c.current = Append(start, x)
       /\ c.open = b.open /\ c.line = b.line /\ c.from = to
  BY <1>7, <1>10, <1>11, <1>12 DEF LoopState, ChunkInv
<1>14. HoldsUpTo(Pages(c), lines, c.line, c.from)
  BY <1>9, <1>13 DEF Pages
<1>15. QED
  BY <1>7, <1>8, <1>12, <1>13, <1>14 DEF ChunkInv

\* The last piece of a line is placed.
LEMMA NextLineKeeps ==
  ASSUME NEW lines, IsText(lines), NEW b, ChunkInv(b, lines), b.line \in DOMAIN lines,
         b.from = lines[b.line].size
  PROVE  ChunkInv(NextLine(b, lines), lines)
<1>1. /\ b.chunks \in Seq(Seq(Item)) /\ b.current \in Seq(Item) /\ b.open \in Nat
      /\ b.line \in Nat /\ b.from \in Nat
  BY DEF ChunkInv, LoopState
<1>2. \A i \in DOMAIN Pages(b) : \A k \in DOMAIN Pages(b)[i] : Pages(b)[i][k] \in Item
  <2>1. Pages(b) \in Seq(Seq(Item))
    BY <1>1 DEF Pages
  <2>2. \A i \in DOMAIN Pages(b) : Pages(b)[i] \in Seq(Item)
    BY <2>1
  <2>3. QED
    BY <2>2
<1>3. HoldsUpTo(Pages(b), lines, b.line + 1, 0)
  BY <1>2, LineEnds DEF ChunkInv
<1>4. PICK c : c = NextLine(b, lines)
  OBVIOUS
<1>5. PICK o : o = IF lines[b.line].fence = 0 THEN b.open ELSE IF b.open = 0 THEN b.line ELSE 0
  OBVIOUS
<1>6. o \in Nat /\ (o = 0 \/ o \in DOMAIN lines)
  BY <1>1, <1>5 DEF ChunkInv
<1>7. c = [b EXCEPT !.line = b.line + 1, !.from = 0, !.open = o]
  BY <1>4, <1>5 DEF NextLine
<1>8. /\ c \in LoopState /\ c.chunks = b.chunks /\ c.current = b.current
      /\ c.open = o /\ c.line = b.line + 1 /\ c.from = 0
  <2>1. b \in LoopState /\ b.line + 1 \in Nat
    BY <1>1 DEF ChunkInv
  <2>2. QED
    BY <1>6, <1>7, <2>1 DEF LoopState
<1>9. HoldsUpTo(Pages(c), lines, c.line, c.from)
  BY <1>3, <1>8 DEF Pages
<1>10. c.line \in 1..Len(lines) + 1
  BY <1>1, <1>8, LineTypes
<1>11. c.line \in DOMAIN lines => c.from <= lines[c.line].size
  BY <1>8, LineTypes
<1>12. QED
  BY <1>4, <1>6, <1>8, <1>9, <1>10, <1>11 DEF ChunkInv

\* A line is cut where there is room for it, at a blank if there is one, and
\* something is cut off if there is any room.
LEMMA CutFits ==
  ASSUME NEW blanks \in SUBSET Nat, NEW line, line.blanks = blanks, line.inner \cap blanks = {},
         NEW from \in Nat, NEW left \in Nat
  PROVE  /\ Cut(line, from, left) \in 0..left /\ (left > 0 => Cut(line, from, left) > 0)
         /\ WellCut(line, from, from + Cut(line, from, left))
<1> DEFINE T == {p \in blanks : from < p /\ p < from + left}
<1>0. Cut(line, from, left) = IF T = {} THEN left ELSE Max(T) - from
  BY DEF Cut
<1>1. CASE T = {}
  <2>1. Cut(line, from, left) = left
    BY <1>0, <1>1
  <2>2. \A p \in blanks : ~(from < p /\ p < from + left)
    BY <1>1
  <2>3. WellCut(line, from, from + left)
    BY <2>2 DEF WellCut
  <2>4. left \in 0..left
    OBVIOUS
  <2>5. QED
    BY <2>1, <2>3, <2>4
<1>2. CASE T # {}
  <2>1. T \in SUBSET (0..from + left) /\ from + left \in Nat
    <3>1. PICK to \in Nat : to = from + left
      OBVIOUS
    <3>2. \A p \in T : p \in Nat /\ p < to
      BY <3>1
    <3>3. \A p \in T : p \in 0..to
      BY <3>2
    <3>4. QED
      BY <3>1, <3>3
  <2>2. Max(T) \in T
    BY <1>2, <2>1, MaxIsGreatest
  <2>3. PICK p \in T : p = Max(T)
    BY <2>2
  <2>4. Cut(line, from, left) = p - from
    BY <1>0, <1>2, <2>3
  <2>5. p \in Nat /\ from < p /\ p < from + left /\ p \in blanks /\ from + (p - from) = p
    BY <2>3
  <2>6. p \notin line.inner
    BY <2>5
  <2>7. WellCut(line, from, from + (p - from))
    BY <2>5, <2>6 DEF WellCut
  <2>8. p - from \in 0..left /\ p - from > 0
    BY <2>5
  <2>9. QED
    BY <2>4, <2>7, <2>8
<1>3. QED
  BY <1>1, <1>2

\* Chunks are as long as they may be, the one under construction not longer than
\* Limit; and there is something to place in the line at hand.
SizesInv(b) == Used(b.current) <= Limit /\ \A i \in DOMAIN Pages(b) : Sized(Pages(b)[i])
LoopInv(b, lines) ==
    /\ ChunkInv(b, lines) /\ SizesInv(b)
    /\ b.line \in DOMAIN lines => b.from < lines[b.line].size

LEMMA PutSized ==
  ASSUME NEW s \in Seq(Item), Sized(s), NEW kind \in {"piece", "reopened", "closed"}, NEW line \in Nat,
         NEW from \in Nat, NEW size \in Nat,
         Used(s) + size <= IF kind = "closed" THEN Limit + Closing ELSE Limit
  PROVE  Sized(Put(s, kind, line, from, size))
<1>1. PICK x \in Item :
        /\ Put(s, kind, line, from, size) = Append(s, x)
        /\ x.kind = kind /\ x.size = size /\ x.end = Used(s) + size
  <2>1. PICK x \in Item : /\ Put(s, kind, line, from, size) = Append(s, x)
                          /\ Written(x, s, kind, line, from, size)
    BY PutItem
  <2>2. QED
    BY <2>1 DEF Written
<1>2. PICK t : t = Append(s, x)
  OBVIOUS
<1>3. PICK n \in Nat : n = Len(s)
  OBVIOUS
<1>4. DOMAIN s = 1..n /\ DOMAIN t = 1..n + 1 /\ t[n + 1] = x
      /\ \A k \in 1..n : t[k] = s[k] /\ SubSeq(t, 1, k - 1) = SubSeq(s, 1, k - 1)
  BY <1>2, <1>3
<1>5. SubSeq(t, 1, n) = s
  BY <1>2, <1>3
<1>6. ASSUME NEW k \in 1..n + 1
      PROVE  /\ t[k].end = Used(SubSeq(t, 1, k - 1)) + t[k].size
             /\ t[k].end <= IF t[k].kind = "closed" THEN Limit + Closing ELSE Limit
  <2>1. CASE k \in 1..n
    BY <1>4, <2>1 DEF Sized
  <2>2. CASE k = n + 1
    <3>1. k - 1 = n /\ t[k] = x
      BY <1>4, <2>2
    <3>2. QED
      BY <1>1, <1>5, <3>1
  <2>3. QED
    BY <2>1, <2>2
<1>7. QED
  BY <1>1, <1>2, <1>4, <1>6 DEF Sized

\* Pages that are sized, one of them written on.
LEMMA PageSized ==
  ASSUME NEW C \in Seq(Seq(Item)), NEW D \in Seq(Item), NEW E,
         \A i \in DOMAIN Append(C, D) : Sized(Append(C, D)[i])
  PROVE  /\ Sized(D) /\ \A i \in DOMAIN C : Sized(C[i])
         /\ Sized(E) => \A i \in DOMAIN Append(C, E) : Sized(Append(C, E)[i])
<1>1. PICK n \in Nat : n = Len(C)
  OBVIOUS
<1>2. PICK P : P = Append(C, D)
  OBVIOUS
<1>3. PICK Q : Q = Append(C, E)
  OBVIOUS
<1>4. DOMAIN C = 1..n /\ DOMAIN P = 1..n + 1 /\ DOMAIN Q = 1..n + 1
      /\ P[n + 1] = D /\ Q[n + 1] = E /\ \A i \in 1..n : P[i] = C[i] /\ Q[i] = C[i]
  BY <1>1, <1>2, <1>3
<1>5. \A i \in 1..n + 1 : i \in 1..n \/ i = n + 1
  OBVIOUS
<1>6. n + 1 \in 1..n + 1 /\ \A i \in 1..n : i \in 1..n + 1
  OBVIOUS
<1>7. QED
  BY <1>2, <1>3, <1>4, <1>5, <1>6

\* The chunk is closed and begun anew.
LEMMA EndSized ==
  ASSUME NEW lines, NEW b \in LoopState, SizesInv(b)
  PROVE  SizesInv(Flush(Close(b, lines)))
<1>1. b.chunks \in Seq(Seq(Item)) /\ b.current \in Seq(Item) /\ Closing \in Nat /\ Limit \in Nat
  BY LimitAssumption DEF LoopState
<1>2. Sized(b.current) /\ \A i \in DOMAIN b.chunks : Sized(b.chunks[i])
  BY <1>1, PageSized DEF SizesInv, Pages
<1>3. PICK c : c = Close(b, lines)
  OBVIOUS
<1>4. c.chunks = b.chunks /\ c.current \in Seq(Item) /\ Sized(c.current)
      /\ c = [b EXCEPT !.current = c.current]
  <2>1. CASE c = b
    BY <1>1, <1>2, <2>1 DEF LoopState
  <2>2. CASE c # b
    <3>1. PICK s : s = Put(b.current, "closed", 0, 0, Closing)
      OBVIOUS
    <3>2. s \in Seq(Item)
      <4>1. 0 \in Nat /\ "closed" \in {"piece", "reopened", "closed"}
        OBVIOUS
      <4>2. QED
        BY <1>1, <3>1, <4>1, PutTypes
    <3>3. c = [b EXCEPT !.current = s]
      BY <1>3, <2>2, <3>1 DEF Close
    <3>4. Used(b.current) \in Nat /\ Used(b.current) <= Limit
      BY <1>1, UsedTypes DEF SizesInv
    <3>5. Used(b.current) + Closing <= Limit + Closing
      BY <1>1, <3>4
    <3>6. Sized(s)
      BY <1>1, <1>2, <3>1, <3>5, PutSized
    <3>7. QED
      BY <3>2, <3>3, <3>6 DEF LoopState
  <2>3. QED
    BY <2>1, <2>2
<1>5. PICK d : d = Flush(c)
  OBVIOUS
<1>6. \E D \in Seq(Seq(Item)) :
         D = d.chunks /\ d.current = <<>> /\ \A i \in DOMAIN D : Sized(D[i])
  <2>1. CASE c.current = <<>>
    BY <1>1, <1>2, <1>4, <1>5, <2>1 DEF Flush
  <2>2. CASE c.current # <<>>
    <3>1. PICK pages \in Seq(Seq(Item)) : pages = Append(b.chunks, c.current)
      <4>1. Append(b.chunks, c.current) \in Seq(Seq(Item))
        BY <1>1, <1>4
      <4>2. QED
        BY <4>1
    <3>2. d = [c EXCEPT !.chunks = pages, !.current = <<>>]
      BY <1>4, <1>5, <2>2, <3>1 DEF Flush
    <3>3. d.chunks = pages /\ d.current = <<>>
      BY <1>4, <3>2 DEF LoopState
    <3>4. \A i \in DOMAIN pages : Sized(pages[i])
      BY <1>1, <1>4, <3>1, PageSized DEF SizesInv, Pages
    <3>5. QED
      BY <3>3, <3>4
  <2>3. QED
    BY <2>1, <2>2
<1>7. Sized(<<>>) /\ Used(<<>>) = 0
  BY DEF Sized, Used
<1>8. PICK D \in Seq(Seq(Item)) :
         D = d.chunks /\ d.current = <<>> /\ \A i \in DOMAIN D : Sized(D[i])
  BY <1>6
<1>9. PICK n \in Nat : n = Len(D)
  OBVIOUS
<1>10. PICK Q : Q = Append(D, <<>>)
  OBVIOUS
<1>11. DOMAIN Q = 1..n + 1 /\ DOMAIN D = 1..n /\ Q[n + 1] = <<>>
       /\ \A i \in 1..n : Q[i] = D[i]
  BY <1>8, <1>9, <1>10
<1>12. \A i \in DOMAIN Q : Sized(Q[i])
  <2>1. \A i \in 1..n + 1 : i \in 1..n \/ i = n + 1
    OBVIOUS
  <2>2. QED
    BY <1>7, <1>8, <1>9, <1>11, <2>1
<1>13. QED
  BY <1>1, <1>3, <1>5, <1>7, <1>8, <1>10, <1>12 DEF SizesInv, Pages

\* As much is taken as there is room for.
LEMMA TakeSized ==
  ASSUME NEW lines, IsText(lines), NEW b, ChunkInv(b, lines), SizesInv(b), NEW n \in Nat,
         n <= Left(b, lines)
  PROVE  SizesInv(Take(b, lines, n))
<1>1. /\ b \in LoopState /\ b.chunks \in Seq(Seq(Item)) /\ b.current \in Seq(Item)
      /\ b.line \in Nat /\ b.from \in Nat
  BY DEF ChunkInv, LoopState
<1>2. Sized(b.current) /\ Used(b.current) \in Nat
  BY <1>1, PageSized, UsedTypes DEF SizesInv, Pages
<1>3. Prefix(b, lines) \in Nat /\ Suffix(b) \in Nat /\ Limit \in Nat
  BY LineTypes, LimitAssumption DEF Prefix, Suffix, ChunkInv
<1>4. PICK room \in Nat : room = Available(b, lines) /\ room <= Limit
  <2>1. PICK kept \in Nat : kept = Prefix(b, lines) + Suffix(b)
    BY <1>3
  <2>2. CASE kept < Limit
    BY <1>3, <2>1, <2>2 DEF Available
  <2>3. CASE ~(kept < Limit)
    BY <1>3, <2>1, <2>3 DEF Available
  <2>4. QED
    BY <2>2, <2>3
<1>5. PICK start : start = Begun(b, lines)
  OBVIOUS
<1>6. start \in Seq(Item) /\ Used(start) \in Nat
  <2>1. CASE Prefix(b, lines) > 0
    <3>1. start = Put(b.current, "reopened", 0, 0, Prefix(b, lines))
      BY <1>5, <2>1 DEF Begun
    <3>2. start \in Seq(Item)
      <4>1. 0 \in Nat /\ "reopened" \in {"piece", "reopened", "closed"}
        OBVIOUS
      <4>2. QED
        BY <1>1, <1>3, <3>1, <4>1, PutTypes
    <3>3. QED
      BY <3>2, UsedTypes
  <2>2. CASE ~(Prefix(b, lines) > 0)
    BY <1>1, <1>2, <1>5, <2>2 DEF Begun
  <2>3. QED
    BY <2>1, <2>2
<1>7. Used(start) + n <= Limit /\ Used(start) <= Limit
  <2>1. n <= room - Used(start)
    BY <1>4, <1>5 DEF Left
  <2>2. QED
    BY <1>3, <1>4, <1>6, <2>1
<1>8. Sized(start)
  <2>1. CASE Prefix(b, lines) > 0
    <3>1. start = Put(b.current, "reopened", 0, 0, Prefix(b, lines))
      BY <1>5, <2>1 DEF Begun
    <3>2. Used(start) = Used(b.current) + Prefix(b, lines)
      BY <1>1, <1>3, <3>1, PutTypes
    <3>3. QED
      BY <1>1, <1>2, <1>3, <1>7, <3>1, <3>2, PutSized
  <2>2. CASE ~(Prefix(b, lines) > 0)
    BY <1>2, <1>5, <2>2 DEF Begun
  <2>3. QED
    BY <2>1, <2>2
<1>9. PICK t : t = Put(start, "piece", b.line, b.from, n)
  OBVIOUS
<1>10. t \in Seq(Item) /\ Used(t) = Used(start) + n
  <2>1. t \in Seq(Item)
    BY <1>1, <1>6, <1>9, PutTypes
  <2>2. PICK s \in Seq(Item) : s = start
    BY <1>6
  <2>3. PICK line \in Nat, from \in Nat : line = b.line /\ from = b.from
    BY <1>1
  <2>4. Used(Put(s, "piece", line, from, n)) = Used(s) + n
    BY PutTypes
  <2>5. Used(t) = Used(start) + n
    BY <1>9, <2>2, <2>3, <2>4
  <2>6. QED
    BY <2>1, <2>5
<1>11. Sized(t)
  <2>1. "piece" \in {"piece", "reopened", "closed"} /\ "piece" # "closed"
    OBVIOUS
  <2>2. QED
    BY <1>1, <1>6, <1>7, <1>8, <1>9, <2>1, PutSized
<1>12. PICK c : c = Take(b, lines, n)
  OBVIOUS
<1>13. c = [b EXCEPT !.current = t, !.from = b.from + n]
  BY <1>5, <1>9, <1>12 DEF Take
<1>14. c.chunks = b.chunks /\ c.current = t
  BY <1>1, <1>13 DEF LoopState
<1>15. \A i \in DOMAIN Append(b.chunks, t) : Sized(Append(b.chunks, t)[i])
  BY <1>1, <1>11, PageSized DEF SizesInv, Pages
<1>16. QED
  BY <1>7, <1>10, <1>12, <1>14, <1>15 DEF SizesInv, Pages

\* What one turn of the loop does: it ends the chunk, or takes the rest of the
\* line, or a part of it and ends the chunk.
LEMMA PlaceIs ==
  ASSUME NEW lines, IsText(lines), NEW b, LoopInv(b, lines), b.line <= Len(lines), ~Panics(b, lines)
  PROVE  \/ IsFull(b, lines) /\ Place(b, lines) = Flush(Close(b, lines))
         \/ /\ ~IsFull(b, lines)
            /\ \E n \in Nat : \E c :
                  /\ n <= Left(b, lines) /\ b.from + n <= lines[b.line].size
                  /\ Left(b, lines) > 0 => n > 0
                  /\ c = Take(b, lines, n) /\ ChunkInv(c, lines)
                  /\ c.line = b.line /\ c.from = b.from + n
                  /\ \/ b.from + n = lines[b.line].size /\ Place(b, lines) = NextLine(c, lines)
                     \/ b.from + n < lines[b.line].size /\ Place(b, lines) = Flush(Close(c, lines))
<1>1. b.line \in Nat /\ b.from \in Nat /\ b.line \in DOMAIN lines
  BY LineTypes DEF LoopInv, ChunkInv, LoopState
<1>2. /\ lines[b.line].size \in Nat /\ lines[b.line].blanks \in SUBSET Nat
      /\ lines[b.line].size \notin lines[b.line].inner
      /\ lines[b.line].inner \cap lines[b.line].blanks = {} /\ b.from < lines[b.line].size
  BY <1>1, LineTypes DEF LoopInv
<1>3. PICK rest : rest = Rest(b, lines)
  OBVIOUS
<1>4. rest \in Nat /\ rest > 0 /\ b.from + rest = lines[b.line].size
  BY <1>1, <1>2, <1>3 DEF Rest
<1>5. PICK left : left = Left(b, lines)
  OBVIOUS
<1>6. CASE IsFull(b, lines)
  BY <1>6 DEF Place
<1>7. CASE ~IsFull(b, lines) /\ rest <= left
  <2>1. PICK c : c = Take(b, lines, rest)
    OBVIOUS
  <2>2. WellCut(lines[b.line], b.from, b.from + rest)
    BY <1>2, <1>4 DEF WellCut
  <2>3. ChunkInv(c, lines) /\ c.line = b.line /\ c.from = b.from + rest
    BY <1>1, <1>4, <2>1, <2>2, TakeKeeps DEF LoopInv
  <2>4. Place(b, lines) = NextLine(c, lines)
    BY <1>3, <1>5, <1>7, <2>1 DEF Place
  <2>5. QED
    BY <1>2, <1>4, <1>5, <1>7, <2>1, <2>3, <2>4
<1>8. CASE ~IsFull(b, lines) /\ ~(rest <= left)
  <2>1. left \in Nat
    BY <1>5, <1>8 DEF Panics
  <2>2. PICK n : n = Cut(lines[b.line], b.from, left)
    OBVIOUS
  <2>3. n \in 0..left /\ (left > 0 => n > 0) /\ WellCut(lines[b.line], b.from, b.from + n)
    BY <1>1, <1>2, <2>1, <2>2, CutFits
  <2>4. n \in Nat /\ b.from + n < lines[b.line].size /\ n <= left
    BY <1>1, <1>2, <1>4, <1>8, <2>1, <2>3
  <2>5. PICK c : c = Take(b, lines, n)
    OBVIOUS
  <2>6. ChunkInv(c, lines) /\ c.line = b.line /\ c.from = b.from + n
    BY <1>1, <1>2, <2>3, <2>4, <2>5, TakeKeeps DEF LoopInv
  <2>7. Place(b, lines) = Flush(Close(c, lines))
    BY <1>3, <1>5, <1>8, <2>2, <2>5 DEF Place
  <2>8. n <= Left(b, lines) /\ (Left(b, lines) > 0 => n > 0) /\ b.from + n <= lines[b.line].size
    BY <1>1, <1>2, <1>5, <2>3, <2>4
  <2>9. QED
    BY <1>8, <2>4, <2>5, <2>6, <2>7, <2>8
<1>9. QED
  BY <1>6, <1>7, <1>8

LEMMA PlaceKeeps ==
  ASSUME NEW lines, IsText(lines), NEW b, LoopInv(b, lines), b.line <= Len(lines), ~Panics(b, lines)
  PROVE  LoopInv(Place(b, lines), lines)
<1>1. b.line \in DOMAIN lines /\ b.line \in Nat
  BY LineTypes DEF LoopInv, ChunkInv, LoopState
<1>2. CASE Place(b, lines) = Flush(Close(b, lines))
  <2>1. SizesInv(Flush(Close(b, lines)))
    BY EndSized DEF LoopInv, ChunkInv
  <2>2. QED
    BY <1>2, <2>1, EndKeeps DEF LoopInv
<1>3. ASSUME NEW n \in Nat, NEW c, n <= Left(b, lines), c = Take(b, lines, n), ChunkInv(c, lines),
             c.line = b.line, c.from = b.from + n,
             \/ b.from + n = lines[b.line].size /\ Place(b, lines) = NextLine(c, lines)
             \/ b.from + n < lines[b.line].size /\ Place(b, lines) = Flush(Close(c, lines))
      PROVE  LoopInv(Place(b, lines), lines)
  <2>1. SizesInv(c)
    BY <1>3, TakeSized DEF LoopInv
  <2>2. CASE c.from = lines[b.line].size /\ Place(b, lines) = NextLine(c, lines)
    <3>1. PICK d : d = NextLine(c, lines)
      OBVIOUS
    <3>2. ChunkInv(d, lines)
      BY <1>1, <1>3, <2>2, <3>1, NextLineKeeps
    <3>3. d.chunks = c.chunks /\ d.current = c.current /\ d.from = 0
      BY <1>3, <3>1 DEF NextLine, ChunkInv, LoopState
    <3>4. SizesInv(d)
      BY <2>1, <3>3 DEF SizesInv, Pages
    <3>5. d.line \in DOMAIN lines => d.from < lines[d.line].size
      BY <3>3, LineTypes
    <3>6. QED
      BY <2>2, <3>1, <3>2, <3>4, <3>5 DEF LoopInv
  <2>3. CASE c.from < lines[b.line].size /\ Place(b, lines) = Flush(Close(c, lines))
    <3>1. SizesInv(Flush(Close(c, lines)))
      BY <1>3, <2>1, EndSized DEF ChunkInv
    <3>2. QED
      BY <1>3, <2>3, <3>1, EndKeeps DEF LoopInv
  <2>4. QED
    BY <1>3, <2>2, <2>3
<1>4. QED
  BY <1>2, <1>3, PlaceIs

LEMMA StartHolds ==
  ASSUME NEW lines, IsText(lines)
  PROVE  LoopInv(Start, lines)
<1>1. Start \in LoopState
  BY DEF Start, LoopState
<1>2. Start.open = 0 /\ Start.line = 1 /\ Start.from = 0
  BY DEF Start
<1>3. PICK P : P = Pages(Start)
  OBVIOUS
<1>4. DOMAIN P = {1} /\ P[1] = <<>>
  BY <1>3 DEF Pages, Start
<1>5. \A i \in DOMAIN P : DOMAIN P[i] = {}
  BY <1>4
<1>6. \A h \in DOMAIN lines : \A x \in 0..lines[h].size - 1 : ~(h < 1 \/ (h = 1 /\ x < 0))
  BY LineTypes
<1>7. HoldsUpTo(P, lines, 1, 0)
  BY <1>5, <1>6 DEF HoldsUpTo, InOrder, Within, CompleteUpTo, CutsAtBlanks
<1>8. ChunkInv(Start, lines)
  BY <1>1, <1>2, <1>3, <1>7, LineTypes DEF ChunkInv
<1>9. SizesInv(Start)
  <2>1. Sized(<<>>) /\ Used(<<>>) = 0 /\ Start.current = <<>>
    BY DEF Sized, Used, Start
  <2>2. QED
    BY <1>3, <1>4, <2>1, LimitAssumption DEF SizesInv
<1>10. QED
  BY <1>2, <1>8, <1>9, LineTypes DEF LoopInv

\* By a least counterexample: the first state of the loop that is not so.
LEMMA LoopKeeps ==
  ASSUME NEW lines, IsText(lines), NEW states, Loop(states, lines)
  PROVE  \A i \in 1..Len(states) : LoopInv(states[i], lines)
<1>1. /\ Len(states) \in Nat /\ states[1] = Start
      /\ \A i \in 1..Len(states) - 1 :
            /\ states[i].line <= Len(lines)
            /\ ~Panics(states[i], lines)
            /\ states[i + 1] = Place(states[i], lines)
  BY DEF Loop
<1> DEFINE T == {i \in 1..Len(states) : ~LoopInv(states[i], lines)}
<1>2. T \in SUBSET Nat
  OBVIOUS
<1>3. ASSUME T # {} PROVE FALSE
  <2>1. PICK i \in T : \A j \in T : i <= j
    BY <1>2, <1>3, LeastExists
  <2>2. i \in 1..Len(states) /\ ~LoopInv(states[i], lines) /\ i \in Nat
    BY <2>1
  <2>3. i # 1
    BY <1>1, <2>2, StartHolds
  <2>4. PICK h : h = i - 1
    OBVIOUS
  <2>5. h \in 1..Len(states) - 1 /\ h \in 1..Len(states) /\ h < i /\ h + 1 = i
    BY <1>1, <2>2, <2>3, <2>4
  <2>6. h \notin T
    BY <2>1, <2>2, <2>5
  <2>7. LoopInv(states[h], lines)
    BY <2>5, <2>6
  <2>8. states[h].line <= Len(lines) /\ ~Panics(states[h], lines) /\ states[i] = Place(states[h], lines)
    BY <1>1, <2>5
  <2>9. QED
    BY <2>2, <2>7, <2>8, PlaceKeeps
<1>4. QED
  BY <1>3

\* Of every text over which the loop of chunkText comes to its end, and LoopEnds
\* says which, the chunks hold every byte from the first to the last, once and in
\* order, where a line is cut as where a code block is closed and opened again;
\* a cut falls inside a character only where a piece has no blank; and a chunk
\* is longer than Limit by the fence that closes it at most (chunker.go).
THEOREM ChunksReadAsText ==
  ASSUME NEW lines, IsText(lines), NEW states, Loop(states, lines),
         NEW chunks, chunks = Chunks(Last(states), lines)
  PROVE  /\ chunks \in Seq(Seq(Item)) /\ ReadsAs(chunks, lines)
         /\ \A i \in DOMAIN chunks : Sized(chunks[i])
<1>1. Len(states) \in Nat \ {0} /\ Last(states) = states[Len(states)] /\ Last(states).line > Len(lines)
  BY DEF Loop, Last
<1>2. PICK b : b = Last(states)
  OBVIOUS
<1>3. ChunkInv(b, lines) /\ SizesInv(b)
  BY <1>1, <1>2, LoopKeeps DEF LoopInv
<1>4. PICK c : c = Flush(Close(b, lines))
  OBVIOUS
<1>5. ChunkInv(c, lines) /\ c.current = <<>> /\ c.line = b.line
  BY <1>3, <1>4, EndKeeps
<1>6. c.chunks \in Seq(Seq(Item)) /\ HoldsUpTo(Append(c.chunks, <<>>), lines, c.line, c.from)
  BY <1>5 DEF ChunkInv, LoopState, Pages
<1>7. HoldsUpTo(c.chunks, lines, c.line, c.from)
  BY <1>6, PageAdded
<1>8. \A i \in DOMAIN c.chunks : Sized(c.chunks[i])
  <2>1. SizesInv(c)
    BY <1>3, <1>4, EndSized DEF ChunkInv
  <2>2. QED
    <3>1. <<>> \in Seq(Item) /\ \A i \in DOMAIN Append(c.chunks, <<>>) : Sized(Append(c.chunks, <<>>)[i])
      BY <1>5, <2>1 DEF SizesInv, Pages
    <3>2. QED
      BY <1>6, <3>1, PageSized
<1>9. c.line = Len(lines) + 1 /\ c.line \in Nat /\ c.from \in Nat
  BY <1>1, <1>2, <1>5, LineTypes DEF ChunkInv, LoopState
<1>10. CompleteUpTo(c.chunks, lines, Len(lines) + 1, 0)
  <2>1. \A n \in DOMAIN lines : n < Len(lines) + 1
    BY LineTypes
  <2>2. QED
    BY <1>7, <1>9, <2>1 DEF HoldsUpTo, CompleteUpTo
<1>11. ReadsAs(c.chunks, lines)
  BY <1>7, <1>10 DEF HoldsUpTo, ReadsAs
<1>12. QED
  BY <1>2, <1>4, <1>6, <1>8, <1>11 DEF Chunks

-----------------------------------------------------------------------------
(* The end of the loop *)

\* With room for the fences there is always room for something.
LEMMA ThereIsRoom ==
  ASSUME NEW lines, IsText(lines), FencesFit(lines), NEW b, ChunkInv(b, lines), SizesInv(b)
  PROVE  /\ IsFull(b, lines) => b.current # <<>>
         /\ ~IsFull(b, lines) => Left(b, lines) > 0 /\ Left(b, lines) \in Nat
<1>1. b.current \in Seq(Item) /\ b.open \in Nat /\ Limit \in Nat /\ Closing \in 1..Limit
  BY LimitAssumption DEF ChunkInv, LoopState
<1>2. PICK used \in Nat : used = Used(b.current)
  BY <1>1, UsedTypes
<1>3. PICK suffix \in 0..Closing : suffix = Suffix(b)
  BY <1>1 DEF Suffix
<1>4. PICK start : start = Begun(b, lines)
  OBVIOUS
<1>5. CASE b.current = <<>> /\ b.open # 0
  <2>1. PICK prefix \in Nat : prefix = lines[b.open].fence + 1
    BY <1>5, LineTypes DEF ChunkInv
  <2>2. Prefix(b, lines) = prefix /\ prefix > 0 /\ used = 0 /\ 2 * prefix + Closing < Limit
    <3>1. 2 * (lines[b.open].fence + 1) + Closing < Limit
      BY <1>5 DEF ChunkInv, FencesFit
    <3>2. QED
      BY <1>2, <1>5, <2>1, <3>1, LineTypes DEF Prefix, Used, ChunkInv
  <2>3. Used(start) = prefix
    <3>1. start = Put(b.current, "reopened", 0, 0, prefix)
      BY <1>4, <2>2 DEF Begun
    <3>2. Used(start) = used + prefix
      BY <1>1, <1>2, <3>1, PutTypes
    <3>3. QED
      BY <2>2, <3>2
  <2>4. Available(b, lines) = Limit - (prefix + suffix)
    <3>1. prefix + suffix < Limit
      BY <1>1, <2>2
    <3>2. QED
      BY <1>3, <2>2, <3>1 DEF Available
  <2>5. Left(b, lines) = Limit - (prefix + suffix) - prefix
    BY <1>4, <2>3, <2>4 DEF Left
  <2>6. Left(b, lines) > 0 /\ Left(b, lines) \in Nat
    BY <1>1, <2>2, <2>5
  <2>7. ~IsFull(b, lines)
    BY <1>1, <1>2, <2>2, <2>4 DEF IsFull
  <2>8. QED
    BY <2>6, <2>7
<1>6. CASE ~(b.current = <<>> /\ b.open # 0)
  <2>1. Prefix(b, lines) = 0 /\ start = b.current
    BY <1>4, <1>6 DEF Prefix, Begun
  <2>2. PICK room \in Nat \ {0} : room = Available(b, lines)
    <3>1. CASE suffix < Limit
      BY <1>1, <1>3, <2>1, <3>1 DEF Available
    <3>2. CASE ~(suffix < Limit)
      BY <1>1, <1>3, <2>1, <3>2 DEF Available
    <3>3. QED
      BY <3>1, <3>2
  <2>3. Left(b, lines) = room - used
    BY <1>2, <1>4, <2>1, <2>2 DEF Left
  <2>4. IsFull(b, lines) <=> room <= used
    BY <1>2, <2>2 DEF IsFull
  <2>5. IsFull(b, lines) => b.current # <<>>
    BY <1>2, <2>4 DEF Used
  <2>6. QED
    BY <2>3, <2>4, <2>5
<1>7. QED
  BY <1>5, <1>6

\* One state of the loop is nearer to the end than another.
Nearer(c, b) ==
    \/ c.line = b.line + 1
    \/ c.line = b.line /\ c.from > b.from
    \/ c.line = b.line /\ c.from = b.from /\ b.current # <<>> /\ c.current = <<>>

LEMMA LoopGoesOn ==
  ASSUME NEW lines, IsText(lines), FencesFit(lines), NEW b, LoopInv(b, lines), b.line <= Len(lines)
  PROVE  ~Panics(b, lines) /\ Nearer(Place(b, lines), b)
<1>1. /\ IsFull(b, lines) => b.current # <<>>
      /\ ~IsFull(b, lines) => Left(b, lines) > 0 /\ Left(b, lines) \in Nat
  BY ThereIsRoom DEF LoopInv
<1>2. ~Panics(b, lines)
  BY <1>1 DEF Panics
<1>3. CASE IsFull(b, lines) /\ Place(b, lines) = Flush(Close(b, lines))
  <2>1. PICK d : d = Flush(Close(b, lines))
    OBVIOUS
  <2>2. d.current = <<>> /\ d.line = b.line /\ d.from = b.from
    BY <2>1, EndKeeps DEF LoopInv
  <2>3. b.current # <<>>
    BY <1>1, <1>3
  <2>4. Nearer(d, b)
    BY <2>2, <2>3 DEF Nearer
  <2>5. QED
    BY <1>2, <1>3, <2>1, <2>4
<1>4. ASSUME NEW n \in Nat, NEW c, n > 0, ChunkInv(c, lines), c.line = b.line, c.from = b.from + n,
             c = Take(b, lines, n),
             \/ Place(b, lines) = NextLine(c, lines)
             \/ Place(b, lines) = Flush(Close(c, lines))
      PROVE  Nearer(Place(b, lines), b)
  <2>1. CASE Place(b, lines) = NextLine(c, lines)
    <3>1. PICK d : d = NextLine(c, lines)
      OBVIOUS
    <3>2. d.line = b.line + 1
      BY <1>4, <3>1 DEF NextLine, ChunkInv, LoopState
    <3>3. QED
      BY <2>1, <3>1, <3>2 DEF Nearer
  <2>2. CASE Place(b, lines) = Flush(Close(c, lines))
    <3>1. b.from \in Nat
      BY DEF LoopInv, ChunkInv, LoopState
    <3>2. QED
      BY <1>4, <2>2, <3>1, EndKeeps DEF Nearer
  <2>3. QED
    BY <1>4, <2>1, <2>2
<1>5. QED
  BY <1>1, <1>2, <1>3, <1>4, PlaceIs

LEMMA GoingKeeps ==
  ASSUME NEW lines, IsText(lines), FencesFit(lines), NEW states, Going(states, lines)
  PROVE  \A i \in Nat : LoopInv(states[i], lines)
<1> DEFINE T == {i \in Nat : ~LoopInv(states[i], lines)}
<1>1. ASSUME T # {} PROVE FALSE
  <2>1. PICK i \in T : \A j \in T : i <= j
    BY <1>1, LeastExists
  <2>2. i \in Nat /\ ~LoopInv(states[i], lines)
    BY <2>1
  <2>3. i # 0
    BY <2>2, StartHolds DEF Going
  <2>4. PICK h \in Nat : h + 1 = i /\ h < i
    <3>1. i - 1 \in Nat /\ (i - 1) + 1 = i /\ i - 1 < i
      BY <2>2, <2>3
    <3>2. QED
      BY <3>1
  <2>5. LoopInv(states[h], lines)
    BY <2>1, <2>2, <2>4
  <2>6. states[i] = IF states[h].line > Len(lines) THEN states[h] ELSE Place(states[h], lines)
    BY <2>4 DEF Going
  <2>7. states[h].line \in Nat /\ Len(lines) \in Nat
    BY <2>5, LineTypes DEF LoopInv, ChunkInv, LoopState
  <2>8. QED
    BY <2>2, <2>5, <2>6, <2>7, LoopGoesOn, PlaceKeeps
<1>2. QED
  BY <1>1

\* Of the states that are furthest in the text there is a last one, unless the
\* loop is through.
LEMMA LoopGetsThrough ==
  ASSUME NEW lines, IsText(lines), FencesFit(lines), NEW states, Going(states, lines)
  PROVE  \E i \in Nat : states[i].line > Len(lines)
<1>1. SUFFICES ASSUME \A i \in Nat : ~(states[i].line > Len(lines)) PROVE FALSE
  OBVIOUS
<1>2. \A i \in Nat : /\ LoopInv(states[i], lines) /\ states[i] \in LoopState
                     /\ states[i].line \in 0..Len(lines) /\ states[i].line \in DOMAIN lines
                     /\ states[i].line \in Nat /\ states[i].from \in Nat
  <2>1. \A i \in Nat : LoopInv(states[i], lines)
    BY GoingKeeps
  <2>2. \A i \in Nat : states[i].line \in 1..Len(lines) + 1 /\ states[i] \in LoopState
                       /\ states[i].line \in Nat /\ states[i].from \in Nat
    BY <2>1 DEF LoopInv, ChunkInv, LoopState
  <2>3. QED
    BY <1>1, <2>1, <2>2, LineTypes
<1>3. \A i \in Nat : Nearer(states[i + 1], states[i])
  <2>1. ASSUME NEW i \in Nat PROVE Nearer(states[i + 1], states[i])
    <3>1. states[i].line <= Len(lines) /\ LoopInv(states[i], lines)
      BY <1>2
    <3>2. states[i + 1] = Place(states[i], lines)
      BY <1>1 DEF Going
    <3>3. QED
      BY <3>1, <3>2, LoopGoesOn
  <2>2. QED
    BY <2>1
<1> DEFINE L == {states[i].line : i \in Nat}
<1>4. L \in SUBSET (0..Len(lines)) /\ L # {} /\ Len(lines) \in Nat
  <2>1. states[0].line \in L
    OBVIOUS
  <2>2. QED
    BY <1>2, <2>1, LineTypes
<1>5. PICK i1 \in Nat : \A i \in Nat : states[i].line <= states[i1].line
  <2>1. Max(L) \in L /\ \A y \in L : y <= Max(L)
    BY <1>4, MaxIsGreatest
  <2>2. QED
    BY <2>1
<1>6. PICK line \in DOMAIN lines : line = states[i1].line
  BY <1>2
<1> DEFINE F == {states[i].from : i \in {j \in Nat : states[j].line = line}}
<1>7. PICK size \in Nat : size = lines[line].size
  BY LineTypes
<1>8. F \in SUBSET (0..size) /\ F # {}
  <2>1. ASSUME NEW i \in Nat, states[i].line = line PROVE states[i].from \in 0..size
    <3>1. states[i].from \in Nat /\ states[i].from < size
      BY <1>2, <1>7, <2>1 DEF LoopInv
    <3>2. QED
      BY <3>1
  <2>2. states[i1].from \in F
    BY <1>6
  <2>3. QED
    BY <2>1, <2>2
<1>9. PICK i2 \in Nat : /\ states[i2].line = line
                        /\ \A i \in Nat : states[i].line = line => states[i].from <= states[i2].from
  <2>1. Max(F) \in F /\ \A y \in F : y <= Max(F)
    BY <1>7, <1>8, MaxIsGreatest
  <2>2. QED
    BY <2>1
<1>10. ASSUME NEW i \in Nat, states[i].line = line, states[i].from = states[i2].from
       PROVE  /\ states[i + 1].line = line /\ states[i + 1].from = states[i2].from
              /\ states[i].current # <<>> /\ states[i + 1].current = <<>>
  <2>1. i + 1 \in Nat /\ Nearer(states[i + 1], states[i])
    BY <1>3
  <2>2. states[i + 1].line <= line /\ line \in Nat
    BY <1>2, <1>5, <1>6, <2>1
  <2>3. states[i + 1].line # line + 1
    BY <2>2
  <2>4. states[i + 1].line = line => ~(states[i + 1].from > states[i2].from)
    <3>1. states[i + 1].line = line => states[i + 1].from <= states[i2].from
      BY <1>9, <2>1
    <3>2. states[i + 1].from \in Nat /\ states[i2].from \in Nat
      BY <1>2, <2>1
    <3>3. QED
      BY <3>1, <3>2
  <2>5. QED
    BY <1>10, <2>1, <2>3, <2>4 DEF Nearer
<1>11. PICK i3 \in Nat : i3 = i2 + 1
  OBVIOUS
<1>12. states[i3].line = line /\ states[i3].from = states[i2].from /\ states[i3].current = <<>>
  BY <1>9, <1>10, <1>11
<1>13. QED
  BY <1>10, <1>12

\* Unless a text has a fence of almost half a message, the loop of chunkText
\* neither panics nor goes on for ever: what it does up to its end is a Loop, of
\* which ChunksReadAsText speaks (chunker.go:38-89).
THEOREM LoopEnds ==
  ASSUME NEW lines, IsText(lines), FencesFit(lines), NEW states, Going(states, lines)
  PROVE  \E n \in Nat : Loop([i \in 1..n |-> states[i - 1]], lines)
<1> DEFINE T == {i \in Nat : states[i].line > Len(lines)}
<1>1. PICK m \in T : \A j \in T : m <= j
  <2>1. T # {} /\ T \in SUBSET Nat
    BY LoopGetsThrough
  <2>2. QED
    BY <2>1, LeastExists
<1>2. m \in Nat /\ states[m].line > Len(lines) /\ \A i \in Nat : i < m => ~(states[i].line > Len(lines))
  BY <1>1
<1>3. PICK n \in Nat : n = m + 1 /\ n > 0
  BY <1>2
<1>4. PICK s : s = [i \in 1..n |-> states[i - 1]]
  OBVIOUS
<1>5. \A i \in Nat : LoopInv(states[i], lines) /\ states[i] \in LoopState /\ states[i].line \in Nat
  BY GoingKeeps DEF LoopInv, ChunkInv, LoopState
<1>6. s \in Seq(LoopState) /\ Len(s) = n /\ s # <<>> /\ s[1] = Start /\ s[n] = states[m]
  <2>1. \A i \in 1..n : i - 1 \in Nat /\ states[i - 1] \in LoopState
    BY <1>5
  <2>2. s \in Seq(LoopState) /\ Len(s) = n
    BY <1>4, <2>1
  <2>3. s[1] = states[0]
    BY <1>3, <1>4
  <2>4. s[n] = states[m]
    BY <1>2, <1>3, <1>4
  <2>5. QED
    BY <1>3, <2>2, <2>3, <2>4 DEF Going
<1>7. ASSUME NEW i \in 1..n - 1
      PROVE  s[i].line <= Len(lines) /\ ~Panics(s[i], lines) /\ s[i + 1] = Place(s[i], lines)
  <2>1. PICK h \in Nat : h = i - 1
    OBVIOUS
  <2>2. s[i] = states[h] /\ s[i + 1] = states[h + 1] /\ h < m
    <3>1. i \in 1..n /\ i + 1 \in 1..n /\ (i + 1) - 1 = h + 1 /\ h < m
      BY <1>2, <1>3, <2>1
    <3>2. QED
      BY <1>4, <2>1, <3>1
  <2>3. ~(states[h].line > Len(lines)) /\ states[h].line <= Len(lines)
    BY <1>2, <1>5, <2>2, LineTypes
  <2>4. states[h + 1] = Place(states[h], lines)
    BY <2>3 DEF Going
  <2>5. ~Panics(states[h], lines)
    BY <1>5, <2>3, LoopGoesOn
  <2>6. QED
    BY <2>2, <2>3, <2>4, <2>5
<1>8. Last(s).line > Len(lines)
  BY <1>2, <1>6 DEF Last
<1>9. Loop(s, lines)
  BY <1>6, <1>7, <1>8 DEF Loop
<1>10. QED
  BY <1>4, <1>9

-----------------------------------------------------------------------------
(* The answer of a turn *)

\* v is the value of the last event of a type among the first n, if there is one.
IsLast(w, type, default, n, v) ==
    \/ v = default /\ \A i \in 1..n : w[i].type # type
    \/ \E i \in 1..n :
          w[i].type = type /\ v = w[i].value /\ \A j \in 1..n : i < j => w[j].type # type

LEMMA LastGrows ==
  ASSUME NEW w \in Seq(Events), NEW e, NEW n \in 0..Len(w), NEW type, NEW default, NEW v,
         IsLast(w, type, default, n, v)
  PROVE  IsLast(Append(w, e), type, default, n, v)
<1>1. PICK u : u = Append(w, e)
  OBVIOUS
<1>2. \A i \in 1..n : u[i] = w[i]
  BY <1>1
<1>3. QED
  BY <1>1, <1>2 DEF IsLast

LEMMA LastMoves ==
  ASSUME NEW w, NEW n \in Nat, NEW type, NEW default, NEW v, IsLast(w, type, default, n, v)
  PROVE  IsLast(w, type, default, n + 1, IF w[n + 1].type = type THEN w[n + 1].value ELSE v)
<1>1. \A i \in 1..n + 1 : i \in 1..n \/ i = n + 1
  OBVIOUS
<1>2. n + 1 \in 1..n + 1 /\ \A i \in 1..n + 1 : ~(n + 1 < i)
  OBVIOUS
<1>3. CASE w[n + 1].type = type
  BY <1>2, <1>3 DEF IsLast
<1>4. CASE w[n + 1].type # type
  <2>1. CASE v = default /\ \A i \in 1..n : w[i].type # type
    BY <1>1, <1>4, <2>1 DEF IsLast
  <2>2. CASE \E i \in 1..n :
               w[i].type = type /\ v = w[i].value /\ \A j \in 1..n : i < j => w[j].type # type
    <3>1. PICK i \in 1..n :
            w[i].type = type /\ v = w[i].value /\ \A j \in 1..n : i < j => w[j].type # type
      BY <2>2
    <3>2. i \in 1..n + 1 /\ \A j \in 1..n + 1 : i < j => w[j].type # type
      BY <1>1, <1>4, <3>1
    <3>3. QED
      BY <1>4, <3>1, <3>2 DEF IsLast
  <2>3. QED
    BY <2>1, <2>2 DEF IsLast
<1>5. QED
  BY <1>3, <1>4

LEMMA LastIsLastOf ==
  ASSUME written \in Seq(Events), NEW type, NEW default, NEW v,
         IsLast(written, type, default, Len(written), v)
  PROVE  v = LastOf(type, default)
<1> DEFINE T == {i \in DOMAIN written : written[i].type = type}
<1>1. DOMAIN written = 1..Len(written) /\ Len(written) \in Nat
  OBVIOUS
<1>2. LastOf(type, default) = IF T = {} THEN default ELSE written[Max(T)].value
  BY DEF LastOf
<1>3. CASE v = default /\ \A i \in 1..Len(written) : written[i].type # type
  BY <1>1, <1>2, <1>3
<1>4. CASE \E i \in 1..Len(written) :
             /\ written[i].type = type /\ v = written[i].value
             /\ \A j \in 1..Len(written) : i < j => written[j].type # type
  <2>1. PICK i \in 1..Len(written) :
             /\ written[i].type = type /\ v = written[i].value
             /\ \A j \in 1..Len(written) : i < j => written[j].type # type
    BY <1>4
  <2>2. i \in T
    BY <1>1, <2>1
  <2>3. \A j \in T : j \in Nat /\ j <= Len(written) /\ ~(i < j)
    BY <1>1, <2>1
  <2>4. T \in SUBSET (0..Len(written))
    BY <1>1, <2>3
  <2>5. Max(T) \in T /\ i <= Max(T)
    BY <1>1, <2>2, <2>4, MaxIsGreatest
  <2>6. PICK m \in T : m = Max(T)
    BY <2>5
  <2>7. m = i
    BY <2>1, <2>3, <2>5, <2>6
  <2>8. QED
    BY <1>2, <2>1, <2>2, <2>6, <2>7
<1>5. QED
  BY <1>3, <1>4 DEF IsLast

\* How many events RunTurn has taken.
Taken == IF executor = "handing" THEN read - 1 ELSE read
Ended(what) == executor = "over" /\ waited = what

TurnPlaces ==
    /\ written \in Seq(Events) /\ read \in 0..Len(written) /\ text \in Answers
    /\ executor \in {"none", "starting", "reading", "handing", "over"}
    /\ gateway \in {"idle", "receiving", "delivering", "answered", "failed"}
    /\ gateway = "idle" => executor = "none"
    /\ gateway \in {"answered", "failed"} => executor = "over"
    /\ failure = [x \in FailureTypes |-> failure[x]]
    /\ gateway = "answered" => waited = "ok" /\ \A x \in FailureTypes : failure[x] = None
    /\ executor = "handing" => read >= 1
    /\ Ended("ok") => process = "succeeded" /\ read = Len(written)

TurnTexts ==
    /\ IsLast(written, "thread.started", Resumed, read, thread)
    /\ executor # "over" \/ Ended("ok") =>
          /\ IsLast(written, "message", Blank, Taken, text)
          /\ \A i \in 1..read : written[i].type # "garbage"
          /\ \A x \in FailureTypes : IsLast(written, x, None, Taken, failure[x])

TurnInv == TurnPlaces /\ TurnTexts

LEMMA EventTypes ==
  ASSUME NEW e \in Events
  PROVE  e.type = "message" => e.value \in Answers
BY DEF Events, Event, FailureTypes

LEMMA TurnStarts == TurnInit => TurnInv
<1> SUFFICES ASSUME TurnInit PROVE TurnInv
  OBVIOUS
<1>1. Len(written) = 0 /\ 1..0 = {} /\ written \in Seq(Events)
  BY DEF TurnInit
<1>2. TurnPlaces
  BY <1>1, BlankAssumption DEF TurnInit, TurnPlaces, Ended
<1>3. TurnTexts
  BY <1>1 DEF TurnInit, TurnTexts, Taken, IsLast
<1>4. QED
  BY <1>2, <1>3 DEF TurnInv

LEMMA WriteKeeps == TurnInv /\ Write => TurnInv'
<1> SUFFICES ASSUME TurnInv, Write PROVE TurnInv'
  OBVIOUS
<1> USE DEF TurnInv
<1>1. PICK e \in Events : written' = Append(written, e)
  BY DEF Write
<1>2. /\ UNCHANGED <<process, read, executor, waited, thread, gateway, text, failure>>
      /\ process = "running"
  BY DEF Write
<1>3. written' \in Seq(Events) /\ Len(written') = Len(written) + 1 /\ Len(written) \in Nat
  BY <1>1 DEF TurnPlaces
<1>4. ~Ended("ok")
  BY <1>2 DEF TurnPlaces
<1>5. TurnPlaces'
  BY <1>2, <1>3, <1>4 DEF TurnPlaces, Ended
<1>6. read \in 0..Len(written) /\ (executor = "handing" => read >= 1)
  BY DEF TurnPlaces
<1>7. Taken \in 0..Len(written) /\ Taken <= read /\ Taken' = Taken /\ read \in Nat
  BY <1>2, <1>3, <1>6 DEF Taken
<1>8. \A i \in 1..read : written'[i] = written[i]
  BY <1>1, <1>6 DEF TurnPlaces
<1>9. IsLast(written', "thread.started", Resumed, read, thread)
  BY <1>1, <1>6, LastGrows DEF TurnTexts, TurnPlaces
<1>10. executor # "over" =>
         /\ IsLast(written', "message", Blank, Taken, text)
         /\ \A x \in FailureTypes : IsLast(written', x, None, Taken, failure[x])
  BY <1>1, <1>7, LastGrows DEF TurnTexts, TurnPlaces
<1>11. \A i \in 1..Taken : i \in 1..read
  BY <1>7
<1>12. TurnTexts'
  BY <1>2, <1>4, <1>7, <1>8, <1>9, <1>10, <1>11 DEF TurnTexts, Ended
<1>13. QED
  BY <1>5, <1>12

LEMMA ReadKeeps == TurnInv /\ ReadLine => TurnInv'
<1> SUFFICES ASSUME TurnInv, ReadLine PROVE TurnInv'
  OBVIOUS
<1> USE DEF TurnInv
<1>1. PICK e : e = written[read + 1]
  OBVIOUS
<1>2. /\ executor = "reading" /\ read < Len(written) /\ read' = read + 1
      /\ IF e.type = "garbage" THEN Report("error") ELSE executor' = "handing"
      /\ thread' = IF e.type = "thread.started" THEN e.value ELSE thread
      /\ UNCHANGED <<written, gateway, text, failure>>
  BY <1>1 DEF ReadLine
<1>3. read \in Nat /\ Len(written) \in Nat /\ read' \in 1..Len(written)
  BY <1>2 DEF TurnPlaces
<1>4. ~Ended("ok")'
  BY <1>2 DEF Report, Ended
<1>5. TurnPlaces'
  BY <1>2, <1>3, <1>4 DEF TurnPlaces, Report
<1>6. Taken = read
  BY <1>2 DEF Taken
<1>7. IsLast(written', "thread.started", Resumed, read', thread')
  BY <1>1, <1>2, <1>3, LastMoves DEF TurnTexts
<1>8. ASSUME executor' # "over"
      PROVE  /\ e.type # "garbage" /\ Taken' = read
             /\ IsLast(written', "message", Blank, Taken', text')
             /\ \A x \in FailureTypes : IsLast(written', x, None, Taken', failure'[x])
  <2>1. e.type # "garbage" /\ executor' = "handing"
    BY <1>2, <1>8 DEF Report
  <2>2. Taken' = read
    BY <1>2, <1>3, <2>1 DEF Taken
  <2>3. QED
    BY <1>2, <1>6, <2>1, <2>2 DEF TurnTexts
<1>9. \A i \in 1..read' : i \in 1..read \/ i = read + 1
  BY <1>2, <1>3
<1>10. TurnTexts'
  BY <1>1, <1>2, <1>4, <1>6, <1>7, <1>8, <1>9 DEF TurnTexts
<1>11. QED
  BY <1>5, <1>10

LEMMA ReceiveKeeps == TurnInv /\ Receive => TurnInv'
<1> SUFFICES ASSUME TurnInv, Receive PROVE TurnInv'
  OBVIOUS
<1> USE DEF TurnInv
<1>1. PICK e : e = written[read]
  OBVIOUS
<1>2. /\ executor = "handing" /\ gateway = "receiving" /\ executor' = "reading"
      /\ text' = IF e.type = "message" THEN e.value ELSE text
      /\ failure' = IF e.type \in FailureTypes
                    THEN [failure EXCEPT ![e.type] = e.value] ELSE failure
      /\ gateway' \in {"receiving", "delivering"}
      /\ UNCHANGED <<process, written, read, waited, thread>>
  BY <1>1 DEF Receive, InHand
<1>3. read \in 1..Len(written) /\ Len(written) \in Nat
  BY <1>2 DEF TurnPlaces
<1>4. e \in Events
  BY <1>1, <1>3 DEF TurnPlaces
<1>5. text' \in Answers
  BY <1>2, <1>4, EventTypes DEF TurnPlaces
<1>6. TurnPlaces'
  BY <1>2, <1>3, <1>5 DEF TurnPlaces, Ended
<1>7. Taken = read - 1 /\ Taken' = read /\ Taken \in Nat /\ Taken + 1 = read
  BY <1>2, <1>3 DEF Taken
<1>8. IsLast(written', "message", Blank, Taken', text')
  BY <1>1, <1>2, <1>7, LastMoves DEF TurnTexts
<1>9. failure' = [x \in FailureTypes |-> failure'[x]]
      /\ \A x \in FailureTypes : failure'[x] = IF e.type = x THEN e.value ELSE failure[x]
  BY <1>2 DEF TurnPlaces
<1>10. \A x \in FailureTypes : IsLast(written', x, None, Taken', failure'[x])
  BY <1>1, <1>2, <1>7, <1>9, LastMoves DEF TurnTexts
<1>11. \A i \in 1..read : written[i].type # "garbage"
  BY <1>2 DEF TurnTexts
<1>12. TurnTexts'
  BY <1>2, <1>8, <1>10, <1>11 DEF TurnTexts
<1>13. QED
  BY <1>6, <1>12

\* The other steps of a turn read and take nothing.
LEMMA RestKeeps ==
  TurnInv /\ (RunTurn \/ Delivered \/ Return \/ StartProcess \/ HandOverCanceled \/ ReadEnd
              \/ Exit \/ Kill \/ Cancel \/ UNCHANGED turn)
    => TurnInv'
<1> SUFFICES ASSUME TurnInv,
                    RunTurn \/ Delivered \/ Return \/ StartProcess \/ HandOverCanceled \/ ReadEnd
                    \/ Exit \/ Kill \/ Cancel \/ UNCHANGED turn
             PROVE  TurnInv'
  OBVIOUS
<1> USE DEF TurnInv
<1>1. UNCHANGED <<written, read, thread, text, failure>>
  BY DEF RunTurn, Delivered, Return, StartProcess, HandOverCanceled, ReadEnd, Exit, Kill, Cancel, turn
<1>2. \/ UNCHANGED <<executor, waited>>
      \/ executor = "none" /\ executor' = "starting"
      \/ executor = "starting" /\ executor' = "reading"
      \/ executor = "reading" /\ executor' = "over"
      \/ executor' = "over" /\ waited' # "ok"
  <2>1. CASE RunTurn
    BY <2>1 DEF RunTurn, TurnPlaces
  <2>2. CASE StartProcess
    BY <2>2 DEF StartProcess, Report
  <2>3. CASE HandOverCanceled
    BY <2>3 DEF HandOverCanceled, Report
  <2>4. CASE ReadEnd
    BY <2>4 DEF ReadEnd, Report
  <2>5. CASE Delivered \/ Return \/ Exit \/ Kill \/ Cancel \/ UNCHANGED turn
    BY <2>5 DEF Delivered, Return, Exit, Kill, Cancel, turn
  <2>6. QED
    BY <2>1, <2>2, <2>3, <2>4, <2>5
<1>3. executor' # "over" \/ Ended("ok")' => (executor # "over" \/ Ended("ok")) /\ Taken' = Taken
  BY <1>1, <1>2 DEF Ended, Taken
<1>4. TurnTexts'
  BY <1>1, <1>3 DEF TurnTexts
<1>5. TurnPlaces'
  <2>1. CASE RunTurn
    BY <2>1 DEF RunTurn, TurnPlaces, Ended
  <2>2. CASE StartProcess
    BY <2>2 DEF StartProcess, Report, TurnPlaces, Ended
  <2>3. CASE HandOverCanceled
    BY <2>3 DEF HandOverCanceled, Report, TurnPlaces, Ended
  <2>4. CASE ReadEnd
    BY <2>4 DEF ReadEnd, Report, TurnPlaces, Ended
  <2>5. CASE Delivered
    BY <2>5 DEF Delivered, TurnPlaces, Ended
  <2>6. CASE Return
    BY <2>6 DEF Return, TurnPlaces, Ended
  <2>7. CASE Exit \/ Kill
    BY <2>7 DEF Exit, Kill, TurnPlaces, Ended
  <2>8. CASE Cancel \/ UNCHANGED turn
    BY <2>8 DEF Cancel, turn, TurnPlaces, Ended
  <2>9. QED
    BY <2>1, <2>2, <2>3, <2>4, <2>5, <2>6, <2>7, <2>8
<1>6. QED
  BY <1>4, <1>5

LEMMA TurnIsSound == TurnInv => AnswerIsSound
<1> SUFFICES ASSUME TurnInv, gateway = "answered"
             PROVE  /\ process = "succeeded"
                    /\ \A i \in DOMAIN written : written[i].type # "garbage"
                    /\ \A x \in FailureTypes : LastOf(x, None) = None
                    /\ text = LastOf("message", Blank)
                    /\ thread = LastOf("thread.started", Resumed)
  BY DEF AnswerIsSound
<1>1. /\ Ended("ok") /\ process = "succeeded" /\ read = Len(written)
      /\ \A x \in FailureTypes : failure[x] = None
      /\ written \in Seq(Events) /\ DOMAIN written = 1..Len(written) /\ Taken = read
  BY DEF TurnInv, TurnPlaces, Ended, Taken
<1>2. /\ IsLast(written, "message", Blank, Len(written), text)
      /\ IsLast(written, "thread.started", Resumed, Len(written), thread)
      /\ \A i \in DOMAIN written : written[i].type # "garbage"
      /\ \A x \in FailureTypes : IsLast(written, x, None, Len(written), failure[x])
  BY <1>1 DEF TurnInv, TurnTexts
<1>3. text = LastOf("message", Blank) /\ thread = LastOf("thread.started", Resumed)
  BY <1>1, <1>2, LastIsLastOf
<1>4. \A x \in FailureTypes : failure[x] = LastOf(x, None)
  BY <1>1, <1>2, LastIsLastOf
<1>5. QED
  BY <1>1, <1>2, <1>3, <1>4

-----------------------------------------------------------------------------
(* The messages of the channel *)

Content == [text : Texts, chunk : Seq(Item)]
Post == [id : Nat, content : Content]
Showing(t) == [j \in DOMAIN ChunksOf[t] |-> Show(t, ChunksOf[t][j])]

\* The channel shows what the presenter knows of, if no answer was lost.
PostsInv ==
    ~lost => /\ posts = known /\ known \in Seq(Post)
             /\ \A i, j \in DOMAIN known : known[i].id = known[j].id => i = j
             /\ \E n \in Nat : \A i \in DOMAIN known : known[i].id <= n

ReplyInv ==
    /\ target \in Seq(Content)
    /\ shown = "updated" /\ target # <<>> => Differing = {} /\ Len(known) = Len(target)
    /\ PostsInv

LEMMA ChunksAreRight ==
  ASSUME NEW t \in Texts
  PROVE  ReadsAs(ChunksOf[t], Lines[t]) /\ ChunksOf[t] \in Seq(Seq(Item))
BY ChunksReadAsText, LinesAssumption, LoopsAssumption, ChunksAssumption

LEMMA ShowingTypes ==
  ASSUME NEW t \in Texts
  PROVE  /\ Showing(t) \in Seq(Content) /\ DOMAIN Showing(t) = DOMAIN ChunksOf[t]
         /\ \A j \in DOMAIN ChunksOf[t] :
               Showing(t)[j].text = t /\ Showing(t)[j].chunk = ChunksOf[t][j]
<1>1. ChunksOf[t] \in Seq(Seq(Item))
  BY ChunksAreRight
<1>2. PICK C \in Seq(Seq(Item)) : C = ChunksOf[t]
  BY <1>1
<1>3. \A j \in DOMAIN C : Show(t, C[j]) \in Content
  <2>1. \A j \in DOMAIN C : C[j] \in Seq(Item)
    OBVIOUS
  <2>2. QED
    BY <2>1 DEF Show, Content
<1>4. PICK S : S = Showing(t)
  OBVIOUS
<1>5. S = [j \in DOMAIN C |-> Show(t, C[j])]
  BY <1>2, <1>4 DEF Showing
<1>6. DOMAIN C = 1..Len(C) /\ Len(C) \in Nat
  OBVIOUS
<1>7. S \in Seq(Content)
  BY <1>3, <1>5, <1>6
<1>8. \A j \in DOMAIN C : S[j] = Show(t, C[j])
  BY <1>5
<1>9. \A j \in DOMAIN C : S[j].text = t /\ S[j].chunk = C[j]
  <2>1. \A c : Show(t, c).text = t /\ Show(t, c).chunk = c
    BY DEF Show
  <2>2. QED
    BY <1>8, <2>1
<1>10. QED
  BY <1>2, <1>4, <1>5, <1>7, <1>9

LEMMA UpdateKeeps ==
  ASSUME ReplyInv, NEW t \in Texts, Update(t)
  PROVE  ReplyInv' /\ target' = Showing(t)
<1>1. target' = Showing(t) /\ UNCHANGED <<posts, known, lost, faults>>
  BY DEF Update, Showing
<1>2. target' \in Seq(Content)
  BY <1>1, ShowingTypes
<1>3. shown' = "updated" => target' = <<>>
  <2>1. SUFFICES ASSUME shown' = "updated" PROVE target' = <<>>
    OBVIOUS
  <2>2. ChunksOf[t] = <<>>
    BY <2>1 DEF Update
  <2>3. DOMAIN target' = {}
    BY <1>1, <2>2, ShowingTypes
  <2>4. QED
    BY <1>2, <2>3
<1>4. PostsInv'
  BY <1>1 DEF ReplyInv, PostsInv
<1>5. QED
  BY <1>1, <1>2, <1>3, <1>4 DEF ReplyInv

\* A known message has its place among those of the channel.
LEMMA PositionIs ==
  ASSUME PostsInv, ~lost, NEW j \in DOMAIN known
  PROVE  Position(known[j].id) = j
<1>1. posts = known /\ \A i \in DOMAIN known : known[i].id = known[j].id => i = j
  BY DEF PostsInv
<1>2. QED
  BY <1>1 DEF Position

LEMMA EditKeeps == ReplyInv /\ Edit => ReplyInv'
<1> SUFFICES ASSUME ReplyInv, Edit PROVE ReplyInv'
  OBVIOUS
<1>1. Differing \in SUBSET Nat /\ Differing # {}
  <2>1. DOMAIN target \subseteq Nat
    BY DEF ReplyInv
  <2>2. QED
    BY <2>1 DEF Edit, Differing
<1>2. PICK j \in Differing : j = Min(Differing)
  BY <1>1, MinIsLeast
<1>3. /\ shown = "updating"
      /\ posts' = [posts EXCEPT ![Position(known[j].id)].content = target[j]]
      /\ \E yes \in BOOLEAN :
            /\ Took(yes)
            /\ known' = IF yes THEN [known EXCEPT ![j].content = target[j]] ELSE known
      /\ target' = target
  BY <1>2 DEF Edit
<1>4. shown' # "updated"
  BY <1>3 DEF Took
<1>5. PostsInv'
  <2>1. SUFFICES ASSUME ~lost' PROVE PostsInv'
    BY DEF PostsInv
  <2>2. ~lost /\ known' = [known EXCEPT ![j].content = target[j]]
    BY <1>3, <2>1 DEF Took
  <2>3. j \in DOMAIN known /\ j \in DOMAIN target
    BY DEF Differing
  <2>4. posts = known /\ known \in Seq(Post)
    BY <2>2 DEF ReplyInv, PostsInv
  <2>5. Position(known[j].id) = j
    BY <2>2, <2>3, PositionIs DEF ReplyInv
  <2>6. posts' = known'
    BY <1>3, <2>2, <2>4, <2>5
  <2>7. known[j] \in Post /\ target[j] \in Content
    BY <2>3, <2>4 DEF ReplyInv
  <2>8. PICK p : p = [known[j] EXCEPT !.content = target[j]]
    OBVIOUS
  <2>9. p \in Post /\ p.id = known[j].id
    BY <2>7, <2>8 DEF Post
  <2>10. known' = [known EXCEPT ![j] = p]
    BY <2>2, <2>8
  <2>11. known' \in Seq(Post) /\ DOMAIN known' = DOMAIN known
    <3>1. DOMAIN known = 1..Len(known) /\ Len(known) \in Nat /\ \A i \in DOMAIN known : known[i] \in Post
      BY <2>4
    <3>2. DOMAIN known' = DOMAIN known /\ \A i \in DOMAIN known : known'[i] = IF i = j THEN p ELSE known[i]
      BY <2>4, <2>10
    <3>3. known' = [i \in 1..Len(known) |-> known'[i]] /\ \A i \in 1..Len(known) : known'[i] \in Post
      BY <2>4, <2>9, <2>10, <3>1, <3>2
    <3>4. QED
      BY <3>1, <3>2, <3>3
  <2>12. \A i \in DOMAIN known : known'[i].id = known[i].id
    BY <2>4, <2>9, <2>10
  <2>13. QED
    BY <2>2, <2>6, <2>11, <2>12 DEF ReplyInv, PostsInv
<1>6. QED
  BY <1>3, <1>4, <1>5 DEF ReplyInv

LEMMA SendKeeps == ReplyInv /\ Send => ReplyInv'
<1> SUFFICES ASSUME ReplyInv, Send PROVE ReplyInv'
  OBVIOUS
<1> DEFINE T == {0} \cup {posts[p].id : p \in DOMAIN posts} \cup {known[p].id : p \in DOMAIN known}
<1>1. PICK content : content = target[Len(known) + 1]
  OBVIOUS
<1>2. PICK id : id = 1 + Max(T)
  OBVIOUS
<1>3. PICK post : post = [id |-> id, content |-> content]
  OBVIOUS
<1>4. /\ shown = "updating" /\ Len(known) < Len(target) /\ posts' = Append(posts, post)
      /\ \E yes \in BOOLEAN :
            Took(yes) /\ known' = IF yes THEN Append(known, post) ELSE known
      /\ target' = target
  BY <1>1, <1>2, <1>3 DEF Send
<1>5. shown' # "updated"
  BY <1>4 DEF Took
<1>6. PostsInv'
  <2>1. SUFFICES ASSUME ~lost' PROVE PostsInv'
    BY DEF PostsInv
  <2>2. ~lost /\ known' = Append(known, post)
    BY <1>4, <2>1 DEF Took
  <2>3. posts = known /\ known \in Seq(Post)
        /\ \A i, k \in DOMAIN known : known[i].id = known[k].id => i = k
    BY <2>2 DEF ReplyInv, PostsInv
  <2>4. PICK n \in Nat : \A i \in DOMAIN known : known[i].id <= n
    BY <2>2 DEF ReplyInv, PostsInv
  <2>5. DOMAIN known = 1..Len(known) /\ Len(known) \in Nat /\ \A i \in DOMAIN known : known[i].id \in Nat
    <3>1. DOMAIN known = 1..Len(known) /\ Len(known) \in Nat /\ \A i \in DOMAIN known : known[i] \in Post
      BY <2>3
    <3>2. QED
      BY <3>1 DEF Post
  <2>6. \A x \in T : x \in 0..n
    BY <2>3, <2>4, <2>5
  <2>7. Max(T) \in T /\ \A x \in T : x <= Max(T)
    BY <2>6, MaxIsGreatest
  <2>8. PICK m \in T : m = Max(T)
    BY <2>7
  <2>9. m \in Nat /\ id = 1 + m /\ \A i \in DOMAIN known : known[i].id <= m
    <3>1. \A i \in DOMAIN known : known[i].id \in T
      OBVIOUS
    <3> HIDE DEF T
    <3>2. id = 1 + m
      BY <1>2, <2>8
    <3>3. m \in 0..n
      BY <2>6
    <3>4. \A i \in DOMAIN known : known[i].id <= m
      BY <2>7, <2>8, <3>1
    <3>5. QED
      BY <3>2, <3>3, <3>4
  <2>10. content \in Content
    <3>1. Len(known) + 1 \in DOMAIN target
      BY <1>4, <2>5 DEF ReplyInv
    <3>2. QED
      BY <1>1, <3>1 DEF ReplyInv
  <2>11. post \in Post /\ post.id = 1 + m
    BY <1>3, <2>9, <2>10 DEF Post
  <2>12. known' \in Seq(Post) /\ DOMAIN known' = 1..Len(known) + 1
         /\ known'[Len(known) + 1] = post /\ \A i \in DOMAIN known : known'[i] = known[i]
    BY <2>2, <2>3, <2>11
  <2>13. \A i \in DOMAIN known' : i \in DOMAIN known \/ i = Len(known) + 1
    BY <2>5, <2>12
  <2>14. \A i \in DOMAIN known' : known'[i].id <= 1 + m
    BY <2>5, <2>9, <2>11, <2>12, <2>13
  <2>15. \A i \in DOMAIN known : known[i].id # 1 + m
    BY <2>5, <2>9
  <2>16. \A i, k \in DOMAIN known' : known'[i].id = known'[k].id => i = k
    BY <2>3, <2>11, <2>12, <2>13, <2>15
  <2>17. posts' = known' /\ 1 + m \in Nat
    BY <1>4, <2>2, <2>3, <2>9
  <2>18. QED
    BY <2>12, <2>14, <2>16, <2>17 DEF PostsInv
<1>7. QED
  BY <1>4, <1>5, <1>6 DEF ReplyInv

LEMMA DeleteKeeps == ReplyInv /\ Delete => ReplyInv'
<1> SUFFICES ASSUME ReplyInv, Delete PROVE ReplyInv'
  OBVIOUS
<1>1. /\ shown = "updating" /\ Len(known) > Len(target)
      /\ posts' = RemoveAt(posts, Position(Last(known).id))
      /\ \E yes \in BOOLEAN : Took(yes) /\ known' = IF yes THEN Front(known) ELSE known
      /\ target' = target
  BY DEF Delete
<1>2. shown' # "updated"
  BY <1>1 DEF Took
<1>3. PostsInv'
  <2>1. SUFFICES ASSUME ~lost' PROVE PostsInv'
    BY DEF PostsInv
  <2>2. ~lost /\ known' = Front(known)
    BY <1>1, <2>1 DEF Took
  <2>3. posts = known /\ known \in Seq(Post)
        /\ \A i, k \in DOMAIN known : known[i].id = known[k].id => i = k
    BY <2>2 DEF ReplyInv, PostsInv
  <2>4. PICK n \in Nat : \A i \in DOMAIN known : known[i].id <= n
    BY <2>2 DEF ReplyInv, PostsInv
  <2>5. PICK m : m = Len(known)
    OBVIOUS
  <2>6. m \in Nat /\ m >= 1 /\ DOMAIN known = 1..m
    BY <1>1, <2>3, <2>5 DEF ReplyInv
  <2>7. Last(known) = known[m] /\ m \in DOMAIN known
    BY <2>5, <2>6 DEF Last
  <2>8. Position(Last(known).id) = m
    BY <2>2, <2>7, PositionIs DEF ReplyInv
  <2>9. posts' = SubSeq(known, 1, m - 1) \o SubSeq(known, m + 1, m)
    BY <1>1, <2>3, <2>5, <2>8 DEF RemoveAt
  <2>10. SubSeq(known, m + 1, m) = <<>>
    BY <2>3, <2>6
  <2>11. known' = SubSeq(known, 1, m - 1) /\ known' \in Seq(Post)
         /\ DOMAIN known' = 1..m - 1 /\ \A i \in 1..m - 1 : known'[i] = known[i]
    BY <2>2, <2>3, <2>5, <2>6 DEF Front
  <2>12. posts' = known'
    <3>1. PICK s \in Seq(Post) : s = known'
      BY <2>11
    <3>2. s \o <<>> = s
      OBVIOUS
    <3>3. QED
      BY <2>9, <2>10, <2>11, <3>1, <3>2
  <2>13. \A i \in DOMAIN known' : i \in DOMAIN known
    BY <2>6, <2>11
  <2>14. QED
    BY <2>3, <2>4, <2>11, <2>12, <2>13 DEF PostsInv
<1>4. QED
  BY <1>1, <1>2, <1>3 DEF ReplyInv

LEMMA SyncKeeps == ReplyInv /\ Sync => ReplyInv' /\ target' = target
<1> SUFFICES ASSUME ReplyInv, Sync PROVE ReplyInv' /\ target' = target
  OBVIOUS
<1>1. CASE Edit
  BY <1>1, EditKeeps DEF Edit
<1>2. CASE Send
  BY <1>2, SendKeeps DEF Send
<1>3. CASE Delete
  BY <1>3, DeleteKeeps DEF Delete
<1>4. CASE CallFails
  BY <1>4 DEF CallFails, ReplyInv, PostsInv
<1>5. CASE UpdateEnds
  BY <1>5 DEF UpdateEnds, ReplyInv, PostsInv, Differing
<1>6. QED
  BY <1>1, <1>2, <1>3, <1>4, <1>5 DEF Sync

-----------------------------------------------------------------------------
(* The reply *)

HandlerInv ==
    /\ handler \in {"new", "thinking", "turn", "responding", "presenting", "done"}
    /\ handler \in {"new", "thinking"} => gateway = "idle"
    /\ handler \in {"responding", "presenting", "done"} =>
          /\ Returned
          /\ response \in {Stopped, Error} \/ (gateway = "answered" /\ response = text)
    /\ handler \in {"presenting", "done"} => target = Showing(response)

LiveInv == TurnInv /\ ReplyInv /\ HandlerInv

LEMMA LiveStarts == LiveInit => LiveInv
<1> SUFFICES ASSUME LiveInit PROVE LiveInv
  OBVIOUS
<1>1. TurnInv
  BY TurnStarts DEF LiveInit
<1>2. posts = <<>> /\ known = <<>> /\ target = <<>> /\ shown = "nothing"
  BY DEF LiveInit, ReplyInit
<1>3. \A i \in DOMAIN known : FALSE
  BY <1>2
<1>4. known \in Seq(Post) /\ target \in Seq(Content) /\ 0 \in Nat
  BY <1>2
<1>5. ReplyInv
  BY <1>2, <1>3, <1>4 DEF ReplyInv, PostsInv
<1>6. HandlerInv
  BY DEF LiveInit, TurnInit, HandlerInv
<1>7. QED
  BY <1>1, <1>5, <1>6 DEF LiveInv

LEMMA TextTypes ==
  LiveInv => /\ text \in Texts
             /\ handler \in {"responding", "presenting", "done"} => response \in Texts
BY TextsAssumption DEF LiveInv, TurnInv, TurnPlaces, HandlerInv

LEMMA ProgressKeeps ==
  ASSUME ReplyInv, NEW t \in Texts, Progress(t)
  PROVE  ReplyInv'
<1>1. CASE Update(t)
  BY <1>1, UpdateKeeps
<1>2. CASE UNCHANGED reply
  BY <1>2 DEF reply, ReplyInv, PostsInv, Differing
<1>3. QED
  BY <1>1, <1>2 DEF Progress

LEMMA ReplyStays ==
  ReplyInv /\ UNCHANGED reply => ReplyInv' /\ target' = target
BY DEF reply, ReplyInv, PostsInv, Differing

\* The turn goes on beside the handler; what was returned stays.
LEMMA BesideKeeps ==
  ASSUME LiveInv, TurnInv', UNCHANGED <<reply, handler, response>>,
         Returned => UNCHANGED <<gateway, text>>,
         gateway = "idle" => gateway' = "idle"
  PROVE  LiveInv'
<1>1. ReplyInv' /\ target' = target /\ handler' = handler /\ response' = response
  BY ReplyStays DEF LiveInv
<1>2. HandlerInv'
  <2>1. handler \in {"new", "thinking"} => gateway' = "idle"
    BY DEF LiveInv, HandlerInv
  <2>2. ASSUME handler \in {"responding", "presenting", "done"}
        PROVE  Returned' /\ (response \in {Stopped, Error} \/ (gateway' = "answered" /\ response = text'))
    <3>1. Returned /\ (response \in {Stopped, Error} \/ (gateway = "answered" /\ response = text))
      BY <2>2 DEF LiveInv, HandlerInv
    <3>2. gateway' = gateway /\ text' = text
      BY <3>1
    <3>3. QED
      BY <3>1, <3>2 DEF Returned
  <2>3. QED
    BY <1>1, <2>1, <2>2 DEF LiveInv, HandlerInv, Showing
<1>3. QED
  BY <1>1, <1>2 DEF LiveInv

LEMMA LiveStep == LiveInv /\ [LiveNext]_live => LiveInv'
<1> SUFFICES ASSUME LiveInv, [LiveNext]_live PROVE LiveInv'
  OBVIOUS
<1> USE DEF LiveInv
<1>1. CASE Think
  <2>1. Thinking \in Texts /\ Progress(Thinking) /\ handler = "new" /\ handler' = "thinking" /\ UNCHANGED turn
    BY <1>1, TextsAssumption DEF Think
  <2>2. ReplyInv' /\ TurnInv'
    BY <2>1, ProgressKeeps, RestKeeps
  <2>3. HandlerInv'
    BY <2>1 DEF HandlerInv, turn
  <2>4. QED
    BY <2>2, <2>3
<1>2. CASE Begin
  <2>1. RunTurn /\ UNCHANGED <<reply, response>> /\ handler' = "turn"
    BY <1>2 DEF Begin
  <2>2. ReplyInv' /\ TurnInv'
    BY <2>1, ReplyStays, RestKeeps
  <2>3. HandlerInv'
    BY <2>1 DEF HandlerInv
  <2>4. QED
    BY <2>2, <2>3
<1>3. CASE ReceiveEvent
  <2>1. /\ Receive /\ UNCHANGED <<handler, response>>
        /\ IF gateway' = "delivering" THEN Progress(progress') ELSE UNCHANGED reply
    BY <1>3 DEF ReceiveEvent
  <2>2. TurnInv'
    BY <2>1, ReceiveKeeps
  <2>3. gateway = "receiving" /\ ~Returned
    BY <2>1 DEF Receive, Returned
  <2>4. ReplyInv'
    <3>1. CASE gateway' = "delivering"
      <4>1. progress' \in Texts
        <5>1. progress' = ProgressText(InHand) /\ ProgressText(InHand) # Blank
          BY <2>1, <2>3, <3>1 DEF Receive
        <5>2. executor = "handing" /\ read \in 1..Len(written) /\ written \in Seq(Events)
          BY <2>1 DEF Receive, TurnInv, TurnPlaces
        <5>3. InHand \in Events
          BY <5>2 DEF InHand
        <5>4. ProgressText(InHand) \in Answers \cup {Tool, Blank}
          BY <5>3, EventTypes DEF ProgressText
        <5>5. QED
          BY <5>1, <5>4, TextsAssumption
      <4>2. QED
        BY <2>1, <3>1, <4>1, ProgressKeeps
    <3>2. CASE gateway' # "delivering"
      BY <2>1, <3>2, ReplyStays
    <3>3. QED
      BY <3>1, <3>2
  <2>5. HandlerInv'
    BY <2>1, <2>3 DEF HandlerInv, Returned
  <2>6. QED
    BY <2>2, <2>4, <2>5
<1>4. CASE Resume
  <2>1. Delivered /\ UNCHANGED <<reply, handler, response>>
    BY <1>4 DEF Resume
  <2>2. TurnInv' /\ gateway = "delivering" /\ ~Returned
    BY <2>1, RestKeeps DEF Delivered, Returned
  <2>3. QED
    BY <2>1, <2>2, BesideKeeps
<1>5. CASE ReturnTurn
  <2>1. Return /\ UNCHANGED <<reply, handler, response>>
    BY <1>5 DEF ReturnTurn
  <2>2. TurnInv' /\ gateway = "receiving" /\ ~Returned
    BY <2>1, RestKeeps DEF Return, Returned
  <2>3. QED
    BY <2>1, <2>2, BesideKeeps
<1>6. CASE Respond
  <2>1. /\ UNCHANGED <<turn, reply>> /\ Returned /\ handler' = "responding"
        /\ response' \in {Stopped, Error} \/ (gateway = "answered" /\ response' = text)
    BY <1>6 DEF Respond
  <2>2. ReplyInv' /\ TurnInv'
    BY <2>1, ReplyStays, RestKeeps
  <2>3. HandlerInv'
    BY <2>1 DEF HandlerInv, Returned, turn
  <2>4. QED
    BY <2>2, <2>3
<1>7. CASE Present
  <2>1. /\ handler = "responding" /\ handler' = "presenting" /\ Update(response)
        /\ UNCHANGED <<turn, response>> /\ response \in Texts
    BY <1>7, TextTypes DEF Present
  <2>2. ReplyInv' /\ TurnInv' /\ target' = Showing(response)
    BY <2>1, UpdateKeeps, RestKeeps
  <2>3. HandlerInv'
    BY <2>1, <2>2 DEF HandlerInv, Returned, Showing, turn
  <2>4. QED
    BY <2>2, <2>3
<1>8. CASE Finish
  <2>1. handler = "presenting" /\ handler' = "done" /\ UNCHANGED <<turn, reply, response>>
    BY <1>8 DEF Finish
  <2>2. ReplyInv' /\ TurnInv' /\ target' = target
    BY <2>1, ReplyStays, RestKeeps
  <2>3. HandlerInv'
    BY <2>1, <2>2 DEF HandlerInv, Returned, Showing, turn
  <2>4. QED
    BY <2>2, <2>3
<1>9. CASE Sync /\ UNCHANGED <<turn, handler, response>>
  <2>1. ReplyInv' /\ TurnInv' /\ target' = target
    BY <1>9, SyncKeeps, RestKeeps
  <2>2. HandlerInv'
    BY <1>9, <2>1 DEF HandlerInv, Returned, Showing, turn
  <2>3. QED
    BY <2>1, <2>2
<1>10. CASE Execute /\ Beside
  <2>1. UNCHANGED <<reply, handler, response, gateway, text>>
    BY <1>10 DEF Beside, Execute, StartProcess, ReadLine, HandOverCanceled, ReadEnd
  <2>2. TurnInv'
    BY <1>10, ReadKeeps, RestKeeps DEF Execute
  <2>3. QED
    BY <2>1, <2>2, BesideKeeps
<1>11. CASE (Write \/ Exit \/ Kill \/ Cancel) /\ Beside
  <2>1. UNCHANGED <<reply, handler, response, gateway, text>>
    BY <1>11 DEF Beside, Write, Exit, Kill, Cancel
  <2>2. TurnInv'
    BY <1>11, WriteKeeps, RestKeeps
  <2>3. QED
    BY <2>1, <2>2, BesideKeeps
<1>12. CASE UNCHANGED live
  <2>1. UNCHANGED <<turn, reply, handler, response, gateway, text>>
    BY <1>12 DEF live, turn
  <2>2. TurnInv'
    BY <2>1, RestKeeps
  <2>3. QED
    BY <2>1, <2>2, BesideKeeps
<1>13. QED
  BY <1>1, <1>2, <1>3, <1>4, <1>5, <1>6, <1>7, <1>8, <1>9, <1>10, <1>11, <1>12 DEF LiveNext, Quiet

\* The channel shows the chunks of the response and nothing else.
LEMMA ShownIsResponse ==
  ASSUME LiveInv, handler = "done", shown = "updated", ~lost, ChunksOf[response] # <<>>
  PROVE  Shows(response)
<1>1. response \in Texts /\ target = Showing(response)
  BY TextTypes DEF LiveInv, HandlerInv
<1>2. PICK C \in Seq(Seq(Item)) : C = ChunksOf[response]
  BY <1>1, ChunksAreRight
<1>3. /\ target \in Seq(Content) /\ DOMAIN target = DOMAIN C
      /\ \A j \in DOMAIN C : target[j].text = response /\ target[j].chunk = C[j]
  BY <1>1, <1>2, ShowingTypes
<1>4. DOMAIN C # {} /\ DOMAIN C = 1..Len(C) /\ Len(C) \in Nat
  <2>1. DOMAIN C = 1..Len(C) /\ Len(C) \in Nat
    OBVIOUS
  <2>2. C # <<>>
    BY <1>2
  <2>3. Len(C) > 0
    BY <2>1, <2>2
  <2>4. 1 \in DOMAIN C
    BY <2>1, <2>3
  <2>5. QED
    BY <2>1, <2>4
<1>5. target # <<>>
  BY <1>3, <1>4
<1>6. Differing = {} /\ Len(known) = Len(target) /\ posts = known /\ known \in Seq(Post)
  BY <1>5 DEF LiveInv, ReplyInv, PostsInv
<1>7. DOMAIN known = DOMAIN C /\ DOMAIN posts = DOMAIN C
  BY <1>3, <1>4, <1>6
<1>8. \A j \in DOMAIN C : known[j].content = target[j]
  BY <1>3, <1>6, <1>7 DEF Differing
<1>9. \A p \in DOMAIN posts : posts[p].content.text = response /\ posts[p].content.chunk = C[p]
  BY <1>3, <1>6, <1>7, <1>8
<1>10. [p \in DOMAIN posts |-> posts[p].content.chunk] = C
  <2>1. C = [p \in DOMAIN C |-> C[p]]
    OBVIOUS
  <2>2. [p \in DOMAIN posts |-> posts[p].content.chunk] = [p \in DOMAIN C |-> C[p]]
    BY <1>7, <1>9
  <2>3. QED
    BY <2>1, <2>2
<1>11. ReadsAs(C, Lines[response])
  BY <1>1, <1>2, ChunksAreRight
<1>12. QED
  BY <1>9, <1>10, <1>11 DEF Shows

\* A reply presented without an error shows the response, all of it but characters
\* torn for want of a blank, and nothing else, unless a failed call of Discord had
\* taken effect; and the response is the last message of a process that ended well
\* with no failure left standing, or says that there is none, whatever became of
\* the updates before it (live_message.go, gateway.go, exec.go, chunker.go).
THEOREM ReplyIsTheAnswerAlways == LiveSpec => []ReplyIsTheAnswer
<1>1. LiveInv => ReplyIsTheAnswer
  <2> SUFFICES ASSUME LiveInv PROVE ReplyIsTheAnswer
    OBVIOUS
  <2>1. AnswerIsSound
    BY TurnIsSound DEF LiveInv
  <2>2. handler = "done" => response \in {Stopped, Error} \/ (gateway = "answered" /\ response = text)
    BY DEF LiveInv, HandlerInv
  <2>3. QED
    BY <2>1, <2>2, ShownIsResponse DEF ReplyIsTheAnswer
<1>2. QED
  BY <1>1, LiveStarts, LiveStep, PTL DEF LiveSpec

=============================================================================
