------------------------------- MODULE Chunker -------------------------------
(***************************************************************************)
(* chunkText (runtime/discord/chunker.go): a text is cut into messages of  *)
(* about Limit bytes, and a code block that is cut is closed and opened    *)
(* again.                                                                  *)
(*                                                                         *)
(* Sizes and places are in bytes, as in the code: a line with no blank to  *)
(* be cut at may be cut inside a character of several bytes, which is then *)
(* not readable in either chunk.  A text is a sequence of lines, each with *)
(* its "\n", of which only the size matters, where its blanks, the insides *)
(* of its characters and its "```" are, and whether it is a code fence.  A *)
(* chunk is a sequence of items: pieces of lines, and the fences that were *)
(* added.  The trimming of white space around the text and its chunks is   *)
(* left out, and so is the "\r" before a "\n".                             *)
(***************************************************************************)
EXTENDS Integers, SequencesExt, FiniteSetsExt

CONSTANTS Limit,    \* discordMessageLimit; 2000 in the code
          Closing   \* the size of "\n```"; 4 in the code

ASSUME LimitAssumption == Limit \in Nat /\ Closing \in 1..Limit

\* The offset of every blank, of every byte that is not the first of its
\* character, and of every "```"; the size of a fence without the white space
\* around it, or 0.
Line == [size : Nat \ {0}, blanks : SUBSET Nat, inner : SUBSET Nat, ticks : SUBSET Nat, fence : Nat]
IsText(text) ==
    /\ text \in Seq(Line)
    /\ \A i \in DOMAIN text :
          text[i].inner \subseteq 1..text[i].size - 1 /\ text[i].inner \cap text[i].blanks = {}

\* end is the size of the chunk up to an item and with it.
Item == [kind : {"piece", "reopened", "closed"}, line : Nat, from : Nat, size : Nat, end : Nat]
IsPiece(item) == item.kind = "piece"

\* current.Len(), and the end of a chunk once it is written.
Used(chunk) == IF chunk = <<>> THEN 0 ELSE Last(chunk).end

\* WriteString.
Put(chunk, kind, line, from, size) ==
    Append(chunk, [kind |-> kind, line |-> line, from |-> from, size |-> size,
                   end |-> Used(chunk) + size])

\* The loop's state: the chunk under construction, the line that opened the
\* present code block or 0, the line at hand and how much of it is placed.
LoopState ==
    [chunks : Seq(Seq(Item)), current : Seq(Item), open : Nat, line : Nat, from : Nat]
Start == [chunks |-> <<>>, current |-> <<>>, open |-> 0, line |-> 1, from |-> 0]

Flush(b) ==
    IF b.current = <<>> THEN b ELSE [b EXCEPT !.chunks = Append(@, b.current), !.current = <<>>]

\* HasSuffix "\n```": what comes before a piece in a chunk ends a line.
EndsFenced(b, text) ==
    /\ Len(b.current) > 1
    /\ LET p == Last(b.current)
       IN  IsPiece(p) /\ p.size = Closing - 1 /\ p.from \in text[p.line].ticks
Close(b, text) ==
    IF b.open = 0 \/ EndsFenced(b, text) THEN b
    ELSE [b EXCEPT !.current = Put(@, "closed", 0, 0, Closing)]

\* A new chunk inside a code block begins with the fence that opened the block
\* and a "\n", and room is kept for the fence that closes it.
Prefix(b, text) == IF b.current = <<>> /\ b.open # 0 THEN text[b.open].fence + 1 ELSE 0
Suffix(b) == IF b.open # 0 THEN Closing ELSE 0
Available(b, text) ==
    LET kept == Prefix(b, text) + Suffix(b) IN IF kept < Limit THEN Limit - kept ELSE Limit
Begun(b, text) ==
    IF Prefix(b, text) > 0 THEN Put(b.current, "reopened", 0, 0, Prefix(b, text)) ELSE b.current
Left(b, text) == Available(b, text) - Used(Begun(b, text))

Take(b, text, n) ==
    [b EXCEPT !.current = Put(Begun(b, text), "piece", b.line, b.from, n), !.from = @ + n]

\* How much of a line is taken when only left bytes of it fit.
Cut(line, from, left) ==
    LET blanks == {p \in line.blanks : from < p /\ p < from + left}
    IN  IF blanks = {} THEN left ELSE Max(blanks) - from

\* The line is placed; if it is a fence it opens a code block or closes it.
NextLine(b, text) ==
    [b EXCEPT !.line = @ + 1, !.from = 0,
              !.open = IF text[b.line].fence = 0 THEN @ ELSE IF @ = 0 THEN b.line ELSE 0]

Rest(b, text) == text[b.line].size - b.from
IsFull(b, text) == Available(b, text) <= Used(b.current)

\* One turn of the loop of appendWithFence: a piece is taken, or the chunk ended.
Place(b, text) ==
    IF IsFull(b, text) THEN Flush(Close(b, text))
    ELSE IF Rest(b, text) <= Left(b, text) THEN NextLine(Take(b, text, Rest(b, text)), text)
    ELSE Flush(Close(Take(b, text, Cut(text[b.line], b.from, Left(b, text))), text))

\* A slice of a negative length panics.
Panics(b, text) == ~IsFull(b, text) /\ Left(b, text) \notin Nat

\* The loop goes over a text, from its first line to behind its last.
Loop(states, text) ==
    /\ states \in Seq(LoopState) /\ states # <<>> /\ states[1] = Start
    /\ \A i \in 1..Len(states) - 1 :
          /\ states[i].line <= Len(text)
          /\ ~Panics(states[i], text)
          /\ states[i + 1] = Place(states[i], text)
    /\ Last(states).line > Len(text)

\* The same for as long as it takes, for ever if need be.
Going(states, text) ==
    /\ states[0] = Start
    /\ \A i \in Nat :
          states[i + 1] = IF states[i].line > Len(text) THEN states[i] ELSE Place(states[i], text)

\* What is left of the loop's last state.
Chunks(b, text) == Flush(Close(b, text)).chunks

-----------------------------------------------------------------------------

Covers(item, n, x) ==
    IsPiece(item) /\ item.line = n /\ item.from <= x /\ x < item.from + item.size
EndsBefore(p, q) == p.line < q.line \/ (p.line = q.line /\ p.from + p.size <= q.from)

\* The pieces in the chunks follow one another as they do in the text.
InOrder(chunks) ==
    \A i, j \in DOMAIN chunks : \A k \in DOMAIN chunks[i], l \in DOMAIN chunks[j] :
        /\ i < j \/ (i = j /\ k < l)
        /\ IsPiece(chunks[i][k]) /\ IsPiece(chunks[j][l])
        => EndsBefore(chunks[i][k], chunks[j][l])

\* Each is part of the text, ...
Within(chunks, text) ==
    \A i \in DOMAIN chunks : \A k \in DOMAIN chunks[i] :
        LET p == chunks[i][k]
        IN  IsPiece(p) => p.line \in DOMAIN text /\ p.from + p.size <= text[p.line].size

\* ... and what is left of a place in the text is in one of them.
CompleteUpTo(chunks, text, line, from) ==
    \A n \in DOMAIN text : \A x \in 0..text[n].size - 1 :
        n < line \/ (n = line /\ x < from) =>
            \E i \in DOMAIN chunks : \E k \in DOMAIN chunks[i] : Covers(chunks[i][k], n, x)

\* A piece that ends inside a character had no blank to be cut at.
CutsAtBlanks(chunks, text) ==
    \A i \in DOMAIN chunks : \A k \in DOMAIN chunks[i] :
        LET p == chunks[i][k]
            to == p.from + p.size
        IN  IsPiece(p) /\ to \in text[p.line].inner
            => \A blank \in text[p.line].blanks : ~(p.from < blank /\ blank < to)

\* What is read in the chunks, one after the other, is the text from its first
\* to its last byte, and a character is only torn where there is no blank.
ReadsAs(chunks, text) ==
    /\ InOrder(chunks) /\ Within(chunks, text) /\ CompleteUpTo(chunks, text, Len(text) + 1, 0)
    /\ CutsAtBlanks(chunks, text)

\* The items of a chunk follow one another without a gap, and it is at most
\* Limit long, or Limit and the fence that closes it.
Sized(chunk) ==
    \A k \in DOMAIN chunk :
        /\ chunk[k].end = Used(SubSeq(chunk, 1, k - 1)) + chunk[k].size
        /\ chunk[k].end <= IF chunk[k].kind = "closed" THEN Limit + Closing ELSE Limit

\* There is room for every fence of a text twice and for one to close a block:
\* the fence that opens a chunk counts twice (chunker.go:48-64).
FencesFit(text) == \A i \in DOMAIN text : 2 * (text[i].fence + 1) + Closing < Limit

=============================================================================
