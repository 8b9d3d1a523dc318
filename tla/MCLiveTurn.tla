------------------------------ MODULE MCLiveTurn ------------------------------
(* Texts for the run of LiveTurn. *)
EXTENDS LiveTurn

Plain(size) == [size |-> size, blanks |-> {}, inner |-> {}, ticks |-> {}, fence |-> 0]
Fenced(size, fence) == [Plain(size) EXCEPT !.ticks = {0}, !.fence = fence]

\* A short text; a line that is cut at a blank, then inside a character; a block
\* of code that does not fit into one message, and is cut once more in the middle
\* of a fence; the texts of the bot; one that is blank.
SmallTexts ==
    [short |-> <<Plain(3)>>,
     long  |-> <<[Plain(20) EXCEPT !.blanks = {5, 8}, !.inner = {19}]>>,
     code  |-> <<Plain(7), Fenced(4, 2), Plain(3), [Fenced(4, 3) EXCEPT !.blanks = {1}]>>,
     blank |-> <<>>, tool |-> <<Plain(4)>>, thinking |-> <<Plain(5)>>,
     stopped |-> <<Plain(6)>>, error |-> <<Plain(7)>>]

\* The states of the loop, one after the other.
RECURSIVE Looping(_, _)
Looping(states, lines) ==
    IF Last(states).line > Len(lines) THEN states
    ELSE Looping(Append(states, Place(Last(states), lines)), lines)

SmallLoops == [t \in DOMAIN SmallTexts |-> Looping(<<Start>>, SmallTexts[t])]

PieceOf(line, from, size) == [kind |-> "piece", line |-> line, from |-> from, size |-> size]
Added(kind, size) == [kind |-> kind, line |-> 0, from |-> 0, size |-> size]
Ending(item, end) == item @@ [end |-> end]
Whole(size) == << <<Ending(PieceOf(1, 0, size), size)>> >>

\* The first chunk of the code is longer than Limit.
SmallChunks ==
    [short |-> Whole(3),
     long  |-> << <<Ending(PieceOf(1, 0, 8), 8)>>, <<Ending(PieceOf(1, 8, 11), 11)>>,
                  <<Ending(PieceOf(1, 19, 1), 1)>> >>,
     code  |-> << <<Ending(PieceOf(1, 0, 7), 7), Ending(PieceOf(2, 0, 4), 11), Ending(Added("closed", 2), 13)>>,
                  <<Ending(Added("reopened", 3), 3), Ending(PieceOf(3, 0, 3), 6), Ending(PieceOf(4, 0, 1), 7)>>,
                  <<Ending(Added("reopened", 3), 3), Ending(PieceOf(4, 1, 3), 6)>> >>,
     blank |-> <<>>, tool |-> Whole(4), thinking |-> Whole(5),
     stopped |-> Whole(6), error |-> Whole(7)]

=============================================================================
