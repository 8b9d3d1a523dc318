-------------------------- MODULE MCTaskLifecycle --------------------------
(* The rows an earlier process left, and symmetry, for the run of TaskLifecycle. *)
EXTENDS TaskLifecycle, TLC

CONSTANTS t1, t2, n1, n2

\* Two open tasks that had a turn; what is created is pending.
StoredRows ==
    t1 :> [name |-> n1, open |-> TRUE, closedAt |-> 0, worktree |-> "ready"] @@
    t2 :> [name |-> n2, open |-> TRUE, closedAt |-> 0, worktree |-> "ready"]

Symmetry == Permutations(Messages) \cup Permutations(Commands)

\* What no guard of a step and no property of this run depends on is left out:
\* replies, acknowledgements and cleanups, which thread is bound to a task, a
\* row that will not be written any more, and what a message or a command that
\* is over was, except for the part the properties look at.
Live(m, x) == IF pc[m] \in Ended THEN None ELSE x
Trace(c) ==
    LET d == commands[c]
    IN  IF d.pc # "done" THEN <<d, doomed[c]>>
        ELSE <<IF d.missed = {} THEN None ELSE d.task, d.missed, d.cut \subseteq d.outside, d.again>>
View == <<entries, pc, inFlight,
          [m \in Messages |-> <<Live(m, queued[m]), Live(m, outcome[m] \in {"answer", "ignored"}),
                                IF Live(m, m) = m \/ \E s \in Steps : <<m, s>> \in overtaken
                                THEN key[m] ELSE None,
                                IF step[m] \in RowInHand THEN row[m] ELSE NoRow,
                                Live(m, step[m])>>],
          tasks, active, closings, worktrees, repoLock, {<<o[1], o[2] \in RowInHand>> : o \in overtaken},
          [c \in Commands |-> Trace(c)]>>

=============================================================================
