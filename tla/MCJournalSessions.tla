------------------------- MODULE MCJournalSessions -------------------------
(* Keys and symmetry for the runs of JournalSessions. *)
EXTENDS JournalSessions, TLC

JournalKeys == (1..LastDay) \X (1..MaxGeneration)

\* Messages differ in nothing but their name, and so do clear commands.
Symmetry == Permutations(Messages) \cup Permutations(Clears)

=============================================================================
