-------------------------- MODULE MCMessageService --------------------------
(* Model values and symmetry for the runs of MessageService. *)
EXTENDS MessageService, TLC

\* Messages differ in nothing but their name, and so do keys.
Symmetry == Permutations(Messages) \cup Permutations(Keys)

=============================================================================
