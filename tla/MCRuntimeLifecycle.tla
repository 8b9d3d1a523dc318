------------------------- MODULE MCRuntimeLifecycle -------------------------
(* Model values and symmetry for the runs of RuntimeLifecycle. *)
EXTENDS RuntimeLifecycle, TLC

\* Messages differ in nothing but their name.
Symmetry == Permutations(Messages)

=============================================================================
