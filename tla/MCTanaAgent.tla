----------------------------- MODULE MCTanaAgent -----------------------------
(* Instances of TanaAgent for TLC.  Objects, workers and readers are        *)
(* interchangeable.                                                         *)
EXTENDS TanaAgent, TLC

Symmetry == Permutations(Objects) \cup Permutations(Workers) \cup Permutations(Readers)

=============================================================================
