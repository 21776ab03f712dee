----------------------------- MODULE MCTanaCache -----------------------------
(***************************************************************************)
(* Model-checking instance of TanaCache.                                   *)
(***************************************************************************)
EXTENDS TanaCache, TLC

Symmetry == Permutations(Objects \ NeverEvict)

=============================================================================
