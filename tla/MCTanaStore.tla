----------------------------- MODULE MCTanaStore -----------------------------
(***************************************************************************)
(* Model-checking instance of TanaStore: symmetry of the model values.     *)
(***************************************************************************)
EXTENDS TanaStore, TLC

Symmetry == Permutations(Keys) \cup Permutations(Hashes) \cup Permutations(Clients)

=============================================================================
