--------------------------- MODULE MCTanaMultipart ---------------------------
(***************************************************************************)
(* Model-checking instance of TanaMultipart.                               *)
(***************************************************************************)
EXTENDS TanaMultipart, TLC

Symmetry == Permutations(Hashes \ {Whole}) \cup Permutations(Clients)

=============================================================================
