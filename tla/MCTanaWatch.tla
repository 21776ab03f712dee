----------------------------- MODULE MCTanaWatch -----------------------------
(***************************************************************************)
(* Model-checking instance of TanaWatch: a year with two months in it.     *)
(***************************************************************************)
EXTENDS TanaWatch, TLC

CONSTANTS year, jan, feb

MCParentOf == (year :> Root) @@ (jan :> year) @@ (feb :> year)

Symmetry == Permutations({jan, feb})

=============================================================================
