---------------------------- MODULE MCTanaJournal ----------------------------
(***************************************************************************)
(* Model-checking instance of TanaJournal: symmetry of the records.        *)
(***************************************************************************)
EXTENDS TanaJournal, TLC

Symmetry == Permutations(Records)

=============================================================================
