---------------------------- MODULE MCTanaReplica ----------------------------
(* Instances of TanaReplica for TLC.  Keys and contents are interchangeable  *)
(* in the runs without liveness.                                             *)
EXTENDS TanaReplica, TLC

Symmetry == Permutations(Keys) \cup Permutations(Hashes)

=============================================================================
