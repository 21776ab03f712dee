------------------------------- MODULE TanaLog -------------------------------
(***************************************************************************)
(* What the journal promises the store: a log of numbered records.  A      *)
(* record may be in the log before anybody was told so, and only such a    *)
(* record can be lost again; what was promised leaves the log only by a    *)
(* pruning below the record that must be kept.  This is the journal that   *)
(* TanaStore and TanaReplica take as one sequence.                         *)
(***************************************************************************)
EXTENDS Integers

CONSTANT Records

VARIABLES
  log,       \* the records that can be read, numbered
  promised,  \* the highest number a writer was told, or a restart found
  kept       \* records below this number may have been pruned

vars == <<log, promised, kept>>

Entry == [seq : Nat \ {0}, rec : Records]

Numbers == {e.seq : e \in log}

\* The number the next record takes: one past everything read or promised.
IsNext(n) ==
  /\ \A m \in Numbers \cup {promised} : m < n
  /\ n - 1 \in Numbers \cup {promised}

Init == log = {} /\ promised = 0 /\ kept = 0

Extend ==
  /\ \E e \in log' \cap Entry : IsNext(e.seq) /\ log' = log \cup {e}
  /\ UNCHANGED <<promised, kept>>

Promise ==
  /\ promised < promised'
  /\ promised' \in Numbers
  /\ (promised + 1)..promised' \subseteq Numbers
  /\ UNCHANGED <<log, kept>>

Lose ==
  /\ \E n \in Numbers : n > promised /\ log' = {e \in log : e.seq < n}
  /\ UNCHANGED <<promised, kept>>

Prune ==
  /\ kept <= kept'
  /\ log' \in {log} \cup {{e \in log : e.seq > n} : n \in Numbers}
  /\ \A e \in log \ log' : e.seq < kept' \/ e.seq > promised
  /\ UNCHANGED promised

Next == Extend \/ Promise \/ Lose \/ Prune

Spec == Init /\ [][Next]_vars

\* A log never holds two records under one number, nor a gap.
Dense ==
  /\ \A d, e \in log : d.seq = e.seq => d = e
  /\ \A d, e \in log : d.seq..e.seq \subseteq Numbers
=============================================================================
