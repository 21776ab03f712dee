----------------------------- MODULE TanaObjects -----------------------------
(***************************************************************************)
(* What the object store promises its clients, without saying how: a map   *)
(* from keys to contents.  A mutation the store has accepted is owed.  It  *)
(* takes effect exactly once, no mutation overtakes an older one, and none *)
(* is ever forgotten; nothing else changes an object.  Crashes, recovery,  *)
(* collection and refused requests are stuttering steps.                   *)
(***************************************************************************)
EXTENDS Naturals

CONSTANTS Keys, Hashes, None

VARIABLES
  objects,  \* the content every key is bound to
  owed      \* accepted mutations that have not taken effect

vars == <<objects, owed>>

Mutation == [seq : Nat \ {0}, key : Keys, hash : Hashes \cup {None}]

Init == objects = [k \in Keys |-> None] /\ owed = {}

Accept ==
  /\ \E m \in owed' \cap Mutation :
       /\ \A o \in owed : o.seq < m.seq
       /\ owed' = owed \cup {m}
  /\ UNCHANGED objects

TakeEffect(m) ==
  /\ m \in owed
  /\ \A o \in owed : m.seq <= o.seq
  /\ objects' = [objects EXCEPT ![m.key] = m.hash]
  /\ owed' = owed \ {m}

Next ==
  \/ Accept
  \/ \E m \in owed : TakeEffect(m)

Spec == Init /\ [][Next]_vars

=============================================================================
