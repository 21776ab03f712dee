------------------------------ MODULE TanaIndex ------------------------------
(***************************************************************************)
(* The metadata index of the object store: which content hash every key is *)
(* bound to, the reference record of every hash, and how far the journal   *)
(* has been folded into both.  The operators here are the bodies of write  *)
(* transactions (internal/index/tx.go, internal/store/store.go); a         *)
(* transaction commits whole or not at all, so each is a function from an  *)
(* index value to an index value.                                          *)
(*                                                                         *)
(* A definition marked "Faulty" is not part of the model: it is what an    *)
(* ordinary mistake would turn the next operation into, kept to show that  *)
(* the properties notice it.                                               *)
(***************************************************************************)
EXTENDS Integers, Sequences, FiniteSets

CONSTANTS
  Keys,     \* object keys of a bucket
  Hashes,   \* content hashes
  None,     \* "no content": an unbound key, an unused field of a record
  Grace     \* store.gc.grace, in clock ticks

ASSUME NoneAssumption == None \notin Keys \cup Hashes
ASSUME KeysAssumption == IsFiniteSet(Keys)
ASSUME GraceAssumption == Grace \in Nat

\* The zero time.Time, which UnrefAt holds while a blob is referenced.
NoTime == -1

(***************************************************************************)
(* Journal records.  Time is stamped when the record is appended; the      *)
(* sequence number of a record is its position in the journal.             *)
(***************************************************************************)
Record ==
       [op : {"put"}, key : Keys, hash : Hashes, time : Nat]
  \cup [op : {"delete"}, key : Keys, hash : {None}, time : Nat]
  \cup [op : {"gc"}, key : {None}, hash : Hashes, time : Nat]

PutRecord(k, h, t) == [op |-> "put", key |-> k, hash |-> h, time |-> t]
DeleteRecord(k, t) == [op |-> "delete", key |-> k, hash |-> None, time |-> t]
\* Faulty: the collection's record carries the hash in its key.
GCRecordKeyed(h, t) == [op |-> "gc", key |-> h, hash |-> h, time |-> t]

GCRecord(h, t)     == [op |-> "gc", key |-> None, hash |-> h, time |-> t]

(***************************************************************************)
(* Reference records.  An absent record reads as the zero Ref, which is    *)
(* what Tx.Ref starts from when it finds none.                             *)
(***************************************************************************)
Ref == [live : BOOLEAN, count : Int, unref : Int]
NoRef == [live |-> FALSE, count |-> 0, unref |-> NoTime]

\* Faulty: the grace period is ignored.
CollectableAtOnce(r, now) == r.live /\ r.count <= 0 /\ r.unref # NoTime

Collectable(r, now) ==
  r.live /\ r.count <= 0 /\ r.unref # NoTime /\ now - r.unref >= Grace

\* Faulty: reaching zero is not stamped.
AdjustRefUnstamped(refs, h, delta, now) ==
  [refs EXCEPT ![h] = [live |-> TRUE, count |-> @.count + delta, unref |-> NoTime]]

\* Tx.Ref: move the count, stamp UnrefAt on reaching zero and clear it above.
AdjustRef(refs, h, delta, now) ==
  [refs EXCEPT ![h] =
     [live  |-> TRUE,
      count |-> @.count + delta,
      unref |-> IF @.count + delta > 0 THEN NoTime
                ELSE IF @.unref = NoTime THEN now ELSE @.unref]]

(***************************************************************************)
(* Index values and the transactions over them.                            *)
(***************************************************************************)
Index == [keys : [Keys -> Hashes \cup {None}],
          refs : [Hashes -> Ref],
          applied : Nat]

EmptyIndex == [keys |-> [k \in Keys |-> None],
               refs |-> [h \in Hashes |-> NoRef],
               applied |-> 0]

Bound(ix, h) == {k \in Keys : ix.keys[k] = h}

DropRef(ix, h) == [ix EXCEPT !.refs[h] = NoRef]

Release(ix, h, now) ==
  IF h = None THEN ix.refs ELSE AdjustRef(ix.refs, h, -1, now)

\* Faulty: only the release looks at the content the key already has.
BindRecounting(ix, k, h, now) ==
  [ix EXCEPT !.keys[k] = h,
             !.refs = AdjustRef(IF ix.keys[k] = h THEN ix.refs
                                ELSE Release(ix, ix.keys[k], now), h, 1, now)]

\* Rebinding a key to the content it already has moves no reference count.
Bind(ix, k, h, now) ==
  IF ix.keys[k] = h THEN ix
  ELSE [ix EXCEPT !.keys[k] = h,
                  !.refs = AdjustRef(Release(ix, ix.keys[k], now), h, 1, now)]

\* Faulty: the content the key had keeps its reference.
UnbindLeaking(ix, k, now) == [ix EXCEPT !.keys[k] = None]

Unbind(ix, k, now) ==
  [ix EXCEPT !.keys[k] = None, !.refs = Release(ix, ix.keys[k], now)]

\* SetMeta(appliedSeqKey): the position is part of the same transaction.
AppliedTo(ix, seq) == [ix EXCEPT !.applied = seq]

\* Faulty: a delete is not replayed.
ApplyForgettingDeletes(ix, rec, seq) ==
  AppliedTo(CASE rec.op = "put"    -> Bind(ix, rec.key, rec.hash, rec.time)
              [] rec.op = "delete" -> ix
              [] rec.op = "gc"     -> DropRef(ix, rec.hash),
            seq)

\* Store.apply: fold the record with sequence number seq into the index.
Apply(ix, rec, seq) ==
  AppliedTo(CASE rec.op = "put"    -> Bind(ix, rec.key, rec.hash, rec.time)
              [] rec.op = "delete" -> Unbind(ix, rec.key, rec.time)
              [] rec.op = "gc"     -> DropRef(ix, rec.hash),
            seq)

\* The index a replay of the whole journal onto an empty one produces.
Replayed(jrnl) ==
  LET fold[n \in 0..Len(jrnl)] ==
        IF n = 0 THEN EmptyIndex ELSE Apply(fold[n - 1], jrnl[n], n)
  IN  fold[Len(jrnl)]

(***************************************************************************)
(* What the index promises.                                                *)
(***************************************************************************)
CountExact(ix) == \A h \in Hashes : ix.refs[h].count = Cardinality(Bound(ix, h))

CountBounded(ix) == \A h \in Hashes : ix.refs[h].count <= Cardinality(Bound(ix, h))

=============================================================================
