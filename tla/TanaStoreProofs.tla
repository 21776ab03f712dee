--------------------------- MODULE TanaStoreProofs ---------------------------
(***************************************************************************)
(* Theorems about the object store, for every set of keys and contents,    *)
(* any number of clients, any bounds, grace period and environment.        *)
(***************************************************************************)
EXTENDS TanaStore, TanaInduction, FiniteSetTheorems, TLAPS

-----------------------------------------------------------------------------
(***************************************************************************)
(* What the index transactions preserve: their types, and the drift of a   *)
(* hash, by how much the keys bound to it outnumber its reference count.   *)
(***************************************************************************)
Drift(ix, h) == Cardinality(Bound(ix, h)) - ix.refs[h].count

-----------------------------------------------------------------------------
(***************************************************************************)
(* Types.                                                                  *)
(***************************************************************************)

\* An adjusted reference table is a reference table (Tx.Ref).
LEMMA AdjustRefType ==
  ASSUME NEW refs \in [Hashes -> Ref], NEW h \in Hashes, NEW d \in Int, NEW now \in Int
  PROVE  AdjustRef(refs, h, d, now) \in [Hashes -> Ref]
<1>1. /\ refs[h].count + d \in Int
      /\ refs[h].unref \in Int
  BY DEF Ref
<1>2. [live |-> TRUE, count |-> refs[h].count + d,
       unref |-> IF refs[h].count + d > 0 THEN NoTime
                 ELSE IF refs[h].unref = NoTime THEN now ELSE refs[h].unref] \in Ref
  BY <1>1 DEF Ref, NoTime
<1> QED
  BY <1>2 DEF AdjustRef

\* What an adjustment does to every count: it moves one of them (Tx.Ref).
LEMMA AdjustRefCount ==
  ASSUME NEW refs \in [Hashes -> Ref], NEW h \in Hashes, NEW d \in Int, NEW now \in Int,
         NEW g \in Hashes
  PROVE  AdjustRef(refs, h, d, now)[g].count =
           IF g = h THEN refs[g].count + d ELSE refs[g].count
  BY DEF AdjustRef

\* Releasing what a key was bound to keeps the table a table (bind, unbind).
LEMMA ReleaseType ==
  ASSUME NEW ix \in Index, NEW h \in Hashes \cup {None}, NEW now \in Int
  PROVE  Release(ix, h, now) \in [Hashes -> Ref]
<1>1. ix.refs \in [Hashes -> Ref]
  BY DEF Index
<1>2. CASE h = None
  BY <1>1, <1>2 DEF Release
<1>3. CASE h # None
  <2>1. h \in Hashes
    BY <1>3
  <2> QED
    BY <1>1, <1>3, <2>1, AdjustRefType DEF Release
<1> QED
  BY <1>2, <1>3

\* Dropping a reference record yields an index (Tx.DropRef).
LEMMA DropRefType ==
  ASSUME NEW ix \in Index, NEW h \in Hashes
  PROVE  /\ DropRef(ix, h) \in Index
         /\ DropRef(ix, h).keys = ix.keys
         /\ DropRef(ix, h).refs = [ix.refs EXCEPT ![h] = NoRef]
         /\ DropRef(ix, h).applied = ix.applied
<1>1. NoRef \in Ref
  BY DEF NoRef, Ref, NoTime
<1>2. [ix.refs EXCEPT ![h] = NoRef] \in [Hashes -> Ref]
  BY <1>1 DEF Index
<1> QED
  BY <1>2 DEF DropRef, Index

\* Binding a key yields an index in which only that key moved (bind).
LEMMA BindType ==
  ASSUME NEW ix \in Index, NEW k \in Keys, NEW h \in Hashes, NEW now \in Int
  PROVE  /\ Bind(ix, k, h, now) \in Index
         /\ Bind(ix, k, h, now).keys = [ix.keys EXCEPT ![k] = h]
         /\ Bind(ix, k, h, now).applied = ix.applied
<1>1. CASE ix.keys[k] = h
  <2>1. Bind(ix, k, h, now) = ix
    BY <1>1 DEF Bind
  <2>2. [ix.keys EXCEPT ![k] = h] = ix.keys
    BY <1>1 DEF Index
  <2> QED
    BY <2>1, <2>2
<1>2. CASE ix.keys[k] # h
  <2> DEFINE refs == AdjustRef(Release(ix, ix.keys[k], now), h, 1, now)
             keys == [ix.keys EXCEPT ![k] = h]
  <2>1. Bind(ix, k, h, now) = [ix EXCEPT !.keys = keys, !.refs = refs]
    BY <1>2 DEF Bind, Index
  <2>2. ix.keys[k] \in Hashes \cup {None}
    BY DEF Index
  <2>3. refs \in [Hashes -> Ref]
    <3>1. Release(ix, ix.keys[k], now) \in [Hashes -> Ref]
      BY <2>2, ReleaseType
    <3>2. 1 \in Int
      OBVIOUS
    <3> QED
      BY <3>1, <3>2, AdjustRefType
  <2>4. keys \in [Keys -> Hashes \cup {None}]
    BY DEF Index
  <2> HIDE DEF refs, keys
  <2>5. /\ [ix EXCEPT !.keys = keys, !.refs = refs] \in Index
        /\ [ix EXCEPT !.keys = keys, !.refs = refs].keys = keys
        /\ [ix EXCEPT !.keys = keys, !.refs = refs].applied = ix.applied
    BY <2>3, <2>4 DEF Index
  <2> QED
    BY <2>1, <2>5 DEF keys
<1> QED
  BY <1>1, <1>2

\* Unbinding a key yields an index in which only that key moved (unbind).
LEMMA UnbindType ==
  ASSUME NEW ix \in Index, NEW k \in Keys, NEW now \in Int
  PROVE  /\ Unbind(ix, k, now) \in Index
         /\ Unbind(ix, k, now).keys = [ix.keys EXCEPT ![k] = None]
         /\ Unbind(ix, k, now).refs = Release(ix, ix.keys[k], now)
         /\ Unbind(ix, k, now).applied = ix.applied
<1> DEFINE refs == Release(ix, ix.keys[k], now)
           keys == [ix.keys EXCEPT ![k] = None]
<1>1. Unbind(ix, k, now) = [ix EXCEPT !.keys = keys, !.refs = refs]
  BY DEF Unbind, Index
<1>2. ix.keys[k] \in Hashes \cup {None}
  BY DEF Index
<1>3. refs \in [Hashes -> Ref]
  BY <1>2, ReleaseType
<1>4. keys \in [Keys -> Hashes \cup {None}]
  BY DEF Index
<1> HIDE DEF refs, keys
<1>5. /\ [ix EXCEPT !.keys = keys, !.refs = refs] \in Index
      /\ [ix EXCEPT !.keys = keys, !.refs = refs].keys = keys
      /\ [ix EXCEPT !.keys = keys, !.refs = refs].refs = refs
      /\ [ix EXCEPT !.keys = keys, !.refs = refs].applied = ix.applied
  BY <1>3, <1>4 DEF Index
<1> QED
  BY <1>1, <1>5 DEF refs, keys

\* Moving the applied position touches nothing else (SetMeta).
LEMMA AppliedToType ==
  ASSUME NEW ix \in Index, NEW seq \in Nat
  PROVE  /\ AppliedTo(ix, seq) \in Index
         /\ AppliedTo(ix, seq).keys = ix.keys
         /\ AppliedTo(ix, seq).refs = ix.refs
BY DEF AppliedTo, Index

\* The index a new store starts from, and the reset of a rebuild, are indexes.
LEMMA EmptyIndexType == EmptyIndex \in Index
BY DEF EmptyIndex, Index, Ref, NoRef, NoTime

\* Folding a journal record into an index yields an index (Store.apply).
LEMMA ApplyType ==
  ASSUME NEW ix \in Index, NEW rec \in Record, NEW seq \in Nat
  PROVE  Apply(ix, rec, seq) \in Index
<1>1. CASE rec.op = "put"
  <2>1. rec.key \in Keys /\ rec.hash \in Hashes /\ rec.time \in Int
    BY <1>1 DEF Record
  <2>2. Apply(ix, rec, seq) = AppliedTo(Bind(ix, rec.key, rec.hash, rec.time), seq)
    BY <1>1 DEF Apply
  <2>3. Bind(ix, rec.key, rec.hash, rec.time) \in Index
    BY <2>1, BindType
  <2> QED
    BY <2>2, <2>3, AppliedToType
<1>2. CASE rec.op = "delete"
  <2>1. rec.key \in Keys /\ rec.time \in Int
    BY <1>2 DEF Record
  <2>2. Apply(ix, rec, seq) = AppliedTo(Unbind(ix, rec.key, rec.time), seq)
    BY <1>2 DEF Apply
  <2>3. Unbind(ix, rec.key, rec.time) \in Index
    BY <2>1, UnbindType
  <2> QED
    BY <2>2, <2>3, AppliedToType
<1>3. CASE rec.op = "gc"
  <2>1. rec.hash \in Hashes
    BY <1>3 DEF Record
  <2>2. Apply(ix, rec, seq) = AppliedTo(DropRef(ix, rec.hash), seq)
    BY <1>3 DEF Apply
  <2>3. DropRef(ix, rec.hash) \in Index
    BY <2>1, DropRefType
  <2> QED
    BY <2>2, <2>3, AppliedToType
<1> QED
  BY <1>1, <1>2, <1>3 DEF Record

\* Of the keys, a record moves the one it names (apply).
LEMMA ApplyKeys ==
  ASSUME NEW ix \in Index, NEW rec \in Record, NEW seq \in Nat
  PROVE  Apply(ix, rec, seq).keys =
           IF rec.op = "gc" THEN ix.keys ELSE [ix.keys EXCEPT ![rec.key] = rec.hash]
<1>1. CASE rec.op = "put"
  <2>1. rec.key \in Keys /\ rec.hash \in Hashes
    BY <1>1 DEF Record
  <2>2. Apply(ix, rec, seq) = AppliedTo(Bind(ix, rec.key, rec.hash, rec.time), seq)
    BY <1>1 DEF Apply
  <2> QED
    BY <1>1, <2>1, <2>2 DEF Bind, AppliedTo, Index
<1>2. CASE rec.op = "delete"
  <2>1. rec.key \in Keys /\ rec.hash = None
    BY <1>2 DEF Record
  <2>2. Apply(ix, rec, seq) = AppliedTo(Unbind(ix, rec.key, rec.time), seq)
    BY <1>2 DEF Apply
  <2> QED
    BY <1>2, <2>1, <2>2 DEF Unbind, AppliedTo, Index
<1>3. CASE rec.op = "gc"
  BY <1>3 DEF Apply, DropRef, AppliedTo, Index
<1> QED
  BY <1>1, <1>2, <1>3 DEF Record

\* The applied position is the number of the record (apply).
LEMMA ApplyPosition ==
  ASSUME NEW ix \in Index, NEW rec \in Record, NEW seq \in Nat
  PROVE  Apply(ix, rec, seq).applied = seq
BY DEF Apply, AppliedTo, Bind, Unbind, DropRef, Index, Record

-----------------------------------------------------------------------------
(***************************************************************************)
(* Counting.                                                               *)
(***************************************************************************)

\* The keys bound to a hash form a finite set (a bucket has finitely many).
LEMMA BoundFinite ==
  ASSUME NEW ix, NEW h
  PROVE  IsFiniteSet(Bound(ix, h)) /\ Cardinality(Bound(ix, h)) \in Nat
<1>1. Bound(ix, h) \subseteq Keys
  BY DEF Bound
<1>2. IsFiniteSet(Bound(ix, h))
  BY <1>1, KeysAssumption, FS_Subset
<1> QED
  BY <1>2, FS_CardinalityType

\* How the bound keys of a hash change when one key moves from old to new.
LEMMA BoundMoves ==
  ASSUME NEW ix \in Index, NEW jx \in Index, NEW k \in Keys,
         NEW new \in Hashes \cup {None}, new # ix.keys[k],
         jx.keys = [ix.keys EXCEPT ![k] = new], NEW g \in Hashes
  PROVE  Cardinality(Bound(jx, g)) =
           IF g = new THEN Cardinality(Bound(ix, g)) + 1
           ELSE IF g = ix.keys[k] THEN Cardinality(Bound(ix, g)) - 1
           ELSE Cardinality(Bound(ix, g))
<1>1. IsFiniteSet(Bound(ix, g))
  BY BoundFinite
<1>2. CASE g = new
  <2>1. /\ Bound(jx, g) = Bound(ix, g) \cup {k}
        /\ k \notin Bound(ix, g)
    BY <1>2 DEF Bound, Index
  <2> QED
    BY <1>1, <1>2, <2>1, FS_AddElement
<1>3. CASE g # new /\ g = ix.keys[k]
  <2>1. /\ Bound(jx, g) = Bound(ix, g) \ {k}
        /\ k \in Bound(ix, g)
    BY <1>3 DEF Bound, Index
  <2> QED
    BY <1>1, <1>3, <2>1, FS_RemoveElement
<1>4. CASE g # new /\ g # ix.keys[k]
  <2>1. Bound(jx, g) = Bound(ix, g)
    BY <1>4 DEF Bound, Index
  <2> QED
    BY <1>4, <2>1
<1> QED
  BY <1>2, <1>3, <1>4

\* Releasing a hash lowers its count by one and no other (bind, unbind).
LEMMA ReleaseCount ==
  ASSUME NEW ix \in Index, NEW h \in Hashes \cup {None}, NEW now \in Int,
         NEW g \in Hashes
  PROVE  Release(ix, h, now)[g].count =
           IF g = h THEN ix.refs[g].count - 1 ELSE ix.refs[g].count
<1>1. ix.refs \in [Hashes -> Ref]
  BY DEF Index
<1>2. CASE h = None
  BY <1>2, NoneAssumption DEF Release
<1>3. CASE h # None
  <2>1. h \in Hashes /\ -1 \in Int
    BY <1>3
  <2>2. Release(ix, h, now) = AdjustRef(ix.refs, h, -1, now)
    BY <1>3 DEF Release
  <2>3. Release(ix, h, now)[g].count =
          IF g = h THEN ix.refs[g].count + (-1) ELSE ix.refs[g].count
    BY <1>1, <2>1, <2>2, AdjustRefCount
  <2>4. ix.refs[g].count \in Int
    BY <1>1 DEF Ref
  <2> QED
    BY <2>3, <2>4
<1> QED
  BY <1>2, <1>3

\* What a binding does to every count: nothing when the key has that content
\* already, and otherwise one reference moves (bind).
LEMMA BindCount ==
  ASSUME NEW ix \in Index, NEW k \in Keys, NEW h \in Hashes, NEW now \in Int,
         NEW g \in Hashes
  PROVE  Bind(ix, k, h, now).refs[g].count =
           IF ix.keys[k] = h THEN ix.refs[g].count
           ELSE IF g = h THEN ix.refs[g].count + 1
           ELSE IF g = ix.keys[k] THEN ix.refs[g].count - 1
           ELSE ix.refs[g].count
<1> DEFINE jx == Bind(ix, k, h, now)
           released == Release(ix, ix.keys[k], now)
<1>1. CASE ix.keys[k] = h
  BY <1>1 DEF Bind
<1>2. CASE ix.keys[k] # h
  <2>1. ix.keys[k] \in Hashes \cup {None} /\ 1 \in Int
    BY DEF Index
  <2>2. released \in [Hashes -> Ref]
    BY <2>1, ReleaseType
  <2>3. jx = [ix EXCEPT !.keys[k] = h, !.refs = AdjustRef(released, h, 1, now)]
    BY <1>2 DEF Bind
  <2>4. released[g].count = IF g = ix.keys[k] THEN ix.refs[g].count - 1
                            ELSE ix.refs[g].count
    BY <2>1, ReleaseCount
  <2> HIDE DEF released
  <2>5. jx.refs = AdjustRef(released, h, 1, now)
    BY <2>3 DEF Index
  <2> HIDE DEF jx
  <2>6. jx.refs[g].count = IF g = h THEN released[g].count + 1 ELSE released[g].count
    BY <2>1, <2>2, <2>5, AdjustRefCount
  <2>7. jx.refs[g].count = IF g = h THEN ix.refs[g].count + 1
                           ELSE IF g = ix.keys[k] THEN ix.refs[g].count - 1
                           ELSE ix.refs[g].count
    BY <1>2, <2>4, <2>6
  <2> QED
    BY <1>2, <2>7 DEF jx
<1> QED
  BY <1>1, <1>2

\* Binding a key never changes a drift: the count moves with the keys, and
\* rebinding a key to its own content moves neither (bind).
LEMMA BindDrift ==
  ASSUME NEW ix \in Index, NEW k \in Keys, NEW h \in Hashes, NEW now \in Int,
         NEW g \in Hashes
  PROVE  Drift(Bind(ix, k, h, now), g) = Drift(ix, g)
<1> DEFINE jx == Bind(ix, k, h, now)
<1>1. CASE ix.keys[k] = h
  BY <1>1 DEF Bind
<1>2. CASE ix.keys[k] # h
  <2>1. jx.refs[g].count = IF g = h THEN ix.refs[g].count + 1
                           ELSE IF g = ix.keys[k] THEN ix.refs[g].count - 1
                           ELSE ix.refs[g].count
    BY <1>2, BindCount
  <2>2. jx \in Index /\ jx.keys = [ix.keys EXCEPT ![k] = h]
    BY BindType
  <2> HIDE DEF jx
  <2>3. Cardinality(Bound(jx, g)) =
          IF g = h THEN Cardinality(Bound(ix, g)) + 1
          ELSE IF g = ix.keys[k] THEN Cardinality(Bound(ix, g)) - 1
          ELSE Cardinality(Bound(ix, g))
    BY <1>2, <2>2, BoundMoves
  <2>4. /\ Cardinality(Bound(ix, g)) \in Nat
        /\ ix.refs[g].count \in Int
    BY BoundFinite DEF Index, Ref
  <2>5. Drift(jx, g) = Drift(ix, g)
    BY <2>1, <2>3, <2>4 DEF Drift
  <2> QED
    BY <2>5 DEF jx
<1> QED
  BY <1>1, <1>2

\* Unbinding a key never changes a drift either (unbind).
LEMMA UnbindDrift ==
  ASSUME NEW ix \in Index, NEW k \in Keys, NEW now \in Int, NEW g \in Hashes
  PROVE  Drift(Unbind(ix, k, now), g) = Drift(ix, g)
<1> DEFINE jx == Unbind(ix, k, now)
<1>1. /\ jx \in Index
      /\ jx.keys = [ix.keys EXCEPT ![k] = None]
      /\ jx.refs = Release(ix, ix.keys[k], now)
  BY UnbindType
<1>2. ix.keys[k] \in Hashes \cup {None}
  BY DEF Index
<1>3. jx.refs[g].count = IF g = ix.keys[k] THEN ix.refs[g].count - 1
                         ELSE ix.refs[g].count
  BY <1>1, <1>2, ReleaseCount
<1>4. /\ Cardinality(Bound(ix, g)) \in Nat
      /\ ix.refs[g].count \in Int
  BY BoundFinite DEF Index, Ref
<1> HIDE DEF jx
<1>5. CASE ix.keys[k] = None
  <2>1. Bound(jx, g) = Bound(ix, g)
    BY <1>1, <1>5 DEF Bound, Index
  <2> QED
    BY <1>3, <1>5, <2>1, NoneAssumption DEF Drift, jx
<1>6. CASE ix.keys[k] # None
  <2>1. Cardinality(Bound(jx, g)) =
          IF g = ix.keys[k] THEN Cardinality(Bound(ix, g)) - 1
          ELSE Cardinality(Bound(ix, g))
    BY <1>1, <1>6, BoundMoves, NoneAssumption
  <2>2. Drift(jx, g) = Drift(ix, g)
    BY <1>3, <1>4, <2>1 DEF Drift
  <2> QED
    BY <2>2 DEF jx
<1> QED
  BY <1>5, <1>6

-----------------------------------------------------------------------------
(***************************************************************************)
(* So bounded and exact counts survive every transaction.                  *)
(***************************************************************************)

\* The two promises about counts are promises about drifts.
LEMMA CountsAreDrifts ==
  ASSUME NEW ix \in Index
  PROVE  /\ CountBounded(ix) <=> \A g \in Hashes : Drift(ix, g) >= 0
         /\ CountExact(ix) <=> \A g \in Hashes : Drift(ix, g) = 0
<1>1. \A g \in Hashes : /\ Cardinality(Bound(ix, g)) \in Nat
                         /\ ix.refs[g].count \in Int
  BY BoundFinite DEF Index, Ref
<1> QED
  BY <1>1 DEF CountBounded, CountExact, Drift

\* Index values with the same drifts keep the same promises.
LEMMA SameDrifts ==
  ASSUME NEW ix \in Index, NEW jx \in Index,
         \A g \in Hashes : Drift(jx, g) = Drift(ix, g)
  PROVE  /\ CountBounded(ix) => CountBounded(jx)
         /\ CountExact(ix) => CountExact(jx)
BY CountsAreDrifts

\* A put commits without breaking a count (PutWith).
LEMMA BindCounts ==
  ASSUME NEW ix \in Index, NEW k \in Keys, NEW h \in Hashes, NEW now \in Int,
         NEW seq \in Nat
  PROVE  LET jx == AppliedTo(Bind(ix, k, h, now), seq)
         IN  /\ CountBounded(ix) => CountBounded(jx)
             /\ CountExact(ix) => CountExact(jx)
<1> DEFINE bx == Bind(ix, k, h, now)
           jx == AppliedTo(bx, seq)
<1>1. bx \in Index
  BY BindType
<1>2. \A g \in Hashes : Drift(bx, g) = Drift(ix, g)
  BY BindDrift
<1> HIDE DEF bx
<1>3. jx \in Index /\ \A g \in Hashes : Drift(jx, g) = Drift(bx, g)
  BY <1>1, AppliedToType DEF Drift, Bound
<1> HIDE DEF jx
<1>4. \A g \in Hashes : Drift(jx, g) = Drift(ix, g)
  BY <1>2, <1>3
<1>5. /\ CountBounded(ix) => CountBounded(jx)
      /\ CountExact(ix) => CountExact(jx)
  BY <1>3, <1>4, SameDrifts
<1> QED
  BY <1>5 DEF jx, bx

\* A delete commits without breaking a count (Delete).
LEMMA UnbindCounts ==
  ASSUME NEW ix \in Index, NEW k \in Keys, NEW now \in Int, NEW seq \in Nat
  PROVE  LET jx == AppliedTo(Unbind(ix, k, now), seq)
         IN  /\ CountBounded(ix) => CountBounded(jx)
             /\ CountExact(ix) => CountExact(jx)
<1> DEFINE ux == Unbind(ix, k, now)
           jx == AppliedTo(ux, seq)
<1>1. ux \in Index
  BY UnbindType
<1>2. \A g \in Hashes : Drift(ux, g) = Drift(ix, g)
  BY UnbindDrift
<1> HIDE DEF ux
<1>3. jx \in Index /\ \A g \in Hashes : Drift(jx, g) = Drift(ux, g)
  BY <1>1, AppliedToType DEF Drift, Bound
<1> HIDE DEF jx
<1>4. \A g \in Hashes : Drift(jx, g) = Drift(ix, g)
  BY <1>2, <1>3
<1>5. /\ CountBounded(ix) => CountBounded(jx)
      /\ CountExact(ix) => CountExact(jx)
  BY <1>3, <1>4, SameDrifts
<1> QED
  BY <1>5 DEF jx, ux

\* Dropping a record can only lose references, never invent them (DropRef).
LEMMA DropRefCounts ==
  ASSUME NEW ix \in Index, NEW h \in Hashes, CountBounded(ix)
  PROVE  CountBounded(DropRef(ix, h))
<1> DEFINE jx == DropRef(ix, h)
<1>1. /\ jx.keys = ix.keys
      /\ jx.refs = [ix.refs EXCEPT ![h] = NoRef]
      /\ ix.refs \in [Hashes -> Ref]
  BY DropRefType DEF Index
<1> HIDE DEF jx
<1>2. ASSUME NEW g \in Hashes PROVE jx.refs[g].count <= Cardinality(Bound(jx, g))
  <2>1. Bound(jx, g) = Bound(ix, g)
    BY <1>1 DEF Bound
  <2>2. Cardinality(Bound(ix, g)) \in Nat
    BY BoundFinite
  <2>3. jx.refs[g].count = IF g = h THEN 0 ELSE ix.refs[g].count
    BY <1>1 DEF NoRef
  <2>4. ix.refs[g].count <= Cardinality(Bound(ix, g))
    BY DEF CountBounded
  <2> QED
    BY <2>1, <2>2, <2>3, <2>4
<1>3. CountBounded(jx)
  BY <1>2 DEF CountBounded
<1> QED
  BY <1>3 DEF jx

\* Replaying a record keeps counts bounded, and keeps them exact unless it is
\* the record of a collection (Store.apply).
LEMMA ApplyCounts ==
  ASSUME NEW ix \in Index, NEW rec \in Record, NEW seq \in Nat
  PROVE  /\ CountBounded(ix) => CountBounded(Apply(ix, rec, seq))
         /\ CountExact(ix) /\ rec.op # "gc" => CountExact(Apply(ix, rec, seq))
<1>1. CASE rec.op = "put"
  <2>1. rec.key \in Keys /\ rec.hash \in Hashes /\ rec.time \in Int
    BY <1>1 DEF Record
  <2>2. Apply(ix, rec, seq) = AppliedTo(Bind(ix, rec.key, rec.hash, rec.time), seq)
    BY <1>1 DEF Apply
  <2> QED
    BY <2>1, <2>2, BindCounts
<1>2. CASE rec.op = "delete"
  <2>1. rec.key \in Keys /\ rec.time \in Int
    BY <1>2 DEF Record
  <2>2. Apply(ix, rec, seq) = AppliedTo(Unbind(ix, rec.key, rec.time), seq)
    BY <1>2 DEF Apply
  <2> QED
    BY <2>1, <2>2, UnbindCounts
<1>3. CASE rec.op = "gc"
  <2> DEFINE dx == DropRef(ix, rec.hash)
             jx == AppliedTo(dx, seq)
  <2>1. rec.hash \in Hashes
    BY <1>3 DEF Record
  <2>2. Apply(ix, rec, seq) = jx
    BY <1>3 DEF Apply
  <2>3. dx \in Index /\ (CountBounded(ix) => CountBounded(dx))
    BY <2>1, DropRefType, DropRefCounts
  <2> HIDE DEF dx
  <2>4. jx \in Index /\ \A g \in Hashes : Drift(jx, g) = Drift(dx, g)
    BY <2>3, AppliedToType DEF Drift, Bound
  <2> HIDE DEF jx
  <2>5. CountBounded(ix) => CountBounded(jx)
    BY <2>3, <2>4, SameDrifts
  <2> QED
    BY <1>3, <2>2, <2>5
<1> QED
  BY <1>1, <1>2, <1>3 DEF Record

\* A table without references is bounded by any binding, and exact for none.
LEMMA NoRefCounts ==
  ASSUME NEW ix \in Index, ix.refs = EmptyIndex.refs
  PROVE  /\ CountBounded(ix)
         /\ (\A k \in Keys : ix.keys[k] = None) => CountExact(ix)
<1>1. \A g \in Hashes : ix.refs[g].count = 0
  BY DEF EmptyIndex, NoRef
<1>2. \A g \in Hashes : Cardinality(Bound(ix, g)) \in Nat
  BY BoundFinite
<1>3. ASSUME \A k \in Keys : ix.keys[k] = None
      PROVE  \A g \in Hashes : Cardinality(Bound(ix, g)) = 0
  <2>1. \A g \in Hashes : Bound(ix, g) = {}
    BY <1>3, NoneAssumption DEF Bound
  <2> QED
    BY <2>1, FS_EmptySet
<1> QED
  BY <1>1, <1>2, <1>3 DEF CountBounded, CountExact

-----------------------------------------------------------------------------
(***************************************************************************)
(* An index is backed by a set of blobs when it names and counts no other. *)
(***************************************************************************)
Backed(ix, blobs) ==
  /\ \A k \in Keys : ix.keys[k] \in blobs \cup {None}
  /\ \A g \in Hashes : ix.refs[g].count > 0 => g \in blobs

\* The empty index needs no blobs (New).
LEMMA EmptyIndexBacked == \A blobs : Backed(EmptyIndex, blobs)
BY DEF Backed, EmptyIndex, NoRef

\* A put of a stored blob leaves the index backed (PutWith).
LEMMA BindBacked ==
  ASSUME NEW ix \in Index, NEW k \in Keys, NEW h \in Hashes, NEW now \in Int,
         NEW seq \in Nat, NEW blobs, Backed(ix, blobs), h \in blobs
  PROVE  Backed(AppliedTo(Bind(ix, k, h, now), seq), blobs)
<1> DEFINE bx == Bind(ix, k, h, now)
<1>1. /\ bx \in Index
      /\ bx.keys = [ix.keys EXCEPT ![k] = h]
  BY BindType
<1>2. ASSUME NEW g \in Hashes
      PROVE  bx.refs[g].count = IF ix.keys[k] = h THEN ix.refs[g].count
                                ELSE IF g = h THEN ix.refs[g].count + 1
                                ELSE IF g = ix.keys[k] THEN ix.refs[g].count - 1
                                ELSE ix.refs[g].count
  BY BindCount
<1> HIDE DEF bx
<1>3. \A g \in Hashes : ix.refs[g].count \in Int
  BY DEF Index, Ref
<1>4. Backed(bx, blobs)
  BY <1>1, <1>2, <1>3 DEF Backed, Index
<1> QED
  BY <1>1, <1>4, AppliedToType DEF Backed, bx

\* A delete leaves the index backed (Delete).
LEMMA UnbindBacked ==
  ASSUME NEW ix \in Index, NEW k \in Keys, NEW now \in Int,
         NEW seq \in Nat, NEW blobs, Backed(ix, blobs)
  PROVE  Backed(AppliedTo(Unbind(ix, k, now), seq), blobs)
<1> DEFINE ux == Unbind(ix, k, now)
<1>1. /\ ux \in Index
      /\ ux.keys = [ix.keys EXCEPT ![k] = None]
      /\ ux.refs = Release(ix, ix.keys[k], now)
  BY UnbindType
<1> HIDE DEF ux
<1>2. ix.keys[k] \in Hashes \cup {None}
  BY DEF Index
<1> DEFINE old == ix.keys[k]
<1>3. ASSUME NEW g \in Hashes
      PROVE  ux.refs[g].count = IF g = old THEN ix.refs[g].count - 1
                                ELSE ix.refs[g].count
  <2> HIDE DEF old
  <2>1. old \in Hashes \cup {None} /\ ux.refs = Release(ix, old, now)
    BY <1>1, <1>2 DEF old
  <2> QED
    BY <2>1, ReleaseCount
<1>4. \A g \in Hashes : ix.refs[g].count \in Int
  BY DEF Index, Ref
<1>5. Backed(ux, blobs)
  BY <1>1, <1>3, <1>4 DEF Backed, Index
<1> QED
  BY <1>1, <1>5, AppliedToType DEF Backed, ux

\* Replaying a put of a stored blob, or a delete, leaves the index backed.
LEMMA ApplyBacked ==
  ASSUME NEW ix \in Index, NEW rec \in Record, NEW seq \in Nat, NEW blobs,
         Backed(ix, blobs), rec.op # "gc", rec.op = "put" => rec.hash \in blobs
  PROVE  Backed(Apply(ix, rec, seq), blobs)
<1>1. CASE rec.op = "put"
  <2>1. rec.key \in Keys /\ rec.hash \in Hashes /\ rec.time \in Int
    BY <1>1 DEF Record
  <2>2. Apply(ix, rec, seq) = AppliedTo(Bind(ix, rec.key, rec.hash, rec.time), seq)
    BY <1>1 DEF Apply
  <2> QED
    BY <1>1, <2>1, <2>2, BindBacked
<1>2. CASE rec.op = "delete"
  <2>1. rec.key \in Keys /\ rec.time \in Int
    BY <1>2 DEF Record
  <2>2. Apply(ix, rec, seq) = AppliedTo(Unbind(ix, rec.key, rec.time), seq)
    BY <1>2 DEF Apply
  <2> QED
    BY <2>1, <2>2, UnbindBacked
<1> QED
  BY <1>1, <1>2 DEF Record

-----------------------------------------------------------------------------
(***************************************************************************)
(* Replays.  The fold of a journal is a recursive function; that it exists *)
(* and what it yields is proved by induction over the number of records.   *)
(***************************************************************************)
\* f[m] is the index after the first m records, for m up to n.
Folds(f, jrnl, n) ==
  f = [m \in 0..n |-> IF m = 0 THEN EmptyIndex ELSE Apply(f[m - 1], jrnl[m], m)]

\* A fold starts from the empty index and applies record after record (Recover).
LEMMA FoldStep ==
  ASSUME NEW f, NEW jrnl, NEW n \in Nat, Folds(f, jrnl, n)
  PROVE  /\ f[0] = EmptyIndex
         /\ \A m \in 0..n : m # 0 => f[m] = Apply(f[m - 1], jrnl[m], m)
BY DEF Folds

\* Every journal can be folded up to any number.
LEMMA FoldExists ==
  ASSUME NEW jrnl, NEW n \in Nat
  PROVE  \E f : Folds(f, jrnl, n)
<1> DEFINE S == {k \in Nat : \E f : Folds(f, jrnl, k)}
<1>1. 0 \in S
  <2>1. Folds([m \in 0..0 |-> EmptyIndex], jrnl, 0)
    BY DEF Folds
  <2> QED
    BY <2>1
<1>2. ASSUME NEW k \in Nat, k \in S  PROVE k + 1 \in S
  <2>1. PICK f : Folds(f, jrnl, k)
    BY <1>2
  <2> DEFINE g == [m \in 0..(k + 1) |-> IF m = k + 1 THEN Apply(f[k], jrnl[k + 1], k + 1)
                                        ELSE f[m]]
             r == [m \in 0..(k + 1) |->
                     IF m = 0 THEN EmptyIndex ELSE Apply(g[m - 1], jrnl[m], m)]
  <2>2. ASSUME NEW m \in 0..(k + 1)  PROVE g[m] = r[m]
    <3>1. CASE m = k + 1
      BY <3>1
    <3>2. CASE m # k + 1
      <4>1. m \in 0..k /\ (m # 0 => m - 1 \in 0..(k + 1) /\ m - 1 # k + 1)
        BY <3>2
      <4>2. g[m] = f[m] /\ (m # 0 => g[m - 1] = f[m - 1])
        BY <3>2, <4>1
      <4> QED
        BY <2>1, <4>1, <4>2, FoldStep
    <3> QED
      BY <3>1, <3>2
  <2>3. g = r
    BY <2>2
  <2>4. Folds(g, jrnl, k + 1)
    BY <2>3 DEF Folds
  <2> QED
    BY <2>4
<1> HIDE DEF S
<1>3. n \in S
  BY <1>1, <1>2, Induction DEF Inductive
<1> QED
  BY <1>3 DEF S

\* Two folds agree as far as their journals do.
LEMMA FoldUnique ==
  ASSUME NEW jrnl, NEW other, NEW n \in Nat, NEW k \in Nat, NEW f, NEW g, Folds(f, jrnl, n), Folds(g, other, k),
         NEW l \in 0..n, l <= k, \A m \in 1..l : jrnl[m] = other[m]
  PROVE  f[l] = g[l]
<1> DEFINE S == {m \in Nat : m <= l => f[m] = g[m]}
<1>1. 0 \in S
  BY FoldStep
<1>2. ASSUME NEW m \in Nat, m \in S  PROVE m + 1 \in S
  <2>1. CASE m + 1 <= l
    <3>1. m + 1 \in 0..n /\ m + 1 \in 0..k /\ m + 1 # 0 /\ (m + 1) - 1 = m /\ m + 1 \in 1..l
      BY <2>1
    <3>2. f[m] = g[m]
      BY <1>2, <2>1
    <3> QED
      BY <3>1, <3>2, FoldStep
  <2>2. CASE ~(m + 1 <= l)
    BY <2>2
  <2> QED
    BY <2>1, <2>2
<1> HIDE DEF S
<1>3. l \in S
  BY <1>1, <1>2, Induction DEF Inductive
<1> QED
  BY <1>3 DEF S

\* What Replayed takes from the journal is the end of a fold.
LEMMA ReplayedFold ==
  ASSUME NEW jrnl, Len(jrnl) \in Nat
  PROVE  \E f : Folds(f, jrnl, Len(jrnl)) /\ Replayed(jrnl) = f[Len(jrnl)]
<1> DEFINE F == CHOOSE f : Folds(f, jrnl, Len(jrnl))
<1>1. Folds(F, jrnl, Len(jrnl))
  BY FoldExists
<1>2. Replayed(jrnl) = F[Len(jrnl)]
  BY Zenon DEF Replayed, Folds
<1> QED
  BY <1>1, <1>2

\* The index after the first n records of a journal.
ReplayedTo(jrnl, n) == Replayed(SubSeq(jrnl, 1, n))

\* The records up to a number are a journal.
LEMMA FrontOf ==
  ASSUME NEW jrnl \in Seq(Record), NEW n \in 0..Len(jrnl)
  PROVE  /\ SubSeq(jrnl, 1, n) \in Seq(Record)
         /\ Len(SubSeq(jrnl, 1, n)) = n
         /\ \A i \in 1..n : SubSeq(jrnl, 1, n)[i] = jrnl[i]
         /\ SubSeq(jrnl, 1, Len(jrnl)) = jrnl
OBVIOUS

\* A replay up to a number is that member of the fold of the whole journal.
LEMMA ReplayedToFold ==
  ASSUME NEW jrnl \in Seq(Record), NEW n \in 0..Len(jrnl),
         NEW f, Folds(f, jrnl, Len(jrnl))
  PROVE  ReplayedTo(jrnl, n) = f[n]
<1> DEFINE front == SubSeq(jrnl, 1, n)
<1>1. Len(front) = n /\ \A i \in 1..n : front[i] = jrnl[i]
  BY FrontOf
<1>3. n \in Nat /\ Len(jrnl) \in Nat /\ n <= Len(jrnl) /\ n \in 0..n
  OBVIOUS
<1> HIDE DEF front
<1>2. PICK g : Folds(g, front, n) /\ Replayed(front) = g[n]
  BY <1>1, <1>3, ReplayedFold
<1>4. g[n] = f[n]
  BY <1>1, <1>2, <1>3, FoldUnique
<1> QED
  BY <1>2, <1>4 DEF ReplayedTo, front

\* A replay depends on nothing but the records it folds: a prefix of another
\* journal gives the same index (Pull).
LEMMA ReplayedAgree ==
  ASSUME NEW jrnl \in Seq(Record), NEW other \in Seq(Record),
         NEW n \in 0..Len(jrnl), n <= Len(other), \A i \in 1..n : jrnl[i] = other[i]
  PROVE  ReplayedTo(jrnl, n) = ReplayedTo(other, n)
<1>4. Len(jrnl) \in Nat /\ Len(other) \in Nat /\ n \in 0..Len(other)
  OBVIOUS
<1>1. PICK f : Folds(f, jrnl, Len(jrnl))
  BY <1>4, FoldExists
<1>2. PICK g : Folds(g, other, Len(other))
  BY <1>4, FoldExists
<1>3. f[n] = g[n]
  BY <1>1, <1>2, <1>4, FoldUnique
<1> QED
  BY <1>1, <1>2, <1>3, <1>4, ReplayedToFold

\* A replay is one application after the other, and ends with the whole journal.
LEMMA ReplayedSteps ==
  ASSUME NEW jrnl \in Seq(Record)
  PROVE  /\ ReplayedTo(jrnl, 0) = EmptyIndex
         /\ \A n \in 0..(Len(jrnl) - 1) :
              ReplayedTo(jrnl, n + 1) = Apply(ReplayedTo(jrnl, n), jrnl[n + 1], n + 1)
         /\ ReplayedTo(jrnl, Len(jrnl)) = Replayed(jrnl)
<1>0. Len(jrnl) \in Nat
  OBVIOUS
<1>1. PICK f : Folds(f, jrnl, Len(jrnl))
  BY <1>0, FoldExists
<1>2. \A n \in 0..Len(jrnl) : ReplayedTo(jrnl, n) = f[n]
  BY <1>1, ReplayedToFold
<1>3. ReplayedTo(jrnl, 0) = EmptyIndex
  BY <1>1, <1>2, FoldStep
<1>4. ASSUME NEW n \in 0..(Len(jrnl) - 1)
      PROVE  ReplayedTo(jrnl, n + 1) = Apply(ReplayedTo(jrnl, n), jrnl[n + 1], n + 1)
  <2>1. n \in 0..Len(jrnl) /\ n + 1 \in 0..Len(jrnl) /\ n + 1 # 0 /\ (n + 1) - 1 = n
    OBVIOUS
  <2>2. f[n + 1] = Apply(f[(n + 1) - 1], jrnl[n + 1], n + 1)
    BY <1>1, <2>1, FoldStep
  <2> QED
    BY <1>2, <2>1, <2>2
<1>5. ReplayedTo(jrnl, Len(jrnl)) = Replayed(jrnl)
  <2>1. SubSeq(jrnl, 1, Len(jrnl)) = jrnl
    OBVIOUS
  <2> QED
    BY <2>1 DEF ReplayedTo
<1> QED
  BY <1>3, <1>4, <1>5

\* What a replay yields is an index at its own position (Recover).
LEMMA ReplayedType ==
  ASSUME NEW jrnl \in Seq(Record), NEW n \in 0..Len(jrnl)
  PROVE  ReplayedTo(jrnl, n) \in Index /\ ReplayedTo(jrnl, n).applied = n
<1> DEFINE S == {m \in Nat : m <= Len(jrnl) => /\ ReplayedTo(jrnl, m) \in Index
                                               /\ ReplayedTo(jrnl, m).applied = m}
<1>1. 0 \in S
  BY ReplayedSteps, EmptyIndexType DEF EmptyIndex
<1>2. ASSUME NEW m \in Nat, m \in S  PROVE m + 1 \in S
  <2>1. CASE m + 1 <= Len(jrnl)
    <3>1. m \in 0..(Len(jrnl) - 1) /\ m + 1 \in Nat /\ jrnl[m + 1] \in Record
      BY <2>1
    <3>2. ReplayedTo(jrnl, m) \in Index
      BY <1>2, <2>1
    <3>3. ReplayedTo(jrnl, m + 1) = Apply(ReplayedTo(jrnl, m), jrnl[m + 1], m + 1)
      BY <3>1, ReplayedSteps
    <3>4. Apply(ReplayedTo(jrnl, m), jrnl[m + 1], m + 1) \in Index
      BY <3>1, <3>2, ApplyType
    <3>5. Apply(ReplayedTo(jrnl, m), jrnl[m + 1], m + 1).applied = m + 1
      BY <3>1, <3>2, ApplyPosition
    <3> QED
      BY <3>3, <3>4, <3>5
  <2>2. CASE ~(m + 1 <= Len(jrnl))
    BY <2>2
  <2> QED
    BY <2>1, <2>2
<1> HIDE DEF S
<1>3. n \in S
  BY <1>1, <1>2, Induction DEF Inductive
<1> QED
  BY <1>3 DEF S

\* Of the keys, one record of a replay changes what it says (apply).
LEMMA ReplayedKeys ==
  ASSUME NEW jrnl \in Seq(Record), NEW n \in 1..Len(jrnl)
  PROVE  ReplayedTo(jrnl, n).keys =
           IF jrnl[n].op = "gc" THEN ReplayedTo(jrnl, n - 1).keys
           ELSE [ReplayedTo(jrnl, n - 1).keys EXCEPT ![jrnl[n].key] = jrnl[n].hash]
<1>1. n - 1 \in 0..(Len(jrnl) - 1) /\ n - 1 \in 0..Len(jrnl) /\ (n - 1) + 1 = n
      /\ n \in Nat /\ jrnl[n] \in Record
  OBVIOUS
<1>2. ReplayedTo(jrnl, n) = Apply(ReplayedTo(jrnl, n - 1), jrnl[n], n)
  BY <1>1, ReplayedSteps
<1>3. ReplayedTo(jrnl, n - 1) \in Index
  BY <1>1, ReplayedType
<1> QED
  BY <1>1, <1>2, <1>3, ApplyKeys

\* Records of collections change no key.
LEMMA ReplayedCollections ==
  ASSUME NEW jrnl \in Seq(Record), NEW a \in 0..Len(jrnl), NEW b \in 0..Len(jrnl), a <= b,
         \A i \in (a + 1)..b : jrnl[i].op = "gc"
  PROVE  ReplayedTo(jrnl, b).keys = ReplayedTo(jrnl, a).keys
<1> DEFINE S == {m \in Nat : a <= m /\ m <= b => ReplayedTo(jrnl, m).keys = ReplayedTo(jrnl, a).keys}
<1>1. 0 \in S
  <2>1. a <= 0 => a = 0
    OBVIOUS
  <2> QED
    BY <2>1
<1>2. ASSUME NEW m \in Nat, m \in S  PROVE m + 1 \in S
  <2>1. CASE a <= m /\ m + 1 <= b
    <3>1. m + 1 \in 1..Len(jrnl) /\ m + 1 \in (a + 1)..b /\ (m + 1) - 1 = m /\ m <= b
      BY <2>1
    <3>2. jrnl[m + 1].op = "gc"
      BY <3>1
    <3>3. ASSUME NEW n \in 1..Len(jrnl), jrnl[n].op = "gc"
          PROVE  ReplayedTo(jrnl, n).keys = ReplayedTo(jrnl, n - 1).keys
      BY <3>3, ReplayedKeys
    <3>4. ReplayedTo(jrnl, m + 1).keys = ReplayedTo(jrnl, (m + 1) - 1).keys
      BY <3>1, <3>2, <3>3
    <3>5. ReplayedTo(jrnl, m + 1).keys = ReplayedTo(jrnl, m).keys
      BY <3>1, <3>4
    <3> QED
      BY <1>2, <2>1, <3>1, <3>5
  <2>2. CASE m + 1 = a
    BY <2>2
  <2>3. CASE ~(a <= m + 1 /\ m + 1 <= b)
    BY <2>3
  <2> QED
    BY <2>1, <2>2, <2>3
<1> HIDE DEF S
<1>3. b \in S
  BY <1>1, <1>2, Induction DEF Inductive
<1> QED
  BY <1>3 DEF S

\* One mutation among records of collections is what a replay of them all does.
LEMMA ReplayedMutation ==
  ASSUME NEW jrnl \in Seq(Record), NEW a \in 0..Len(jrnl), NEW i \in 1..Len(jrnl), a < i,
         jrnl[i].op # "gc",
         \A j \in (a + 1)..Len(jrnl) : j # i => jrnl[j].op = "gc"
  PROVE  ReplayedTo(jrnl, Len(jrnl)).keys
           = [ReplayedTo(jrnl, a).keys EXCEPT ![jrnl[i].key] = jrnl[i].hash]
<1>0. /\ Len(jrnl) \in Nat /\ i - 1 \in 0..Len(jrnl) /\ i \in 0..Len(jrnl) /\ a <= i - 1
      /\ i <= Len(jrnl) /\ Len(jrnl) \in 0..Len(jrnl)
  OBVIOUS
<1>1. \A j \in (a + 1)..(i - 1) : jrnl[j].op = "gc"
  BY <1>0
<1>2. \A j \in (i + 1)..Len(jrnl) : jrnl[j].op = "gc"
  BY <1>0
<1>3. ReplayedTo(jrnl, i - 1).keys = ReplayedTo(jrnl, a).keys
  BY <1>0, <1>1, ReplayedCollections
<1>4. ReplayedTo(jrnl, Len(jrnl)).keys = ReplayedTo(jrnl, i).keys
  BY <1>0, <1>2, ReplayedCollections
<1>5. \A n \in 1..Len(jrnl) : jrnl[n].op # "gc" =>
        ReplayedTo(jrnl, n).keys
          = [ReplayedTo(jrnl, n - 1).keys EXCEPT ![jrnl[n].key] = jrnl[n].hash]
  BY ReplayedKeys
<1>6. ReplayedTo(jrnl, i).keys
        = [ReplayedTo(jrnl, i - 1).keys EXCEPT ![jrnl[i].key] = jrnl[i].hash]
  BY <1>5
<1> QED
  BY <1>3, <1>4, <1>6

-----------------------------------------------------------------------------
(***************************************************************************)
(* Type correctness.                                                       *)
(***************************************************************************)

\* What a request writes into its handler, and the idle handler it leaves.
LEMMA HandlerType ==
  ASSUME TypeOK, NEW c \in Clients
  PROVE  /\ Answer(c) => handler' \in [Clients -> HandlerState]
         /\ \A k \in Keys, h \in Hashes, seq \in Nat :
              \A pc \in {"stored", "putLogged", "reading"} :
                Becomes(c, pc, k, h, seq) => handler' \in [Clients -> HandlerState]
         /\ \A k \in Keys, seq \in Nat : \A pc \in {"found", "deleteLogged"} :
                Becomes(c, pc, k, None, seq) => handler' \in [Clients -> HandlerState]
<1> DEFINE since == IF handler[c].pc = "idle" THEN clock ELSE handler[c].since
<1>1. since \in Nat
  BY DEF TypeOK, HandlerState, Idle
<1>2. Idle \in HandlerState
  BY DEF HandlerState
<1>3. \A k \in Keys, h \in Hashes, seq \in Nat :
        \A pc \in {"stored", "putLogged", "reading"} :
          [pc |-> pc, key |-> k, hash |-> h, seq |-> seq, since |-> since] \in HandlerState
  BY <1>1 DEF HandlerState
<1>4. \A k \in Keys, seq \in Nat : \A pc \in {"found", "deleteLogged"} :
        [pc |-> pc, key |-> k, hash |-> None, seq |-> seq, since |-> since] \in HandlerState
  BY <1>1 DEF HandlerState
<1>5. ASSUME NEW k, NEW h, NEW seq, NEW pc, Becomes(c, pc, k, h, seq),
             [pc |-> pc, key |-> k, hash |-> h, seq |-> seq, since |-> since] \in HandlerState
      PROVE  handler' \in [Clients -> HandlerState]
  <2>1. handler' = [handler EXCEPT ![c] = [pc |-> pc, key |-> k, hash |-> h,
                                           seq |-> seq, since |-> since]]
    BY <1>5 DEF Becomes, TypeOK
  <2> HIDE DEF since
  <2> QED
    BY <1>5, <2>1 DEF TypeOK
<1>6. Answer(c) => handler' \in [Clients -> HandlerState]
  BY <1>2 DEF Answer, TypeOK
<1> HIDE DEF since
<1>7. \A k \in Keys, h \in Hashes, seq \in Nat :
        \A pc \in {"stored", "putLogged", "reading"} :
          Becomes(c, pc, k, h, seq) => handler' \in [Clients -> HandlerState]
  BY <1>3, <1>5
<1>8. \A k \in Keys, seq \in Nat : \A pc \in {"found", "deleteLogged"} :
        Becomes(c, pc, k, None, seq) => handler' \in [Clients -> HandlerState]
  BY <1>4, <1>5
<1> QED
  BY <1>6, <1>7, <1>8

\* What the program counter of a handler says about its fields.
LEMMA HandlerFields ==
  ASSUME TypeOK, NEW c \in Clients
  PROVE  /\ handler[c].pc \in {"stored", "putLogged", "reading"} =>
              handler[c].key \in Keys /\ handler[c].hash \in Hashes /\ handler[c].seq \in Nat
         /\ handler[c].pc \in {"found", "deleteLogged"} =>
              handler[c].key \in Keys /\ handler[c].seq \in Nat
BY DEF TypeOK, HandlerState, Idle

\* A request keeps the types (PutWith, Delete, Get).
LEMMA RequestType ==
  ASSUME TypeOK, NEW c \in Clients, Request(c) \/ Continue(c)
  PROVE  TypeOK'
<1> USE DEF disk, replay
<1>0. /\ Len(journal) + 1 \in Nat /\ 0 \in Nat
      /\ \A r \in Record : Append(journal, r) \in Seq(Record)
      /\ clock \in Int
  BY DEF TypeOK
<1>1. ASSUME NEW k \in Keys, NEW h \in Hashes, StoreBlob(c, k, h)  PROVE TypeOK'
  BY <1>0, <1>1, HandlerType DEF StoreBlob, TypeOK
<1>2. ASSUME NEW k \in Keys, FindKey(c, k)  PROVE TypeOK'
  BY <1>0, <1>2, HandlerType DEF FindKey, TypeOK
<1>3. ASSUME NEW k \in Keys, ResolveKey(c, k)  PROVE TypeOK'
  <2>1. index.keys[k] \in Hashes
    BY <1>3 DEF ResolveKey, TypeOK, Index
  <2> QED
    BY <1>0, <1>3, <2>1, HandlerType DEF ResolveKey, TypeOK
<1>4. CASE Refuse(c) \/ FailCommit(c) \/ OpenBlob(c)
  BY <1>4, HandlerType DEF Refuse, FailCommit, OpenBlob, TypeOK
<1>5. CASE JournalPut(c)
  <2>1. PutRecord(handler[c].key, handler[c].hash, clock) \in Record
    BY <1>5, HandlerFields DEF JournalPut, PutRecord, Record, TypeOK
  <2> QED
    BY <1>0, <1>5, <2>1, HandlerFields, HandlerType DEF JournalPut, TypeOK
<1>6. CASE JournalDelete(c)
  <2>1. DeleteRecord(handler[c].key, clock) \in Record
    BY <1>6, HandlerFields DEF JournalDelete, DeleteRecord, Record, TypeOK
  <2> QED
    BY <1>0, <1>6, <2>1, HandlerFields, HandlerType DEF JournalDelete, TypeOK
<1>7. CASE CommitPut(c)
  <2>1. Bind(index, handler[c].key, handler[c].hash, clock) \in Index
    BY <1>0, <1>7, HandlerFields, BindType DEF CommitPut, TypeOK
  <2>2. index' \in Index
    BY <1>7, <2>1, HandlerFields, AppliedToType DEF CommitPut
  <2> QED
    BY <1>7, <2>2, HandlerType DEF CommitPut, TypeOK
<1>8. CASE CommitDelete(c)
  <2>1. Unbind(index, handler[c].key, clock) \in Index
    BY <1>0, <1>8, HandlerFields, UnbindType DEF CommitDelete, TypeOK
  <2>2. index' \in Index
    BY <1>8, <2>1, HandlerFields, AppliedToType DEF CommitDelete
  <2> QED
    BY <1>8, <2>2, HandlerType DEF CommitDelete, TypeOK
<1> QED
  BY <1>1, <1>2, <1>3, <1>4, <1>5, <1>6, <1>7, <1>8 DEF Request, Continue

\* A step of the collector keeps the types (collectExpired, collectOrphans).
LEMMA CollectType ==
  ASSUME TypeOK, Collect \/ FailPass
  PROVE  TypeOK'
<1> USE DEF disk, replay
<1>0. Sleeping \in CollectorState
  BY DEF Sleeping, CollectorState
<1>1. CASE StartPass
  BY <1>1 DEF StartPass, TypeOK, CollectorState
<1>2. ASSUME NEW h \in Hashes, DropExpired(h)  PROVE TypeOK'
  <2>1. index' \in Index
    BY <1>2, DropRefType DEF DropExpired, TypeOK
  <2>2. gc' \in CollectorState
    BY <1>2 DEF DropExpired, TypeOK, CollectorState
  <2> QED
    BY <1>2, <2>1, <2>2 DEF DropExpired, TypeOK
<1>3. ASSUME NEW h \in Hashes, SkipReferenced(h)  PROVE TypeOK'
  BY <1>3 DEF SkipReferenced, TypeOK, CollectorState
<1>4. CASE RemoveExpired
  BY <1>4 DEF RemoveExpired, TypeOK, CollectorState
<1>5. CASE JournalCollected
  <2>1. GCRecord(gc.cur, clock) \in Record
    BY <1>5 DEF JournalCollected, TypeOK, CollectorState, GCRecord, Record
  <2>2. journal' \in Seq(Record)
    BY <1>5, <2>1 DEF JournalCollected, TypeOK
  <2>3. gc' \in CollectorState
    BY <1>5 DEF JournalCollected, TypeOK, CollectorState
  <2> QED
    BY <1>5, <2>2, <2>3 DEF JournalCollected, TypeOK
<1>6. CASE FindOrphans
  <2>1. gc' \in CollectorState
    BY <1>6 DEF FindOrphans, TypeOK, CollectorState
  <2> QED
    BY <1>6, <2>1 DEF FindOrphans, TypeOK
<1>7. ASSUME NEW h \in Hashes, RemoveOrphan(h)  PROVE TypeOK'
  BY <1>7 DEF RemoveOrphan, TypeOK, CollectorState
<1>8. CASE EndPass \/ FailPass
  BY <1>0, <1>8 DEF EndPass, FailPass, TypeOK
<1> QED
  BY <1>1, <1>2, <1>3, <1>4, <1>5, <1>6, <1>7, <1>8 DEF Collect

\* Stopping, starting, replaying and rebuilding keep the types (Recover,
\* rebuildIndex), and so does the clock.
LEMMA ProcessType ==
  ASSUME TypeOK, Recovery \/ Rebuild \/ Crash \/ KillRebuild \/ Tick
  PROVE  TypeOK'
<1> USE DEF disk, replay
<1>1. CASE Start
  <2>1. index.applied + 1 \in Nat \ {0}
    BY DEF TypeOK, Index
  <2> QED
    BY <1>1, <2>1 DEF Start, TypeOK, Modes
<1>2. CASE ReplayRecord
  <2>1. journal[cursor] \in Record
    BY <1>2 DEF ReplayRecord, TypeOK
  <2>2. work' \in Index
    BY <1>2, <2>1, ApplyType DEF ReplayRecord, TypeOK
  <2>3. cursor + 1 \in Nat \ {0}
    BY DEF TypeOK
  <2> QED
    BY <1>2, <2>2, <2>3 DEF ReplayRecord, TypeOK
<1>3. CASE CommitReplay
  BY <1>3, EmptyIndexType DEF CommitReplay, TypeOK, Modes
<1>4. CASE DropNamespaces
  <2>1. index' \in Index
    BY <1>4, EmptyIndexType DEF DropNamespaces, TypeOK, Index
  <2> QED
    BY <1>4, <2>1 DEF DropNamespaces, TypeOK, Modes
<1>5. CASE ResetIndex
  <2>1. index' \in Index
    BY <1>5, EmptyIndexType DEF ResetIndex, TypeOK, Index
  <2> QED
    BY <1>5, <2>1 DEF ResetIndex, TypeOK, Modes
<1>6. CASE Crash \/ KillRebuild
  <2>1. Halt
    BY <1>6 DEF Crash, KillRebuild
  <2>2. Idle \in HandlerState /\ Sleeping \in CollectorState
    BY DEF HandlerState, Sleeping, CollectorState
  <2> QED
    BY <2>1, <2>2, EmptyIndexType DEF Halt, TypeOK, Modes
<1>7. CASE Tick
  BY <1>7 DEF Tick, TypeOK
<1> QED
  BY <1>1, <1>2, <1>3, <1>4, <1>5, <1>6, <1>7 DEF Recovery, Rebuild

\* A store that was never started is well typed (New).
LEMMA StoreTypeOKInit == Init => TypeOK
<1> SUFFICES ASSUME Init PROVE TypeOK
  OBVIOUS
<1>1. /\ Idle \in HandlerState
      /\ Sleeping \in CollectorState
      /\ journal \in Seq(Record)
  BY DEF Init, HandlerState, Sleeping, CollectorState
<1> QED
  BY <1>1, EmptyIndexType DEF Init, TypeOK, Modes

\* Every state of the store is well typed.
THEOREM StoreTypeOK == Spec => []TypeOK
<1>1. TypeOK /\ [Next]_vars => TypeOK'
  <2>1. CASE UNCHANGED vars
    BY <2>1 DEF vars, disk, replay, TypeOK
  <2> QED
    BY <2>1, RequestType, CollectType, ProcessType DEF Next
<1> QED
  BY <1>1, StoreTypeOKInit, PTL DEF Spec

-----------------------------------------------------------------------------
(***************************************************************************)
(* Reference counts are never inflated.  The working copy of a replay is   *)
(* part of the invariant because its commit replaces the index with it;    *)
(* between the two transactions that begin a rebuild the namespace is      *)
(* empty and the counts are stale, which is why a rebuild must not be      *)
(* killed there.                                                           *)
(***************************************************************************)
BoundedInv ==
  /\ TypeOK
  /\ CountBounded(work)
  /\ mode # "dropped" => CountBounded(index)

\* The empty index counts nothing (New, rebuildIndex).
LEMMA EmptyIndexCounts == CountBounded(EmptyIndex) /\ CountExact(EmptyIndex)
<1>1. \A k \in Keys : EmptyIndex.keys[k] = None
  BY DEF EmptyIndex
<1> QED
  BY <1>1, EmptyIndexType, NoRefCounts

\* The reset of a rebuild leaves an index without references (rebuildIndex).
LEMMA ResetCounts ==
  ASSUME TypeOK, ResetIndex
  PROVE  /\ CountBounded(index')
         /\ (\A k \in Keys : index.keys[k] = None) => CountExact(index')
<1>1. /\ index' \in Index
      /\ index'.refs = EmptyIndex.refs
      /\ index'.keys = index.keys
  BY EmptyIndexType DEF ResetIndex, TypeOK, Index
<1> QED
  BY <1>1, NoRefCounts

\* No step inflates a count while no rebuild is killed half way.
LEMMA BoundedStep ==
  ASSUME "kill" \notin Environment, BoundedInv, Next
  PROVE  CountBounded(work)' /\ (mode' # "dropped" => CountBounded(index)')
<1> USE DEF disk, replay
<1>0. /\ TypeOK
      /\ clock \in Int
  BY DEF BoundedInv, TypeOK
<1>1. ASSUME NEW c \in Clients, CommitPut(c)
      PROVE  CountBounded(work)' /\ (mode' # "dropped" => CountBounded(index)')
  BY <1>0, <1>1, HandlerFields, BindCounts DEF CommitPut, BoundedInv, TypeOK
<1>2. ASSUME NEW c \in Clients, CommitDelete(c)
      PROVE  CountBounded(work)' /\ (mode' # "dropped" => CountBounded(index)')
  BY <1>0, <1>2, HandlerFields, UnbindCounts DEF CommitDelete, BoundedInv, TypeOK
<1>3. ASSUME NEW h \in Hashes, DropExpired(h)
      PROVE  CountBounded(work)' /\ (mode' # "dropped" => CountBounded(index)')
  BY <1>3, DropRefCounts DEF DropExpired, BoundedInv, TypeOK
<1>4. CASE ReplayRecord
  <2>1. journal[cursor] \in Record /\ cursor \in Nat
    BY <1>0, <1>4 DEF ReplayRecord, TypeOK
  <2> QED
    BY <1>4, <2>1, ApplyCounts DEF ReplayRecord, BoundedInv, TypeOK
<1>5. CASE CommitReplay
  BY <1>5, EmptyIndexCounts DEF CommitReplay, BoundedInv
<1>6. CASE ResetIndex
  BY <1>0, <1>6, ResetCounts DEF ResetIndex
<1>7. CASE Start
  BY <1>7 DEF Start, BoundedInv
<1>8. CASE DropNamespaces
  BY <1>8 DEF DropNamespaces, BoundedInv
<1>9. CASE Crash
  BY <1>9, EmptyIndexCounts DEF Crash, Halt, BoundedInv
<1>10. CASE KillRebuild
  BY <1>10 DEF KillRebuild
<1>11. ASSUME NEW c \in Clients,
              \/ \E k \in Keys, h \in Hashes : StoreBlob(c, k, h)
              \/ \E k \in Keys : FindKey(c, k) \/ ResolveKey(c, k)
              \/ Refuse(c) \/ JournalPut(c) \/ JournalDelete(c)
              \/ FailCommit(c) \/ OpenBlob(c)
       PROVE  CountBounded(work)' /\ (mode' # "dropped" => CountBounded(index)')
  <2>1. UNCHANGED <<index, work, mode>>
    BY <1>11 DEF StoreBlob, FindKey, ResolveKey, Refuse, JournalPut, JournalDelete,
                 FailCommit, OpenBlob
  <2> QED
    BY <2>1 DEF BoundedInv
<1>12. ASSUME \/ StartPass \/ RemoveExpired \/ JournalCollected \/ FindOrphans
              \/ EndPass \/ FailPass \/ Tick
              \/ \E h \in Hashes : SkipReferenced(h) \/ RemoveOrphan(h)
       PROVE  CountBounded(work)' /\ (mode' # "dropped" => CountBounded(index)')
  <2>1. UNCHANGED <<index, work, mode>>
    BY <1>12 DEF StartPass, RemoveExpired, JournalCollected, FindOrphans, EndPass,
                 FailPass, Tick, SkipReferenced, RemoveOrphan
  <2> QED
    BY <2>1 DEF BoundedInv
<1> QED
  BY <1>1, <1>2, <1>3, <1>4, <1>5, <1>6, <1>7, <1>8, <1>9, <1>10, <1>11, <1>12
     DEF Next, Request, Continue, Collect, Recovery, Rebuild

\* However requests, collections, failures, crashes and overlapping replays
\* interleave, and whatever clients upload again, no blob is counted more
\* often than keys name it: none becomes uncollectable forever (bind).
THEOREM StoreNeverInflated ==
  ASSUME "kill" \notin Environment
  PROVE  Spec => []NeverInflated
<1>1. Init => BoundedInv
  <2> SUFFICES ASSUME Init PROVE CountBounded(work) /\ CountBounded(index)
    BY StoreTypeOKInit DEF BoundedInv
  <2> QED
    BY EmptyIndexCounts DEF Init
<1>2. BoundedInv /\ TypeOK' /\ [Next]_vars => BoundedInv'
  <2>1. CASE UNCHANGED vars
    BY <2>1 DEF vars, disk, replay, BoundedInv
  <2> QED
    BY <2>1, BoundedStep DEF BoundedInv
<1>3. BoundedInv => NeverInflated
  BY DEF BoundedInv, NeverInflated
<1> QED
  BY <1>1, <1>2, <1>3, StoreTypeOK, PTL DEF Spec

-----------------------------------------------------------------------------
(***************************************************************************)
(* Without a collector (gc.interval <= 0) the counts are exact: every      *)
(* disagreement between counts and keys starts with a collection or with   *)
(* its journal record.                                                     *)
(***************************************************************************)
NoCollection == gc.pc = "asleep" /\ \A i \in DOMAIN journal : journal[i].op # "gc"

\* Requests live and die with the serving process.
NoRequest == mode # "serving" => \A c \in Clients : handler[c].pc = "idle"

ExactCounts ==
  /\ CountExact(work)
  /\ mode # "dropped" => CountExact(index)
  /\ mode = "dropped" => \A k \in Keys : index.keys[k] = None

ExactInv == TypeOK /\ NoRequest /\ NoCollection /\ ExactCounts

\* A handler starts in a serving process and a halt leaves none behind.
LEMMA NoRequestStep ==
  ASSUME TypeOK, NoRequest, Next
  PROVE  NoRequest'
<1> USE DEF disk, replay
<1>1. ASSUME NEW c \in Clients, Request(c)  PROVE NoRequest'
  BY <1>1 DEF Request, StoreBlob, FindKey, ResolveKey, NoRequest
<1>2. ASSUME NEW c \in Clients, Continue(c)  PROVE NoRequest'
  BY <1>2 DEF Continue, Refuse, JournalPut, CommitPut, JournalDelete, CommitDelete,
              FailCommit, OpenBlob, NoRequest
<1>3. CASE Collect \/ FailPass \/ Tick
  <2>1. UNCHANGED <<mode, handler>>
    BY <1>3 DEF Collect, FailPass, Tick, StartPass, RemoveExpired, JournalCollected,
                FindOrphans, EndPass, DropExpired, SkipReferenced, RemoveOrphan
  <2> QED
    BY <2>1 DEF NoRequest
<1>4. CASE Recovery \/ Rebuild
  BY <1>4 DEF Recovery, Start, ReplayRecord, CommitReplay, Rebuild, DropNamespaces,
              ResetIndex, NoRequest
<1>5. CASE Crash \/ KillRebuild
  BY <1>5 DEF Crash, KillRebuild, Halt, Idle, NoRequest
<1> QED
  BY <1>1, <1>2, <1>3, <1>4, <1>5 DEF Next

\* Nothing wakes the collector when its interval is not positive (StartGC).
LEMMA NoCollectionStep ==
  ASSUME Interval = 0, TypeOK, NoCollection, Next
  PROVE  NoCollection'
<1> USE DEF disk, replay
<1>1. ASSUME NEW c \in Clients, JournalPut(c) \/ JournalDelete(c)  PROVE NoCollection'
  <2> DEFINE rec == IF JournalPut(c)
                    THEN PutRecord(handler[c].key, handler[c].hash, clock)
                    ELSE DeleteRecord(handler[c].key, clock)
  <2>1. journal' = Append(journal, rec) /\ gc' = gc
    BY <1>1 DEF JournalPut, JournalDelete
  <2>2. rec.op # "gc"
    BY DEF PutRecord, DeleteRecord
  <2> HIDE DEF rec
  <2> QED
    BY <2>1, <2>2 DEF NoCollection, TypeOK
<1>2. CASE Collect \/ FailPass
  BY <1>2 DEF Collect, FailPass, NoCollection, StartPass, RemoveExpired,
              JournalCollected, FindOrphans, EndPass, DropExpired, SkipReferenced,
              RemoveOrphan
<1>3. CASE Crash \/ KillRebuild
  BY <1>3 DEF Crash, KillRebuild, Halt, Sleeping, NoCollection
<1>4. ASSUME \/ Recovery \/ Rebuild \/ Tick
             \/ \E c \in Clients :
                  \/ Request(c)
                  \/ Refuse(c) \/ CommitPut(c) \/ CommitDelete(c) \/ FailCommit(c)
                  \/ OpenBlob(c)
      PROVE  NoCollection'
  <2>1. UNCHANGED <<journal, gc>>
    BY <1>4 DEF Recovery, Start, ReplayRecord, CommitReplay, Rebuild, DropNamespaces,
                ResetIndex, Tick, Request, StoreBlob, FindKey, ResolveKey, Refuse,
                CommitPut, CommitDelete, FailCommit, OpenBlob
  <2> QED
    BY <2>1 DEF NoCollection
<1> QED
  BY <1>1, <1>2, <1>3, <1>4 DEF Next, Continue

\* Every transaction keeps exact counts exact when none is a collection.
LEMMA ExactStep ==
  ASSUME "kill" \notin Environment, ExactInv, Next
  PROVE  ExactCounts'
<1> USE DEF disk, replay
<1>0. /\ TypeOK /\ NoRequest /\ NoCollection /\ ExactCounts
      /\ clock \in Int
  BY DEF ExactInv, TypeOK
<1>1. ASSUME NEW c \in Clients, CommitPut(c)  PROVE ExactCounts'
  <2>1. mode # "dropped"
    BY <1>0, <1>1 DEF CommitPut, NoRequest
  <2> QED
    BY <1>0, <1>1, <2>1, HandlerFields, BindCounts DEF CommitPut, ExactCounts, TypeOK
<1>2. ASSUME NEW c \in Clients, CommitDelete(c)  PROVE ExactCounts'
  <2>1. mode # "dropped"
    BY <1>0, <1>2 DEF CommitDelete, NoRequest
  <2> QED
    BY <1>0, <1>2, <2>1, HandlerFields, UnbindCounts DEF CommitDelete, ExactCounts, TypeOK
<1>3. CASE ReplayRecord
  <2>1. /\ journal[cursor] \in Record /\ cursor \in Nat
        /\ journal[cursor].op # "gc"
    BY <1>0, <1>3 DEF ReplayRecord, TypeOK, NoCollection
  <2> QED
    BY <1>0, <1>3, <2>1, ApplyCounts DEF ReplayRecord, ExactCounts, TypeOK
<1>4. CASE CommitReplay
  BY <1>0, <1>4, EmptyIndexCounts DEF CommitReplay, ExactCounts
<1>5. CASE ResetIndex
  BY <1>0, <1>5, ResetCounts DEF ResetIndex, ExactCounts
<1>6. CASE Start
  BY <1>0, <1>6 DEF Start, ExactCounts
<1>7. CASE DropNamespaces
  BY <1>0, <1>7 DEF DropNamespaces, ExactCounts, EmptyIndex, TypeOK, Index
<1>8. CASE Crash
  BY <1>0, <1>8, EmptyIndexCounts DEF Crash, Halt, ExactCounts
<1>9. CASE KillRebuild
  BY <1>9 DEF KillRebuild
<1>10. ASSUME NEW c \in Clients,
              \/ Request(c) \/ Refuse(c) \/ JournalPut(c) \/ JournalDelete(c)
              \/ FailCommit(c) \/ OpenBlob(c)
       PROVE  ExactCounts'
  <2>1. UNCHANGED <<index, work, mode>>
    BY <1>10 DEF Request, StoreBlob, FindKey, ResolveKey, Refuse, JournalPut,
                 JournalDelete, FailCommit, OpenBlob
  <2> QED
    BY <1>0, <2>1 DEF ExactCounts
<1>11. CASE Collect \/ FailPass \/ Tick
  <2>1. UNCHANGED <<index, work, mode>>
    BY <1>0, <1>11 DEF NoCollection, Collect, FailPass, Tick, StartPass, RemoveExpired,
         JournalCollected, FindOrphans, EndPass, DropExpired, SkipReferenced, RemoveOrphan
  <2> QED
    BY <1>0, <2>1 DEF ExactCounts
<1> QED
  BY <1>1, <1>2, <1>3, <1>4, <1>5, <1>6, <1>7, <1>8, <1>9, <1>10, <1>11
     DEF Next, Continue, Recovery, Rebuild

\* A store that never collects counts every blob exactly, through concurrent
\* requests on one key, failed commits, crashes, replays and rebuilds (apply:
\* "replaying an overlapping range is harmless" is true of puts and deletes).
THEOREM StoreRefsExact ==
  ASSUME Interval = 0, "kill" \notin Environment
  PROVE  Spec => []RefsExact
<1>1. Init => ExactInv
  <2> SUFFICES ASSUME Init PROVE NoRequest /\ NoCollection /\ ExactCounts
    BY StoreTypeOKInit DEF ExactInv
  <2> QED
    BY EmptyIndexCounts DEF Init, Idle, Sleeping, NoRequest, NoCollection, ExactCounts
<1>2. ExactInv /\ TypeOK' /\ [Next]_vars => ExactInv'
  <2>1. CASE UNCHANGED vars
    BY <2>1 DEF vars, disk, replay, ExactInv, NoRequest, NoCollection, ExactCounts
  <2> QED
    BY <2>1, NoRequestStep, NoCollectionStep, ExactStep DEF ExactInv
<1>3. ExactInv => RefsExact
  BY DEF ExactInv, ExactCounts, RefsExact
<1> QED
  BY <1>1, <1>2, <1>3, StoreTypeOK, PTL DEF Spec

-----------------------------------------------------------------------------
(***************************************************************************)
(* Without a collector nothing a request, a record or the index names is   *)
(* ever missing: the blob is on disk before the record, the record before  *)
(* the index, and no file goes away.                                       *)
(***************************************************************************)
HandlersBacked ==
  \A c \in Clients : handler[c].pc \in {"stored", "putLogged", "reading"}
                       => handler[c].hash \in stored

JournalBacked ==
  \A i \in DOMAIN journal : journal[i].op = "put" => journal[i].hash \in stored

BackedInv ==
  /\ TypeOK /\ NoCollection
  /\ HandlersBacked /\ JournalBacked
  /\ Backed(index, stored) /\ Backed(work, stored)

\* More blobs back as much (blob.Put never removes one).
LEMMA MoreBlobs ==
  ASSUME NEW ix, NEW some, NEW more, some \subseteq more, Backed(ix, some)
  PROVE  Backed(ix, more)
BY DEF Backed

\* A request names only content it stored or found bound (PutWith, Get).
LEMMA RequestBacked ==
  ASSUME BackedInv, NEW c \in Clients, Request(c) \/ Continue(c)
  PROVE  /\ HandlersBacked' /\ JournalBacked'
         /\ Backed(index, stored)' /\ Backed(work, stored)'
<1> USE DEF disk, replay
<1>0. /\ TypeOK
      /\ \A d \in Clients : handler[d].pc \in {"stored", "putLogged", "reading"}
                              => handler[d].hash \in stored
      /\ \A i \in DOMAIN journal : journal[i].op = "put" => journal[i].hash \in stored
      /\ Backed(index, stored) /\ Backed(work, stored)
      /\ handler \in [Clients -> HandlerState]
      /\ clock \in Int
  BY DEF BackedInv, HandlersBacked, JournalBacked, TypeOK
<1>1. ASSUME NEW k \in Keys, NEW h \in Hashes, StoreBlob(c, k, h)
      PROVE  /\ HandlersBacked' /\ JournalBacked'
             /\ Backed(index, stored)' /\ Backed(work, stored)'
  <2>1. stored \subseteq stored' /\ h \in stored'
    BY <1>1 DEF StoreBlob
  <2>2. HandlersBacked'
    BY <1>0, <1>1, <2>1 DEF StoreBlob, Becomes, HandlersBacked
  <2>3. JournalBacked'
    BY <1>0, <1>1, <2>1 DEF StoreBlob, JournalBacked
  <2> QED
    BY <1>0, <1>1, <2>1, <2>2, <2>3, MoreBlobs DEF StoreBlob
<1>2. ASSUME NEW k \in Keys, FindKey(c, k) \/ ResolveKey(c, k)
      PROVE  /\ HandlersBacked' /\ JournalBacked'
             /\ Backed(index, stored)' /\ Backed(work, stored)'
  <2>1. UNCHANGED <<journal, index, stored, work>>
    BY <1>2 DEF FindKey, ResolveKey
  <2>2. index.keys[k] \in stored
    BY <1>0, <1>2 DEF Backed, FindKey, ResolveKey
  <2>3. HandlersBacked'
    BY <1>0, <1>2, <2>1, <2>2 DEF FindKey, ResolveKey, Becomes, HandlersBacked
  <2> QED
    BY <1>0, <2>1, <2>3 DEF JournalBacked
<1>3. CASE Refuse(c) \/ FailCommit(c) \/ OpenBlob(c)
  <2>1. UNCHANGED <<journal, index, stored, work>> /\ Answer(c)
    BY <1>3 DEF Refuse, FailCommit, OpenBlob
  <2>2. HandlersBacked'
    BY <1>0, <2>1 DEF Answer, Idle, HandlersBacked
  <2> QED
    BY <1>0, <2>1, <2>2 DEF JournalBacked
<1>4. CASE JournalPut(c)
  <2>1. UNCHANGED <<index, stored, work>>
    BY <1>4 DEF JournalPut
  <2>2. HandlersBacked'
    BY <1>0, <1>4 DEF JournalPut, Becomes, HandlersBacked
  <2>3. JournalBacked'
    BY <1>0, <1>4 DEF JournalPut, PutRecord, JournalBacked, TypeOK
  <2> QED
    BY <1>0, <2>1, <2>2, <2>3
<1>5. CASE JournalDelete(c)
  <2>1. UNCHANGED <<index, stored, work>>
    BY <1>5 DEF JournalDelete
  <2>2. HandlersBacked'
    BY <1>0, <1>5 DEF JournalDelete, Becomes, HandlersBacked
  <2>3. JournalBacked'
    BY <1>0, <1>5 DEF JournalDelete, DeleteRecord, JournalBacked, TypeOK
  <2> QED
    BY <1>0, <2>1, <2>2, <2>3
<1>6. CASE CommitPut(c)
  <2>1. UNCHANGED <<journal, stored, work>> /\ Answer(c)
    BY <1>6 DEF CommitPut
  <2>2. HandlersBacked'
    BY <1>0, <2>1 DEF Answer, Idle, HandlersBacked
  <2>3. handler[c].hash \in stored
    BY <1>0, <1>6 DEF CommitPut
  <2>4. Backed(index', stored)
    BY <1>0, <1>6, <2>3, HandlerFields, BindBacked DEF CommitPut, TypeOK
  <2> QED
    BY <1>0, <2>1, <2>2, <2>4 DEF JournalBacked
<1>7. CASE CommitDelete(c)
  <2>1. UNCHANGED <<journal, stored, work>> /\ Answer(c)
    BY <1>7 DEF CommitDelete
  <2>2. HandlersBacked'
    BY <1>0, <2>1 DEF Answer, Idle, HandlersBacked
  <2>3. Backed(index', stored)
    BY <1>0, <1>7, HandlerFields, UnbindBacked DEF CommitDelete, TypeOK
  <2> QED
    BY <1>0, <2>1, <2>2, <2>3 DEF JournalBacked
<1> QED
  BY <1>1, <1>2, <1>3, <1>4, <1>5, <1>6, <1>7 DEF Request, Continue

\* Nor does a crash, a recovery or a rebuild name anything else (Recover,
\* rebuildIndex): what they replay, the journal names.
LEMMA ProcessBacked ==
  ASSUME BackedInv, Recovery \/ Rebuild \/ Crash \/ KillRebuild \/ Tick
  PROVE  /\ HandlersBacked' /\ JournalBacked'
         /\ Backed(index, stored)' /\ Backed(work, stored)'
<1> USE DEF disk, replay
<1>0. /\ TypeOK /\ HandlersBacked /\ JournalBacked
      /\ Backed(index, stored) /\ Backed(work, stored)
      /\ Backed(EmptyIndex, stored)
  BY EmptyIndexBacked DEF BackedInv
<1>1. CASE ReplayRecord
  <2>1. /\ cursor \in DOMAIN journal /\ cursor \in Nat
        /\ journal[cursor] \in Record /\ work \in Index
    BY <1>0, <1>1 DEF ReplayRecord, TypeOK
  <2>2. /\ journal[cursor].op # "gc"
        /\ journal[cursor].op = "put" => journal[cursor].hash \in stored
    BY <1>0, <2>1 DEF BackedInv, NoCollection, JournalBacked
  <2>3. Backed(work', stored)
    BY <1>0, <1>1, <2>1, <2>2, ApplyBacked DEF ReplayRecord
  <2> QED
    BY <1>0, <1>1, <2>3 DEF ReplayRecord, HandlersBacked, JournalBacked
<1>2. CASE Start
  BY <1>0, <1>2 DEF Start, HandlersBacked, JournalBacked
<1>3. CASE CommitReplay
  BY <1>0, <1>3 DEF CommitReplay, HandlersBacked, JournalBacked
<1>4. CASE DropNamespaces
  <2>1. Backed(index', stored)
    BY <1>0, <1>4 DEF DropNamespaces, Backed, EmptyIndex, TypeOK, Index
  <2> QED
    BY <1>0, <1>4, <2>1 DEF DropNamespaces, HandlersBacked, JournalBacked
<1>5. CASE ResetIndex
  <2>1. Backed(index', stored)
    BY <1>0, <1>5 DEF ResetIndex, Backed, EmptyIndex, NoRef, TypeOK, Index
  <2> QED
    BY <1>0, <1>5, <2>1 DEF ResetIndex, HandlersBacked, JournalBacked
<1>6. CASE Crash \/ KillRebuild
  BY <1>0, <1>6 DEF Crash, KillRebuild, Halt, Idle, HandlersBacked, JournalBacked
<1>7. CASE Tick
  BY <1>0, <1>7 DEF Tick, HandlersBacked, JournalBacked
<1> QED
  BY <1>1, <1>2, <1>3, <1>4, <1>5, <1>6, <1>7 DEF Recovery, Rebuild

\* BackedInv holds in every state of a store that never collects.
LEMMA StoreBacked ==
  ASSUME Interval = 0
  PROVE  Spec => []BackedInv
<1>1. Init => BackedInv
  <2> SUFFICES ASSUME Init
               PROVE  /\ NoCollection /\ HandlersBacked /\ JournalBacked
                      /\ Backed(EmptyIndex, stored)
    BY StoreTypeOKInit DEF BackedInv, Init
  <2> QED
    BY EmptyIndexBacked DEF Init, Idle, Sleeping, NoCollection, HandlersBacked, JournalBacked
<1>2. BackedInv /\ TypeOK' /\ [Next]_vars => BackedInv'
  <2>1. CASE UNCHANGED vars
    BY <2>1 DEF vars, disk, replay, BackedInv, NoCollection, HandlersBacked, JournalBacked
  <2>2. ASSUME BackedInv, TypeOK', Next
        PROVE  /\ HandlersBacked' /\ JournalBacked'
               /\ Backed(index, stored)' /\ Backed(work, stored)'
    <3>1. CASE Collect \/ FailPass
      BY <2>2, <3>1 DEF BackedInv, NoCollection, Collect, FailPass, StartPass,
           RemoveExpired, JournalCollected, FindOrphans, EndPass, DropExpired,
           SkipReferenced, RemoveOrphan, Sleeping
    <3> QED
      BY <2>2, <3>1, RequestBacked, ProcessBacked DEF Next
  <2> QED
    BY <2>1, <2>2, NoCollectionStep DEF BackedInv
<1> QED
  BY <1>1, <1>2, StoreTypeOK, PTL DEF Spec

\* A store that never collects stays healthy in the sense of --fsck whatever
\* else happens to it, killed rebuilds included.
THEOREM StoreHealthy ==
  ASSUME Interval = 0
  PROVE  Spec => []Healthy
<1>1. BackedInv => Healthy
  BY DEF BackedInv, Backed, Healthy
<1> QED
  BY <1>1, StoreBacked, PTL

\* And a GET that resolved its key always finds the blob it resolved.
THEOREM StoreReadFindsBlob ==
  ASSUME Interval = 0
  PROVE  Spec => []ReadFindsBlob
<1>1. BackedInv => ReadFindsBlob
  BY DEF BackedInv, HandlersBacked, ReadFindsBlob
<1> QED
  BY <1>1, StoreBacked, PTL

-----------------------------------------------------------------------------
(***************************************************************************)
(* A rebuild is a replay of the whole journal, whatever it found in place  *)
(* of an index.                                                            *)
(***************************************************************************)
\* Nothing but a serving process has requests and a collection under way.
QuietUnlessServing == NoRequest /\ (mode # "serving" => gc.pc = "asleep")

\* What the steps that are neither recovery nor rebuild leave alone unless the
\* process serves (Recover and rebuildIndex run before anything else does).
LEMMA QuietStep ==
  ASSUME TypeOK, QuietUnlessServing, Next
  PROVE  /\ QuietUnlessServing'
         /\ mode # "serving" => /\ journal' = journal
                                /\ \/ Recovery \/ Rebuild \/ Crash \/ KillRebuild
                                   \/ UNCHANGED <<index, work, cursor, mode>>
         /\ mode = "serving" => UNCHANGED <<work, cursor, mode>> \/ Crash
<1> USE DEF disk, replay
<1>1. NoRequest'
  BY NoRequestStep DEF QuietUnlessServing
<1>2. ASSUME NEW c \in Clients, Request(c)
      PROVE  mode = "serving" /\ UNCHANGED <<work, cursor, mode>> /\ gc' = gc
  BY <1>2 DEF Request, StoreBlob, FindKey, ResolveKey
<1>3. ASSUME NEW c \in Clients, Continue(c)
      PROVE  mode = "serving" /\ UNCHANGED <<work, cursor, mode>> /\ gc' = gc
  BY <1>3 DEF Continue, Refuse, JournalPut, CommitPut, JournalDelete, CommitDelete,
              FailCommit, OpenBlob, NoRequest, QuietUnlessServing
<1>4. CASE Collect \/ FailPass
  <2>1. mode = "serving" /\ UNCHANGED <<work, cursor, mode>>
    BY <1>4 DEF Collect, FailPass, StartPass, RemoveExpired, JournalCollected,
                FindOrphans, EndPass, DropExpired, SkipReferenced, RemoveOrphan,
                QuietUnlessServing
  <2> QED
    BY <1>1, <2>1 DEF QuietUnlessServing
<1>5. CASE Tick
  BY <1>1, <1>5 DEF Tick, QuietUnlessServing
<1>6. CASE Recovery \/ Rebuild
  BY <1>1, <1>6 DEF Recovery, Start, ReplayRecord, CommitReplay, Rebuild, DropNamespaces,
              ResetIndex, QuietUnlessServing
<1>7. CASE Crash \/ KillRebuild
  BY <1>1, <1>7 DEF Crash, KillRebuild, Halt, Sleeping, QuietUnlessServing
<1> QED
  BY <1>1, <1>2, <1>3, <1>4, <1>5, <1>6, <1>7 DEF Next, QuietUnlessServing

\* The working copy of a rebuild is always the replay of the records before the
\* cursor.
RebuildInv ==
  /\ TypeOK /\ QuietUnlessServing
  /\ mode = "dropped" => index.keys = EmptyIndex.keys
  /\ mode = "rebuilding" => /\ cursor <= Len(journal) + 1
                            /\ work = ReplayedTo(journal, cursor - 1)

\* A rebuild starts from nothing and takes one record after the other
\* (rebuildIndex, Recover).
LEMMA RebuildStep ==
  ASSUME RebuildInv, Next
  PROVE  /\ mode' = "dropped" => index'.keys = EmptyIndex.keys
         /\ mode' = "rebuilding" => /\ cursor' <= Len(journal') + 1
                                    /\ work' = ReplayedTo(journal', cursor' - 1)
<1> USE DEF disk, replay
<1>0. /\ TypeOK /\ journal \in Seq(Record) /\ Len(journal) \in Nat
      /\ cursor \in Nat \ {0} /\ index \in Index /\ index' = index'
  BY DEF RebuildInv, TypeOK
<1>1. CASE mode = "serving"
  <2>1. mode' \in {"serving", "stopped"}
    BY <1>0, <1>1, QuietStep DEF RebuildInv, Crash, Halt
  <2> QED
    BY <2>1
<1>2. CASE mode # "serving" /\ UNCHANGED <<index, work, cursor, mode>>
  BY <1>0, <1>2, QuietStep DEF RebuildInv
<1>3. CASE Start
  BY <1>3 DEF Start
<1>4. CASE ReplayRecord
  <2>1. CASE mode = "rebuilding"
    <3>1. cursor <= Len(journal) /\ work = ReplayedTo(journal, cursor - 1)
      BY <1>4, <2>1 DEF ReplayRecord, RebuildInv
    <3>2. cursor - 1 \in 0..(Len(journal) - 1) /\ (cursor - 1) + 1 = cursor
          /\ (cursor + 1) - 1 = cursor
      BY <1>0, <3>1
    <3>3. ReplayedTo(journal, cursor) = Apply(work, journal[cursor], cursor)
      BY <1>0, <3>1, <3>2, ReplayedSteps
    <3> QED
      BY <1>0, <1>4, <3>1, <3>2, <3>3 DEF ReplayRecord
  <2> QED
    BY <1>4, <2>1 DEF ReplayRecord
<1>5. CASE CommitReplay
  BY <1>5 DEF CommitReplay
<1>6. CASE DropNamespaces
  BY <1>0, <1>6 DEF DropNamespaces, Index
<1>7. CASE ResetIndex
  <2>1. index' = EmptyIndex
    BY <1>0, <1>7 DEF ResetIndex, RebuildInv, Index, EmptyIndex
  <2>2. ReplayedTo(journal, 0) = EmptyIndex
    BY <1>0, ReplayedSteps
  <2> QED
    BY <1>0, <1>7, <2>1, <2>2 DEF ResetIndex
<1>8. CASE Crash \/ KillRebuild
  BY <1>8 DEF Crash, KillRebuild, Halt
<1> QED
  BY <1>0, <1>1, <1>2, <1>3, <1>4, <1>5, <1>6, <1>7, <1>8, QuietStep DEF RebuildInv, Recovery, Rebuild

\* What a rebuild is about to commit is the index of the whole journal, counts
\* and positions included, in every environment: several writers, failed
\* transactions, collections, crashes and rebuilds that were killed before it.
THEOREM StoreRebuildIsReplay == Spec => []RebuildIsReplay
<1>1. Init => RebuildInv
  BY StoreTypeOKInit DEF Init, Idle, Sleeping, RebuildInv, QuietUnlessServing, NoRequest
<1>2. RebuildInv /\ TypeOK' /\ [Next]_vars => RebuildInv'
  <2>1. CASE UNCHANGED vars
    BY <2>1 DEF vars, disk, replay, RebuildInv, QuietUnlessServing, NoRequest
  <2> QED
    BY <2>1, QuietStep, RebuildStep DEF RebuildInv
<1>3. RebuildInv => RebuildIsReplay
  <2> SUFFICES ASSUME RebuildInv, mode = "rebuilding", cursor > Len(journal)
               PROVE  work = Replayed(journal)
    BY DEF RebuildIsReplay
  <2>1. journal \in Seq(Record) /\ cursor \in Nat /\ Len(journal) \in Nat
    BY DEF RebuildInv, TypeOK
  <2>2. cursor - 1 = Len(journal)
    BY <2>1 DEF RebuildInv
  <2> QED
    BY <2>1, <2>2, ReplayedSteps DEF RebuildInv
<1> QED
  BY <1>1, <1>2, <1>3, StoreTypeOK, PTL DEF Spec

-----------------------------------------------------------------------------
(***************************************************************************)
(* One writer.  Between two mutations of a single writer the index is the  *)
(* replay of the journal up to its applied position, and at most one       *)
(* record beyond it is a mutation; the rest are records of collections,    *)
(* which change no key.  A commit after a failed one, or after another     *)
(* writer's, would jump over a record: hence the assumption.               *)
(***************************************************************************)
\* No two requests are ever in flight together.
OneWriter == \A c, d \in Clients : c = d

\* A mutation between its journal record and its commit.
Logged(c) == handler[c].pc \in {"putLogged", "deleteLogged"}

\* The mutations the index does not reflect yet.
Pending == {i \in DOMAIN journal : i > index.applied /\ journal[i].op # "gc"}

LoggedFaithful ==
  \A c \in Clients : Logged(c) =>
    /\ handler[c].seq \in Pending
    /\ journal[handler[c].seq].key = handler[c].key
    /\ journal[handler[c].seq].hash = handler[c].hash

PendingOwned ==
  mode = "serving" => \A i \in Pending : \E c \in Clients : Logged(c) /\ handler[c].seq = i

PositionKnown ==
  /\ mode # "dropped" => /\ index.applied <= Len(journal)
                         /\ index.keys = ReplayedTo(journal, index.applied).keys
  /\ mode = "dropped" => index.keys = EmptyIndex.keys

WorkKnown ==
  mode \in {"recovering", "rebuilding"} =>
    /\ cursor <= Len(journal) + 1
    /\ work.applied = cursor - 1
    /\ work.keys = ReplayedTo(journal, cursor - 1).keys

SerialInv ==
  /\ TypeOK /\ QuietUnlessServing
  /\ LoggedFaithful /\ PendingOwned /\ PositionKnown /\ WorkKnown

SerialAssumption == OneWriter /\ Environment \cap {"commitFails", "kill"} = {}

\* An append moves no replay of what was there before (journal.Append).
LEMMA AppendKeepsReplay ==
  ASSUME TypeOK, NEW rec \in Record, journal' = Append(journal, rec)
  PROVE  /\ journal' \in Seq(Record) /\ Len(journal) \in Nat
         /\ Len(journal') = Len(journal) + 1
         /\ DOMAIN journal = 1..Len(journal) /\ DOMAIN journal' = 1..(Len(journal) + 1)
         /\ \A i \in DOMAIN journal : journal'[i] = journal[i]
         /\ journal'[Len(journal) + 1] = rec
         /\ \A n \in 0..Len(journal) : ReplayedTo(journal', n) = ReplayedTo(journal, n)
<1>1. /\ journal \in Seq(Record) /\ Len(journal) \in Nat
      /\ DOMAIN journal = 1..Len(journal)
  BY DEF TypeOK
<1>2. /\ journal' \in Seq(Record) /\ Len(journal') = Len(journal) + 1
      /\ DOMAIN journal' = 1..(Len(journal) + 1)
      /\ \A i \in DOMAIN journal : journal'[i] = journal[i]
      /\ journal'[Len(journal) + 1] = rec
  BY <1>1
<1>3. ASSUME NEW n \in 0..Len(journal)
      PROVE  ReplayedTo(journal', n) = ReplayedTo(journal, n)
  <2>1. n <= Len(journal') /\ \A i \in 1..n : journal[i] = journal'[i]
    BY <1>1, <1>2
  <2> QED
    BY <1>1, <1>2, <2>1, ReplayedAgree
<1> QED
  BY <1>1, <1>2, <1>3

\* An append of a mutation by the one writer there is (PutWith, Delete).
LEMMA SerialAppend ==
  ASSUME OneWriter, SerialInv, NEW c \in Clients, JournalPut(c) \/ JournalDelete(c)
  PROVE  LoggedFaithful' /\ PendingOwned' /\ PositionKnown' /\ WorkKnown'
<1> USE DEF disk, replay
<1> DEFINE h == handler[c]
           rec == IF h.pc = "stored" THEN PutRecord(h.key, h.hash, clock)
                  ELSE DeleteRecord(h.key, clock)
           pc == IF h.pc = "stored" THEN "putLogged" ELSE "deleteLogged"
           hash == IF h.pc = "stored" THEN h.hash ELSE None
<1>0. TypeOK /\ h.pc \in {"stored", "found"} /\ mode = "serving"
  BY DEF JournalPut, JournalDelete, SerialInv, QuietUnlessServing, NoRequest
<1>1. rec \in Record /\ rec.op # "gc" /\ rec.key = h.key /\ rec.hash = hash
  BY <1>0, HandlerFields DEF Record, PutRecord, DeleteRecord, TypeOK
<1>2. /\ journal' = Append(journal, rec)
      /\ Becomes(c, pc, h.key, hash, Len(journal) + 1)
      /\ UNCHANGED <<index, mode, work, cursor>>
  BY DEF JournalPut, JournalDelete
<1> HIDE DEF rec
<1>3. /\ Len(journal) \in Nat /\ Len(journal') = Len(journal) + 1
      /\ DOMAIN journal = 1..Len(journal) /\ DOMAIN journal' = 1..(Len(journal) + 1)
      /\ \A i \in DOMAIN journal : journal'[i] = journal[i]
      /\ journal'[Len(journal) + 1] = rec
      /\ \A n \in 0..Len(journal) : ReplayedTo(journal', n) = ReplayedTo(journal, n)
  BY <1>0, <1>1, <1>2, AppendKeepsReplay
<1>4. /\ index.applied \in 0..Len(journal) /\ index.applied \in Nat
      /\ index.keys = ReplayedTo(journal, index.applied).keys
  BY <1>0, <1>3 DEF SerialInv, PositionKnown, TypeOK, Index
<1>5. Pending = {}
  BY <1>0 DEF SerialInv, PendingOwned, Logged, OneWriter
<1>6. Pending' = {Len(journal) + 1}
  BY <1>1, <1>2, <1>3, <1>4, <1>5 DEF Pending
<1>7. handler' = [handler EXCEPT ![c] = handler'[c]] /\ handler'[c].pc = pc
      /\ handler'[c].key = h.key /\ handler'[c].hash = hash
      /\ handler'[c].seq = Len(journal) + 1
  BY <1>0, <1>2 DEF Becomes, TypeOK
<1>8. LoggedFaithful'
  BY <1>1, <1>3, <1>6, <1>7 DEF LoggedFaithful, Logged, OneWriter
<1>9. PendingOwned'
  BY <1>6, <1>7 DEF PendingOwned, Logged
<1>10. PositionKnown' /\ WorkKnown'
  BY <1>0, <1>2, <1>3, <1>4 DEF PositionKnown, WorkKnown
<1> QED
  BY <1>8, <1>9, <1>10

\* What the commit of the one logged mutation makes of the index (PutWith, Delete).
LEMMA CommitReaches ==
  ASSUME OneWriter, SerialInv, NEW c \in Clients, CommitPut(c) \/ CommitDelete(c)
  PROVE  /\ mode = "serving"
         /\ handler[c].seq \in 1..Len(journal) /\ Pending = {handler[c].seq}
         /\ index'.applied = handler[c].seq
         /\ index'.keys = [index.keys EXCEPT ![handler[c].key] = handler[c].hash]
         /\ index'.keys = ReplayedTo(journal, handler[c].seq).keys
<1> DEFINE h == handler[c]
           n == h.seq
<1>0. /\ TypeOK /\ journal \in Seq(Record) /\ Len(journal) \in Nat
      /\ DOMAIN journal = 1..Len(journal) /\ index \in Index /\ index.applied \in Nat
      /\ clock \in Int /\ h.pc \in {"putLogged", "deleteLogged"} /\ h.seq \in Nat /\ h.key \in Keys
  BY HandlerFields DEF SerialInv, TypeOK, Index, CommitPut, CommitDelete
<1>1. mode = "serving" /\ Logged(c)
  BY <1>0 DEF SerialInv, QuietUnlessServing, NoRequest, Logged
<1>2. /\ n \in Pending /\ journal[n].key = h.key /\ journal[n].hash = h.hash
  BY <1>1 DEF SerialInv, LoggedFaithful
<1>3. Pending = {n}
  BY <1>1, <1>2 DEF SerialInv, PendingOwned, OneWriter
<1>4. n \in 1..Len(journal) /\ n > index.applied /\ journal[n].op # "gc"
  BY <1>0, <1>2 DEF Pending
<1>5. index'.applied = n /\ index'.keys = [index.keys EXCEPT ![h.key] = h.hash]
  <2>1. CASE CommitPut(c)
    <3>1. h.hash \in Hashes
      BY <1>0, <2>1, HandlerFields DEF CommitPut
    <3>2. index' = AppliedTo(Bind(index, h.key, h.hash, clock), n)
      BY <2>1 DEF CommitPut
    <3> HIDE DEF h
    <3>3. Bind(index, h.key, h.hash, clock) \in Index
          /\ Bind(index, h.key, h.hash, clock).keys = [index.keys EXCEPT ![h.key] = h.hash]
      BY <1>0, <3>1, BindType
    <3>4. AppliedTo(Bind(index, h.key, h.hash, clock), n).applied = n
          /\ AppliedTo(Bind(index, h.key, h.hash, clock), n).keys = [index.keys EXCEPT ![h.key] = h.hash]
      BY <1>0, <3>3, AppliedToType DEF AppliedTo, Index
    <3> QED
      BY <3>2, <3>4
  <2>2. CASE CommitDelete(c)
    <3>1. h.hash = None
      BY <1>0, <2>2 DEF CommitDelete, TypeOK, HandlerState, Idle
    <3>2. index' = AppliedTo(Unbind(index, h.key, clock), n)
      BY <2>2 DEF CommitDelete
    <3> HIDE DEF h
    <3>3. Unbind(index, h.key, clock) \in Index
          /\ Unbind(index, h.key, clock).keys = [index.keys EXCEPT ![h.key] = h.hash]
      BY <1>0, <3>1, UnbindType
    <3>4. AppliedTo(Unbind(index, h.key, clock), n).applied = n
          /\ AppliedTo(Unbind(index, h.key, clock), n).keys = [index.keys EXCEPT ![h.key] = h.hash]
      BY <1>0, <3>3, AppliedToType DEF AppliedTo, Index
    <3> QED
      BY <3>2, <3>4
  <2> QED
    BY <2>1, <2>2
<1> HIDE DEF n
<1>6. ReplayedTo(journal, n).keys = [ReplayedTo(journal, n - 1).keys EXCEPT ![h.key] = h.hash]
  BY <1>0, <1>2, <1>4, ReplayedKeys
<1>7. ReplayedTo(journal, n - 1).keys = index.keys
  <2>1. /\ index.applied \in 0..Len(journal) /\ n - 1 \in 0..Len(journal) /\ index.applied <= n - 1
        /\ index.keys = ReplayedTo(journal, index.applied).keys
    BY <1>0, <1>1, <1>4 DEF SerialInv, PositionKnown
  <2>2. \A i \in (index.applied + 1)..(n - 1) : journal[i].op = "gc"
    BY <1>0, <1>3, <1>4 DEF Pending
  <2> QED
    BY <1>0, <2>1, <2>2, ReplayedCollections
<1> QED
  BY <1>1, <1>3, <1>4, <1>5, <1>6, <1>7 DEF n

\* A commit of the one writer there is.
LEMMA SerialCommit ==
  ASSUME OneWriter, SerialInv, NEW c \in Clients, CommitPut(c) \/ CommitDelete(c)
  PROVE  LoggedFaithful' /\ PendingOwned' /\ PositionKnown' /\ WorkKnown'
<1> USE DEF disk, replay
<1>1. /\ mode = "serving" /\ handler[c].seq \in 1..Len(journal) /\ Pending = {handler[c].seq}
      /\ index'.applied = handler[c].seq
      /\ index'.keys = ReplayedTo(journal, handler[c].seq).keys
  BY CommitReaches
<1>2. UNCHANGED <<journal, mode, work, cursor>> /\ Answer(c)
  BY DEF CommitPut, CommitDelete
<1>3. /\ TypeOK /\ journal \in Seq(Record) /\ Len(journal) \in Nat
      /\ DOMAIN journal = 1..Len(journal) /\ index \in Index /\ index.applied \in Nat
  BY DEF SerialInv, TypeOK, Index
<1>4. \A d \in Clients : ~Logged(d)'
  BY <1>2, <1>3 DEF Answer, Idle, OneWriter, Logged, TypeOK
<1>5. handler[c].seq > index.applied
  BY <1>1 DEF Pending
<1>6. Pending' = {}
  BY <1>1, <1>2, <1>3, <1>5 DEF Pending
<1> QED
  BY <1>1, <1>2, <1>3, <1>4, <1>6 DEF LoggedFaithful, PendingOwned, PositionKnown, WorkKnown

\* Every other step of a request.
LEMMA SerialRequest ==
  ASSUME SerialAssumption, SerialInv, NEW c \in Clients,
         Request(c) \/ Refuse(c) \/ OpenBlob(c) \/ FailCommit(c)
  PROVE  LoggedFaithful' /\ PendingOwned' /\ PositionKnown' /\ WorkKnown'
<1> USE DEF disk, replay
<1>0. /\ TypeOK /\ OneWriter
      /\ LoggedFaithful /\ PendingOwned /\ PositionKnown /\ WorkKnown
  BY DEF SerialInv, SerialAssumption
<1>1. UNCHANGED <<journal, index, mode, work, cursor>>
  BY DEF Request, StoreBlob, FindKey, ResolveKey, Refuse, OpenBlob, FailCommit
<1>2. ~Logged(c) /\ ~Logged(c)'
  BY <1>0 DEF Request, StoreBlob, FindKey, ResolveKey, Refuse, OpenBlob, FailCommit,
              SerialAssumption, Logged, Answer, Becomes, Idle, TypeOK
<1>3. \A d \in Clients : ~Logged(d) /\ ~Logged(d)'
  BY <1>0, <1>2 DEF OneWriter
<1>4. Pending' = Pending
  BY <1>1 DEF Pending
<1> QED
  BY <1>0, <1>1, <1>3, <1>4 DEF LoggedFaithful, PendingOwned, PositionKnown, WorkKnown

\* A collection, its record included: it moves no key and no position.
LEMMA SerialCollect ==
  ASSUME SerialInv, Collect \/ FailPass \/ Tick
  PROVE  /\ Len(journal) \in Nat
         /\ Pending' = Pending
         /\ index'.keys = index.keys /\ index'.applied = index.applied
         /\ \A i \in DOMAIN journal : i \in DOMAIN journal' /\ journal'[i] = journal[i]
         /\ LoggedFaithful' /\ PendingOwned' /\ PositionKnown' /\ WorkKnown'
<1> USE DEF disk, replay
<1>0. /\ TypeOK /\ LoggedFaithful /\ PendingOwned /\ PositionKnown /\ WorkKnown
      /\ journal \in Seq(Record) /\ Len(journal) \in Nat
      /\ DOMAIN journal = 1..Len(journal) /\ index \in Index /\ index.applied \in Nat
      /\ clock \in Nat
  BY DEF SerialInv, TypeOK, Index
<1>1. UNCHANGED <<handler, work, cursor, mode>>
  BY DEF Collect, FailPass, Tick, StartPass, RemoveExpired, JournalCollected,
         FindOrphans, EndPass, DropExpired, SkipReferenced, RemoveOrphan
<1>2. CASE JournalCollected
  <2> DEFINE rec == GCRecord(gc.cur, clock)
  <2>1. rec \in Record /\ rec.op = "gc"
    BY <1>0, <1>2 DEF JournalCollected, TypeOK, CollectorState, GCRecord, Record
  <2>2. journal' = Append(journal, rec) /\ index' = index
    BY <1>2 DEF JournalCollected
  <2> HIDE DEF rec
  <2>3. /\ Len(journal') = Len(journal) + 1
        /\ DOMAIN journal' = 1..(Len(journal) + 1)
        /\ \A i \in DOMAIN journal : journal'[i] = journal[i]
        /\ journal'[Len(journal) + 1] = rec
        /\ \A n \in 0..Len(journal) : ReplayedTo(journal', n) = ReplayedTo(journal, n)
    BY <1>0, <2>1, <2>2, AppendKeepsReplay
  <2>4. Pending' = Pending
    BY <1>0, <2>1, <2>2, <2>3 DEF Pending
  <2>5. LoggedFaithful'
    BY <1>0, <1>1, <2>3, <2>4 DEF LoggedFaithful, Logged, Pending
  <2>6. PendingOwned'
    BY <1>0, <1>1, <2>4 DEF PendingOwned, Logged
  <2>7. PositionKnown'
    BY <1>0, <1>1, <2>2, <2>3 DEF PositionKnown
  <2>8. WorkKnown'
    <3> SUFFICES ASSUME mode \in {"recovering", "rebuilding"}
                 PROVE  /\ cursor <= Len(journal') + 1
                        /\ work.keys = ReplayedTo(journal', cursor - 1).keys
      BY <1>0, <1>1 DEF WorkKnown
    <3>1. cursor \in Nat \ {0} /\ cursor <= Len(journal) + 1
      BY <1>0 DEF WorkKnown, TypeOK
    <3>2. cursor - 1 \in 0..Len(journal)
      BY <1>0, <3>1
    <3> QED
      BY <1>0, <2>3, <3>1, <3>2 DEF WorkKnown
  <2> QED
    BY <1>0, <2>2, <2>3, <2>4, <2>5, <2>6, <2>7, <2>8
<1>3. CASE ~JournalCollected
  <2>1. journal' = journal
    BY <1>3 DEF Collect, FailPass, Tick, StartPass, RemoveExpired,
         FindOrphans, EndPass, DropExpired, SkipReferenced, RemoveOrphan
  <2>2. index'.keys = index.keys /\ index'.applied = index.applied
    <3>1. ASSUME NEW h \in Hashes, index' = DropRef(index, h)
          PROVE  index'.keys = index.keys /\ index'.applied = index.applied
      BY <1>0, <3>1, DropRefType
    <3> QED
      BY <1>3, <3>1 DEF Collect, FailPass, Tick, StartPass, RemoveExpired, JournalCollected,
         FindOrphans, EndPass, DropExpired, SkipReferenced, RemoveOrphan
  <2>3. Pending' = Pending
    BY <2>1, <2>2 DEF Pending
  <2> QED
    BY <1>0, <1>1, <2>1, <2>2, <2>3
       DEF LoggedFaithful, PendingOwned, PositionKnown, WorkKnown, Logged
<1> QED
  BY <1>2, <1>3

\* A crash, and every step of a recovery or a rebuild.
LEMMA SerialProcess ==
  ASSUME SerialAssumption, SerialInv, Recovery \/ Rebuild \/ Crash \/ KillRebuild
  PROVE  LoggedFaithful' /\ PendingOwned' /\ PositionKnown' /\ WorkKnown'
<1> USE DEF disk, replay
<1>0. /\ TypeOK /\ LoggedFaithful /\ PendingOwned /\ PositionKnown /\ WorkKnown
      /\ journal \in Seq(Record) /\ Len(journal) \in Nat
      /\ DOMAIN journal = 1..Len(journal) /\ index \in Index /\ index.applied \in Nat
      /\ cursor \in Nat \ {0} /\ work \in Index
      /\ journal' = journal
  BY DEF SerialInv, TypeOK, Index, Recovery, Rebuild, Crash, KillRebuild, Halt, Start,
         ReplayRecord, CommitReplay, DropNamespaces, ResetIndex
<1>1. \A c \in Clients : ~Logged(c)'
  <2>1. CASE Crash \/ KillRebuild
    BY <2>1 DEF Crash, KillRebuild, Halt, Idle, Logged
  <2>2. CASE Recovery \/ Rebuild
    <3>1. mode # "serving" /\ handler' = handler
      BY <2>2 DEF Recovery, Rebuild, Start, ReplayRecord, CommitReplay, DropNamespaces, ResetIndex
    <3> QED
      BY <3>1 DEF SerialInv, QuietUnlessServing, NoRequest, Logged
  <2> QED
    BY <2>1, <2>2
<1>2. LoggedFaithful'
  BY <1>1 DEF LoggedFaithful
<1>3. CASE Crash
  BY <1>0, <1>2, <1>3 DEF Crash, Halt, PendingOwned, PositionKnown, WorkKnown
<1>4. ~KillRebuild
  BY DEF KillRebuild, SerialAssumption
<1>5. CASE Start
  BY <1>0, <1>2, <1>5 DEF Start, PendingOwned, PositionKnown, WorkKnown
<1>6. CASE ReplayRecord
  <2>1. mode \in {"recovering", "rebuilding"} /\ cursor \in 1..Len(journal)
        /\ work.keys = ReplayedTo(journal, cursor - 1).keys
    BY <1>0, <1>6 DEF ReplayRecord, WorkKnown
  <2>2. /\ journal[cursor] \in Record /\ cursor - 1 \in 0..(Len(journal) - 1)
        /\ (cursor - 1) + 1 = cursor
    BY <1>0, <2>1
  <2>3. work' = Apply(work, journal[cursor], cursor)
    BY <1>6 DEF ReplayRecord
  <2>4. work'.keys = IF journal[cursor].op = "gc" THEN work.keys
                     ELSE [work.keys EXCEPT ![journal[cursor].key] = journal[cursor].hash]
    BY <1>0, <2>2, <2>3, ApplyKeys
  <2>5. work'.applied = cursor
    BY <1>0, <2>2, <2>3, ApplyPosition
  <2>6. work'.keys = ReplayedTo(journal, cursor).keys
    <3>1. \A n \in 1..Len(journal) :
            ReplayedTo(journal, n).keys =
              IF journal[n].op = "gc" THEN ReplayedTo(journal, n - 1).keys
              ELSE [ReplayedTo(journal, n - 1).keys EXCEPT ![journal[n].key] = journal[n].hash]
      BY <1>0, ReplayedKeys
    <3> QED
      BY <2>1, <2>4, <3>1
  <2>7. /\ cursor' = cursor + 1 /\ mode' = mode /\ index' = index
    BY <1>6 DEF ReplayRecord
  <2>8. WorkKnown'
    <3>1. cursor' - 1 = cursor /\ cursor' <= Len(journal) + 1
      BY <1>0, <2>1, <2>7
    <3> QED
      BY <1>0, <2>5, <2>6, <3>1 DEF WorkKnown
  <2> QED
    BY <1>0, <1>2, <2>1, <2>7, <2>8 DEF PendingOwned, PositionKnown
<1>7. CASE CommitReplay
  <2>1. cursor > Len(journal) /\ mode \in {"recovering", "rebuilding"}
        /\ index' = work /\ mode' \in {"serving", "stopped"}
    BY <1>7 DEF CommitReplay
  <2>2. /\ work.applied = Len(journal)
        /\ work.keys = ReplayedTo(journal, Len(journal)).keys
    <3>1. cursor - 1 = Len(journal)
      BY <1>0, <2>1 DEF WorkKnown
    <3> QED
      BY <1>0, <2>1, <3>1 DEF WorkKnown
  <2>3. Pending' = {}
    BY <1>0, <2>1, <2>2 DEF Pending
  <2> QED
    BY <1>0, <1>2, <2>1, <2>2, <2>3 DEF PendingOwned, PositionKnown, WorkKnown
<1>8. CASE DropNamespaces
  BY <1>0, <1>2, <1>8 DEF DropNamespaces, PendingOwned, PositionKnown, WorkKnown, Index
<1>9. CASE ResetIndex
  <2>1. index'.keys = EmptyIndex.keys /\ index'.applied = 0 /\ work' = index'
        /\ cursor' = 1 /\ mode' = "rebuilding"
    BY <1>0, <1>9 DEF ResetIndex, PositionKnown, Index
  <2>2. ReplayedTo(journal, 0) = EmptyIndex
    BY <1>0, ReplayedSteps
  <2> QED
    BY <1>0, <1>2, <2>1, <2>2 DEF PendingOwned, PositionKnown, WorkKnown
<1> QED
  BY <1>3, <1>4, <1>5, <1>6, <1>7, <1>8, <1>9 DEF Recovery, Rebuild

\* The store of one writer is always at a point of its journal.
LEMMA StoreSerial ==
  ASSUME SerialAssumption
  PROVE  Spec => []SerialInv
<1>0. OneWriter
  BY DEF SerialAssumption
<1>1. Init => SerialInv
  <2> SUFFICES ASSUME Init PROVE SerialInv
    OBVIOUS
  <2>1. ReplayedTo(journal, 0) = EmptyIndex
    BY StoreTypeOKInit, ReplayedSteps DEF TypeOK
  <2> QED
    BY <2>1, StoreTypeOKInit DEF Init, Idle, Sleeping, EmptyIndex, SerialInv, QuietUnlessServing, NoRequest,
       LoggedFaithful, Logged, PendingOwned, Pending, PositionKnown, WorkKnown
<1>2. SerialInv /\ TypeOK' /\ [Next]_vars => SerialInv'
  <2>1. CASE UNCHANGED vars
    BY <2>1 DEF vars, disk, replay, SerialInv, QuietUnlessServing, NoRequest,
       LoggedFaithful, Logged, PendingOwned, Pending, PositionKnown, WorkKnown
  <2>2. ASSUME SerialInv, Next
        PROVE LoggedFaithful' /\ PendingOwned' /\ PositionKnown' /\ WorkKnown'
    BY <1>0, <2>2, SerialAppend, SerialCommit, SerialRequest, SerialCollect, SerialProcess
       DEF Next, Continue
  <2> QED
    BY <2>1, <2>2, QuietStep DEF SerialInv
<1> QED
  BY <1>1, <1>2, StoreTypeOK, PTL DEF Spec

\* The index of one writer binds every key as the journal says, whenever no
\* mutation is on its way from one to the other (store.go, fsck.go), whatever
\* was refused, collected, rebuilt and interrupted by crashes before.
THEOREM StoreIndexIsReplay ==
  ASSUME SerialAssumption
  PROVE  Spec => []IndexIsReplay
<1>1. SerialInv => IndexIsReplay
  <2> SUFFICES ASSUME SerialInv, mode = "serving", \A c \in Clients : ~Logged(c)
               PROVE  index.keys = Replayed(journal).keys
    BY DEF IndexIsReplay, Logged
  <2>1. /\ journal \in Seq(Record) /\ Len(journal) \in Nat
        /\ DOMAIN journal = 1..Len(journal) /\ index.applied \in 0..Len(journal)
        /\ index.applied \in Nat
        /\ index.keys = ReplayedTo(journal, index.applied).keys
    BY DEF SerialInv, TypeOK, Index, PositionKnown
  <2>2. Pending = {}
    BY DEF SerialInv, PendingOwned
  <2>3. \A i \in (index.applied + 1)..Len(journal) : journal[i].op = "gc"
    BY <2>1, <2>2 DEF Pending
  <2>4. ReplayedTo(journal, Len(journal)).keys = ReplayedTo(journal, index.applied).keys
    <3>1. \A from \in 0..Len(journal), n \in 0..Len(journal) :
            from <= n /\ (\A j \in (from + 1)..n : journal[j].op = "gc")
              => ReplayedTo(journal, n).keys = ReplayedTo(journal, from).keys
      BY <2>1, ReplayedCollections, Zenon
    <3>2. Len(journal) \in 0..Len(journal) /\ index.applied <= Len(journal)
      BY <2>1
    <3> QED
      BY <2>1, <2>3, <3>1, <3>2, Zenon
  <2>5. ReplayedTo(journal, Len(journal)) = Replayed(journal)
    BY <2>1, ReplayedSteps
  <2> QED
    BY <2>1, <2>4, <2>5
<1> QED
  BY <1>1, StoreSerial, PTL

\* And a recovery that starts at the applied position misses nothing (Recover).
THEOREM StoreRecoveryReachesJournal ==
  ASSUME SerialAssumption
  PROVE  Spec => []RecoveryReachesJournal
<1>1. SerialInv => RecoveryReachesJournal
  <2> SUFFICES ASSUME SerialInv, mode \in {"recovering", "rebuilding"}, cursor > Len(journal)
               PROVE  work.keys = Replayed(journal).keys
    BY DEF RecoveryReachesJournal
  <2>1. /\ journal \in Seq(Record) /\ Len(journal) \in Nat
        /\ cursor \in Nat /\ cursor <= Len(journal) + 1
        /\ work.keys = ReplayedTo(journal, cursor - 1).keys
    BY DEF SerialInv, TypeOK, WorkKnown
  <2>2. cursor - 1 = Len(journal)
    BY <2>1
  <2> QED
    BY <2>1, <2>2, ReplayedSteps
<1> QED
  BY <1>1, StoreSerial, PTL

-----------------------------------------------------------------------------
(***************************************************************************)
(* Refinement.  The append of a mutation is its acceptance; its commit,    *)
(* or the commit of the recovery that finds it, is the moment it takes     *)
(* effect; every other step stutters.  A rebuild takes all objects away    *)
(* for a while and is left out.                                            *)
(***************************************************************************)
ObjectsAssumption == SerialAssumption /\ "rebuild" \notin Environment

ObjectsInv ==
  /\ SerialInv
  /\ \A i, j \in Pending : i = j
  /\ mode \in {"stopped", "recovering", "serving"}

\* What the map owes is what the index does not reflect.
LEMMA OwedIsPending ==
  OwedRecords = {[seq |-> i, key |-> journal[i].key, hash |-> journal[i].hash] : i \in Pending}
BY DEF OwedRecords, Pending

\* The append of a mutation makes it owed (PutWith, Delete).
LEMMA AppendIsAccept ==
  ASSUME ObjectsAssumption, ObjectsInv, NEW c \in Clients, JournalPut(c) \/ JournalDelete(c)
  PROVE  Objects!Accept /\ (\A i, j \in Pending' : i = j)
<1> DEFINE h == handler[c]
           rec == IF h.pc = "stored" THEN PutRecord(h.key, h.hash, clock)
                  ELSE DeleteRecord(h.key, clock)
           n == Len(journal) + 1
           m == [seq |-> n, key |-> rec.key, hash |-> rec.hash]
<1>0. /\ TypeOK /\ h.pc \in {"stored", "found"} /\ mode = "serving" /\ clock \in Nat
      /\ OneWriter /\ SerialInv /\ index.applied \in Nat /\ index.applied <= Len(journal)
  BY DEF JournalPut, JournalDelete, ObjectsInv, SerialInv, QuietUnlessServing, NoRequest,
         ObjectsAssumption, SerialAssumption, TypeOK, Index, PositionKnown
<1>1. rec \in Record /\ rec.op # "gc" /\ rec.key \in Keys /\ rec.hash \in Hashes \cup {None}
  BY <1>0, HandlerFields DEF Record, PutRecord, DeleteRecord, TypeOK
<1>2. journal' = Append(journal, rec) /\ index' = index
  BY DEF JournalPut, JournalDelete
<1> HIDE DEF rec
<1>3. /\ Len(journal) \in Nat
      /\ DOMAIN journal = 1..Len(journal) /\ DOMAIN journal' = 1..n
      /\ journal'[n] = rec /\ \A i \in DOMAIN journal : journal'[i] = journal[i]
  BY <1>0, <1>1, <1>2, AppendKeepsReplay
<1>4. Pending = {}
  BY <1>0 DEF SerialInv, PendingOwned, Logged, OneWriter
<1>5. Pending' = {n}
  BY <1>0, <1>1, <1>2, <1>3, <1>4 DEF Pending
<1>6. OwedRecords = {}
  BY <1>4, OwedIsPending
<1>7. OwedRecords' = {[seq |-> i, key |-> journal'[i].key, hash |-> journal'[i].hash] : i \in Pending'}
  BY DEF OwedRecords, Pending
<1>8. OwedRecords' = {m}
  BY <1>3, <1>5, <1>7
<1>9. m \in Objects!Mutation
  BY <1>1, <1>3 DEF Objects!Mutation
<1> HIDE DEF m, n
<1>10. Objects!Accept
  BY <1>2, <1>6, <1>8, <1>9 DEF Objects!Accept
<1> QED
  BY <1>5, <1>10

\* The one pending mutation, applied.
LEMMA EffectOfPending ==
  ASSUME NEW n, Pending = {n}, Pending' = {}, OwedRecords' = {},
         index'.keys = [index.keys EXCEPT ![journal[n].key] = journal[n].hash],
         n \in Nat
  PROVE  \E m \in OwedRecords : Objects!TakeEffect(m)
<1> DEFINE m == [seq |-> n, key |-> journal[n].key, hash |-> journal[n].hash]
<1>1. OwedRecords = {m}
  BY OwedIsPending
<1>2. m.seq = n /\ m.key = journal[n].key /\ m.hash = journal[n].hash /\ n <= n
  OBVIOUS
<1> HIDE DEF m
<1>3. Objects!TakeEffect(m)
  BY <1>1, <1>2 DEF Objects!TakeEffect
<1> QED
  BY <1>1, <1>3

\* Nothing pending, nothing owed.
LEMMA NothingOwed == Pending' = {} => OwedRecords' = {}
BY DEF Pending, OwedRecords

\* The commit of a mutation is its effect (PutWith, Delete).
LEMMA CommitIsEffect ==
  ASSUME ObjectsAssumption, ObjectsInv, NEW c \in Clients, CommitPut(c) \/ CommitDelete(c)
  PROVE  Pending' = {} /\ \E m \in OwedRecords : Objects!TakeEffect(m)
<1> DEFINE n == handler[c].seq
<1>0. SerialInv /\ OneWriter /\ TypeOK /\ journal' = journal
  BY DEF ObjectsInv, SerialInv, ObjectsAssumption, SerialAssumption, CommitPut, CommitDelete
<1>1. /\ n \in 1..Len(journal) /\ Pending = {n}
      /\ index'.applied = n
      /\ index'.keys = [index.keys EXCEPT ![handler[c].key] = handler[c].hash]
  BY <1>0, CommitReaches
<1>2. Logged(c) /\ journal[n].key = handler[c].key /\ journal[n].hash = handler[c].hash
  BY <1>0 DEF SerialInv, LoggedFaithful, Logged, CommitPut, CommitDelete
<1>3. index.applied \in Nat /\ DOMAIN journal = 1..Len(journal) /\ Len(journal) \in Nat
  BY <1>0 DEF TypeOK, Index
<1> HIDE DEF n
<1>4. n > index.applied
  BY <1>1, <1>3 DEF Pending
<1>5. Pending' = {}
  BY <1>0, <1>1, <1>3, <1>4 DEF Pending
<1> QED
  BY <1>1, <1>2, <1>5, EffectOfPending, NothingOwed

\* So is the commit of a recovery, for the mutation a crash interrupted (Recover).
LEMMA ReplayIsEffect ==
  ASSUME ObjectsAssumption, ObjectsInv, CommitReplay
  PROVE  /\ Pending' = {}
         /\ \/ \E m \in OwedRecords : Objects!TakeEffect(m)
            \/ UNCHANGED <<index.keys, OwedRecords>>
<1> USE DEF replay
<1>0. /\ journal \in Seq(Record) /\ Len(journal) \in Nat /\ DOMAIN journal = 1..Len(journal)
      /\ index.applied \in Nat /\ cursor \in Nat /\ mode = "recovering"
      /\ cursor > Len(journal) /\ index' = work /\ journal' = journal
  BY DEF ObjectsInv, SerialInv, TypeOK, Index, CommitReplay
<1>1. /\ index.applied \in 0..Len(journal)
      /\ index.keys = ReplayedTo(journal, index.applied).keys
      /\ cursor <= Len(journal) + 1 /\ work.applied = cursor - 1
      /\ work.keys = ReplayedTo(journal, cursor - 1).keys
  BY <1>0 DEF ObjectsInv, SerialInv, PositionKnown, WorkKnown
<1>2. /\ cursor - 1 = Len(journal)
      /\ index'.applied = Len(journal)
      /\ index'.keys = ReplayedTo(journal, Len(journal)).keys
  BY <1>0, <1>1
<1>3. Pending' = {}
  BY <1>0, <1>2 DEF Pending
<1>4. OwedRecords' = {}
  BY <1>3, NothingOwed
<1>5. CASE Pending = {}
  <2>1. \A i \in (index.applied + 1)..Len(journal) : journal[i].op = "gc"
    BY <1>0, <1>5 DEF Pending
  <2>4. Len(journal) \in 0..Len(journal) /\ index.applied <= Len(journal)
    BY <1>0, <1>1
  <2>2. index'.keys = index.keys
    BY <1>0, <1>1, <1>2, <2>1, <2>4, ReplayedCollections
  <2>3. OwedRecords = {}
    BY <1>5, OwedIsPending
  <2> QED
    BY <1>3, <1>4, <2>2, <2>3
<1>6. CASE Pending # {}
  <2>1. PICK i \in Pending : Pending = {i}
    BY <1>6 DEF ObjectsInv
  <2>2. /\ i \in 1..Len(journal) /\ index.applied < i /\ journal[i].op # "gc" /\ i \in Nat
        /\ \A j \in (index.applied + 1)..Len(journal) : j # i => journal[j].op = "gc"
    BY <1>0, <2>1 DEF Pending
  <2>3. index'.keys = [index.keys EXCEPT ![journal[i].key] = journal[i].hash]
    <3> DEFINE a == index.applied
    <3>0. journal \in Seq(Record) /\ i \in 1..Len(journal) /\ journal[i].op # "gc"
      BY <1>0, <2>2
    <3>1. a \in 0..Len(journal) /\ a < i /\ \A j \in (a + 1)..Len(journal) : j # i => journal[j].op = "gc"
      BY <1>1, <2>2
    <3>2. index.keys = ReplayedTo(journal, a).keys
      BY <1>1
    <3> HIDE DEF a
    <3>3. ReplayedTo(journal, Len(journal)).keys
            = [ReplayedTo(journal, a).keys EXCEPT ![journal[i].key] = journal[i].hash]
      <4>1. \A from \in 0..Len(journal), n \in 1..Len(journal) :
              from < n /\ journal[n].op # "gc"
              /\ (\A j \in (from + 1)..Len(journal) : j # n => journal[j].op = "gc")
                => ReplayedTo(journal, Len(journal)).keys
                     = [ReplayedTo(journal, from).keys EXCEPT ![journal[n].key] = journal[n].hash]
        BY <3>0, ReplayedMutation, Zenon
      <4> QED
        BY <3>0, <3>1, <4>1, Zenon
    <3> QED
      BY <1>2, <3>2, <3>3
  <2> QED
    BY <1>3, <1>4, <2>1, <2>2, <2>3, EffectOfPending
<1> QED
  BY <1>5, <1>6

\* All other steps stutter.
LEMMA RestStutters ==
  ASSUME ObjectsAssumption, ObjectsInv,
         \/ UNCHANGED vars \/ Collect \/ FailPass \/ Tick
         \/ Start \/ ReplayRecord \/ Rebuild \/ Crash \/ KillRebuild
         \/ \E c \in Clients : Request(c) \/ Refuse(c) \/ OpenBlob(c) \/ FailCommit(c)
  PROVE  UNCHANGED <<index.keys, OwedRecords, Pending>>
<1> USE DEF disk, replay
<1>1. CASE Collect \/ FailPass \/ Tick
  <2>1. /\ Pending' = Pending /\ index'.keys = index.keys
        /\ \A i \in DOMAIN journal : journal'[i] = journal[i]
    BY <1>1, SerialCollect DEF ObjectsInv
  <2>2. OwedRecords' = {[seq |-> i, key |-> journal'[i].key, hash |-> journal'[i].hash] : i \in Pending'}
    BY DEF OwedRecords, Pending
  <2>3. \A i \in Pending : i \in DOMAIN journal
    BY DEF Pending
  <2>4. OwedRecords' = OwedRecords
    BY <2>1, <2>2, <2>3, OwedIsPending
  <2> QED
    BY <2>1, <2>4
<1>2. CASE ~(Collect \/ FailPass \/ Tick)
  <2>1. ~Rebuild /\ ~KillRebuild
    BY DEF ObjectsAssumption, ObjectsInv, Rebuild, DropNamespaces, ResetIndex, KillRebuild
  <2>2. index' = index /\ journal' = journal
    BY <1>2, <2>1 DEF vars, Start, ReplayRecord, Crash, Halt, Request, StoreBlob, FindKey, ResolveKey, Refuse,
       OpenBlob, FailCommit
  <2> QED
    BY <2>2 DEF OwedRecords, Pending
<1> QED
  BY <1>1, <1>2

\* Every step of the store is one of the map's, or none.
LEMMA ObjectsStep ==
  ASSUME ObjectsAssumption, ObjectsInv, SerialInv', [Next]_vars
  PROVE  ObjectsInv' /\ [Objects!Next]_(Objects!vars)
<1> USE DEF disk, replay
<1>1. /\ \/ Objects!Accept
         \/ \E m \in OwedRecords : Objects!TakeEffect(m)
         \/ UNCHANGED <<index.keys, OwedRecords>>
      /\ \A i, j \in Pending' : i = j
  BY AppendIsAccept, CommitIsEffect, ReplayIsEffect, RestStutters
     DEF Next, Continue, Recovery, ObjectsInv
<1>2. mode' \in {"stopped", "recovering", "serving"}
  <2>1. CASE UNCHANGED vars
    BY <2>1 DEF vars, ObjectsInv
  <2>2. ASSUME Next PROVE mode' \in {"stopped", "recovering", "serving"}
    BY <2>2, QuietStep DEF ObjectsInv, SerialInv, ObjectsAssumption, Recovery, Rebuild, Start, ReplayRecord,
       CommitReplay, DropNamespaces, ResetIndex, Crash, KillRebuild, Halt
  <2> QED
    BY <2>1, <2>2
<1>3. ObjectsInv'
  BY <1>1, <1>2 DEF ObjectsInv
<1>4. [Objects!Next]_(Objects!vars)
  BY <1>1 DEF Objects!Next, Objects!vars
<1> QED
  BY <1>3, <1>4

\* The store of one writer is a map of objects: every accepted mutation takes
\* effect exactly once and in order, and nothing else changes an object, across
\* any number of crashes, recoveries, refused requests and collections.
THEOREM StoreImplementsObjects ==
  ASSUME ObjectsAssumption
  PROVE  Spec => ImplementsObjects
<1>0. SerialAssumption
  BY DEF ObjectsAssumption
<1>1. Init => Objects!Init
  BY DEF Init, Objects!Init, OwedRecords, EmptyIndex
<1>2. Init /\ SerialInv => ObjectsInv
  BY DEF Init, ObjectsInv, Pending
<1>3. ObjectsInv /\ SerialInv' /\ [Next]_vars => ObjectsInv' /\ [Objects!Next]_(Objects!vars)
  BY ObjectsStep
<1> QED
  BY <1>0, <1>1, <1>2, <1>3, StoreSerial, PTL DEF Spec, ImplementsObjects, Objects!Spec

-----------------------------------------------------------------------------
(***************************************************************************)
(* The collector, and content that is uploaded once.  What it takes can    *)
(* never be bound again: no handler carries it, no key is bound to it, and *)
(* every record that put it is behind all replays to come or followed by   *)
(* one that takes its key away.                                            *)
(***************************************************************************)
\* Content is uploaded once, the requests of a key come one after another, and
\* no index transaction of a request fails after its append: what the grace
\* period of the collector is enough for (gc.go).
OnceAssumption == Environment \subseteq {"crash", "passFails"} /\ Grace > 0

\* The records that bind a key to this content.
Puts(h) == {i \in DOMAIN journal : journal[i].op = "put" /\ journal[i].hash = h}

\* A later record of the same key takes the content of this one away.
SupersededBefore(i, n) == \E j \in DOMAIN journal : i < j /\ j < n /\ journal[j].key = journal[i].key
Superseded(i) == SupersededBefore(i, Len(journal) + 1)

\* A record no replay will ever read again.
Behind(i) == i <= index.applied /\ \A c \in Clients : Logged(c) => i < handler[c].seq

Unbound(ix, h) == \A k \in Keys : ix.keys[k] # h

\* Nothing binds this content and nothing will: no handler has it, and every
\* replay either passes its record over or goes on to a record that takes its
\* key away.
Forgotten(h) ==
  /\ h \in sent /\ Unbound(index, h)
  /\ \A c \in Clients : handler[c].hash # h
  /\ \A i \in Puts(h) : Behind(i) \/ Superseded(i)

SentOnce ==
  /\ stored \subseteq sent
  /\ \A h \in Hashes : /\ Puts(h) # {} => h \in sent
                       /\ \A i, j \in Puts(h) : i = j

\* Content between its upload and its commit is in one handler only, and
\* nowhere in the index.
Carrying(c) == handler[c].pc \in {"stored", "putLogged"}

CarriedOnce ==
  \A c \in Clients : Carrying(c) =>
    /\ handler[c].hash \in stored /\ mtime[handler[c].hash] = handler[c].since
    /\ ~index.refs[handler[c].hash].live /\ Unbound(index, handler[c].hash)
    /\ \A d \in Clients : d # c => handler[d].hash # handler[c].hash
    /\ handler[c].pc = "stored" => Puts(handler[c].hash) = {}

LoggedInOrder ==
  \A c \in Clients : Logged(c) =>
    /\ handler[c].seq \in DOMAIN journal
    /\ journal[handler[c].seq].key = handler[c].key
    /\ journal[handler[c].seq].hash = handler[c].hash
    /\ journal[handler[c].seq].op = (IF handler[c].pc = "putLogged" THEN "put" ELSE "delete")
    /\ \A i \in DOMAIN journal : journal[i].key = handler[c].key => i <= handler[c].seq

KeysApart ==
  \A c, d \in Clients : c # d /\ handler[c].pc \notin {"idle", "reading"}
                        /\ handler[d].pc \notin {"idle", "reading"}
    => handler[c].key # handler[d].key

InTime ==
  /\ gc.now <= clock
  /\ \A c \in Clients : handler[c].pc # "idle" =>
       handler[c].since <= clock /\ clock - handler[c].since < Grace

\* A count above zero has a record without a time.
Timeless(ix) == \A h \in Hashes : ix.refs[h].count > 0 => ix.refs[h].live /\ ix.refs[h].unref = NoTime

\* What an index binds was put, and is counted; what it counts, or counted,
\* it binds, unless another record of the key came later.
Recorded(ix) ==
  /\ CountExact(ix) /\ Timeless(ix)
  /\ \A k \in Keys : ix.keys[k] # None => \E i \in Puts(ix.keys[k]) : journal[i].key = k
  /\ \A h \in Hashes : ix.refs[h].live => Puts(h) # {}

IndexRecorded ==
  /\ Recorded(index)
  /\ \A k \in Keys : index.keys[k] # None => index.keys[k] \in stored
  /\ \A h \in Hashes : index.refs[h].live =>
       \A i \in Puts(h) : index.keys[journal[i].key] = h \/ Superseded(i)

Owned(i) == \E c \in Clients : handler[c].pc = "putLogged" /\ handler[c].seq = i

Accounted ==
  \A h \in Hashes : \A i \in Puts(h) :
    \/ Owned(i) \/ index.refs[h].live \/ Behind(i) \/ Superseded(i)
    \/ mode # "serving" /\ i > index.applied

MissingForgotten == \A h \in sent \ stored : Forgotten(h)

CollectingForgotten ==
  /\ gc.pc \in {"remove", "append"} => Forgotten(gc.cur) /\ \A i \in Puts(gc.cur) : Superseded(i)
  /\ gc.pc = "orphans" => \A h \in gc.todo : Forgotten(h)

CollectedForgotten ==
  \A g \in DOMAIN journal : journal[g].op = "gc" =>
    Forgotten(journal[g].hash) /\ \A i \in Puts(journal[g].hash) : SupersededBefore(i, g)

ReadersServed ==
  \A c \in Clients : handler[c].pc = "reading" =>
    LET h == handler[c].hash IN
    /\ h \in stored /\ index.refs[h].live
    /\ Unbound(index, h) => index.refs[h].unref >= handler[c].since

\* A replay that comes to record n has bound every key it met as the last record
\* says, and left the others alone.
Ordered(ix, n) ==
  /\ index.applied < n /\ ix.applied = n - 1
  /\ Recorded(ix)
  /\ \A k \in Keys :
       /\ (\A i \in DOMAIN journal : index.applied < i /\ i < n => journal[i].key # k)
            => ix.keys[k] = index.keys[k]
       /\ \A i \in DOMAIN journal :
            index.applied < i /\ i < n /\ journal[i].key = k /\ ~SupersededBefore(i, n)
              => ix.keys[k] = journal[i].hash
  /\ \A h \in Hashes : \A i \in Puts(h) :
       /\ ix.refs[h].live => ix.keys[journal[i].key] = h \/ Superseded(i) \/ n <= i
       /\ i < n => ix.refs[h].live \/ Behind(i) \/ Superseded(i)

ReplayInOrder == mode = "recovering" => Ordered(work, cursor)

OnceInv ==
  /\ TypeOK /\ QuietUnlessServing /\ mode \in {"stopped", "recovering", "serving"}
  /\ SentOnce /\ CarriedOnce /\ LoggedInOrder /\ KeysApart /\ InTime
  /\ IndexRecorded /\ Accounted /\ MissingForgotten
  /\ CollectingForgotten /\ CollectedForgotten /\ ReadersServed /\ ReplayInOrder

\* What is known of the values.
LEMMA OnceTypes ==
  ASSUME TypeOK
  PROVE  /\ journal \in Seq(Record) /\ Len(journal) \in Nat
         /\ DOMAIN journal = 1..Len(journal)
         /\ \A i \in DOMAIN journal : journal[i] \in Record /\ i \in Nat /\ i # 0
         /\ index \in Index /\ index.keys \in [Keys -> Hashes \cup {None}]
         /\ index.refs \in [Hashes -> Ref] /\ index.applied \in Nat
         /\ work \in Index /\ work.keys \in [Keys -> Hashes \cup {None}]
         /\ clock \in Nat /\ gc.now \in Nat /\ cursor \in Nat \ {0} /\ Grace \in Nat
         /\ stored \subseteq Hashes /\ sent \subseteq Hashes /\ mtime \in [Hashes -> Nat]
         /\ gc.todo \subseteq Hashes
         /\ \A c \in Clients : handler[c].seq \in Nat /\ handler[c].since \in Nat
<1>1. gc.now \in Nat /\ gc.todo \subseteq Hashes
  BY DEF TypeOK, CollectorState
<1>2. \A c \in Clients : handler[c].seq \in Nat /\ handler[c].since \in Nat
  BY DEF TypeOK, HandlerState, Idle
<1> QED
  BY <1>1, <1>2, GraceAssumption DEF TypeOK, Index

\* A record names a key unless it is the collector's, and content unless it
\* deletes a key.
LEMMA RecordIs ==
  ASSUME NEW rec \in Record
  PROVE  /\ rec.op = "put" => rec.key \in Keys /\ rec.hash \in Hashes
         /\ rec.op = "delete" => rec.key \in Keys /\ rec.hash = None
         /\ rec.op = "gc" => rec.key = None /\ rec.hash \in Hashes
         /\ rec.op \in {"put", "delete", "gc"}
         /\ rec.key \in Keys => rec.op # "gc"
         /\ rec.time \in Nat
BY NoneAssumption DEF Record

\* Content an exact index counts is bound, and has a record without a time.
LEMMA CountedIsBound ==
  ASSUME NEW ix \in Index, CountExact(ix), NEW h \in Hashes
  PROVE  /\ ix.refs[h].count \in Nat
         /\ ix.refs[h].count <= 0 <=> Unbound(ix, h)
         /\ Timeless(ix) /\ ~Unbound(ix, h) => ix.refs[h].live /\ ix.refs[h].unref = NoTime
<1>1. /\ IsFiniteSet(Bound(ix, h)) /\ Cardinality(Bound(ix, h)) \in Nat
      /\ ix.refs[h].count = Cardinality(Bound(ix, h))
  BY BoundFinite DEF CountExact
<1>2. Bound(ix, h) = {} <=> Unbound(ix, h)
  BY DEF Bound, Unbound
<1>3. Cardinality(Bound(ix, h)) = 0 <=> Bound(ix, h) = {}
  BY <1>1, FS_EmptySet
<1> QED
  BY <1>1, <1>2, <1>3 DEF Timeless

\* A put or a delete: a key moves to this content or to none.
Moved(ix, k, new, now) == IF new = None THEN Unbind(ix, k, now) ELSE Bind(ix, k, new, now)

\* What AdjustRef leaves of a record, and of the others.
LEMMA AdjustRefIs ==
  ASSUME NEW refs \in [Hashes -> Ref], NEW h \in Hashes, NEW d \in Int, NEW now \in Int,
         NEW g \in Hashes
  PROVE  LET r == AdjustRef(refs, h, d, now)[g]
         IN  /\ g # h => r = refs[g]
             /\ g = h => /\ r.live /\ r.count = refs[g].count + d
                         /\ r.count > 0 => r.unref = NoTime
                         /\ r.count <= 0 /\ refs[g].unref = NoTime => r.unref = now
BY DEF AdjustRef, Ref

\* The records a move leaves alone, and what it makes of the two it touches.
LEMMA MovedRefs ==
  ASSUME NEW ix \in Index, NEW k \in Keys, NEW new \in Hashes \cup {None}, NEW now \in Nat,
         NEW g \in Hashes
  PROVE  LET old == ix.keys[k]
             r == Moved(ix, k, new, now).refs[g]
         IN  /\ g \notin {old, new} \/ old = new => r = ix.refs[g]
             /\ g \in {old, new} /\ old # new =>
                  /\ r.live
                  /\ r.count > 0 => r.unref = NoTime
                  /\ r.count <= 0 /\ g = old /\ ix.refs[g].unref = NoTime => r.unref = now
<1> DEFINE old == ix.keys[k]
           released == Release(ix, old, now)
           r == Moved(ix, k, new, now).refs[g]
<1>1. ix.refs \in [Hashes -> Ref] /\ old \in Hashes \cup {None} /\ now \in Int /\ -1 \in Int /\ 1 \in Int
  BY DEF Index
<1>2. released \in [Hashes -> Ref]
  BY <1>1, ReleaseType
<1>3. /\ g # old => released[g] = ix.refs[g]
      /\ g = old => /\ released[g].live
                    /\ released[g].count > 0 => released[g].unref = NoTime
                    /\ released[g].count <= 0 /\ ix.refs[g].unref = NoTime =>
                         released[g].unref = now
  <2>1. CASE old = None
    BY <2>1, NoneAssumption DEF Release
  <2>2. CASE old # None
    <3>1. old \in Hashes /\ released = AdjustRef(ix.refs, old, -1, now)
      BY <1>1, <2>2 DEF Release
    <3> HIDE DEF old, released
    <3> QED
      BY <1>1, <3>1, AdjustRefIs
  <2> QED
    BY <2>1, <2>2
<1>4. CASE new = None
  <2>1. r = released[g]
    BY <1>1, <1>4, UnbindType DEF Moved
  <2>2. old = None => released = ix.refs
    BY DEF Release
  <2> HIDE DEF released, old, r
  <2> QED
    BY <1>3, <1>4, <2>1, <2>2, NoneAssumption DEF old, r
<1>5. CASE new # None /\ old = new
  BY <1>5 DEF Moved, Bind
<1>6. CASE new # None /\ old # new
  <2>1. new \in Hashes
    BY <1>6
  <2>2. r = AdjustRef(released, new, 1, now)[g]
    BY <1>1, <1>6 DEF Moved, Bind, Index
  <2> HIDE DEF released, old, r
  <2>3. /\ g # new => r = released[g]
        /\ g = new => r.live /\ (r.count > 0 => r.unref = NoTime)
    <3>1. /\ g # new => AdjustRef(released, new, 1, now)[g] = released[g]
          /\ g = new => /\ AdjustRef(released, new, 1, now)[g].live
                        /\ AdjustRef(released, new, 1, now)[g].count > 0 =>
                             AdjustRef(released, new, 1, now)[g].unref = NoTime
      <4>1. PICK a : a = AdjustRef(released, new, 1, now)
        OBVIOUS
      <4>2. 1 \in Int /\ now \in Int /\ new \in Hashes /\ released \in [Hashes -> Ref]
        BY <1>1, <1>2, <2>1
      <4>3. /\ g # new => a[g] = released[g]
            /\ g = new => a[g].live /\ (a[g].count > 0 => a[g].unref = NoTime)
        BY <4>1, <4>2, AdjustRefIs
      <4> QED
        BY <4>1, <4>3, Zenon
    <3> QED
      BY <2>2, <3>1, Zenon
  <2>4. CASE g = new
    <3>1. g # old /\ r.live /\ (r.count > 0 => r.unref = NoTime)
      BY <1>6, <2>3, <2>4
    <3> QED
      BY <2>4, <3>1, Zenon DEF old, r
  <2>5. CASE g # new /\ g = old
    <3>1. r = released[g]
      BY <2>3, <2>5
    <3>2. /\ r.live
          /\ r.count > 0 => r.unref = NoTime
          /\ r.count <= 0 /\ ix.refs[g].unref = NoTime => r.unref = now
      BY <1>3, <2>5, <3>1, Zenon
    <3> QED
      BY <1>6, <2>5, <3>2, Zenon DEF old, r
  <2>6. CASE g # new /\ g # old
    <3>1. r = ix.refs[g]
      BY <1>3, <2>3, <2>6, Zenon
    <3> QED
      BY <2>6, <3>1, Zenon DEF old, r
  <2> QED
    BY <2>4, <2>5, <2>6
<1> QED
  BY <1>4, <1>5, <1>6

\* A move keeps counts exact and times with what is not counted: it makes its
\* content live, and stamps the one it takes away when that was its last key.
LEMMA MovedIs ==
  ASSUME NEW ix \in Index, CountExact(ix), Timeless(ix), NEW k \in Keys,
         NEW new \in Hashes \cup {None}, NEW now \in Nat, NEW seq \in Nat
  PROVE  LET jx == AppliedTo(Moved(ix, k, new, now), seq)
         IN  /\ jx \in Index /\ jx.applied = seq
             /\ jx.keys = [ix.keys EXCEPT ![k] = new]
             /\ CountExact(jx) /\ Timeless(jx)
             /\ \A g \in Hashes : jx.refs[g].live <=> ix.refs[g].live \/ g = new
             /\ \A g \in Hashes : Unbound(ix, g) /\ g # new => jx.refs[g] = ix.refs[g]
             /\ \A g \in Hashes : ~Unbound(ix, g) /\ Unbound(jx, g) => jx.refs[g].unref = now
<1> DEFINE mx == Moved(ix, k, new, now)
           jx == AppliedTo(mx, seq)
           old == ix.keys[k]
<1>1. now \in Int /\ old \in Hashes \cup {None} /\ ix.keys \in [Keys -> Hashes \cup {None}]
      /\ ix.refs \in [Hashes -> Ref]
  BY DEF Index
<1>2. mx \in Index /\ mx.keys = [ix.keys EXCEPT ![k] = new]
  BY <1>1, BindType, UnbindType DEF Moved
<1>3. CountExact(jx)
  BY <1>1, BindCounts, UnbindCounts DEF Moved
<1>4. ASSUME NEW g \in Hashes
      PROVE  /\ g \notin {old, new} \/ old = new => mx.refs[g] = ix.refs[g]
             /\ g \in {old, new} /\ old # new =>
                  /\ mx.refs[g].live
                  /\ mx.refs[g].count > 0 => mx.refs[g].unref = NoTime
                  /\ mx.refs[g].count <= 0 /\ g = old /\ ix.refs[g].unref = NoTime =>
                       mx.refs[g].unref = now
  BY <1>4, MovedRefs
<1> HIDE DEF mx
<1>5. jx \in Index /\ jx.keys = mx.keys /\ jx.refs = mx.refs /\ jx.applied = seq
  BY <1>2, AppliedToType DEF AppliedTo, Index
<1> HIDE DEF jx
<1>6. ASSUME NEW g \in Hashes
      PROVE  /\ ix.refs[g].live \in BOOLEAN /\ jx.refs[g].live \in BOOLEAN
             /\ ix.refs[g].count \in Nat /\ jx.refs[g].count \in Nat
             /\ ix.refs[g].count <= 0 <=> Unbound(ix, g)
             /\ jx.refs[g].count <= 0 <=> Unbound(jx, g)
             /\ ~Unbound(ix, g) => ix.refs[g].live /\ ix.refs[g].unref = NoTime
  <2>1. ix.refs[g] \in Ref /\ jx.refs[g] \in Ref
    BY <1>1, <1>5 DEF Index
  <2>2. ix.refs[g].live \in BOOLEAN /\ jx.refs[g].live \in BOOLEAN
    BY <2>1 DEF Ref
  <2>3. /\ ix.refs[g].count \in Nat
        /\ ix.refs[g].count <= 0 <=> Unbound(ix, g)
        /\ ~Unbound(ix, g) => ix.refs[g].live /\ ix.refs[g].unref = NoTime
    BY CountedIsBound, Zenon
  <2>4. jx.refs[g].count \in Nat /\ (jx.refs[g].count <= 0 <=> Unbound(jx, g))
    BY <1>3, <1>5, CountedIsBound, Zenon
  <2> QED
    BY <2>2, <2>3, <2>4
<1>7. old \in Hashes => ~Unbound(ix, old)
  BY DEF Unbound
<1>8. Timeless(jx)
  <2> SUFFICES ASSUME NEW g \in Hashes, jx.refs[g].count > 0
               PROVE  jx.refs[g].live /\ jx.refs[g].unref = NoTime
    BY DEF Timeless
  <2>1. CASE mx.refs[g] = ix.refs[g]
    BY <1>5, <2>1 DEF Timeless
  <2>2. CASE mx.refs[g] # ix.refs[g]
    <3>1. /\ mx.refs[g].live
          /\ mx.refs[g].count > 0 => mx.refs[g].unref = NoTime
      BY <1>4, <2>2, Zenon
    <3> QED
      BY <1>5, <3>1
  <2> QED
    BY <2>1, <2>2
<1>9. ASSUME NEW g \in Hashes
      PROVE  jx.refs[g].live <=> ix.refs[g].live \/ g = new
  <2>1. CASE old = new
    BY <1>4, <1>5, <1>6, <1>7, <2>1
  <2>2. CASE old # new
    BY <1>4, <1>5, <1>6, <1>7, <2>2
  <2> QED
    BY <2>1, <2>2
<1>10. ASSUME NEW g \in Hashes, Unbound(ix, g), g # new
       PROVE  jx.refs[g] = ix.refs[g]
  BY <1>4, <1>5, <1>7, <1>10
<1>11. ASSUME NEW g \in Hashes, ~Unbound(ix, g), Unbound(jx, g)
       PROVE  jx.refs[g].unref = now
  <2>1. PICK l \in Keys : ix.keys[l] = g
    BY <1>11 DEF Unbound
  <2>2. l = k
    BY <1>1, <1>2, <1>5, <1>11, <2>1 DEF Unbound
  <2>3. g = old /\ new # old
    BY <1>1, <1>2, <1>5, <1>11, <2>1, <2>2 DEF Unbound
  <2> QED
    BY <1>4, <1>5, <1>6, <1>11, <2>3
<1> QED
  BY <1>2, <1>3, <1>5, <1>8, <1>9, <1>10, <1>11 DEF jx, mx

\* Requests and replays move keys; a replayed collection drops a record.
LEMMA ApplyMoves ==
  ASSUME NEW ix, NEW rec \in Record, NEW seq
  PROVE  /\ rec.op # "gc" =>
              Apply(ix, rec, seq) = AppliedTo(Moved(ix, rec.key, rec.hash, rec.time), seq)
         /\ rec.op = "gc" => Apply(ix, rec, seq) = AppliedTo(DropRef(ix, rec.hash), seq)
BY NoneAssumption DEF Apply, Moved, Record

\* A collection of what is not counted keeps an exact index exact.
LEMMA DropIs ==
  ASSUME NEW ix \in Index, CountExact(ix), Timeless(ix), NEW h \in Hashes, ix.refs[h].count <= 0
  PROVE  LET jx == DropRef(ix, h)
         IN  /\ jx \in Index /\ jx.keys = ix.keys /\ jx.applied = ix.applied
             /\ CountExact(jx) /\ Timeless(jx)
             /\ ~jx.refs[h].live
             /\ \A g \in Hashes : g # h => jx.refs[g] = ix.refs[g]
<1> DEFINE jx == DropRef(ix, h)
<1>1. /\ jx \in Index /\ jx.keys = ix.keys /\ jx.applied = ix.applied
      /\ jx.refs = [ix.refs EXCEPT ![h] = NoRef] /\ ix.refs \in [Hashes -> Ref]
  BY DropRefType DEF Index
<1>2. ix.refs[h].count = 0
  <2>1. ix.refs[h].count \in Nat
    BY CountedIsBound, Zenon
  <2> QED
    BY <2>1
<1> HIDE DEF jx
<1>3. jx.refs[h] = NoRef /\ \A g \in Hashes : g # h => jx.refs[g] = ix.refs[g]
  BY <1>1
<1>4. \A g \in Hashes : jx.refs[g].count = ix.refs[g].count
  BY <1>2, <1>3 DEF NoRef
<1>5. CountExact(jx)
  BY <1>1, <1>4 DEF CountExact, Bound
<1>6. Timeless(jx)
  BY <1>2, <1>3, <1>4 DEF Timeless
<1> QED
  BY <1>1, <1>3, <1>5, <1>6 DEF jx, NoRef

-----------------------------------------------------------------------------
\* Who changes what, when nothing rebuilds, no index transaction fails after
\* its append and content is uploaded once.
LEMMA OnceSteps ==
  ASSUME OnceAssumption, Next
  PROVE  /\ \/ journal' = journal
            \/ JournalCollected
            \/ \E c \in Clients : JournalPut(c) \/ JournalDelete(c)
         /\ \/ index' = index
            \/ mode = "dropped"
            \/ CommitReplay
            \/ \E c \in Clients : CommitPut(c) \/ CommitDelete(c)
            \/ \E h \in Hashes : DropExpired(h)
         /\ \/ UNCHANGED <<stored, mtime, sent>>
            \/ RemoveExpired
            \/ \E h \in Hashes : RemoveOrphan(h)
            \/ \E c \in Clients, k \in Keys, h \in Hashes : StoreBlob(c, k, h) /\ h \notin sent
         /\ \/ handler' = handler
            \/ Crash
            \/ \E c \in Clients :
                 \/ \E k \in Keys, h \in Hashes : StoreBlob(c, k, h) /\ h \notin sent
                 \/ \E k \in Keys : FindKey(c, k) \/ ResolveKey(c, k)
                 \/ Refuse(c) \/ OpenBlob(c)
                 \/ JournalPut(c) \/ JournalDelete(c) \/ CommitPut(c) \/ CommitDelete(c)
         /\ gc' = gc \/ Collect \/ FailPass \/ Crash
         /\ UNCHANGED <<mode, work, cursor>> \/ mode = "dropped" \/ Recovery \/ Crash
         /\ clock' = clock \/ Tick
<1> USE DEF disk, replay
<1>0. {"kill", "commitFails", "rebuild", "reupload"} \cap Environment = {}
  BY DEF OnceAssumption
<1>1. ASSUME NEW c \in Clients, NEW k \in Keys, NEW h \in Hashes, StoreBlob(c, k, h)
      PROVE  h \notin sent /\ UNCHANGED <<journal, index, gc, mode, work, cursor, clock>>
  BY <1>0, <1>1 DEF StoreBlob
<1>2. ASSUME NEW c \in Clients, NEW k \in Keys, FindKey(c, k) \/ ResolveKey(c, k)
      PROVE  UNCHANGED <<journal, index, stored, mtime, sent, gc, mode, work, cursor, clock>>
  BY <1>2 DEF FindKey, ResolveKey
<1>3. ASSUME NEW c \in Clients, Refuse(c) \/ OpenBlob(c)
      PROVE  UNCHANGED <<journal, index, stored, mtime, sent, gc, mode, work, cursor, clock>>
  BY <1>3 DEF Refuse, OpenBlob
<1>4. ASSUME NEW c \in Clients, JournalPut(c) \/ JournalDelete(c)
      PROVE  UNCHANGED <<index, stored, mtime, sent, gc, mode, work, cursor, clock>>
  BY <1>4 DEF JournalPut, JournalDelete
<1>5. ASSUME NEW c \in Clients, CommitPut(c) \/ CommitDelete(c)
      PROVE  UNCHANGED <<journal, stored, mtime, sent, gc, mode, work, cursor, clock>>
  BY <1>5 DEF CommitPut, CommitDelete
<1>6. ASSUME NEW c \in Clients PROVE ~FailCommit(c)
  BY <1>0 DEF FailCommit
<1>7. CASE StartPass \/ FindOrphans \/ EndPass \/ FailPass \/ \E h \in Hashes : SkipReferenced(h)
  <2>1. UNCHANGED <<journal, index, stored, mtime, sent, handler, mode, work, cursor, clock>>
    BY <1>7 DEF StartPass, FindOrphans, EndPass, FailPass, SkipReferenced
  <2> QED
    BY <1>7, <2>1 DEF Collect
<1>8. CASE RemoveExpired \/ \E h \in Hashes : RemoveOrphan(h)
  <2>1. UNCHANGED <<journal, index, handler, mode, work, cursor, clock>>
    BY <1>8 DEF RemoveExpired, RemoveOrphan
  <2> QED
    BY <1>8, <2>1 DEF Collect
<1>9. CASE JournalCollected
  <2>1. UNCHANGED <<index, stored, mtime, sent, handler, mode, work, cursor, clock>>
    BY <1>9 DEF JournalCollected
  <2> QED
    BY <1>9, <2>1 DEF Collect
<1>10. CASE \E h \in Hashes : DropExpired(h)
  <2>1. UNCHANGED <<journal, stored, mtime, sent, handler, mode, work, cursor, clock>>
    BY <1>10 DEF DropExpired
  <2> QED
    BY <1>10, <2>1 DEF Collect
<1>11. CASE Recovery
  <2>1. UNCHANGED <<journal, stored, mtime, sent, handler, gc, clock>>
    BY <1>11 DEF Recovery, Start, ReplayRecord, CommitReplay
  <2>2. index' = index \/ CommitReplay
    BY <1>11 DEF Recovery, Start, ReplayRecord
  <2> QED
    BY <1>11, <2>1, <2>2
<1>12. CASE Crash
  <2>1. UNCHANGED <<journal, index, stored, mtime, sent, clock>>
    BY <1>12 DEF Crash, Halt
  <2> QED
    BY <1>12, <2>1
<1>13. ~KillRebuild
  BY <1>0 DEF KillRebuild
<1>14. CASE Rebuild
  <2>1. mode = "dropped" /\ UNCHANGED <<journal, stored, mtime, sent, handler, gc, clock>>
    BY <1>0, <1>14 DEF Rebuild, DropNamespaces, ResetIndex
  <2> QED
    BY <2>1
<1>15. CASE Tick
  <2>1. UNCHANGED <<journal, index, stored, mtime, sent, handler, gc, mode, work, cursor>>
    BY <1>15 DEF Tick
  <2> QED
    BY <1>15, <2>1
<1>16. CASE \E c \in Clients, k \in Keys, h \in Hashes : StoreBlob(c, k, h)
  BY <1>1, <1>16
<1>17. CASE \E c \in Clients : \/ \E k \in Keys : FindKey(c, k) \/ ResolveKey(c, k)
                               \/ Refuse(c) \/ OpenBlob(c)
  <2>1. UNCHANGED <<journal, index, stored, mtime, sent, gc, mode, work, cursor, clock>>
    BY <1>2, <1>3, <1>17
  <2> QED
    BY <1>17, <2>1
<1>18. CASE \E c \in Clients : JournalPut(c) \/ JournalDelete(c)
  BY <1>4, <1>18
<1>19. CASE \E c \in Clients : CommitPut(c) \/ CommitDelete(c)
  BY <1>5, <1>19
<1> QED
  BY <1>6, <1>7, <1>8, <1>9, <1>10, <1>11, <1>12, <1>13, <1>14, <1>15, <1>16, <1>17,
     <1>18, <1>19 DEF Next, Request, Continue, Collect

\* The journal grows at its end: a record keeps its place, and stays behind one
\* that takes its key away; only the append of a put adds a place of content.
LEMMA JournalLasts ==
  ASSUME TypeOK, TypeOK', OnceAssumption, Next
  PROVE  /\ Len(journal) <= Len(journal') /\ DOMAIN journal \subseteq DOMAIN journal'
         /\ \A i \in DOMAIN journal : journal'[i] = journal[i]
         /\ \A i \in DOMAIN journal, n \in Nat : SupersededBefore(i, n) => SupersededBefore(i, n)'
         /\ \A i \in DOMAIN journal : Superseded(i) => Superseded(i)'
         /\ \A h : Puts(h) \subseteq Puts(h)'
         /\ \A h : \A i \in Puts(h)' :
              \/ i \in Puts(h)
              \/ \E c \in Clients : JournalPut(c) /\ handler[c].hash = h /\ i = Len(journal) + 1
<1>0. journal \in Seq(Record) /\ Len(journal) \in Nat /\ DOMAIN journal = 1..Len(journal)
  BY OnceTypes
<1>1. CASE journal' = journal
  BY <1>0, <1>1 DEF SupersededBefore, Superseded, Puts
<1>2. ASSUME NEW r \in Record, journal' = Append(journal, r)
      PROVE  /\ Len(journal') = Len(journal) + 1 /\ DOMAIN journal' = 1..(Len(journal) + 1)
             /\ \A i \in DOMAIN journal : journal'[i] = journal[i]
             /\ journal'[Len(journal) + 1] = r
  BY <1>0, <1>2
<1>3. ASSUME NEW r \in Record, journal' = Append(journal, r)
      PROVE  /\ Len(journal) <= Len(journal') /\ DOMAIN journal \subseteq DOMAIN journal'
             /\ \A i \in DOMAIN journal : journal'[i] = journal[i]
             /\ \A i \in DOMAIN journal, n \in Nat :
                  SupersededBefore(i, n) => SupersededBefore(i, n)'
             /\ \A i \in DOMAIN journal : Superseded(i) => Superseded(i)'
             /\ \A h : Puts(h) \subseteq Puts(h)'
             /\ \A h : \A i \in Puts(h)' :
                  \/ i \in Puts(h)
                  \/ r.op = "put" /\ r.hash = h /\ i = Len(journal) + 1
  <2>1. Len(journal) <= Len(journal') /\ DOMAIN journal \subseteq DOMAIN journal'
    BY <1>0, <1>2, <1>3
  <2>2. \A i \in DOMAIN journal, n \in Nat : SupersededBefore(i, n) => SupersededBefore(i, n)'
    BY <1>2, <1>3, <2>1 DEF SupersededBefore
  <2>3. \A i \in DOMAIN journal : Superseded(i) => Superseded(i)'
    BY <1>0, <1>2, <1>3, <2>1 DEF SupersededBefore, Superseded
  <2>4. \A h : Puts(h) \subseteq Puts(h)'
    BY <1>2, <1>3, <2>1 DEF Puts
  <2>5. \A h : \A i \in Puts(h)' : \/ i \in Puts(h)
                                   \/ r.op = "put" /\ r.hash = h /\ i = Len(journal) + 1
    BY <1>0, <1>2, <1>3 DEF Puts
  <2> QED
    BY <1>2, <1>3, <2>1, <2>2, <2>3, <2>4, <2>5
<1>4. ASSUME NEW c \in Clients, JournalPut(c)
      PROVE  \E r \in Record : journal' = Append(journal, r) /\ r.op = "put"
                               /\ r.hash = handler[c].hash
  <2> DEFINE r == PutRecord(handler[c].key, handler[c].hash, clock)
  <2>1. r \in Record /\ r.op = "put" /\ r.hash = handler[c].hash
    BY <1>4, HandlerFields DEF JournalPut, PutRecord, Record, TypeOK
  <2>2. journal' = Append(journal, r)
    BY <1>4 DEF JournalPut
  <2> QED
    BY <2>1, <2>2
<1>5. ASSUME NEW c \in Clients, JournalDelete(c)
      PROVE  \E r \in Record : journal' = Append(journal, r) /\ r.op = "delete"
  <2> DEFINE r == DeleteRecord(handler[c].key, clock)
  <2>1. r \in Record /\ r.op = "delete"
    BY <1>5, HandlerFields DEF JournalDelete, DeleteRecord, Record, TypeOK
  <2>2. journal' = Append(journal, r)
    BY <1>5 DEF JournalDelete
  <2> QED
    BY <2>1, <2>2
<1>6. CASE JournalCollected
  <2> DEFINE r == GCRecord(gc.cur, clock)
  <2>1. r \in Record /\ r.op = "gc"
    BY <1>6 DEF JournalCollected, TypeOK, CollectorState, GCRecord, Record
  <2>2. journal' = Append(journal, r)
    BY <1>6 DEF JournalCollected
  <2> HIDE DEF r
  <2> QED
    BY <1>3, <2>1, <2>2
<1>7. CASE \E c \in Clients : JournalPut(c) \/ JournalDelete(c)
  <2>1. PICK c \in Clients : JournalPut(c) \/ JournalDelete(c)
    BY <1>7
  <2>2. CASE JournalPut(c)
    <3>1. PICK r \in Record : journal' = Append(journal, r) /\ r.op = "put"
                              /\ r.hash = handler[c].hash
      BY <1>4, <2>2
    <3> QED
      BY <1>3, <2>2, <3>1
  <2>3. CASE JournalDelete(c)
    <3>1. PICK r \in Record : journal' = Append(journal, r) /\ r.op = "delete"
      BY <1>5, <2>3
    <3> QED
      BY <1>3, <3>1
  <2> QED
    BY <2>1, <2>2, <2>3
<1> QED
  BY <1>1, <1>6, <1>7, OnceSteps

\* What a replay has bound a key to: what the index did, when it met no record
\* of the key, or what the last one it met says.
LEMMA ReplayOf ==
  ASSUME TypeOK, NEW ix, NEW n \in Nat, Ordered(ix, n), NEW k \in Keys
  PROVE  \/ ix.keys[k] = index.keys[k]
         \/ \E m \in DOMAIN journal :
              /\ index.applied < m /\ m < n /\ journal[m].key = k
              /\ ~SupersededBefore(m, n)
              /\ ix.keys[k] = journal[m].hash
<1> DEFINE S == {i \in DOMAIN journal : index.applied < i /\ i < n /\ journal[i].key = k}
<1>0. DOMAIN journal \subseteq Nat /\ index.applied \in Nat
  <2>1. Len(journal) \in Nat /\ DOMAIN journal = 1..Len(journal) /\ index.applied \in Nat
    BY OnceTypes
  <2> QED
    BY <2>1
<1>1. CASE S = {}
  BY <1>1 DEF Ordered
<1>2. CASE S # {}
  <2>1. S \in SUBSET Nat /\ \A y \in S : y <= n
    BY <1>0
  <2>2. PICK m \in S : \A y \in S : y <= m
    BY <1>0, <1>2, <2>1, Greatest
  <2>3. ~SupersededBefore(m, n)
    <3> SUFFICES ASSUME NEW j \in DOMAIN journal, m < j, j < n, journal[j].key = k
                 PROVE  FALSE
      BY DEF SupersededBefore
    <3>1. j \in S
      BY <1>0, <2>2
    <3> QED
      BY <1>0, <2>2, <3>1
  <2>4. ix.keys[k] = journal[m].hash
    BY <2>3 DEF Ordered
  <2> QED
    BY <2>3, <2>4
<1> QED
  BY <1>1, <1>2

\* A replay does not bind what the index does not bind, when every record that
\* would is behind it or followed by another of its key before record n.
LEMMA ReplayUnbinds ==
  ASSUME TypeOK, NEW ix, NEW n \in Nat, Ordered(ix, n), NEW h \in Hashes, Unbound(index, h),
         \A i \in Puts(h) : i <= index.applied \/ SupersededBefore(i, n)
  PROVE  Unbound(ix, h)
<1> SUFFICES ASSUME NEW k \in Keys, ix.keys[k] = h
             PROVE  FALSE
  BY DEF Unbound
<1>1. PICK m \in DOMAIN journal : /\ index.applied < m /\ m < n /\ journal[m].key = k
                                  /\ ~SupersededBefore(m, n)
                                  /\ ix.keys[k] = journal[m].hash
  BY ReplayOf DEF Unbound
<1>2. journal[m] \in Record /\ m \in Nat /\ index.applied \in Nat
  BY OnceTypes
<1>3. m \in Puts(h)
  BY <1>1, <1>2, RecordIs, NoneAssumption DEF Puts
<1> QED
  BY <1>1, <1>2, <1>3

\* What becomes of one handler, and that one moves at a time (PutWith, Delete,
\* Get, and the crash that ends them all).
LEMMA HandlerSteps ==
  ASSUME TypeOK, OnceAssumption, Next, NEW d \in Clients
  PROVE  /\ \/ handler'[d] = handler[d]
            \/ /\ handler'[d] = Idle
               /\ Refuse(d) \/ OpenBlob(d) \/ CommitPut(d) \/ CommitDelete(d) \/ Crash
            \/ \E k \in Keys, h \in Hashes :
                 /\ StoreBlob(d, k, h) /\ h \notin sent
                 /\ handler'[d] = [pc |-> "stored", key |-> k, hash |-> h, seq |-> 0,
                                   since |-> clock]
            \/ \E k \in Keys :
                 /\ FindKey(d, k)
                 /\ handler'[d] = [pc |-> "found", key |-> k, hash |-> None, seq |-> 0,
                                   since |-> clock]
            \/ \E k \in Keys :
                 /\ ResolveKey(d, k)
                 /\ handler'[d] = [pc |-> "reading", key |-> k, hash |-> index.keys[k], seq |-> 0,
                                   since |-> clock]
            \/ /\ JournalPut(d)
               /\ handler'[d] = [pc |-> "putLogged", key |-> handler[d].key,
                                 hash |-> handler[d].hash, seq |-> Len(journal) + 1,
                                 since |-> handler[d].since]
            \/ /\ JournalDelete(d)
               /\ handler'[d] = [pc |-> "deleteLogged", key |-> handler[d].key, hash |-> None,
                                 seq |-> Len(journal) + 1, since |-> handler[d].since]
         /\ \A c \in Clients : c # d /\ (Request(c) \/ Continue(c)) => handler'[d] = handler[d]
<1>0. handler \in [Clients -> HandlerState]
  BY DEF TypeOK
<1>1. ASSUME NEW c \in Clients, Answer(c)
      PROVE  /\ c # d => handler'[d] = handler[d]
             /\ c = d => handler'[d] = Idle
  BY <1>0, <1>1 DEF Answer
<1>2. ASSUME NEW c \in Clients, NEW k \in Keys, NEW h \in Hashes, StoreBlob(c, k, h)
      PROVE  /\ c # d => handler'[d] = handler[d]
             /\ c = d => handler'[d] = [pc |-> "stored", key |-> k, hash |-> h, seq |-> 0,
                                        since |-> clock]
  BY <1>0, <1>2 DEF StoreBlob, Becomes
<1>3. ASSUME NEW c \in Clients, NEW k \in Keys, FindKey(c, k)
      PROVE  /\ c # d => handler'[d] = handler[d]
             /\ c = d => handler'[d] = [pc |-> "found", key |-> k, hash |-> None, seq |-> 0,
                                        since |-> clock]
  BY <1>0, <1>3 DEF FindKey, Becomes
<1>4. ASSUME NEW c \in Clients, NEW k \in Keys, ResolveKey(c, k)
      PROVE  /\ c # d => handler'[d] = handler[d]
             /\ c = d => handler'[d] = [pc |-> "reading", key |-> k, hash |-> index.keys[k],
                                        seq |-> 0, since |-> clock]
  BY <1>0, <1>4 DEF ResolveKey, Becomes
<1>5. ASSUME NEW c \in Clients, Refuse(c) \/ OpenBlob(c) \/ CommitPut(c) \/ CommitDelete(c)
      PROVE  Answer(c)
  BY <1>5 DEF Refuse, OpenBlob, CommitPut, CommitDelete
<1>6. ASSUME NEW c \in Clients, JournalPut(c)
      PROVE  /\ c # d => handler'[d] = handler[d]
             /\ c = d => handler'[d] = [pc |-> "putLogged", key |-> handler[d].key,
                                        hash |-> handler[d].hash, seq |-> Len(journal) + 1,
                                        since |-> handler[d].since]
  BY <1>0, <1>6 DEF JournalPut, Becomes
<1>7. ASSUME NEW c \in Clients, JournalDelete(c)
      PROVE  /\ c # d => handler'[d] = handler[d]
             /\ c = d => handler'[d] = [pc |-> "deleteLogged", key |-> handler[d].key,
                                        hash |-> None, seq |-> Len(journal) + 1,
                                        since |-> handler[d].since]
  BY <1>0, <1>7 DEF JournalDelete, Becomes
<1>8. ASSUME NEW c \in Clients, FailCommit(c)
      PROVE  FALSE
  BY <1>8 DEF FailCommit, OnceAssumption
<1>9. \A c \in Clients : c # d /\ (Request(c) \/ Continue(c)) => handler'[d] = handler[d]
  <2> SUFFICES ASSUME NEW c \in Clients, c # d, Request(c) \/ Continue(c)
               PROVE  handler'[d] = handler[d]
    BY Zenon
  <2>1. CASE Request(c)
    BY <1>2, <1>3, <1>4, <2>1 DEF Request
  <2>2. CASE Continue(c)
    BY <1>1, <1>5, <1>6, <1>7, <1>8, <2>2 DEF Continue
  <2> QED
    BY <2>1, <2>2
<1>10. CASE Crash
  <2>1. handler'[d] = Idle
    BY <1>10 DEF Crash, Halt
  <2> QED
    BY <1>9, <1>10, <2>1, Zenon
<1>11. CASE handler' = handler
  BY <1>11
<1>12. ASSUME NEW c \in Clients,
              \/ \E k \in Keys, h \in Hashes : StoreBlob(c, k, h) /\ h \notin sent
              \/ \E k \in Keys : FindKey(c, k) \/ ResolveKey(c, k)
              \/ Refuse(c) \/ OpenBlob(c)
              \/ JournalPut(c) \/ JournalDelete(c) \/ CommitPut(c) \/ CommitDelete(c)
       PROVE  c # d => handler'[d] = handler[d]
  BY <1>9, <1>12 DEF Request, Continue
<1>13. ASSUME NEW c \in Clients, c = d
       PROVE  /\ \A k \in Keys, h \in Hashes : StoreBlob(c, k, h) =>
                   handler'[d] = [pc |-> "stored", key |-> k, hash |-> h, seq |-> 0,
                                  since |-> clock]
              /\ \A k \in Keys : FindKey(c, k) =>
                   handler'[d] = [pc |-> "found", key |-> k, hash |-> None, seq |-> 0,
                                  since |-> clock]
              /\ \A k \in Keys : ResolveKey(c, k) =>
                   handler'[d] = [pc |-> "reading", key |-> k, hash |-> index.keys[k], seq |-> 0,
                                  since |-> clock]
              /\ Refuse(c) \/ OpenBlob(c) \/ CommitPut(c) \/ CommitDelete(c) => handler'[d] = Idle
  BY <1>1, <1>2, <1>3, <1>4, <1>5, <1>13
<1>14. CASE \E c \in Clients :
              \/ \E k \in Keys, h \in Hashes : StoreBlob(c, k, h) /\ h \notin sent
              \/ \E k \in Keys : FindKey(c, k) \/ ResolveKey(c, k)
              \/ Refuse(c) \/ OpenBlob(c)
              \/ JournalPut(c) \/ JournalDelete(c) \/ CommitPut(c) \/ CommitDelete(c)
  <2>1. PICK c \in Clients :
              \/ \E k \in Keys, h \in Hashes : StoreBlob(c, k, h) /\ h \notin sent
              \/ \E k \in Keys : FindKey(c, k) \/ ResolveKey(c, k)
              \/ Refuse(c) \/ OpenBlob(c)
              \/ JournalPut(c) \/ JournalDelete(c) \/ CommitPut(c) \/ CommitDelete(c)
    BY <1>14
  <2>2. CASE c # d
    BY <1>9, <1>12, <2>1, <2>2, Zenon
  <2>3. CASE c = d
    BY <1>6, <1>7, <1>9, <1>13, <2>1, <2>3, Zenon
  <2> QED
    BY <2>2, <2>3
<1> QED
  BY <1>9, <1>10, <1>11, <1>14, OnceSteps

\* A handler logs at the end of the journal, and has no content but what it
\* stored first or found bound.
LEMMA HandlerFate ==
  ASSUME TypeOK, OnceAssumption, Next, NEW d \in Clients
  PROVE  /\ Logged(d)' =>
              \/ handler'[d] = handler[d]
              \/ /\ JournalPut(d)
                 /\ handler'[d] = [pc |-> "putLogged", key |-> handler[d].key,
                                   hash |-> handler[d].hash, seq |-> Len(journal) + 1,
                                   since |-> handler[d].since]
              \/ /\ JournalDelete(d)
                 /\ handler'[d] = [pc |-> "deleteLogged", key |-> handler[d].key, hash |-> None,
                                   seq |-> Len(journal) + 1, since |-> handler[d].since]
         /\ \/ handler'[d].hash \in {handler[d].hash, None}
            \/ handler'[d].hash \notin sent
            \/ \E k \in Keys : handler'[d].hash = index.keys[k]
<1>1. CASE handler'[d] = handler[d]
  BY <1>1
<1>2. CASE handler'[d] = Idle
  BY <1>2 DEF Idle, Logged
<1>3. ASSUME NEW k \in Keys, NEW h \in Hashes, h \notin sent,
             handler'[d] = [pc |-> "stored", key |-> k, hash |-> h, seq |-> 0, since |-> clock]
      PROVE  handler'[d].hash \notin sent /\ ~Logged(d)'
  BY <1>3 DEF Logged
<1>4. ASSUME NEW k \in Keys,
             handler'[d] = [pc |-> "found", key |-> k, hash |-> None, seq |-> 0, since |-> clock]
      PROVE  handler'[d].hash = None /\ ~Logged(d)'
  BY <1>4 DEF Logged
<1>5. ASSUME NEW k \in Keys,
             handler'[d] = [pc |-> "reading", key |-> k, hash |-> index.keys[k], seq |-> 0,
                            since |-> clock]
      PROVE  handler'[d].hash = index.keys[k] /\ ~Logged(d)'
  BY <1>5 DEF Logged
<1>6. ASSUME handler'[d] = [pc |-> "putLogged", key |-> handler[d].key,
                            hash |-> handler[d].hash, seq |-> Len(journal) + 1,
                            since |-> handler[d].since]
      PROVE  handler'[d].hash \in {handler[d].hash, None}
  BY <1>6
<1>7. ASSUME handler'[d] = [pc |-> "deleteLogged", key |-> handler[d].key, hash |-> None,
                            seq |-> Len(journal) + 1, since |-> handler[d].since]
      PROVE  handler'[d].hash \in {handler[d].hash, None}
  BY <1>7
<1> QED
  BY <1>1, <1>2, <1>3, <1>4, <1>5, <1>6, <1>7, HandlerSteps, Zenon

\* A commit moves the key of its request to the content its record has (bind,
\* unbind), and the applied position to the record.
LEMMA CommitMoves ==
  ASSUME TypeOK, CountExact(index), Timeless(index), NEW c \in Clients,
         CommitPut(c) \/ CommitDelete(c)
  PROVE  /\ Logged(c) /\ handler[c].key \in Keys /\ handler[c].hash \in Hashes \cup {None}
         /\ handler[c].hash = None <=> handler[c].pc = "deleteLogged"
         /\ index' \in Index /\ index'.applied = handler[c].seq
         /\ index'.keys = [index.keys EXCEPT ![handler[c].key] = handler[c].hash]
         /\ CountExact(index') /\ Timeless(index')
         /\ \A g \in Hashes : index'.refs[g].live <=> index.refs[g].live \/ g = handler[c].hash
         /\ \A g \in Hashes :
              Unbound(index, g) /\ g # handler[c].hash => index'.refs[g] = index.refs[g]
         /\ \A g \in Hashes :
              ~Unbound(index, g) /\ Unbound(index', g) => index'.refs[g].unref = clock
<1> DEFINE k == handler[c].key
           h == handler[c].hash
           seq == handler[c].seq
<1>1. /\ Logged(c) /\ k \in Keys /\ h \in Hashes \cup {None} /\ seq \in Nat
      /\ h = None <=> handler[c].pc = "deleteLogged"
  BY NoneAssumption DEF CommitPut, CommitDelete, Logged, TypeOK, HandlerState, Idle
<1>2. index' = AppliedTo(Moved(index, k, h, clock), seq)
  <2>1. CASE CommitPut(c)
    BY <1>1, <2>1 DEF CommitPut, Moved
  <2>2. CASE CommitDelete(c)
    BY <1>1, <2>2 DEF CommitDelete, Moved
  <2> QED
    BY <2>1, <2>2
<1>3. index \in Index /\ clock \in Nat
  BY DEF TypeOK
<1> HIDE DEF k, h, seq
<1> DEFINE jx == AppliedTo(Moved(index, k, h, clock), seq)
<1>4. /\ jx \in Index /\ jx.applied = seq
      /\ jx.keys = [index.keys EXCEPT ![k] = h]
      /\ CountExact(jx) /\ Timeless(jx)
      /\ \A g \in Hashes : jx.refs[g].live <=> index.refs[g].live \/ g = h
      /\ \A g \in Hashes : Unbound(index, g) /\ g # h => jx.refs[g] = index.refs[g]
      /\ \A g \in Hashes : ~Unbound(index, g) /\ Unbound(jx, g) => jx.refs[g].unref = clock
  BY <1>1, <1>3, MovedIs
<1>5. index' = jx
  BY <1>2
<1> HIDE DEF jx
<1> QED
  BY <1>1, <1>4, <1>5, Zenon DEF k, h, seq

\* A collection takes a record, and with it nothing that is bound.
LEMMA DropMoves ==
  ASSUME TypeOK, CountExact(index), Timeless(index), NEW h \in Hashes, DropExpired(h)
  PROVE  /\ index.refs[h].live /\ Unbound(index, h)
         /\ gc.now - index.refs[h].unref >= Grace
         /\ index' \in Index /\ index'.keys = index.keys /\ index'.applied = index.applied
         /\ CountExact(index') /\ Timeless(index')
         /\ ~index'.refs[h].live
         /\ \A g \in Hashes : g # h => index'.refs[g] = index.refs[g]
<1>1. /\ index \in Index /\ index' = DropRef(index, h)
      /\ index.refs[h].live /\ index.refs[h].count <= 0
      /\ gc.now - index.refs[h].unref >= Grace
  BY DEF DropExpired, Collectable, TypeOK
<1>2. Unbound(index, h)
  BY <1>1, CountedIsBound, Zenon
<1> QED
  BY <1>1, <1>2, DropIs, Zenon

\* What an exact index makes of a step: requests and collections touch what
\* CommitMoves and DropMoves say, a recovery puts its copy in place.
LEMMA OnceIndex ==
  ASSUME OnceInv, OnceAssumption, Next
  PROVE  \/ index' = index
         \/ mode = "recovering" /\ index' = work /\ cursor > Len(journal) /\ CommitReplay
         \/ \E c \in Clients : CommitPut(c) \/ CommitDelete(c)
         \/ \E h \in Hashes : DropExpired(h)
<1>1. mode \notin {"dropped", "rebuilding"}
  BY DEF OnceInv
<1>2. CommitReplay => mode = "recovering" /\ index' = work /\ cursor > Len(journal)
  BY <1>1 DEF CommitReplay
<1> QED
  BY <1>1, <1>2, OnceSteps

\* A record no replay will read is never read again: the applied position goes
\* back only to a record appended later (CommitPut, Recover).
LEMMA BehindLasts ==
  ASSUME OnceInv, OnceAssumption, Next, NEW i \in DOMAIN journal, Behind(i)
  PROVE  Behind(i)'
<1>0. /\ TypeOK /\ ReplayInOrder /\ CountExact(index) /\ Timeless(index)
      /\ Len(journal) \in Nat /\ i \in Nat /\ i <= Len(journal) /\ cursor \in Nat
      /\ i <= index.applied /\ \A d \in Clients : Logged(d) => i < handler[d].seq
  <2>1. TypeOK /\ ReplayInOrder /\ CountExact(index) /\ Timeless(index)
    BY DEF OnceInv, IndexRecorded, Recorded
  <2>2. Len(journal) \in Nat /\ i \in 1..Len(journal) /\ cursor \in Nat
    BY <2>1, OnceTypes
  <2> QED
    BY <2>1, <2>2 DEF Behind
<1>1. i <= index'.applied
  <2>1. CASE index' = index
    BY <1>0, <2>1
  <2>2. CASE mode = "recovering" /\ index' = work /\ cursor > Len(journal)
    <3>1. work.applied = cursor - 1
      BY <1>0, <2>2 DEF ReplayInOrder, Ordered
    <3> QED
      BY <1>0, <2>2, <3>1
  <2>3. ASSUME NEW c \in Clients, CommitPut(c) \/ CommitDelete(c)
        PROVE  i <= index'.applied
    <3>1. Logged(c) /\ index'.applied = handler[c].seq /\ handler[c].seq \in Nat
      BY <1>0, <2>3, CommitMoves, OnceTypes
    <3> QED
      BY <1>0, <3>1
  <2>4. ASSUME NEW h \in Hashes, DropExpired(h)
        PROVE  i <= index'.applied
    BY <1>0, <2>4, DropMoves
  <2> QED
    BY <2>1, <2>2, <2>3, <2>4, OnceIndex
<1>2. ASSUME NEW d \in Clients, Logged(d)'
      PROVE  i < handler'[d].seq
  <2>1. CASE handler'[d] = handler[d]
    BY <1>0, <1>2, <2>1 DEF Logged
  <2>2. ASSUME NEW h, NEW pc,
               handler'[d] = [pc |-> pc, key |-> handler[d].key, hash |-> h,
                              seq |-> Len(journal) + 1, since |-> handler[d].since]
        PROVE  i < handler'[d].seq
    BY <1>0, <2>2
  <2> QED
    BY <1>0, <1>2, <2>1, <2>2, HandlerFate, Zenon
<1> QED
  BY <1>1, <1>2 DEF Behind

\* What is forgotten stays forgotten, whatever happens next.
LEMMA ForgottenLasts ==
  ASSUME OnceInv, OnceAssumption, Next, TypeOK', NEW h \in Hashes, Forgotten(h)
  PROVE  Forgotten(h)' /\ Puts(h)' = Puts(h)
<1>0. /\ TypeOK /\ ReplayInOrder /\ CountExact(index) /\ Timeless(index)
      /\ h \in sent /\ Unbound(index, h) /\ h # None
      /\ \A c \in Clients : handler[c].hash # h
      /\ \A i \in Puts(h) : Behind(i) \/ Superseded(i)
  BY NoneAssumption DEF OnceInv, IndexRecorded, Recorded, Forgotten
<1>1. Puts(h)' = Puts(h)
  <2>1. Puts(h) \subseteq Puts(h)' /\ \A i \in Puts(h)' : i \in Puts(h)
    BY <1>0, JournalLasts
  <2> QED
    BY <2>1
<1>2. h \in sent'
  BY <1>0, OnceSteps DEF RemoveExpired, RemoveOrphan, StoreBlob
<1>3. Unbound(index', h)
  <2>1. CASE index' = index
    BY <1>0, <2>1
  <2>2. CASE mode = "recovering" /\ index' = work /\ cursor > Len(journal)
    <3>0. Ordered(work, cursor) /\ cursor \in Nat
      BY <1>0, <2>2, OnceTypes DEF ReplayInOrder
    <3>1. \A i \in Puts(h) : i <= index.applied \/ SupersededBefore(i, cursor)
      <4> SUFFICES ASSUME NEW i \in Puts(h), SupersededBefore(i, Len(journal) + 1)
                   PROVE  SupersededBefore(i, cursor)
        BY <1>0 DEF Behind, Superseded
      <4>1. Len(journal) \in Nat /\ DOMAIN journal = 1..Len(journal) /\ cursor \in Nat
        BY <1>0, OnceTypes
      <4> QED
        BY <2>2, <4>1 DEF SupersededBefore
    <3> QED
      BY <1>0, <2>2, <3>0, <3>1, ReplayUnbinds
  <2>3. ASSUME NEW c \in Clients, CommitPut(c) \/ CommitDelete(c)
        PROVE  Unbound(index', h)
    <3>1. index'.keys = [index.keys EXCEPT ![handler[c].key] = handler[c].hash]
          /\ index.keys \in [Keys -> Hashes \cup {None}]
      BY <1>0, <2>3, CommitMoves, OnceTypes
    <3> QED
      BY <1>0, <3>1 DEF Unbound
  <2>4. ASSUME NEW g \in Hashes, DropExpired(g)
        PROVE  Unbound(index', h)
    BY <1>0, <2>4, DropMoves DEF Unbound
  <2> QED
    BY <2>1, <2>2, <2>3, <2>4, OnceIndex
<1>4. ASSUME NEW d \in Clients
      PROVE  handler'[d].hash # h
  BY <1>0, HandlerFate DEF Unbound
<1>5. \A i \in Puts(h) : Behind(i)' \/ Superseded(i)'
  <2>1. \A i \in Puts(h) : i \in DOMAIN journal
    BY DEF Puts
  <2>2. \A i \in Puts(h) : Superseded(i) => Superseded(i)'
    BY <1>0, <2>1, JournalLasts
  <2>3. \A i \in Puts(h) : Behind(i) => Behind(i)'
    BY <2>1, BehindLasts
  <2> QED
    BY <1>0, <2>2, <2>3
<1> QED
  BY <1>1, <1>2, <1>3, <1>4, <1>5 DEF Forgotten

\* Content goes up once and is recorded once (blob.Put, PutWith).
LEMMA SentOnceStep ==
  ASSUME OnceInv, OnceAssumption, Next, TypeOK'
  PROVE  SentOnce'
<1>0. TypeOK /\ SentOnce /\ CarriedOnce
  BY DEF OnceInv
<1>1. stored' \subseteq sent' /\ sent \subseteq sent'
  <2>1. CASE UNCHANGED <<stored, mtime, sent>>
    BY <1>0, <2>1 DEF SentOnce
  <2>2. CASE RemoveExpired \/ \E h \in Hashes : RemoveOrphan(h)
    BY <1>0, <2>2 DEF SentOnce, RemoveExpired, RemoveOrphan
  <2>3. CASE \E c \in Clients, k \in Keys, h \in Hashes : StoreBlob(c, k, h)
    BY <1>0, <2>3 DEF SentOnce, StoreBlob
  <2> QED
    BY <2>1, <2>2, <2>3, OnceSteps
<1>2. ASSUME NEW c \in Clients, JournalPut(c)
      PROVE  handler[c].hash \in sent /\ Puts(handler[c].hash) = {}
  BY <1>0, <1>2 DEF JournalPut, CarriedOnce, Carrying, SentOnce
<1>3. ASSUME NEW h \in Hashes, NEW i \in Puts(h)'
      PROVE  h \in sent' /\ \A j \in Puts(h)' : i = j
  <2>1. CASE \E c \in Clients : JournalPut(c) /\ handler[c].hash = h
    <3>1. h \in sent /\ Puts(h) = {}
      BY <1>2, <2>1
    <3>2. \A j \in Puts(h)' : j = Len(journal) + 1
      BY <1>0, <3>1, JournalLasts
    <3> QED
      BY <1>1, <3>1, <3>2
  <2>2. CASE ~\E c \in Clients : JournalPut(c) /\ handler[c].hash = h
    <3>1. \A j \in Puts(h)' : j \in Puts(h)
      BY <1>0, <2>2, JournalLasts
    <3> QED
      BY <1>0, <1>1, <3>1 DEF SentOnce
  <2> QED
    BY <2>1, <2>2
<1> QED
  BY <1>1, <1>3 DEF SentOnce

\* Requests that change keys change different ones (the upload queue of an
\* agent holds a key once).
LEMMA KeysApartStep ==
  ASSUME OnceInv, OnceAssumption, Next
  PROVE  KeysApart'
<1>0. TypeOK /\ KeysApart
  BY DEF OnceInv
<1> DEFINE Changes(d) == handler[d].pc \notin {"idle", "reading"}
<1>1. ASSUME NEW d \in Clients, NEW k \in Keys,
             (\E h \in Hashes : StoreBlob(d, k, h)) \/ FindKey(d, k)
      PROVE  \A e \in Clients : e # d =>
               handler'[e] = handler[e] /\ (handler[e].pc = "reading" \/ handler[e].key # k)
  <2>1. Request(d)
    BY <1>1 DEF Request
  <2>2. \A e \in Clients : handler[e].pc = "reading" \/ handler[e].key # k
    BY <1>1 DEF StoreBlob, FindKey, MayChange, OnceAssumption
  <2>3. \A e \in Clients : e # d => handler'[e] = handler[e]
    BY <1>0, <2>1, HandlerSteps
  <2> QED
    BY <2>2, <2>3
<1>2. ASSUME NEW d \in Clients, handler'[d].pc \notin {"idle", "reading"}
      PROVE  \/ Changes(d) /\ handler'[d].key = handler[d].key
             \/ \A e \in Clients : e # d =>
                  /\ handler'[e] = handler[e]
                  /\ handler[e].pc = "reading" \/ handler[e].key # handler'[d].key
  <2>1. CASE handler'[d] = handler[d]
    BY <1>2, <2>1
  <2>2. CASE handler'[d] = Idle
    BY <1>2, <2>2 DEF Idle
  <2>3. ASSUME NEW k \in Keys, NEW h \in Hashes, StoreBlob(d, k, h),
               handler'[d] = [pc |-> "stored", key |-> k, hash |-> h, seq |-> 0, since |-> clock]
        PROVE  \A e \in Clients : e # d =>
                  /\ handler'[e] = handler[e]
                  /\ handler[e].pc = "reading" \/ handler[e].key # handler'[d].key
    <3>1. handler'[d].key = k
      BY <2>3
    <3> QED
      BY <1>1, <2>3, <3>1
  <2>4. ASSUME NEW k \in Keys, FindKey(d, k),
               handler'[d] = [pc |-> "found", key |-> k, hash |-> None, seq |-> 0,
                              since |-> clock]
        PROVE  \A e \in Clients : e # d =>
                  /\ handler'[e] = handler[e]
                  /\ handler[e].pc = "reading" \/ handler[e].key # handler'[d].key
    <3>1. handler'[d].key = k
      BY <2>4
    <3> QED
      BY <1>1, <2>4, <3>1
  <2>5. ASSUME NEW k \in Keys,
               handler'[d] = [pc |-> "reading", key |-> k, hash |-> index.keys[k], seq |-> 0,
                              since |-> clock]
        PROVE  FALSE
    BY <1>2, <2>5
  <2>6. CASE /\ JournalPut(d)
             /\ handler'[d] = [pc |-> "putLogged", key |-> handler[d].key,
                               hash |-> handler[d].hash, seq |-> Len(journal) + 1,
                               since |-> handler[d].since]
    <3>1. Changes(d)
      BY <2>6 DEF JournalPut
    <3> QED
      BY <2>6, <3>1
  <2>7. CASE /\ JournalDelete(d)
             /\ handler'[d] = [pc |-> "deleteLogged", key |-> handler[d].key, hash |-> None,
                               seq |-> Len(journal) + 1, since |-> handler[d].since]
    <3>1. Changes(d)
      BY <2>7 DEF JournalDelete
    <3> QED
      BY <2>7, <3>1
  <2> HIDE DEF Changes
  <2> QED
    BY <1>0, <2>1, <2>2, <2>3, <2>4, <2>5, <2>6, <2>7, HandlerSteps, Zenon
<1>3. ASSUME NEW c \in Clients, NEW d \in Clients, c # d,
             handler'[c].pc \notin {"idle", "reading"},
             handler'[d].pc \notin {"idle", "reading"}
      PROVE  handler'[c].key # handler'[d].key
  <2>1. CASE \A e \in Clients : e # c =>
               /\ handler'[e] = handler[e]
               /\ handler[e].pc = "reading" \/ handler[e].key # handler'[c].key
    BY <1>3, <2>1
  <2>2. CASE \A e \in Clients : e # d =>
               /\ handler'[e] = handler[e]
               /\ handler[e].pc = "reading" \/ handler[e].key # handler'[d].key
    BY <1>3, <2>2
  <2>3. CASE /\ Changes(c) /\ handler'[c].key = handler[c].key
             /\ Changes(d) /\ handler'[d].key = handler[d].key
    BY <1>0, <1>3, <2>3 DEF KeysApart
  <2> HIDE DEF Changes
  <2> QED
    BY <1>2, <1>3, <2>1, <2>2, <2>3
<1> QED
  BY <1>3, Zenon DEF KeysApart

\* A logged request knows its record, the last of its key (appendMutation).
LEMMA LoggedInOrderStep ==
  ASSUME OnceInv, OnceAssumption, Next, TypeOK'
  PROVE  LoggedInOrder'
<1>0. /\ TypeOK /\ KeysApart /\ LoggedInOrder
      /\ journal \in Seq(Record) /\ Len(journal) \in Nat /\ DOMAIN journal = 1..Len(journal)
  BY OnceTypes DEF OnceInv
<1>1. /\ DOMAIN journal \subseteq DOMAIN journal'
      /\ \A i \in DOMAIN journal : journal'[i] = journal[i]
  BY <1>0, JournalLasts
<1> DEFINE InOrder(d) ==
      /\ handler'[d].seq \in DOMAIN journal'
      /\ journal'[handler'[d].seq].key = handler'[d].key
      /\ journal'[handler'[d].seq].hash = handler'[d].hash
      /\ journal'[handler'[d].seq].op = (IF handler'[d].pc = "putLogged" THEN "put" ELSE "delete")
      /\ \A i \in DOMAIN journal' : journal'[i].key = handler'[d].key => i <= handler'[d].seq
<1>2. ASSUME NEW d \in Clients, JournalPut(d),
             handler'[d] = [pc |-> "putLogged", key |-> handler[d].key,
                            hash |-> handler[d].hash, seq |-> Len(journal) + 1,
                            since |-> handler[d].since]
      PROVE  InOrder(d)
  <2>1. /\ journal' = Append(journal, PutRecord(handler[d].key, handler[d].hash, clock))
        /\ PutRecord(handler[d].key, handler[d].hash, clock) \in Record
    BY <1>0, <1>2, HandlerFields DEF JournalPut, PutRecord, Record, TypeOK
  <2>2. /\ DOMAIN journal' = 1..(Len(journal) + 1)
        /\ journal'[Len(journal) + 1] = PutRecord(handler[d].key, handler[d].hash, clock)
    BY <1>0, <2>1
  <2> QED
    BY <1>0, <1>2, <2>2 DEF PutRecord
<1>3. ASSUME NEW d \in Clients, JournalDelete(d),
             handler'[d] = [pc |-> "deleteLogged", key |-> handler[d].key, hash |-> None,
                            seq |-> Len(journal) + 1, since |-> handler[d].since]
      PROVE  InOrder(d)
  <2>1. /\ journal' = Append(journal, DeleteRecord(handler[d].key, clock))
        /\ DeleteRecord(handler[d].key, clock) \in Record
    BY <1>0, <1>3, HandlerFields DEF JournalDelete, DeleteRecord, Record, TypeOK
  <2>2. /\ DOMAIN journal' = 1..(Len(journal) + 1)
        /\ journal'[Len(journal) + 1] = DeleteRecord(handler[d].key, clock)
    BY <1>0, <2>1
  <2> QED
    BY <1>0, <1>3, <2>2 DEF DeleteRecord
<1>4. ASSUME NEW d \in Clients, Logged(d), NEW i \in DOMAIN journal', i \notin DOMAIN journal
      PROVE  journal'[i].key # handler[d].key
  <2>0. handler[d].key \in Keys
    BY <1>0, <1>4, HandlerFields DEF Logged
  <2>1. ASSUME NEW c \in Clients, JournalPut(c) \/ JournalDelete(c)
        PROVE  journal'[i].key # handler[d].key
    <3>1. handler[c].key # handler[d].key
      BY <1>0, <1>4, <2>1 DEF KeysApart, Logged, JournalPut, JournalDelete
    <3>2. journal'[i].key = handler[c].key
      <4>1. CASE JournalPut(c)
        BY <1>0, <1>4, <4>1 DEF JournalPut, PutRecord
      <4>2. CASE JournalDelete(c)
        BY <1>0, <1>4, <4>2 DEF JournalDelete, DeleteRecord
      <4> QED
        BY <2>1, <4>1, <4>2
    <3> QED
      BY <3>1, <3>2
  <2>2. CASE JournalCollected
    <3>1. journal'[i].key = None
      BY <1>0, <1>4, <2>2 DEF JournalCollected, GCRecord
    <3> QED
      BY <2>0, <3>1, NoneAssumption
  <2>3. CASE journal' = journal
    BY <1>4, <2>3
  <2> QED
    BY <2>1, <2>2, <2>3, OnceSteps
<1>5. ASSUME NEW d \in Clients, Logged(d), handler'[d] = handler[d]
      PROVE  InOrder(d)
  <2>1. /\ handler[d].seq \in DOMAIN journal
        /\ journal[handler[d].seq].key = handler[d].key
        /\ journal[handler[d].seq].hash = handler[d].hash
        /\ journal[handler[d].seq].op = (IF handler[d].pc = "putLogged" THEN "put" ELSE "delete")
        /\ \A i \in DOMAIN journal : journal[i].key = handler[d].key => i <= handler[d].seq
    BY <1>0, <1>5 DEF LoggedInOrder
  <2>2. \A i \in DOMAIN journal' : journal'[i].key = handler[d].key => i <= handler[d].seq
    BY <1>1, <1>4, <1>5, <2>1
  <2> QED
    BY <1>1, <1>5, <2>1, <2>2
<1> HIDE DEF InOrder
<1>6. ASSUME NEW d \in Clients, Logged(d)'
      PROVE  InOrder(d)
  <2>1. handler'[d] = handler[d] => Logged(d)
    BY <1>6 DEF Logged
  <2> QED
    BY <1>0, <1>2, <1>3, <1>5, <1>6, <2>1, HandlerFate, Zenon
<1> QED
  BY <1>6, Zenon DEF LoggedInOrder, InOrder

\* A pass and a request look at a clock that does not go back, and no request
\* outlives the grace period (gc.go).
LEMMA InTimeStep ==
  ASSUME OnceInv, OnceAssumption, Next
  PROVE  InTime'
<1>0. /\ TypeOK /\ InTime
      /\ clock \in Nat /\ gc.now \in Nat /\ Grace \in Nat /\ Grace > 0
      /\ \A c \in Clients : handler[c].since \in Nat
  BY OnceTypes DEF OnceInv, OnceAssumption
<1>1. clock' \in Nat /\ clock <= clock'
  BY <1>0, OnceSteps DEF Tick
<1>2. gc'.now \in {gc.now, clock, 0}
  <2>0. gc \in CollectorState
    BY <1>0 DEF TypeOK
  <2>1. CASE EndPass \/ FailPass \/ Crash
    BY <2>1 DEF EndPass, FailPass, Crash, Halt, Sleeping
  <2>2. CASE StartPass
    BY <2>0, <2>2 DEF StartPass, CollectorState
  <2>3. CASE RemoveExpired \/ JournalCollected \/ FindOrphans
    BY <2>0, <2>3 DEF RemoveExpired, JournalCollected, FindOrphans, CollectorState
  <2>4. ASSUME NEW h \in Hashes, DropExpired(h) \/ SkipReferenced(h) \/ RemoveOrphan(h)
        PROVE  gc'.now = gc.now
    BY <2>0, <2>4 DEF DropExpired, SkipReferenced, RemoveOrphan, CollectorState
  <2> QED
    BY <2>1, <2>2, <2>3, <2>4, OnceSteps DEF Collect
<1>3. ASSUME NEW d \in Clients, handler'[d].pc # "idle"
      PROVE  \/ handler[d].pc # "idle" /\ handler'[d].since = handler[d].since
             \/ handler'[d].since = clock
  <2>1. CASE handler'[d] = handler[d]
    BY <1>3, <2>1
  <2>2. CASE handler'[d] = Idle
    BY <1>3, <2>2 DEF Idle
  <2>3. ASSUME NEW pc, NEW k, NEW h,
               handler'[d] = [pc |-> pc, key |-> k, hash |-> h, seq |-> 0, since |-> clock]
        PROVE  handler'[d].since = clock
    BY <2>3
  <2>4. ASSUME NEW k \in Keys,
               handler'[d] = [pc |-> "reading", key |-> k, hash |-> index.keys[k], seq |-> 0,
                              since |-> clock]
        PROVE  handler'[d].since = clock
    BY <2>4
  <2>5. CASE /\ JournalPut(d)
             /\ handler'[d] = [pc |-> "putLogged", key |-> handler[d].key,
                               hash |-> handler[d].hash, seq |-> Len(journal) + 1,
                               since |-> handler[d].since]
    BY <2>5 DEF JournalPut
  <2>6. CASE /\ JournalDelete(d)
             /\ handler'[d] = [pc |-> "deleteLogged", key |-> handler[d].key, hash |-> None,
                               seq |-> Len(journal) + 1, since |-> handler[d].since]
    BY <2>6 DEF JournalDelete
  <2> QED
    BY <1>0, <2>1, <2>2, <2>3, <2>4, <2>5, <2>6, HandlerSteps, Zenon
<1>4. ASSUME NEW d \in Clients, handler'[d].pc # "idle"
      PROVE  handler'[d].since <= clock' /\ clock' - handler'[d].since < Grace
  <2>1. CASE clock' = clock
    <3>1. handler'[d].since \in Nat
      BY <1>0, <1>3, <1>4
    <3>2. handler'[d].since <= clock /\ clock - handler'[d].since < Grace
      BY <1>0, <1>3, <1>4, <3>1 DEF InTime
    <3> QED
      BY <2>1, <3>2
  <2>2. CASE Tick
    BY <1>0, <1>4, <2>2 DEF Tick, InTime
  <2> QED
    BY <2>1, <2>2, OnceSteps
<1> QED
  BY <1>0, <1>1, <1>2, <1>4 DEF InTime

\* Only what is forgotten leaves the disk (collectExpired, collectOrphans).
LEMMA StoredLasts ==
  ASSUME OnceInv, OnceAssumption, Next, NEW h \in stored, h \notin stored'
  PROVE  Forgotten(h)
<1>1. CASE UNCHANGED <<stored, mtime, sent>>
  BY <1>1
<1>2. CASE RemoveExpired
  BY <1>2 DEF RemoveExpired, OnceInv, CollectingForgotten
<1>3. ASSUME NEW g \in Hashes, RemoveOrphan(g)
      PROVE  Forgotten(h)
  BY <1>3 DEF RemoveOrphan, OnceInv, CollectingForgotten
<1>4. ASSUME NEW c \in Clients, NEW k \in Keys, NEW g \in Hashes, StoreBlob(c, k, g)
      PROVE  Forgotten(h)
  BY <1>4 DEF StoreBlob
<1> QED
  BY <1>1, <1>2, <1>3, <1>4, OnceSteps

\* Whatever is on its way in a request was uploaded, and so was what any
\* request names (PutWith, Get).
LEMMA NamedIsSent ==
  ASSUME OnceInv, NEW d \in Clients
  PROVE  handler[d].hash \in sent \cup {None}
<1>1. TypeOK /\ SentOnce /\ CarriedOnce /\ ReadersServed
  BY DEF OnceInv
<1>2. CASE handler[d].pc \in {"stored", "putLogged", "reading"}
  BY <1>1, <1>2 DEF SentOnce, CarriedOnce, Carrying, ReadersServed
<1>3. CASE handler[d].pc \notin {"stored", "putLogged", "reading"}
  BY <1>1, <1>3 DEF TypeOK, HandlerState, Idle
<1> QED
  BY <1>2, <1>3

\* A request carries content because it just stored it, or because it did and
\* has now logged it.
LEMMA CarryingFate ==
  ASSUME TypeOK, OnceAssumption, Next, NEW d \in Clients, Carrying(d)'
  PROVE  \/ /\ Carrying(d) /\ ~CommitPut(d) /\ ~CommitDelete(d)
            /\ handler'[d].hash = handler[d].hash /\ handler'[d].since = handler[d].since
            /\ handler'[d].pc = "stored" => handler[d].pc = "stored" /\ ~JournalPut(d)
         \/ \E k \in Keys, h \in Hashes :
              /\ StoreBlob(d, k, h) /\ h \notin sent
              /\ handler'[d] = [pc |-> "stored", key |-> k, hash |-> h, seq |-> 0,
                                since |-> clock]
<1>0. handler'[d].pc \in {"stored", "putLogged"} /\ handler \in [Clients -> HandlerState]
  BY DEF Carrying, TypeOK
<1>1. CASE handler'[d] = handler[d]
  <2>1. ~CommitPut(d) /\ ~CommitDelete(d) /\ ~JournalPut(d)
    <3>1. CommitPut(d) \/ CommitDelete(d) => handler'[d] = Idle
      BY <1>0 DEF CommitPut, CommitDelete, Answer
    <3>2. JournalPut(d) => handler'[d].pc = "putLogged" /\ handler[d].pc = "stored"
      BY <1>0 DEF JournalPut, Becomes
    <3> QED
      BY <1>0, <1>1, <3>1, <3>2 DEF Idle
  <2> QED
    BY <1>0, <1>1, <2>1 DEF Carrying
<1>2. CASE handler'[d] = Idle
  BY <1>0, <1>2 DEF Idle
<1>3. ASSUME NEW k \in Keys,
             handler'[d] = [pc |-> "found", key |-> k, hash |-> None, seq |-> 0, since |-> clock]
      PROVE  FALSE
  BY <1>0, <1>3
<1>4. ASSUME NEW k \in Keys,
             handler'[d] = [pc |-> "reading", key |-> k, hash |-> index.keys[k], seq |-> 0,
                            since |-> clock]
      PROVE  FALSE
  BY <1>0, <1>4
<1>5. ASSUME handler'[d] = [pc |-> "deleteLogged", key |-> handler[d].key, hash |-> None,
                            seq |-> Len(journal) + 1, since |-> handler[d].since]
      PROVE  FALSE
  BY <1>0, <1>5
<1>6. ASSUME JournalPut(d),
             handler'[d] = [pc |-> "putLogged", key |-> handler[d].key,
                            hash |-> handler[d].hash, seq |-> Len(journal) + 1,
                            since |-> handler[d].since]
      PROVE  /\ Carrying(d) /\ ~CommitPut(d) /\ ~CommitDelete(d)
             /\ handler'[d].hash = handler[d].hash /\ handler'[d].since = handler[d].since
             /\ handler'[d].pc # "stored"
  BY <1>6 DEF JournalPut, CommitPut, CommitDelete, Carrying
<1> QED
  BY <1>1, <1>2, <1>3, <1>4, <1>5, <1>6, HandlerSteps, Zenon

\* A request is alone with the content it carries (blob.Put, bind).
LEMMA CarriedOnceStep ==
  ASSUME OnceInv, OnceAssumption, Next, TypeOK'
  PROVE  CarriedOnce'
<1>0. /\ TypeOK /\ SentOnce /\ CarriedOnce /\ CountExact(index) /\ Timeless(index)
      /\ \A k \in Keys : index.keys[k] # None => \E i \in Puts(index.keys[k]) : TRUE
      /\ \A h \in Hashes : index.refs[h].live => Puts(h) # {}
      /\ index.keys \in [Keys -> Hashes \cup {None}] /\ mtime \in [Hashes -> Nat]
      /\ stored \subseteq Hashes
  BY OnceTypes DEF OnceInv, IndexRecorded, Recorded
<1> DEFINE CarriedWell(c, h) ==
             /\ h \in stored' /\ mtime'[h] = handler'[c].since
             /\ ~index'.refs[h].live /\ Unbound(index', h)
             /\ \A d \in Clients : d # c => handler'[d].hash # h
             /\ handler'[c].pc = "stored" => Puts(h)' = {}
<1>1. ASSUME NEW c \in Clients, NEW k \in Keys, NEW h \in Hashes, StoreBlob(c, k, h),
             h \notin sent,
             handler'[c] = [pc |-> "stored", key |-> k, hash |-> h, seq |-> 0, since |-> clock]
      PROVE  CarriedWell(c, h)
  <2>1. /\ UNCHANGED <<journal, index>> /\ stored' = stored \cup {h} /\ h \notin stored
        /\ mtime' = [mtime EXCEPT ![h] = clock]
    BY <1>0, <1>1 DEF StoreBlob, SentOnce
  <2>2. Puts(h) = {}
    BY <1>0, <1>1 DEF SentOnce
  <2>3. ~index.refs[h].live /\ Unbound(index, h)
    BY <1>0, <2>2, NoneAssumption DEF Unbound
  <2>4. Puts(h)' = {}
    BY <2>1, <2>2 DEF Puts
  <2>5. Request(c)
    BY <1>1 DEF Request
  <2>6. \A d \in Clients : d # c => handler'[d].hash # h
    <3> SUFFICES ASSUME NEW d \in Clients, d # c PROVE handler'[d].hash # h
      OBVIOUS
    <3>1. handler'[d] = handler[d]
      BY <1>0, <2>5, HandlerSteps
    <3> QED
      BY <1>1, <3>1, NamedIsSent, NoneAssumption
  <2>7. mtime'[h] = clock
    BY <1>0, <2>1
  <2> QED
    BY <1>1, <2>1, <2>3, <2>4, <2>6, <2>7
<1>2. ASSUME NEW c \in Clients, NEW h, h = handler[c].hash,
             Carrying(c), ~CommitPut(c), ~CommitDelete(c), handler'[c].since = handler[c].since,
             handler'[c].pc = "stored" => handler[c].pc = "stored" /\ ~JournalPut(c)
      PROVE  CarriedWell(c, h)
  <2>0. /\ h \in stored /\ h \in Hashes /\ h \in sent /\ mtime[h] = handler[c].since
        /\ ~index.refs[h].live /\ Unbound(index, h) /\ h # None
        /\ \A d \in Clients : d # c => handler[d].hash # h
        /\ handler[c].pc = "stored" => Puts(h) = {}
    BY <1>0, <1>2, NoneAssumption DEF CarriedOnce, SentOnce
  <2>1. h \in stored'
    <3>1. ~Forgotten(h)
      BY <1>2 DEF Forgotten
    <3> QED
      BY <2>0, <3>1, StoredLasts
  <2>2. mtime'[h] = mtime[h]
    <3>1. ASSUME NEW d \in Clients, NEW k \in Keys, NEW g \in Hashes, StoreBlob(d, k, g),
                 g \notin sent
          PROVE  mtime'[h] = mtime[h]
      BY <1>0, <2>0, <3>1 DEF StoreBlob
    <3>2. RemoveExpired \/ (\E g \in Hashes : RemoveOrphan(g)) => mtime' = mtime
      BY DEF RemoveExpired, RemoveOrphan
    <3> QED
      BY <3>1, <3>2, OnceSteps
  <2>3. ~index'.refs[h].live /\ Unbound(index', h)
    <3>1. CASE index' = index
      BY <2>0, <3>1
    <3>2. CASE mode = "recovering"
      BY <1>2, <3>2 DEF OnceInv, QuietUnlessServing, NoRequest, Carrying
    <3>3. ASSUME NEW d \in Clients, CommitPut(d) \/ CommitDelete(d)
          PROVE  ~index'.refs[h].live /\ Unbound(index', h)
      <4>1. handler[d].hash # h
        BY <1>2, <2>0, <3>3
      <4>2. /\ index'.keys = [index.keys EXCEPT ![handler[d].key] = handler[d].hash]
            /\ index'.refs[h].live <=> index.refs[h].live \/ h = handler[d].hash
        BY <1>0, <2>0, <3>3, CommitMoves
      <4> QED
        BY <1>0, <2>0, <4>1, <4>2 DEF Unbound
    <3>4. ASSUME NEW g \in Hashes, DropExpired(g)
          PROVE  ~index'.refs[h].live /\ Unbound(index', h)
      BY <1>0, <2>0, <3>4, DropMoves DEF Unbound
    <3> QED
      BY <3>1, <3>2, <3>3, <3>4, OnceIndex
  <2>4. ASSUME NEW d \in Clients, d # c
        PROVE  handler'[d].hash # h
    <3>1. handler[d].hash # h
      BY <2>0, <2>4
    <3> QED
      BY <1>0, <2>0, <3>1, HandlerFate DEF Unbound
  <2>5. handler'[c].pc = "stored" => Puts(h)' = {}
    <3> SUFFICES ASSUME handler'[c].pc = "stored", NEW i \in Puts(h)' PROVE FALSE
      OBVIOUS
    <3>1. handler[c].pc = "stored" /\ ~JournalPut(c) /\ Puts(h) = {}
      BY <1>2, <2>0
    <3>2. \E d \in Clients : JournalPut(d) /\ handler[d].hash = h
      BY <1>0, <3>1, JournalLasts
    <3> QED
      BY <2>0, <3>1, <3>2
  <2> QED
    BY <1>2, <2>0, <2>1, <2>2, <2>3, <2>4, <2>5
<1> HIDE DEF CarriedWell
<1>3. ASSUME NEW c \in Clients, Carrying(c)', NEW h, h = handler'[c].hash
      PROVE  CarriedWell(c, h)
  <2>1. ASSUME NEW k \in Keys, NEW g \in Hashes, StoreBlob(c, k, g), g \notin sent,
               handler'[c] = [pc |-> "stored", key |-> k, hash |-> g, seq |-> 0, since |-> clock]
        PROVE  CarriedWell(c, h)
    <3>1. CarriedWell(c, g) /\ g = h
      BY <1>1, <1>3, <2>1
    <3> QED
      BY <3>1
  <2> QED
    BY <1>0, <1>2, <1>3, <2>1, CarryingFate, Zenon
<1>4. ASSUME NEW c \in Clients, Carrying(c)'
      PROVE  /\ handler'[c].hash \in stored' /\ mtime'[handler'[c].hash] = handler'[c].since
             /\ ~index'.refs[handler'[c].hash].live /\ Unbound(index', handler'[c].hash)
             /\ \A d \in Clients : d # c => handler'[d].hash # handler'[c].hash
             /\ handler'[c].pc = "stored" =>
                  \A i \in DOMAIN journal' : ~(journal'[i].op = "put"
                                               /\ journal'[i].hash = handler'[c].hash)
  <2>1. PICK h : h = handler'[c].hash
    OBVIOUS
  <2>2. CarriedWell(c, h)
    BY <1>3, <1>4, <2>1
  <2>3. Puts(h)' = {} => \A i \in DOMAIN journal' : ~(journal'[i].op = "put"
                                                     /\ journal'[i].hash = h)
    BY DEF Puts
  <2> QED
    BY <2>1, <2>2, <2>3 DEF CarriedWell
<1> QED
  BY <1>4 DEF CarriedOnce, Puts, Unbound

\* A collection takes a record nobody will need: no request carries or reads
\* its content, no key has it, and every record that bound it is superseded
\* (collectExpired).
LEMMA DropForgets ==
  ASSUME OnceInv, NEW h \in Hashes, DropExpired(h)
  PROVE  Forgotten(h) /\ \A i \in Puts(h) : Superseded(i)
<1>0. /\ TypeOK /\ SentOnce /\ CarriedOnce /\ InTime /\ ReadersServed
      /\ CountExact(index) /\ Timeless(index)
      /\ \A g \in Hashes : index.refs[g].live =>
           Puts(g) # {} /\ \A i \in Puts(g) : index.keys[journal[i].key] = g \/ Superseded(i)
      /\ clock \in Nat /\ gc.now \in Nat /\ Grace \in Nat
      /\ index.refs \in [Hashes -> Ref]
      /\ \A c \in Clients : handler[c].since \in Nat
  BY OnceTypes DEF OnceInv, IndexRecorded, Recorded
<1>1. /\ index.refs[h].live /\ Unbound(index, h)
      /\ gc.now - index.refs[h].unref >= Grace
  BY <1>0, DropMoves
<1>2. h \in sent /\ \A i \in Puts(h) : Superseded(i)
  <2>1. \A i \in Puts(h) : journal[i].key \in Keys
    BY <1>0, OnceTypes, RecordIs DEF Puts
  <2> QED
    BY <1>0, <1>1, <2>1 DEF SentOnce, Unbound
<1>3. ASSUME NEW c \in Clients, handler[c].hash = h
      PROVE  FALSE
  <2>1. handler[c].pc \in {"stored", "putLogged", "reading"}
    BY <1>0, <1>3, NoneAssumption DEF TypeOK, HandlerState, Idle
  <2>2. CASE Carrying(c)
    BY <1>0, <1>1, <1>3, <2>2 DEF CarriedOnce
  <2>3. CASE handler[c].pc = "reading"
    <3>1. index.refs[h].unref >= handler[c].since /\ index.refs[h].unref \in Int
      BY <1>0, <1>1, <1>3, <2>3 DEF ReadersServed, Ref
    <3>2. gc.now <= clock /\ clock - handler[c].since < Grace
      BY <1>0, <2>3 DEF InTime
    <3> QED
      BY <1>0, <1>1, <3>1, <3>2
  <2> QED
    BY <2>1, <2>2, <2>3 DEF Carrying
<1> QED
  BY <1>1, <1>2, <1>3 DEF Forgotten

\* And a walk over the blobs picks no file anybody will need: it is older than
\* any request, and without a record (collectOrphans).
LEMMA OrphansForgotten ==
  ASSUME OnceInv, gc.pc = "expire", NEW h \in stored, gc.now - mtime[h] >= Grace,
         ~index.refs[h].live
  PROVE  Forgotten(h)
<1>0. /\ TypeOK /\ SentOnce /\ CarriedOnce /\ LoggedInOrder /\ InTime /\ ReadersServed
      /\ Accounted /\ CountExact(index) /\ Timeless(index) /\ mode = "serving"
      /\ clock \in Nat /\ gc.now \in Nat /\ Grace \in Nat
      /\ index \in Index /\ h \in Hashes /\ h \in sent /\ h # None
      /\ \A c \in Clients : handler[c].since \in Nat
  BY OnceTypes, NoneAssumption DEF OnceInv, IndexRecorded, Recorded, SentOnce, QuietUnlessServing
<1>1. Unbound(index, h)
  BY <1>0, CountedIsBound, Zenon
<1>2. ASSUME NEW c \in Clients, handler[c].hash = h
      PROVE  FALSE
  <2>1. handler[c].pc \in {"stored", "putLogged", "reading"}
    BY <1>0, <1>2 DEF TypeOK, HandlerState, Idle
  <2>2. CASE Carrying(c)
    <3>1. mtime[h] = handler[c].since
      BY <1>0, <1>2, <2>2 DEF CarriedOnce
    <3>2. gc.now <= clock /\ clock - handler[c].since < Grace
      BY <1>0, <2>1 DEF InTime
    <3> QED
      BY <1>0, <3>1, <3>2
  <2>3. CASE handler[c].pc = "reading"
    BY <1>0, <1>2, <2>3 DEF ReadersServed
  <2> QED
    BY <2>1, <2>2, <2>3 DEF Carrying
<1>3. ASSUME NEW i \in Puts(h)
      PROVE  Behind(i) \/ Superseded(i)
  <2>1. ~Owned(i)
    <3> SUFFICES ASSUME NEW c \in Clients, handler[c].pc = "putLogged", handler[c].seq = i
                 PROVE  FALSE
      BY DEF Owned
    <3>1. journal[i].hash = handler[c].hash
      BY <1>0 DEF LoggedInOrder, Logged
    <3> QED
      BY <1>2, <1>3, <3>1 DEF Puts
  <2> QED
    BY <1>0, <1>3, <2>1 DEF Accounted
<1> QED
  BY <1>0, <1>1, <1>2, <1>3 DEF Forgotten

\* What the index holds was put, is on disk, and is counted, whoever moves it
\* (bind, unbind, collectExpired, Recover).
LEMMA IndexRecordedStep ==
  ASSUME OnceInv, OnceAssumption, Next, TypeOK'
  PROVE  IndexRecorded'
<1>0. /\ TypeOK /\ SentOnce /\ CarriedOnce /\ LoggedInOrder /\ MissingForgotten /\ ReplayInOrder
      /\ CountExact(index) /\ Timeless(index)
      /\ \A k \in Keys : index.keys[k] # None =>
           index.keys[k] \in stored /\ \E i \in Puts(index.keys[k]) : journal[i].key = k
      /\ \A h \in Hashes : index.refs[h].live =>
           Puts(h) # {} /\ \A i \in Puts(h) : index.keys[journal[i].key] = h \/ Superseded(i)
      /\ index.keys \in [Keys -> Hashes \cup {None}] /\ work.keys \in [Keys -> Hashes \cup {None}]
      /\ Len(journal) \in Nat /\ DOMAIN journal = 1..Len(journal)
      /\ cursor \in Nat
  BY OnceTypes DEF OnceInv, IndexRecorded, Recorded
<1> DEFINE Kept(jx) ==
             /\ CountExact(jx) /\ Timeless(jx)
             /\ \A k \in Keys : jx.keys[k] # None =>
                  jx.keys[k] \in stored /\ \E i \in Puts(jx.keys[k]) : journal[i].key = k
             /\ \A h \in Hashes : jx.refs[h].live =>
                  Puts(h) # {} /\ \A i \in Puts(h) : jx.keys[journal[i].key] = h \/ Superseded(i)
<1>1. CASE index' = index
  <2>1. \A h : Puts(h) \subseteq Puts(h)' /\ Puts(h) \subseteq DOMAIN journal
    BY <1>0, JournalLasts DEF Puts
  <2>2. \A i \in DOMAIN journal : journal'[i] = journal[i] /\ (Superseded(i) => Superseded(i)')
    BY <1>0, JournalLasts
  <2>3. CountExact(index)' /\ Timeless(index)'
    BY <1>0, <1>1 DEF CountExact, Timeless, Bound
  <2>4. ASSUME NEW k \in Keys, NEW h, h = index.keys[k], h # None
        PROVE  h \in stored' /\ \E i \in Puts(h)' : journal'[i].key = k
    <3>1. h \in stored
      BY <1>0, <2>4
    <3>2. ~Forgotten(h)
      BY <2>4 DEF Forgotten, Unbound
    <3>3. PICK i \in Puts(h) : journal[i].key = k
      BY <1>0, <2>4
    <3> QED
      BY <2>1, <2>2, <3>1, <3>2, <3>3, StoredLasts
  <2>5. ASSUME NEW h \in Hashes, index.refs[h].live
        PROVE  Puts(h)' # {} /\ \A i \in Puts(h)' : index.keys[journal'[i].key] = h \/ Superseded(i)'
    <3>1. ~\E c \in Clients : JournalPut(c) /\ handler[c].hash = h
      BY <1>0, <2>5 DEF CarriedOnce, Carrying, JournalPut
    <3>2. \A i \in Puts(h)' : i \in Puts(h)
      BY <1>0, <3>1, JournalLasts
    <3> QED
      BY <1>0, <2>1, <2>2, <2>5, <3>2
  <2>6. ASSUME NEW k \in Keys, index'.keys[k] # None
        PROVE  /\ index'.keys[k] \in stored'
               /\ \E i \in DOMAIN journal' : /\ journal'[i].op = "put"
                                             /\ journal'[i].hash = index'.keys[k]
                                             /\ journal'[i].key = k
    <3>1. PICK h : h = index.keys[k]
      OBVIOUS
    <3> QED
      BY <1>1, <2>4, <2>6, <3>1 DEF Puts
  <2> QED
    BY <1>1, <2>3, <2>5, <2>6 DEF IndexRecorded, Recorded, Puts
<1>2. ASSUME UNCHANGED <<journal, stored>>, Kept(index')
      PROVE  IndexRecorded'
  <2>1. CountExact(index)' /\ Timeless(index)'
    BY <1>2 DEF CountExact, Timeless, Bound
  <2> QED
    BY <1>2, <2>1 DEF IndexRecorded, Recorded, Puts, Superseded, SupersededBefore
<1>3. ASSUME NEW c \in Clients, CommitPut(c) \/ CommitDelete(c)
      PROVE  Kept(index')
  <2> DEFINE key == handler[c].key
             new == handler[c].hash
             seq == handler[c].seq
  <2>1. /\ Logged(c) /\ key \in Keys /\ new \in Hashes \cup {None}
        /\ new = None <=> handler[c].pc = "deleteLogged"
        /\ index'.keys = [index.keys EXCEPT ![key] = new]
        /\ CountExact(index') /\ Timeless(index')
        /\ \A g \in Hashes : index'.refs[g].live <=> index.refs[g].live \/ g = new
    BY <1>0, <1>3, CommitMoves
  <2>2. /\ seq \in DOMAIN journal /\ journal[seq].key = key /\ journal[seq].hash = new
        /\ journal[seq].op = (IF new = None THEN "delete" ELSE "put")
        /\ \A i \in DOMAIN journal : journal[i].key = key => i <= seq
    <3>1. new = None <=> handler[c].pc # "putLogged"
      BY <2>1 DEF Logged
    <3> QED
      BY <1>0, <2>1, <3>1 DEF LoggedInOrder
  <2>3. new # None => new \in stored
    <3>1. new # None => handler[c].pc = "putLogged"
      BY <2>1 DEF Logged
    <3> QED
      BY <1>0, <3>1 DEF CarriedOnce, Carrying
  <2> HIDE DEF key, new, seq
  <2>4. new # None => seq \in Puts(new)
    BY <2>2 DEF Puts
  <2>5. ASSUME NEW k \in Keys, index'.keys[k] # None
        PROVE  index'.keys[k] \in stored /\ \E i \in Puts(index'.keys[k]) : journal[i].key = k
    <3>1. CASE k = key
      BY <1>0, <2>1, <2>2, <2>3, <2>4, <2>5, <3>1
    <3>2. CASE k # key
      BY <1>0, <2>1, <2>5, <3>2
    <3> QED
      BY <3>1, <3>2
  <2>6. ASSUME NEW h \in Hashes, index'.refs[h].live
        PROVE  Puts(h) # {} /\ \A i \in Puts(h) : index'.keys[journal[i].key] = h \/ Superseded(i)
    <3>1. CASE h = new
      <4>1. seq \in Puts(h) /\ new # None
        BY <2>4, <3>1, NoneAssumption
      <4>2. \A i \in Puts(h) : i = seq
        BY <1>0, <4>1 DEF SentOnce
      <4> QED
        BY <1>0, <2>1, <2>2, <3>1, <4>1, <4>2
    <3>2. CASE h # new
      <4>1. Puts(h) # {} /\ \A i \in Puts(h) : index.keys[journal[i].key] = h \/ Superseded(i)
        BY <1>0, <2>1, <2>6, <3>2
      <4>2. ASSUME NEW i \in Puts(h), index.keys[journal[i].key] = h, journal[i].key = key
            PROVE  Superseded(i)
        <5>1. i \in DOMAIN journal /\ i # seq /\ i <= seq
          BY <2>2, <3>2, <4>2 DEF Puts
        <5> QED
          BY <1>0, <2>2, <4>2, <5>1 DEF Superseded, SupersededBefore
      <4>3. \A i \in Puts(h) : journal[i].key \in Keys
        BY <1>0, OnceTypes, RecordIs DEF Puts
      <4> QED
        BY <1>0, <2>1, <4>1, <4>2, <4>3
    <3> QED
      BY <3>1, <3>2
  <2> QED
    BY <2>1, <2>5, <2>6
<1>4. ASSUME NEW h \in Hashes, DropExpired(h)
      PROVE  Kept(index')
  <2>1. /\ index'.keys = index.keys /\ CountExact(index') /\ Timeless(index')
        /\ ~index'.refs[h].live
        /\ \A g \in Hashes : g # h => index'.refs[g] = index.refs[g]
    BY <1>0, <1>4, DropMoves
  <2>2. \A g \in Hashes : index'.refs[g].live => index.refs[g].live
    BY <2>1
  <2> QED
    BY <1>0, <2>1, <2>2
<1>5. ASSUME mode = "recovering", index' = work, cursor > Len(journal)
      PROVE  Kept(index')
  <2>1. Recorded(work)
    BY <1>0, <1>5 DEF ReplayInOrder, Ordered
  <2>2. ASSUME NEW k \in Keys, work.keys[k] # None
        PROVE  work.keys[k] \in stored
    <3>1. PICK h \in Hashes : h = work.keys[k]
      BY <1>0, <2>2
    <3>2. h \in sent
      BY <1>0, <2>1, <2>2, <3>1 DEF Recorded, SentOnce
    <3>3. CASE h \notin stored
      <4>1. Forgotten(h)
        BY <1>0, <3>2, <3>3 DEF MissingForgotten
      <4>2. \A i \in Puts(h) : i <= index.applied \/ SupersededBefore(i, cursor)
        <5>1. \A i \in Puts(h) : i <= index.applied \/ SupersededBefore(i, Len(journal) + 1)
          BY <4>1 DEF Forgotten, Behind, Superseded
        <5>2. \A i : SupersededBefore(i, Len(journal) + 1) => SupersededBefore(i, cursor)
          BY <1>0, <1>5 DEF SupersededBefore
        <5> QED
          BY <5>1, <5>2
      <4>3. Unbound(work, h)
        BY <1>0, <1>5, <4>1, <4>2, ReplayUnbinds DEF ReplayInOrder, Forgotten
      <4> QED
        BY <3>1, <4>3 DEF Unbound
    <3> QED
      BY <3>1, <3>3
  <2>3. ASSUME NEW h \in Hashes, work.refs[h].live
        PROVE  \A i \in Puts(h) : work.keys[journal[i].key] = h \/ Superseded(i)
    <3> SUFFICES ASSUME NEW i \in Puts(h)
                 PROVE  work.keys[journal[i].key] = h \/ Superseded(i)
      OBVIOUS
    <3>1. i \in 1..Len(journal)
      BY <1>0 DEF Puts
    <3>2. ~(cursor <= i)
      BY <1>0, <1>5, <3>1
    <3>3. work.keys[journal[i].key] = h \/ Superseded(i) \/ cursor <= i
      <4>1. ReplayInOrder /\ mode = "recovering"
        BY <1>0, <1>5
      <4> QED
        BY <2>3, <4>1, Zenon DEF ReplayInOrder, Ordered
    <3> QED
      BY <3>2, <3>3
  <2>4. CountExact(index') /\ Timeless(index')
    BY <1>5, <2>1 DEF Recorded, CountExact, Timeless, Bound
  <2>5. \A k \in Keys : work.keys[k] # None =>
          work.keys[k] \in stored /\ \E i \in Puts(work.keys[k]) : journal[i].key = k
    BY <2>1, <2>2 DEF Recorded
  <2>6. \A h \in Hashes : work.refs[h].live =>
          Puts(h) # {} /\ \A i \in Puts(h) : work.keys[journal[i].key] = h \/ Superseded(i)
    BY <2>1, <2>3 DEF Recorded
  <2>7. index' = work
    BY <1>5
  <2> QED
    BY <2>4, <2>5, <2>6, <2>7
<1> HIDE DEF Kept
<1>6. ASSUME NEW c \in Clients, CommitPut(c) \/ CommitDelete(c)
      PROVE  UNCHANGED <<journal, stored>>
  BY <1>6 DEF CommitPut, CommitDelete, disk
<1>7. ASSUME NEW h \in Hashes, DropExpired(h)
      PROVE  UNCHANGED <<journal, stored>>
  BY <1>7 DEF DropExpired, disk
<1>8. CommitReplay => UNCHANGED <<journal, stored>>
  BY DEF CommitReplay, disk
<1> QED
  BY <1>1, <1>2, <1>3, <1>4, <1>5, <1>6, <1>7, <1>8, OnceIndex

\* Every put is on its way in its request, or counted, or ahead of a recovery,
\* or past (PutWith, bind, collectExpired, Recover).
LEMMA AccountedStep ==
  ASSUME OnceInv, OnceAssumption, Next, TypeOK'
  PROVE  Accounted'
<1>0. /\ TypeOK /\ Accounted /\ LoggedInOrder /\ ReplayInOrder /\ QuietUnlessServing
      /\ CountExact(index) /\ Timeless(index)
      /\ mode \in {"stopped", "recovering", "serving"}
      /\ Len(journal) \in Nat /\ DOMAIN journal = 1..Len(journal)
      /\ cursor \in Nat /\ index.applied \in Nat
      /\ handler \in [Clients -> HandlerState]
  BY OnceTypes DEF OnceInv, IndexRecorded, Recorded, TypeOK
<1> DEFINE Fine(h, i) == \/ Owned(i)' \/ index'.refs[h].live \/ Behind(i)' \/ Superseded(i)'
                         \/ mode' # "serving" /\ i > index'.applied
<1>1. ASSUME NEW h \in Hashes, NEW c \in Clients, JournalPut(c), handler[c].hash = h,
             NEW i, i = Len(journal) + 1
      PROVE  Fine(h, i)
  <2>1. handler'[c].pc = "putLogged" /\ handler'[c].seq = i
    BY <1>0, <1>1 DEF JournalPut, Becomes
  <2> QED
    BY <2>1 DEF Owned
<1>2. ASSUME NEW h \in Hashes, NEW i \in Puts(h)
      PROVE  Fine(h, i)
  <2>0. i \in DOMAIN journal /\ i \in Nat /\ i <= Len(journal)
    <3>1. i \in 1..Len(journal)
      BY <1>0, <1>2 DEF Puts
    <3> QED
      BY <1>0, <3>1
  <2>1. CASE Behind(i)
    BY <2>0, <2>1, BehindLasts
  <2>2. CASE Superseded(i)
    <3>1. Superseded(i)'
      BY <1>0, <2>0, <2>2, JournalLasts
    <3> QED
      BY <3>1
  <2>3. CASE mode = "recovering" /\ index' = work /\ cursor > Len(journal)
    <3>1. work.refs[h].live \/ Behind(i) \/ Superseded(i)
      <4>1. ReplayInOrder /\ mode = "recovering" /\ i < cursor
        BY <1>0, <2>0, <2>3
      <4> QED
        BY <1>2, <4>1, Zenon DEF ReplayInOrder, Ordered
    <3> QED
      BY <2>1, <2>2, <2>3, <3>1
  <2>4. CASE Crash
    <3>1. /\ index' = index /\ mode' = "stopped"
          /\ \A d \in Clients : handler'[d] = Idle
      BY <2>4 DEF Crash, Halt
    <3>2. i <= index.applied => Behind(i)'
      BY <3>1 DEF Behind, Logged, Idle
    <3>3. i > index.applied \/ i <= index.applied
      BY <1>0, <2>0
    <3> QED
      BY <3>1, <3>2, <3>3
  <2>5. CASE mode # "serving" /\ i > index.applied /\ ~CommitReplay
    <3>1. index' = index
      <4>1. \A c \in Clients : ~CommitPut(c) /\ ~CommitDelete(c)
        BY <1>0, <2>5 DEF CommitPut, CommitDelete, QuietUnlessServing, NoRequest
      <4>2. \A g \in Hashes : ~DropExpired(g)
        BY <1>0, <2>5 DEF DropExpired, QuietUnlessServing
      <4> QED
        BY <2>5, <4>1, <4>2, OnceIndex
    <3>2. mode' # "serving"
      <4>1. Start \/ ReplayRecord => mode' # "serving"
        BY <2>5 DEF Start, ReplayRecord
      <4>2. Crash => mode' # "serving"
        BY DEF Crash, Halt
      <4> QED
        BY <1>0, <2>5, <4>1, <4>2, OnceSteps DEF Recovery
    <3> QED
      BY <2>5, <3>1, <3>2
  <2>6. ASSUME index.refs[h].live, ~(mode = "recovering" /\ index' = work /\ cursor > Len(journal))
        PROVE  Fine(h, i)
    <3>1. CASE index' = index
      BY <2>6, <3>1
    <3>2. ASSUME NEW c \in Clients, CommitPut(c) \/ CommitDelete(c)
          PROVE  index'.refs[h].live
      BY <1>0, <2>6, <3>2, CommitMoves
    <3>3. ASSUME NEW g \in Hashes, DropExpired(g)
          PROVE  index'.refs[h].live \/ Superseded(i)
      <4>1. CASE g = h
        BY <1>2, <3>3, <4>1, DropForgets
      <4>2. CASE g # h
        BY <1>0, <2>6, <3>3, <4>2, DropMoves
      <4> QED
        BY <4>1, <4>2
    <3> QED
      BY <2>2, <2>6, <3>1, <3>2, <3>3, OnceIndex
  <2>7. ASSUME NEW d \in Clients, handler[d].pc = "putLogged", handler[d].seq = i, ~Crash
        PROVE  Fine(h, i)
    <3>0. handler[d].hash = h
      <4>1. journal[i].hash = handler[d].hash
        BY <1>0, <2>7 DEF LoggedInOrder, Logged
      <4> QED
        BY <1>2, <4>1 DEF Puts
    <3>1. CASE handler'[d] = handler[d]
      BY <2>7, <3>1 DEF Owned
    <3>2. CASE CommitPut(d)
      <4>1. index'.refs[h].live
        BY <1>0, <3>0, <3>2, CommitMoves
      <4> QED
        BY <4>1
    <3>3. /\ ~Refuse(d) /\ ~OpenBlob(d) /\ ~CommitDelete(d) /\ ~JournalPut(d) /\ ~JournalDelete(d)
          /\ \A k \in Keys, g \in Hashes : ~StoreBlob(d, k, g)
          /\ \A k \in Keys : ~FindKey(d, k) /\ ~ResolveKey(d, k)
      BY <2>7 DEF Refuse, OpenBlob, CommitDelete, JournalPut, JournalDelete, StoreBlob, FindKey,
                  ResolveKey
    <3> HIDE DEF Fine
    <3> QED
      BY <1>0, <2>7, <3>1, <3>2, <3>3, HandlerSteps, Zenon
  <2>8. CommitReplay => mode = "recovering" /\ index' = work /\ cursor > Len(journal)
    BY <1>0 DEF CommitReplay
  <2>9. \/ Owned(i) \/ index.refs[h].live \/ Behind(i) \/ Superseded(i)
        \/ mode # "serving" /\ i > index.applied
    BY <1>0, <1>2 DEF Accounted
  <2> HIDE DEF Fine
  <2> QED
    BY <2>1, <2>2, <2>3, <2>4, <2>5, <2>6, <2>7, <2>8, <2>9 DEF Owned
<1>3. ASSUME NEW h \in Hashes, NEW i \in Puts(h)'
      PROVE  Fine(h, i)
  <2>1. CASE i \in Puts(h)
    BY <1>2, <2>1
  <2>2. CASE \E c \in Clients : JournalPut(c) /\ handler[c].hash = h /\ i = Len(journal) + 1
    BY <1>1, <2>2
  <2> QED
    BY <1>0, <1>3, <2>1, <2>2, JournalLasts
<1> QED
  BY <1>3 DEF Accounted

\* What was uploaded and is not on disk is forgotten (collectExpired,
\* collectOrphans).
LEMMA MissingForgottenStep ==
  ASSUME OnceInv, OnceAssumption, Next, TypeOK'
  PROVE  MissingForgotten'
<1>0. TypeOK /\ SentOnce /\ MissingForgotten
  BY DEF OnceInv
<1> SUFFICES ASSUME NEW h \in sent', h \notin stored'
             PROVE  Forgotten(h)'
  BY DEF MissingForgotten
<1>1. h \in Hashes
  BY OnceTypes DEF TypeOK
<1>2. h \in sent
  <2>1. CASE \E c \in Clients, k \in Keys, g \in Hashes : StoreBlob(c, k, g)
    BY <2>1 DEF StoreBlob
  <2>2. CASE RemoveExpired \/ \E g \in Hashes : RemoveOrphan(g)
    BY <2>2 DEF RemoveExpired, RemoveOrphan
  <2> QED
    BY <2>1, <2>2, OnceSteps
<1>3. Forgotten(h)
  <2>1. CASE h \in stored
    BY <2>1, StoredLasts
  <2>2. CASE h \notin stored
    BY <1>0, <1>2, <2>2 DEF MissingForgotten
  <2> QED
    BY <2>1, <2>2
<1> QED
  BY <1>1, <1>3, ForgottenLasts

\* A collection has in hand only what is forgotten, and what its record will
\* say was taken from every key (collectExpired, collectOrphans).
LEMMA CollectingForgottenStep ==
  ASSUME OnceInv, OnceAssumption, Next, TypeOK'
  PROVE  CollectingForgotten'
<1>0. TypeOK /\ CollectingForgotten /\ gc \in CollectorState
  BY DEF OnceInv, TypeOK
<1> DEFINE Taken == gc'.pc \in {"remove", "append"} =>
                      Forgotten(gc'.cur) /\ \A i \in Puts(gc'.cur) : Superseded(i)
           Picked == gc'.pc = "orphans" => \A h \in gc'.todo : Forgotten(h)
<1>1. ASSUME gc'.pc \in {"asleep", "expire"}
      PROVE  Taken /\ Picked
  BY <1>1
<1>2. ASSUME StartPass \/ JournalCollected \/ EndPass \/ FailPass \/ Crash
      PROVE  Taken /\ Picked
  <2>1. CASE StartPass \/ JournalCollected
    <3>1. gc'.pc = "expire"
      BY <1>0, <2>1 DEF StartPass, JournalCollected, CollectorState
    <3> QED
      BY <1>1, <3>1
  <2>2. CASE EndPass \/ FailPass \/ Crash
    <3>1. gc'.pc = "asleep"
      BY <2>2 DEF EndPass, FailPass, Crash, Halt, Sleeping
    <3> QED
      BY <1>1, <3>1
  <2> QED
    BY <1>2, <2>1, <2>2
<1>3. ASSUME NEW h \in Hashes, SkipReferenced(h)
      PROVE  Taken /\ Picked
  <2>1. gc'.pc = "expire"
    BY <1>0, <1>3 DEF SkipReferenced, CollectorState
  <2> QED
    BY <1>1, <2>1
<1>4. ASSUME NEW h \in Hashes, DropExpired(h)
      PROVE  Taken /\ Picked
  <2>1. gc'.pc = "remove" /\ gc'.cur = h
    BY <1>0, <1>4 DEF DropExpired, CollectorState
  <2>2. Forgotten(h) /\ \A i \in Puts(h) : Superseded(i)
    BY <1>4, DropForgets
  <2> QED
    BY <2>1, <2>2
<1>5. ASSUME RemoveExpired
      PROVE  Taken /\ Picked
  <2>1. gc'.pc = "append" /\ gc'.cur = gc.cur /\ gc.pc = "remove"
    BY <1>0, <1>5 DEF RemoveExpired, CollectorState
  <2> QED
    BY <1>0, <2>1 DEF CollectingForgotten
<1>6. ASSUME FindOrphans
      PROVE  Taken /\ Picked
  <2>1. /\ gc'.pc = "orphans" /\ gc.pc = "expire"
        /\ gc'.todo = {h \in stored : gc.now - mtime[h] >= Grace /\ ~index.refs[h].live}
    BY <1>0, <1>6 DEF FindOrphans, CollectorState
  <2>2. \A h \in gc'.todo : Forgotten(h)
    BY <2>1, OrphansForgotten
  <2> QED
    BY <2>1, <2>2
<1>7. ASSUME NEW g \in Hashes, RemoveOrphan(g)
      PROVE  Taken /\ Picked
  <2>1. gc'.pc = "orphans" /\ gc.pc = "orphans" /\ gc'.todo \subseteq gc.todo
    BY <1>0, <1>7 DEF RemoveOrphan, CollectorState
  <2> QED
    BY <1>0, <2>1 DEF CollectingForgotten
<1>8. Taken /\ Picked
  <2> HIDE DEF Taken, Picked
  <2>1. CASE gc' = gc
    BY <1>0, <2>1 DEF CollectingForgotten, Taken, Picked
  <2>2. CASE Collect
    BY <1>2, <1>3, <1>4, <1>5, <1>6, <1>7, <2>2 DEF Collect
  <2> QED
    BY <1>2, <2>1, <2>2, OnceSteps
<1>9. ASSUME NEW h, Forgotten(h), h \in Hashes
       PROVE  /\ Forgotten(h)'
              /\ (\A i \in Puts(h) : Superseded(i)) => \A i \in Puts(h)' : Superseded(i)'
  <2>1. Forgotten(h)' /\ Puts(h)' = Puts(h)
    BY <1>9, ForgottenLasts
  <2>2. \A i \in Puts(h) : i \in DOMAIN journal
    BY DEF Puts
  <2> QED
    BY <1>0, <2>1, <2>2, JournalLasts
<1>10. ASSUME NEW h \in gc'.todo, gc'.pc = "orphans"
       PROVE  Forgotten(h)'
  <2>1. h \in Hashes
    BY DEF TypeOK, CollectorState
  <2> QED
    BY <1>8, <1>9, <1>10, <2>1
<1>11. ASSUME gc'.pc \in {"remove", "append"}, NEW h, h = gc'.cur
       PROVE  Forgotten(h)' /\ \A i \in Puts(h)' : Superseded(i)'
  <2>1. h \in Hashes
    BY <1>11 DEF TypeOK, CollectorState
  <2>2. Forgotten(h) /\ \A i \in Puts(h) : Superseded(i)
    BY <1>8, <1>11
  <2> QED
    BY <1>9, <2>1, <2>2
<1>12. ASSUME gc'.pc \in {"remove", "append"}
       PROVE  (Forgotten(gc.cur) /\ \A i \in Puts(gc.cur) : Superseded(i))'
  <2>1. PICK h : h = gc'.cur
    OBVIOUS
  <2>2. Forgotten(h)' /\ \A i \in Puts(h)' : Superseded(i)'
    BY <1>11, <1>12, <2>1
  <2> QED
    BY <2>1, <2>2 DEF Forgotten, Puts, Unbound
<1> QED
  BY <1>10, <1>12 DEF CollectingForgotten

\* Whatever a record says was collected is forgotten, and had been taken from
\* every key before the record (collectExpired).
LEMMA CollectedForgottenStep ==
  ASSUME OnceInv, OnceAssumption, Next, TypeOK'
  PROVE  CollectedForgotten'
<1>0. /\ TypeOK /\ CollectingForgotten /\ CollectedForgotten
      /\ journal \in Seq(Record) /\ Len(journal) \in Nat /\ DOMAIN journal = 1..Len(journal)
  BY OnceTypes DEF OnceInv
<1>1. ASSUME NEW h \in Hashes, NEW g \in Nat, Forgotten(h),
             \A i \in Puts(h) : SupersededBefore(i, g)
      PROVE  Forgotten(h)' /\ \A i \in Puts(h)' : SupersededBefore(i, g)'
  <2>1. Forgotten(h)' /\ Puts(h)' = Puts(h)
    BY <1>1, ForgottenLasts
  <2>2. \A i \in Puts(h) : i \in DOMAIN journal
    BY DEF Puts
  <2> QED
    BY <1>0, <1>1, <2>1, <2>2, JournalLasts
<1>2. ASSUME NEW g \in DOMAIN journal, journal[g].op = "gc", NEW h, h = journal[g].hash
      PROVE  Forgotten(h)' /\ \A i \in Puts(h)' : SupersededBefore(i, g)'
  <2>1. h \in Hashes /\ g \in Nat
    BY <1>0, <1>2, OnceTypes, RecordIs
  <2>2. Forgotten(h) /\ \A i \in Puts(h) : SupersededBefore(i, g)
    BY <1>0, <1>2 DEF CollectedForgotten
  <2> QED
    BY <1>1, <2>1, <2>2
<1>3. ASSUME JournalCollected, NEW g, g = Len(journal) + 1, NEW h, h = gc.cur
      PROVE  Forgotten(h)' /\ \A i \in Puts(h)' : SupersededBefore(i, g)'
  <2>1. h \in Hashes /\ g \in Nat /\ gc.pc = "append"
    BY <1>0, <1>3 DEF JournalCollected, TypeOK, CollectorState
  <2>2. Forgotten(h) /\ \A i \in Puts(h) : Superseded(i)
    BY <1>0, <1>3, <2>1 DEF CollectingForgotten
  <2>3. \A i : Superseded(i) => SupersededBefore(i, g)
    BY <1>3 DEF Superseded, SupersededBefore
  <2> QED
    BY <1>1, <2>1, <2>2, <2>3
<1>4. ASSUME NEW g \in DOMAIN journal', journal'[g].op = "gc", NEW h, h = journal'[g].hash
      PROVE  Forgotten(h)' /\ \A i \in Puts(h)' : SupersededBefore(i, g)'
  <2>1. CASE g \in DOMAIN journal
    <3>1. journal'[g] = journal[g]
      BY <1>0, <2>1, JournalLasts
    <3> QED
      BY <1>2, <1>4, <2>1, <3>1
  <2>2. CASE g \notin DOMAIN journal
    <3>1. CASE journal' = journal
      BY <2>2, <3>1
    <3>2. CASE JournalCollected
      <4>1. g = Len(journal) + 1 /\ journal'[g].hash = gc.cur
        BY <1>0, <2>2, <3>2 DEF JournalCollected, GCRecord
      <4> QED
        BY <1>3, <1>4, <3>2, <4>1
    <3>3. ASSUME NEW c \in Clients, JournalPut(c)
          PROVE  FALSE
      BY <1>0, <1>4, <2>2, <3>3 DEF JournalPut, PutRecord
    <3>4. ASSUME NEW c \in Clients, JournalDelete(c)
          PROVE  FALSE
      BY <1>0, <1>4, <2>2, <3>4 DEF JournalDelete, DeleteRecord
    <3> QED
      BY <3>1, <3>2, <3>3, <3>4, OnceSteps
  <2> QED
    BY <2>1, <2>2
<1>5. ASSUME NEW g \in DOMAIN journal', journal'[g].op = "gc"
      PROVE  (Forgotten(journal[g].hash) /\ \A i \in Puts(journal[g].hash) : SupersededBefore(i, g))'
  <2>1. PICK h : h = journal'[g].hash
    OBVIOUS
  <2>2. Forgotten(h)' /\ \A i \in Puts(h)' : SupersededBefore(i, g)'
    BY <1>4, <1>5, <2>1
  <2> QED
    BY <2>1, <2>2 DEF Forgotten, Puts, Unbound
<1> QED
  BY <1>5 DEF CollectedForgotten

\* What a GET resolved stays until it opened it: the record of the content is
\* younger than the request, however often its key moves (Get, collectExpired).
LEMMA ReadersServedStep ==
  ASSUME OnceInv, OnceAssumption, Next
  PROVE  ReadersServed'
<1>0. /\ TypeOK /\ ReadersServed /\ InTime /\ CountExact(index) /\ Timeless(index)
      /\ \A k \in Keys : index.keys[k] # None => index.keys[k] \in stored
      /\ index \in Index /\ index.keys \in [Keys -> Hashes \cup {None}] /\ stored \subseteq Hashes
  BY OnceTypes DEF OnceInv, IndexRecorded, Recorded
<1> DEFINE Served(c, h) ==
             /\ h \in stored' /\ index'.refs[h].live
             /\ Unbound(index', h) => index'.refs[h].unref >= handler'[c].since
<1>1. ASSUME NEW c \in Clients, handler'[c] = handler[c], handler'[c].pc = "reading",
             NEW h, h = handler[c].hash
      PROVE  Served(c, h)
  <2>0. /\ h \in stored /\ h \in Hashes /\ index.refs[h].live
        /\ Unbound(index, h) => index.refs[h].unref >= handler[c].since
        /\ clock >= handler[c].since
    <3>1. handler[c].pc = "reading" /\ clock \in Nat /\ handler[c].since \in Nat
      BY <1>0, <1>1, OnceTypes
    <3> QED
      BY <1>0, <1>1, <3>1 DEF ReadersServed, InTime
  <2>1. ~Forgotten(h)
    BY <1>1 DEF Forgotten
  <2>2. h \in stored'
    BY <2>0, <2>1, StoredLasts
  <2>3. CASE index' = index
    BY <1>1, <2>0, <2>2, <2>3
  <2>4. CASE mode = "recovering"
    BY <1>1, <2>4 DEF OnceInv, QuietUnlessServing, NoRequest
  <2>5. ASSUME NEW d \in Clients, CommitPut(d) \/ CommitDelete(d)
        PROVE  Served(c, h)
    <3>1. /\ index'.keys = [index.keys EXCEPT ![handler[d].key] = handler[d].hash]
          /\ handler[d].key \in Keys
          /\ index'.refs[h].live <=> index.refs[h].live \/ h = handler[d].hash
          /\ Unbound(index, h) /\ h # handler[d].hash => index'.refs[h] = index.refs[h]
          /\ ~Unbound(index, h) /\ Unbound(index', h) => index'.refs[h].unref = clock
      BY <1>0, <2>0, <2>5, CommitMoves
    <3>2. h = handler[d].hash => ~Unbound(index', h)
      BY <1>0, <3>1 DEF Unbound
    <3> QED
      BY <1>1, <2>0, <2>2, <3>1, <3>2
  <2>6. ASSUME NEW g \in Hashes, DropExpired(g)
        PROVE  Served(c, h)
    <3>1. g # h
      BY <2>1, <2>6, DropForgets
    <3>2. index'.keys = index.keys /\ index'.refs[h] = index.refs[h]
      BY <1>0, <2>0, <2>6, <3>1, DropMoves
    <3>3. Unbound(index', h) => Unbound(index, h)
      BY <3>2 DEF Unbound
    <3> QED
      BY <1>1, <2>0, <2>2, <3>2, <3>3
  <2> QED
    BY <2>3, <2>4, <2>5, <2>6, OnceIndex
<1>2. ASSUME NEW c \in Clients, NEW k \in Keys, ResolveKey(c, k), NEW h, h = index.keys[k]
      PROVE  Served(c, h)
  <2>1. /\ h # None /\ index' = index /\ stored' = stored
    BY <1>2 DEF ResolveKey, disk
  <2>2. h \in stored /\ h \in Hashes
    BY <1>0, <1>2, <2>1
  <2>3. ~Unbound(index, h)
    BY <1>2 DEF Unbound
  <2>4. index.refs[h].live
    BY <1>0, <2>2, <2>3, CountedIsBound
  <2> QED
    BY <2>1, <2>2, <2>3, <2>4
<1> HIDE DEF Served
<1>3. ASSUME NEW c \in Clients, handler'[c].pc = "reading", NEW h, h = handler'[c].hash
      PROVE  Served(c, h)
  <2>1. CASE handler'[c] = handler[c]
    BY <1>1, <1>3, <2>1
  <2>2. CASE handler'[c] = Idle
    BY <1>3, <2>2 DEF Idle
  <2>3. ASSUME NEW k \in Keys, ResolveKey(c, k),
               handler'[c] = [pc |-> "reading", key |-> k, hash |-> index.keys[k], seq |-> 0,
                              since |-> clock]
        PROVE  Served(c, h)
    <3>1. h = index.keys[k]
      BY <1>3, <2>3
    <3> QED
      BY <1>2, <2>3, <3>1
  <2>4. ASSUME NEW k, NEW g,
               handler'[c] = [pc |-> "stored", key |-> k, hash |-> g, seq |-> 0, since |-> clock]
        PROVE  FALSE
    BY <1>3, <2>4
  <2>5. ASSUME NEW k, NEW g,
               handler'[c] = [pc |-> "found", key |-> k, hash |-> g, seq |-> 0, since |-> clock]
        PROVE  FALSE
    BY <1>3, <2>5
  <2>6. handler'[c] # [pc |-> "putLogged", key |-> handler[c].key, hash |-> handler[c].hash,
                       seq |-> Len(journal) + 1, since |-> handler[c].since]
    BY <1>3
  <2>7. handler'[c] # [pc |-> "deleteLogged", key |-> handler[c].key, hash |-> None,
                       seq |-> Len(journal) + 1, since |-> handler[c].since]
    BY <1>3
  <2> QED
    BY <1>0, <2>1, <2>2, <2>3, <2>4, <2>5, <2>6, <2>7, HandlerSteps, Zenon
<1>4. ASSUME NEW c \in Clients, handler'[c].pc = "reading"
      PROVE  /\ handler'[c].hash \in stored' /\ index'.refs[handler'[c].hash].live
             /\ Unbound(index', handler'[c].hash) =>
                  index'.refs[handler'[c].hash].unref >= handler'[c].since
  <2>1. PICK h : h = handler'[c].hash
    OBVIOUS
  <2>2. Served(c, h)
    BY <1>3, <1>4, <2>1
  <2> QED
    BY <2>1, <2>2 DEF Served
<1> QED
  BY <1>4 DEF ReadersServed, Unbound

\* Folding the next record keeps a replay in order (apply).
LEMMA ReplayNext ==
  ASSUME TypeOK, SentOnce, CollectedForgotten, NEW ix \in Index, NEW n \in DOMAIN journal,
         Ordered(ix, n)
  PROVE  Ordered(Apply(ix, journal[n], n), n + 1)
<1> DEFINE rec == journal[n]
           jx == Apply(ix, rec, n)
<1>0. /\ rec \in Record /\ n \in Nat /\ index.applied \in Nat /\ index.applied < n
      /\ Len(journal) \in Nat /\ DOMAIN journal = 1..Len(journal)
      /\ \A i \in DOMAIN journal : i \in Nat
      /\ ix.keys \in [Keys -> Hashes \cup {None}]
  BY OnceTypes DEF Ordered, Index
<1>1. /\ CountExact(ix) /\ Timeless(ix)
      /\ \A k \in Keys : ix.keys[k] # None => \E i \in Puts(ix.keys[k]) : journal[i].key = k
      /\ \A h \in Hashes : ix.refs[h].live => Puts(h) # {}
  BY DEF Ordered, Recorded
<1>2. ASSUME NEW k \in Keys,
             \A i \in DOMAIN journal : index.applied < i /\ i < n => journal[i].key # k
      PROVE  ix.keys[k] = index.keys[k]
  BY <1>2 DEF Ordered
<1>3. ASSUME NEW k \in Keys, NEW i \in DOMAIN journal, index.applied < i, i < n,
             journal[i].key = k, ~SupersededBefore(i, n)
      PROVE  ix.keys[k] = journal[i].hash
  BY <1>3 DEF Ordered
<1>4. ASSUME NEW h \in Hashes, NEW i \in Puts(h)
      PROVE  /\ ix.refs[h].live => ix.keys[journal[i].key] = h \/ Superseded(i) \/ n <= i
             /\ i < n => ix.refs[h].live \/ Behind(i) \/ Superseded(i)
             /\ i \in DOMAIN journal /\ i \in Nat /\ journal[i].key \in Keys
             /\ journal[i].op = "put" /\ journal[i].hash = h
  <2>1. /\ ix.refs[h].live => ix.keys[journal[i].key] = h \/ Superseded(i) \/ n <= i
        /\ i < n => ix.refs[h].live \/ Behind(i) \/ Superseded(i)
    BY <1>4, Zenon DEF Ordered
  <2>2. i \in DOMAIN journal /\ journal[i].op = "put" /\ journal[i].hash = h
    BY <1>4 DEF Puts
  <2>3. journal[i].key \in Keys
    BY <2>2, OnceTypes, RecordIs
  <2> QED
    BY <1>0, <2>1, <2>2, <2>3
<1>5. \A i \in DOMAIN journal : SupersededBefore(i, n) => SupersededBefore(i, n + 1)
  BY <1>0 DEF SupersededBefore
<1>6. \A i \in DOMAIN journal :
        /\ i < n /\ journal[i].key = rec.key => SupersededBefore(i, n + 1) /\ Superseded(i)
        /\ SupersededBefore(i, n) => Superseded(i)
  BY <1>0 DEF SupersededBefore, Superseded
<1>7. rec.op = "put" => rec.key \in Keys /\ rec.hash \in Hashes /\ n \in Puts(rec.hash)
  BY <1>0, RecordIs DEF Puts
<1> DEFINE InOrder ==
      /\ jx.applied = n
      /\ CountExact(jx) /\ Timeless(jx)
      /\ \A k \in Keys : jx.keys[k] # None => \E i \in Puts(jx.keys[k]) : journal[i].key = k
      /\ \A h \in Hashes : jx.refs[h].live => Puts(h) # {}
      /\ \A k \in Keys :
           /\ (\A i \in DOMAIN journal : index.applied < i /\ i < n + 1 => journal[i].key # k)
                => jx.keys[k] = index.keys[k]
           /\ \A i \in DOMAIN journal :
                index.applied < i /\ i < n + 1 /\ journal[i].key = k /\ ~SupersededBefore(i, n + 1)
                  => jx.keys[k] = journal[i].hash
      /\ \A h \in Hashes : \A i \in Puts(h) :
           /\ jx.refs[h].live => jx.keys[journal[i].key] = h \/ Superseded(i) \/ n + 1 <= i
           /\ i < n + 1 => jx.refs[h].live \/ Behind(i) \/ Superseded(i)
<1>8. ASSUME rec.op # "gc"
      PROVE  InOrder
  <2> DEFINE key == rec.key
             new == rec.hash
  <2>1. key \in Keys /\ new \in Hashes \cup {None} /\ rec.time \in Nat
        /\ (new # None => rec.op = "put")
    BY <1>0, <1>8, RecordIs
  <2>2. jx = AppliedTo(Moved(ix, key, new, rec.time), n)
    BY <1>0, <1>8, ApplyMoves
  <2> HIDE DEF jx, key, new, rec
  <2>3. /\ jx.applied = n
        /\ jx.keys = [ix.keys EXCEPT ![key] = new]
        /\ CountExact(jx) /\ Timeless(jx)
        /\ \A g \in Hashes : jx.refs[g].live <=> ix.refs[g].live \/ g = new
    <3>1. n \in Nat /\ rec.time \in Nat /\ key \in Keys /\ new \in Hashes \cup {None}
          /\ CountExact(ix) /\ Timeless(ix)
      BY <1>0, <1>1, <2>1
    <3>2. PICK now : now = rec.time
      OBVIOUS
    <3>3. now \in Nat /\ jx = AppliedTo(Moved(ix, key, new, now), n)
      BY <2>2, <3>1, <3>2
    <3> QED
      BY <3>1, <3>3, MovedIs
  <2>4. new # None => n \in Puts(new) /\ new \in Hashes
    BY <1>7, <2>1 DEF new
  <2>5. journal[n].key = key /\ journal[n].hash = new
    BY DEF key, new, rec
  <2>6. ASSUME NEW k \in Keys, jx.keys[k] # None
        PROVE  \E i \in Puts(jx.keys[k]) : journal[i].key = k
    <3>1. CASE k = key
      BY <1>0, <2>1, <2>3, <2>4, <2>5, <2>6, <3>1
    <3>2. CASE k # key
      BY <1>0, <1>1, <2>3, <2>6, <3>2
    <3> QED
      BY <3>1, <3>2
  <2>7. ASSUME NEW h \in Hashes, jx.refs[h].live
        PROVE  Puts(h) # {}
    BY <1>1, <2>3, <2>4, <2>7, NoneAssumption
  <2>8. ASSUME NEW k \in Keys,
               \A i \in DOMAIN journal : index.applied < i /\ i < n + 1 => journal[i].key # k
        PROVE  jx.keys[k] = index.keys[k]
    <3>1. k # key
      BY <1>0, <2>5, <2>8
    <3>2. \A i \in DOMAIN journal : index.applied < i /\ i < n => journal[i].key # k
      BY <1>0, <2>8
    <3> QED
      BY <1>0, <1>2, <2>3, <3>1, <3>2
  <2>9. ASSUME NEW k \in Keys, NEW i \in DOMAIN journal, index.applied < i, i < n + 1,
               journal[i].key = k, ~SupersededBefore(i, n + 1)
        PROVE  jx.keys[k] = journal[i].hash
    <3>1. CASE i = n
      BY <1>0, <2>1, <2>3, <2>5, <2>9, <3>1
    <3>2. CASE i # n
      <4>1. i < n /\ k # key /\ ~SupersededBefore(i, n)
        BY <1>0, <1>5, <1>6, <2>9, <3>2 DEF key
      <4>2. ix.keys[k] = journal[i].hash
        BY <1>3, <2>9, <4>1
      <4> QED
        BY <1>0, <2>3, <4>1, <4>2
    <3> QED
      BY <3>1, <3>2
  <2>10. ASSUME NEW h \in Hashes, NEW i \in Puts(h)
         PROVE  /\ jx.refs[h].live => jx.keys[journal[i].key] = h \/ Superseded(i) \/ n + 1 <= i
                /\ i < n + 1 => jx.refs[h].live \/ Behind(i) \/ Superseded(i)
    <3>0. /\ ix.refs[h].live => ix.keys[journal[i].key] = h \/ Superseded(i) \/ n <= i
          /\ i < n => ix.refs[h].live \/ Behind(i) \/ Superseded(i)
          /\ i \in DOMAIN journal /\ i \in Nat /\ journal[i].key \in Keys
          /\ journal[i].hash = h
      BY <1>4, <2>10
    <3>1. CASE h = new
      <4>1. i = n
        BY <2>4, <2>10, <3>1, NoneAssumption DEF SentOnce
      <4> QED
        BY <1>0, <2>1, <2>3, <2>5, <3>1, <4>1
    <3>2. CASE h # new
      <4>1. i # n
        BY <2>5, <3>0, <3>2
      <4>2. jx.refs[h].live <=> ix.refs[h].live
        BY <2>3, <3>2
      <4>3. n <= i => n + 1 <= i
        BY <1>0, <3>0, <4>1
      <4>4. i < n + 1 => i < n
        BY <1>0, <3>0, <4>1
      <4>5. journal[i].key = key => Superseded(i) \/ n + 1 <= i
        BY <1>0, <1>6, <3>0, <4>1 DEF key
      <4>6. journal[i].key # key => jx.keys[journal[i].key] = ix.keys[journal[i].key]
        BY <1>0, <2>3, <3>0
      <4> QED
        BY <3>0, <4>2, <4>3, <4>4, <4>5, <4>6
    <3> QED
      BY <3>1, <3>2
  <2> QED
    BY <2>3, <2>6, <2>7, <2>8, <2>9, <2>10
<1>9. ASSUME rec.op = "gc"
      PROVE  InOrder
  <2> DEFINE gone == rec.hash
             dx == DropRef(ix, gone)
  <2>1. gone \in Hashes /\ rec.key = None /\ jx = AppliedTo(dx, n)
    BY <1>0, <1>9, RecordIs, ApplyMoves
  <2>2. Forgotten(gone) /\ \A i \in Puts(gone) : SupersededBefore(i, n)
    BY <1>9 DEF CollectedForgotten
  <2> HIDE DEF gone, dx, jx, rec
  <2>3. Unbound(ix, gone)
    BY <1>0, <2>1, <2>2, ReplayUnbinds DEF Forgotten
  <2>4. ix.refs[gone].count <= 0
    BY <1>1, <2>1, <2>3, CountedIsBound
  <2>5. /\ dx \in Index /\ dx.keys = ix.keys
        /\ CountExact(dx) /\ Timeless(dx)
        /\ ~dx.refs[gone].live
        /\ \A g \in Hashes : g # gone => dx.refs[g] = ix.refs[g]
    BY <1>1, <2>1, <2>4, DropIs DEF dx
  <2>6. /\ jx.applied = n /\ jx.keys = ix.keys /\ jx.refs = dx.refs
        /\ CountExact(jx) /\ Timeless(jx)
    <3>1. jx.applied = n /\ jx.keys = ix.keys /\ jx.refs = dx.refs
      BY <1>0, <2>1, <2>5, AppliedToType DEF AppliedTo, Index
    <3> QED
      BY <2>5, <3>1 DEF CountExact, Timeless, Bound
  <2>7. \A k \in Keys : journal[n].key # k
    BY <2>1, NoneAssumption DEF rec
  <2>8. ASSUME NEW k \in Keys,
               \A i \in DOMAIN journal : index.applied < i /\ i < n + 1 => journal[i].key # k
        PROVE  jx.keys[k] = index.keys[k]
    <3>1. \A i \in DOMAIN journal : index.applied < i /\ i < n => journal[i].key # k
      BY <1>0, <2>8
    <3> QED
      BY <1>2, <2>6, <3>1
  <2>9. ASSUME NEW k \in Keys, NEW i \in DOMAIN journal, index.applied < i, i < n + 1,
               journal[i].key = k, ~SupersededBefore(i, n + 1)
        PROVE  jx.keys[k] = journal[i].hash
    <3>1. i < n /\ ~SupersededBefore(i, n)
      BY <1>0, <1>5, <2>7, <2>9
    <3> QED
      BY <1>3, <2>6, <2>9, <3>1
  <2>10. ASSUME NEW h \in Hashes, NEW i \in Puts(h)
         PROVE  /\ jx.refs[h].live => jx.keys[journal[i].key] = h \/ Superseded(i) \/ n + 1 <= i
                /\ i < n + 1 => jx.refs[h].live \/ Behind(i) \/ Superseded(i)
    <3>0. /\ ix.refs[h].live => ix.keys[journal[i].key] = h \/ Superseded(i) \/ n <= i
          /\ i < n => ix.refs[h].live \/ Behind(i) \/ Superseded(i)
          /\ i \in DOMAIN journal /\ i \in Nat /\ journal[i].key \in Keys
      BY <1>4, <2>10
    <3>1. i # n
      BY <2>7, <3>0
    <3>2. (n <= i => n + 1 <= i) /\ (i < n + 1 => i < n)
      BY <1>0, <3>0, <3>1
    <3>3. CASE h = gone
      BY <1>6, <2>2, <2>5, <2>6, <2>10, <3>0, <3>3
    <3>4. CASE h # gone
      BY <2>5, <2>6, <3>0, <3>2, <3>4
    <3> QED
      BY <3>3, <3>4
  <2>11. \A h \in Hashes : jx.refs[h].live => ix.refs[h].live
    BY <2>5, <2>6
  <2> QED
    BY <1>1, <2>6, <2>8, <2>9, <2>10, <2>11
<1> HIDE DEF jx
<1>10. /\ index.applied < n + 1 /\ n = (n + 1) - 1
  BY <1>0
<1>11. InOrder
  BY <1>8, <1>9
<1>12. Ordered(jx, n + 1)
  BY <1>10, <1>11 DEF Ordered, Recorded
<1> QED
  BY <1>12 DEF jx

\* A recovery replays the records of the journal in order, and nothing but it
\* moves while it runs (Recover).
LEMMA ReplayInOrderStep ==
  ASSUME OnceInv, OnceAssumption, Next, TypeOK'
  PROVE  ReplayInOrder'
<1>0. /\ TypeOK /\ SentOnce /\ CollectedForgotten /\ IndexRecorded /\ ReplayInOrder
      /\ QuietUnlessServing /\ mode \in {"stopped", "recovering", "serving"}
      /\ Len(journal) \in Nat /\ DOMAIN journal = 1..Len(journal)
      /\ cursor \in Nat /\ cursor # 0 /\ index.applied \in Nat /\ work \in Index /\ index \in Index
  BY OnceTypes DEF OnceInv
<1> SUFFICES ASSUME mode' = "recovering"
             PROVE  Ordered(work, cursor)'
  BY DEF ReplayInOrder
<1>1. mode # "serving"
  BY <1>0, QuietStep DEF Crash, Halt
<1>2. journal' = journal
  BY <1>0, <1>1, QuietStep
<1>3. index' = index /\ ~CommitReplay /\ ~Crash
  <2>1. ~CommitReplay
    BY <1>0 DEF CommitReplay
  <2>2. ~Crash
    BY DEF Crash, Halt
  <2>3. \A c \in Clients : ~CommitPut(c) /\ ~CommitDelete(c)
    BY <1>0, <1>1 DEF CommitPut, CommitDelete, QuietUnlessServing, NoRequest
  <2>4. \A g \in Hashes : ~DropExpired(g)
    BY <1>0, <1>1 DEF DropExpired, QuietUnlessServing
  <2> QED
    BY <2>1, <2>2, <2>3, <2>4, OnceIndex
<1>4. ASSUME NEW wx, NEW n, Ordered(wx, n), wx = work', n = cursor'
      PROVE  Ordered(work, cursor)'
  <2>1. \A h : Puts(h)' = Puts(h) /\ Puts(h) \subseteq DOMAIN journal
    BY <1>2 DEF Puts
  <2>2. \A i \in DOMAIN journal : Behind(i) => Behind(i)'
    BY BehindLasts
  <2>3. \A i, m : (SupersededBefore(i, m)' <=> SupersededBefore(i, m))
    BY <1>2 DEF SupersededBefore
  <2>4. \A i : Superseded(i) => Superseded(i)'
    BY <1>2 DEF SupersededBefore, Superseded
  <2>5. /\ index'.applied < n /\ wx.applied = n - 1
        /\ CountExact(wx) /\ Timeless(wx)
        /\ \A k \in Keys : wx.keys[k] # None => \E i \in Puts(wx.keys[k]) : journal[i].key = k
        /\ \A h \in Hashes : wx.refs[h].live => Puts(h) # {}
    BY <1>3, <1>4 DEF Ordered, Recorded
  <2>6. Recorded(wx)'
    BY <1>2, <2>5 DEF Recorded, CountExact, Timeless, Bound, Puts
  <2>7. ASSUME NEW k \in Keys
        PROVE  /\ (\A i \in DOMAIN journal' : index'.applied < i /\ i < n => journal'[i].key # k)
                    => wx.keys[k] = index'.keys[k]
               /\ \A i \in DOMAIN journal' :
                    /\ index'.applied < i /\ i < n /\ journal'[i].key = k
                    /\ ~SupersededBefore(i, n)'
                    => wx.keys[k] = journal'[i].hash
    BY <1>2, <1>3, <1>4, <2>3, <2>7 DEF Ordered
  <2>8. ASSUME NEW h \in Hashes, NEW i \in Puts(h)'
        PROVE  /\ wx.refs[h].live => wx.keys[journal'[i].key] = h \/ Superseded(i)' \/ n <= i
               /\ i < n => wx.refs[h].live \/ Behind(i)' \/ Superseded(i)'
    <3>1. i \in Puts(h) /\ i \in DOMAIN journal
      BY <2>1, <2>8
    <3>2. /\ wx.refs[h].live => wx.keys[journal[i].key] = h \/ Superseded(i) \/ n <= i
          /\ i < n => wx.refs[h].live \/ Behind(i) \/ Superseded(i)
      BY <1>4, <3>1, Zenon DEF Ordered
    <3> QED
      BY <1>2, <2>2, <2>4, <3>1, <3>2
  <2>9. Ordered(wx, n)'
    BY <2>5, <2>6, <2>7, <2>8, Zenon DEF Ordered
  <2> QED
    BY <1>4, <2>9 DEF Ordered, Recorded, CountExact, Timeless, Bound, Puts, SupersededBefore
<1>5. CASE Start
  <2>1. work' = index /\ cursor' = index.applied + 1 /\ mode = "stopped"
    BY <1>5 DEF Start
  <2>2. \A i \in DOMAIN journal : i <= index.applied => Behind(i)
    BY <1>0, <2>1 DEF Behind, Logged, QuietUnlessServing, NoRequest
  <2>3. \A i \in DOMAIN journal : i < index.applied + 1 => i <= index.applied
    BY <1>0
  <2>4. \A h : Puts(h) \subseteq DOMAIN journal
    BY DEF Puts
  <2>5. Ordered(index, index.applied + 1)
    <3>1. index.applied < index.applied + 1 /\ index.applied = (index.applied + 1) - 1
          /\ \A i \in DOMAIN journal : ~(index.applied < i /\ i < index.applied + 1)
      BY <1>0
    <3>2. /\ Recorded(index)
          /\ \A h \in Hashes : index.refs[h].live =>
               \A i \in Puts(h) : index.keys[journal[i].key] = h \/ Superseded(i)
      BY <1>0 DEF IndexRecorded
    <3> QED
      BY <2>2, <2>3, <2>4, <3>1, <3>2 DEF Ordered
  <2>6. PICK wx, n : wx = index /\ n = index.applied + 1
    OBVIOUS
  <2>7. Ordered(wx, n)
    BY <2>5, <2>6
  <2> QED
    BY <1>4, <2>1, <2>6, <2>7
<1>6. CASE ReplayRecord
  <2>1. mode = "recovering" /\ cursor \in DOMAIN journal
        /\ work' = Apply(work, journal[cursor], cursor) /\ cursor' = cursor + 1
    BY <1>0, <1>1, <1>6 DEF ReplayRecord
  <2>2. Ordered(Apply(work, journal[cursor], cursor), cursor + 1)
    BY <1>0, <2>1, ReplayNext DEF ReplayInOrder
  <2>3. PICK wx, n : wx = Apply(work, journal[cursor], cursor) /\ n = cursor + 1
    OBVIOUS
  <2>4. Ordered(wx, n)
    BY <2>2, <2>3
  <2> QED
    BY <1>4, <2>1, <2>3, <2>4
<1>7. CASE UNCHANGED <<work, cursor, mode>>
  <2>1. Ordered(work, cursor)
    BY <1>0, <1>7 DEF ReplayInOrder
  <2>2. PICK wx, n : wx = work /\ n = cursor
    OBVIOUS
  <2>3. Ordered(wx, n)
    BY <2>1, <2>2
  <2> QED
    BY <1>4, <1>7, <2>2, <2>3
<1> QED
  BY <1>0, <1>3, <1>5, <1>6, <1>7, OnceSteps DEF Recovery

\* An index that is whole is never rebuilt: a process recovers, serves or is
\* down.
LEMMA OnceModes ==
  ASSUME mode \in {"stopped", "recovering", "serving"}, TypeOK, QuietUnlessServing,
         OnceAssumption, Next
  PROVE  mode' \in {"stopped", "recovering", "serving"}
<1>1. ~KillRebuild /\ ~DropNamespaces
  BY DEF OnceAssumption, KillRebuild, DropNamespaces
<1> QED
  BY <1>1, QuietStep DEF Recovery, Rebuild, Start, ReplayRecord, CommitReplay, ResetIndex,
     Crash, Halt

\* Steps that change nothing keep all of it.
LEMMA OnceStutters ==
  ASSUME OnceInv, UNCHANGED vars
  PROVE  OnceInv'
<1>0. UNCHANGED <<journal, index, stored, mtime, sent, handler, gc, clock, mode, work, cursor>>
  BY DEF vars, disk, replay
<1>1. TypeOK' /\ QuietUnlessServing' /\ (mode \in {"stopped", "recovering", "serving"})'
  BY <1>0 DEF OnceInv, TypeOK, QuietUnlessServing, NoRequest
<1>2. SentOnce' /\ KeysApart' /\ InTime'
  BY <1>0 DEF OnceInv, SentOnce, KeysApart, InTime, Puts
<1>3. CarriedOnce' /\ LoggedInOrder'
  BY <1>0 DEF OnceInv, CarriedOnce, LoggedInOrder, Carrying, Logged, Unbound, Puts
<1>4. IndexRecorded' /\ Accounted' /\ ReadersServed'
  BY <1>0 DEF OnceInv, IndexRecorded, Recorded, Accounted, ReadersServed, CountExact, Bound, Timeless,
              Owned, Behind, Logged, Superseded, SupersededBefore, Unbound, Puts
<1>5. MissingForgotten' /\ CollectingForgotten' /\ CollectedForgotten'
  BY <1>0 DEF OnceInv, MissingForgotten, CollectingForgotten, CollectedForgotten, Forgotten,
              Behind, Logged, Superseded, SupersededBefore, Unbound, Puts
<1>6. ReplayInOrder'
  BY <1>0 DEF OnceInv, ReplayInOrder, Ordered, Recorded, CountExact, Bound, Timeless,
              Behind, Logged, Superseded, SupersededBefore, Puts
<1> QED
  BY <1>1, <1>2, <1>3, <1>4, <1>5, <1>6 DEF OnceInv

\* While content is uploaded once, no step leaves the reach of the grace period
\* (gc.go).
LEMMA StoreOnce ==
  ASSUME OnceAssumption
  PROVE  Spec => []OnceInv
<1>1. Init => OnceInv
  <2> SUFFICES ASSUME Init
               PROVE  OnceInv
    OBVIOUS
  <2>1. /\ TypeOK /\ journal = << >> /\ index = EmptyIndex /\ stored = {} /\ sent = {}
        /\ gc = Sleeping /\ mode = "stopped" /\ \A c \in Clients : handler[c] = Idle
        /\ \A h : Puts(h) = {}
    BY StoreTypeOKInit DEF Init, Puts
  <2>2. QuietUnlessServing
    BY <2>1 DEF QuietUnlessServing, NoRequest, Idle, Sleeping
  <2>3. SentOnce /\ CarriedOnce /\ LoggedInOrder /\ KeysApart /\ ReadersServed /\ ReplayInOrder
    BY <2>1 DEF SentOnce, CarriedOnce, Carrying, LoggedInOrder, Logged, KeysApart, ReadersServed,
                ReplayInOrder, Idle
  <2>4. InTime
    BY <2>1 DEF InTime, Idle, Sleeping, TypeOK
  <2>5. IndexRecorded
    <3>1. CountExact(index)
      BY <2>1, EmptyIndexCounts
    <3>2. /\ \A k \in Keys : index.keys[k] = None
          /\ \A h \in Hashes : index.refs[h].count = 0 /\ index.refs[h].live = FALSE
      BY <2>1 DEF EmptyIndex, NoRef
    <3> QED
      BY <3>1, <3>2 DEF IndexRecorded, Recorded, Timeless
  <2>6. Accounted /\ MissingForgotten /\ CollectingForgotten
    <3>1. Accounted
      BY <2>1 DEF Accounted
    <3>2. MissingForgotten
      BY <2>1 DEF MissingForgotten
    <3>3. gc.pc = "asleep"
      BY <2>1 DEF Sleeping
    <3> QED
      BY <3>1, <3>2, <3>3 DEF CollectingForgotten
  <2>7. CollectedForgotten
    <3>1. DOMAIN journal = {}
      BY <2>1
    <3> QED
      BY <3>1 DEF CollectedForgotten
  <2> QED
    BY <2>1, <2>2, <2>3, <2>4, <2>5, <2>6, <2>7 DEF OnceInv
<1>2. OnceInv /\ TypeOK' /\ [Next]_vars => OnceInv'
  <2>1. CASE UNCHANGED vars
    BY <2>1, OnceStutters
  <2>2. ASSUME OnceInv, TypeOK', Next
        PROVE  OnceInv'
    <3>1. QuietUnlessServing'
      BY <2>2, QuietStep DEF OnceInv
    <3>2. (mode \in {"stopped", "recovering", "serving"})'
      BY <2>2, OnceModes DEF OnceInv
    <3>3. SentOnce' /\ CarriedOnce' /\ LoggedInOrder' /\ KeysApart' /\ InTime'
      BY <2>2, SentOnceStep, CarriedOnceStep, LoggedInOrderStep, KeysApartStep, InTimeStep
    <3>4. IndexRecorded' /\ Accounted' /\ ReadersServed' /\ ReplayInOrder'
      BY <2>2, IndexRecordedStep, AccountedStep, ReadersServedStep, ReplayInOrderStep
    <3>5. MissingForgotten' /\ CollectingForgotten' /\ CollectedForgotten'
      BY <2>2, MissingForgottenStep, CollectingForgottenStep, CollectedForgottenStep
    <3> QED
      BY <2>2, <3>1, <3>2, <3>3, <3>4, <3>5 DEF OnceInv
  <2> QED
    BY <2>1, <2>2
<1> QED
  BY <1>1, <1>2, StoreTypeOK, PTL DEF Spec

\* The collector takes nothing a key is bound to and no blob a counter stands
\* for: --fsck stays clean with garbage collection on (gc.go, CollectBlobs).
THEOREM StoreCollectsSafely ==
  ASSUME OnceAssumption
  PROVE  Spec => []Healthy
<1>1. OnceInv => Healthy
  <2> SUFFICES ASSUME OnceInv
               PROVE  Healthy
    OBVIOUS
  <2>1. index \in Index /\ CountExact(index)
        /\ \A k \in Keys : index.keys[k] # None => index.keys[k] \in stored
    BY DEF OnceInv, IndexRecorded, Recorded, TypeOK
  <2>2. ASSUME NEW h \in Hashes, index.refs[h].count > 0
        PROVE  h \in stored
    <3>1. ~Unbound(index, h)
      BY <2>1, <2>2, CountedIsBound
    <3> QED
      BY <2>1, <3>1, NoneAssumption DEF Unbound
  <2> QED
    BY <2>1, <2>2 DEF Healthy
<1> QED
  BY <1>1, StoreOnce, PTL

\* A GET that resolved its key finds the blob it resolved, whatever was deleted
\* and collected since (OpenBlob).
THEOREM StoreReadSurvivesCollection ==
  ASSUME OnceAssumption
  PROVE  Spec => []ReadFindsBlob
<1>1. OnceInv => ReadFindsBlob
  BY DEF OnceInv, ReadersServed, ReadFindsBlob
<1> QED
  BY <1>1, StoreOnce, PTL

\* And the counters are exact, collected records and crashes included.
THEOREM StoreCollectsExactly ==
  ASSUME OnceAssumption
  PROVE  Spec => []RefsExact
<1>1. OnceInv => RefsExact
  BY DEF OnceInv, IndexRecorded, Recorded, RefsExact, CountExact
<1> QED
  BY <1>1, StoreOnce, PTL

=============================================================================
