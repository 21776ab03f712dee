---------------------------- MODULE TanaInduction ----------------------------
(***************************************************************************)
(* Induction over the natural numbers, without an operator for the         *)
(* predicate: a predicate is the set of numbers it holds of.  The          *)
(* principle is the pigeonhole principle in disguise: if m were outside a  *)
(* set that holds 0 and is closed under succession, taking one from each   *)
(* number up to m outside of it would map these numbers into themselves,   *)
(* one to one, and miss m.  What the project needs of it beside inductions *)
(* of its own is that a set of numbers has a least member, and a bounded   *)
(* one a greatest.                                                         *)
(***************************************************************************)
EXTENDS Integers, FiniteSets, FiniteSetTheorems, TLAPS

Inductive(S) == 0 \in S /\ \A n \in Nat : n \in S => n + 1 \in S

\* An inductive set holds every natural number.
LEMMA Induction ==
  ASSUME NEW S, Inductive(S)
  PROVE  Nat \subseteq S
<1> USE DEF Inductive
<1> SUFFICES ASSUME NEW m \in Nat, m \notin S PROVE FALSE
  OBVIOUS
<1> DEFINE D == {k \in 0..m : k \notin S}
           f == [k \in D |-> k - 1]
<1>1. D \in SUBSET (0..m) /\ IsFiniteSet(0..m)
  BY FS_Interval
<1>2. m \in D
  OBVIOUS
<1>3. \A k \in D : k - 1 \in D \ {m}
  <2> SUFFICES ASSUME NEW k \in D PROVE k - 1 \in D \ {m}
    OBVIOUS
  <2>1. k \in Nat /\ k # 0 /\ k <= m /\ k \notin S
    OBVIOUS
  <2>2. k - 1 \in Nat /\ (k - 1) + 1 = k
    BY <2>1
  <2>3. k - 1 \notin S
    BY <2>1, <2>2
  <2> QED
    BY <2>1, <2>2, <2>3
<1>4. f \in [D -> D \ {m}]
  BY <1>3
<1>5. \A x, y \in D : f[x] = f[y] => x = y
  OBVIOUS
<1> HIDE DEF D, f
<1>6. IsFiniteSet(D)
  BY <1>1, FS_Subset
<1>7. Cardinality(D) \in Nat
  BY <1>6, FS_CardinalityType
<1>8. IsFiniteSet(D \ {m}) /\ Cardinality(D \ {m}) = Cardinality(D) - 1
  BY <1>6, <1>2, FS_RemoveElement, Zenon
<1>9. IsFiniteSet(D \ {m}) /\ Cardinality(D \ {m}) < Cardinality(D)
  BY <1>7, <1>8
<1>10. PICK x, y \in D : x # y /\ f[x] = f[y]
  BY <1>6, <1>9, <1>4, FS_PigeonHole
<1> QED
  BY <1>10, <1>5

\* A set of numbers that is not empty has a least member (the oldest segment,
\* the first record wanted).
LEMMA Least ==
  ASSUME NEW S \in SUBSET Nat, S # {}
  PROVE  \E x \in S : \A y \in S : x <= y
<1> SUFFICES ASSUME \A x \in S : \E y \in S : y < x
             PROVE  FALSE
  OBVIOUS
<1> DEFINE T == {n \in Nat : \A y \in S : n < y}
<1>1. 0 \in T
  <2> SUFFICES ASSUME NEW y \in S PROVE 0 < y
    OBVIOUS
  <2>1. PICK z \in S : z < y
    OBVIOUS
  <2> QED
    BY <2>1
<1>2. ASSUME NEW n \in Nat, n \in T PROVE n + 1 \in T
  <2> SUFFICES ASSUME NEW y \in S PROVE n + 1 < y
    OBVIOUS
  <2>1. PICK z \in S : z < y
    OBVIOUS
  <2>2. n < z
    BY <1>2
  <2> QED
    BY <2>1, <2>2
<1> HIDE DEF T
<1>3. Nat \subseteq T
  BY <1>1, <1>2, Induction DEF Inductive
<1>4. PICK y \in S : TRUE
  OBVIOUS
<1>5. y \in T
  BY <1>3
<1> QED
  BY <1>5 DEF T

\* A bounded set of numbers that is not empty has a greatest member (the newest
\* segment, the last record).
LEMMA Greatest ==
  ASSUME NEW S \in SUBSET Nat, S # {}, NEW n \in Nat, \A y \in S : y <= n
  PROVE  \E x \in S : \A y \in S : y <= x
<1> DEFINE T == {n - y : y \in S}
<1>1. T \in SUBSET Nat /\ T # {}
  <2>1. \A y \in S : n - y \in Nat
    OBVIOUS
  <2> QED
    BY <2>1
<1>2. PICK t \in T : \A u \in T : t <= u
  BY <1>1, Least
<1>3. PICK x \in S : t = n - x
  OBVIOUS
<1>4. ASSUME NEW y \in S PROVE y <= x
  <2>1. n - x <= n - y
    BY <1>2, <1>3
  <2> QED
    BY <2>1
<1> QED
  BY <1>4

\* A finite set of numbers is bounded.
LEMMA Bounded ==
  ASSUME NEW S \in SUBSET Nat, IsFiniteSet(S)
  PROVE  \E b \in Nat : \A y \in S : y <= b
<1> DEFINE Below(s) == \E b \in Nat : \A y \in s : y <= b
           T == {n \in Nat : \A s \in SUBSET S : Cardinality(s) <= n => Below(s)}
<1>1. ASSUME NEW s \in SUBSET S
      PROVE  /\ Cardinality(s) \in Nat
             /\ \A x \in s : Cardinality(s \ {x}) = Cardinality(s) - 1
             /\ s = {} <=> Cardinality(s) = 0
  BY FS_Subset, FS_CardinalityType, FS_RemoveElement, FS_EmptySet
<1>2. 0 \in T
  <2> SUFFICES ASSUME NEW s \in SUBSET S, Cardinality(s) <= 0 PROVE Below(s)
    OBVIOUS
  <2>1. Cardinality(s) \in Nat /\ (s = {} <=> Cardinality(s) = 0)
    BY <1>1
  <2>2. s = {}
    BY <2>1
  <2> QED
    BY <2>2
<1>3. ASSUME NEW n \in Nat, n \in T PROVE n + 1 \in T
  <2> HIDE DEF Below
  <2> SUFFICES ASSUME NEW s \in SUBSET S, Cardinality(s) <= n + 1 PROVE Below(s)
    OBVIOUS
  <2>0. Cardinality(s) <= n + 1
    OBVIOUS
  <2> USE DEF Below
  <2>1. CASE s = {}
    BY <2>1
  <2>2. CASE s # {}
    <3>1. PICK x \in s : TRUE
      BY <2>2
    <3>2. s \ {x} \in SUBSET S /\ Cardinality(s) \in Nat /\ Cardinality(s \ {x}) = Cardinality(s) - 1
      BY <1>1, <3>1
    <3>3. Below(s \ {x})
      <4>1. Cardinality(s \ {x}) <= n
        BY <2>0, <3>2
      <4> HIDE DEF Below
      <4> QED
        BY <1>3, <3>2, <4>1
    <3>4. PICK b \in Nat : \A y \in s \ {x} : y <= b
      BY <3>3
    <3>5. x \in Nat /\ x + b \in Nat /\ x <= x + b
      OBVIOUS
    <3>6. \A y \in s : y <= x + b
      <4> SUFFICES ASSUME NEW y \in s PROVE y <= x + b
        OBVIOUS
      <4>1. CASE y = x
        BY <3>5, <4>1
      <4>2. CASE y # x
        BY <3>4, <4>2
      <4> QED
        BY <4>1, <4>2
    <3> QED
      BY <3>5, <3>6
  <2> QED
    BY <2>1, <2>2
<1> HIDE DEF T
<1>4. Cardinality(S) \in T
  BY <1>1, <1>2, <1>3, Induction DEF Inductive
<1>5. Cardinality(S) <= Cardinality(S)
  BY <1>1
<1> QED
  BY <1>4, <1>5 DEF T

\* A function that picks a member of every subset of S that has one.
Picks(pick, S) == \A s \in SUBSET S : s # {} => pick[s] \in s

\* A solution of the recursion over the subsets of S that takes the picked
\* member off: what a fold of the library is by definition.
Solves(f, S, base, step, pick) ==
  /\ f[{}] = base
  /\ \A s \in SUBSET S : s # {} => f[s] = step[<<pick[s], f[s \ {pick[s]}]>>]

\* A recursion over the subsets of a finite set has a solution (the loops that
\* the model writes as folds: validateStore, validateAgent, the tally of Stats).
LEMMA SetRecursion ==
  ASSUME NEW S, IsFiniteSet(S), NEW V, NEW base \in V, NEW step \in [S \X V -> V],
         NEW pick, Picks(pick, S)
  PROVE  \E f \in [SUBSET S -> V] : Solves(f, S, base, step, pick)
<1> USE DEF Picks, Solves
<1> DEFINE Right(f, s) ==
             f[s] = IF s = {} THEN base ELSE step[<<pick[s], f[s \ {pick[s]}]>>]
           T == {n \in Nat : \E f \in [SUBSET S -> V] :
                   \A s \in SUBSET S : Cardinality(s) <= n => Right(f, s)}
<1>1. ASSUME NEW s \in SUBSET S
      PROVE  /\ Cardinality(s) \in Nat /\ Cardinality(s) <= Cardinality(S)
             /\ s # {} => Cardinality(s \ {pick[s]}) = Cardinality(s) - 1
             /\ s = {} <=> Cardinality(s) = 0
  BY FS_Subset, FS_CardinalityType, FS_RemoveElement, FS_EmptySet
<1>2. 0 \in T
  <2> DEFINE c == [s \in SUBSET S |-> base]
  <2>1. c \in [SUBSET S -> V] /\ \A s \in SUBSET S : c[s] = base
    OBVIOUS
  <2> HIDE DEF c
  <2>2. ASSUME NEW s \in SUBSET S, Cardinality(s) <= 0
        PROVE  Right(c, s)
    <3>0. Cardinality(s) \in Nat /\ (s = {} <=> Cardinality(s) = 0)
      BY <1>1
    <3>1. s = {}
      BY <3>0, <2>2
    <3>2. c[s] = base
      BY <2>1
    <3> QED
      BY <3>1, <3>2, Zenon
  <2> QED
    BY <2>1, <2>2
<1>3. ASSUME NEW n \in Nat, n \in T  PROVE n + 1 \in T
  <2>1. PICK f \in [SUBSET S -> V] : \A s \in SUBSET S : Cardinality(s) <= n => Right(f, s)
    BY <1>3
  <2> DEFINE g == [s \in SUBSET S |-> IF Cardinality(s) <= n THEN f[s]
                                      ELSE step[<<pick[s], f[s \ {pick[s]}]>>]]
  <2>2. ASSUME NEW s \in SUBSET S, Cardinality(s) > n
        PROVE  s # {} /\ pick[s] \in S /\ s \ {pick[s]} \in SUBSET S
    BY <1>1, <2>2
  <2>3. g \in [SUBSET S -> V]
    <3> SUFFICES ASSUME NEW s \in SUBSET S PROVE g[s] \in V
      OBVIOUS
    <3>1. CASE Cardinality(s) <= n
      BY <3>1
    <3>2. CASE Cardinality(s) > n
      BY <1>1, <2>2, <3>2
    <3> QED
      BY <1>1, <3>1, <3>2
  <2>4. ASSUME NEW s \in SUBSET S, Cardinality(s) <= n + 1
        PROVE  Right(g, s)
    <3>1. CASE s = {}
      <4>1. Cardinality(s) = 0 /\ n >= 0
        BY <1>1, <3>1
      <4>2. Cardinality(s) <= n
        BY <4>1
      <4>3. Right(f, s)
        BY <2>1, <4>2
      <4> QED
        BY <3>1, <4>2, <4>3
    <3>2. CASE s # {}
      <4>1. pick[s] \in S /\ s \ {pick[s]} \in SUBSET S /\ Cardinality(s \ {pick[s]}) <= n
        BY <1>1, <2>4, <3>2
      <4>2. g[s \ {pick[s]}] = f[s \ {pick[s]}]
        BY <4>1
      <4>3. g[s] = step[<<pick[s], f[s \ {pick[s]}]>>]
        <5>1. CASE Cardinality(s) <= n
          BY <2>1, <3>2, <5>1
        <5>2. CASE ~(Cardinality(s) <= n)
          BY <5>2
        <5> QED
          BY <5>1, <5>2
      <4> QED
        BY <3>2, <4>2, <4>3
    <3> QED
      BY <3>1, <3>2
  <2>5. \A s \in SUBSET S : Cardinality(s) <= n + 1 => Right(g, s)
    BY <2>4
  <2> HIDE DEF g, Right
  <2> QED
    BY <2>3, <2>5
<1> HIDE DEF T
<1>4. Cardinality(S) \in T
  BY <1>1, <1>2, <1>3, Induction DEF Inductive
<1>5. PICK f \in [SUBSET S -> V] : \A s \in SUBSET S : Cardinality(s) <= Cardinality(S) => Right(f, s)
  BY <1>4 DEF T
<1> QED
  BY <1>1, <1>5

\* A running total over the subsets of S.
Tallies(h, S, w, pick) ==
  /\ h[{}] = 0
  /\ \A s \in SUBSET S : s # {} => h[s] = w[pick[s]] + h[s \ {pick[s]}]

\* Two functions that differ at most at o.
DifferAt(w, v, S, o) == \A x \in S : x # o => w[x] = v[x]

\* A total moves by as much as the one weight that has changed (Stats, which
\* keeps its counters by differences).
LEMMA TallyChange ==
  ASSUME NEW S, IsFiniteSet(S), NEW pick, Picks(pick, S), NEW o \in S,
         NEW w \in [S -> Int], NEW v \in [S -> Int], DifferAt(w, v, S, o),
         NEW h \in [SUBSET S -> Int], NEW g \in [SUBSET S -> Int],
         Tallies(h, S, w, pick), Tallies(g, S, v, pick)
  PROVE  g[S] = h[S] - w[o] + v[o]
<1> DEFINE By(s) == IF o \in s THEN v[o] - w[o] ELSE 0
           Moved(s) == g[s] = h[s] + By(s)
           T == {n \in Nat : \A s \in SUBSET S : Cardinality(s) <= n => Moved(s)}
<1>1. ASSUME NEW s \in SUBSET S
      PROVE  /\ Cardinality(s) \in Nat
             /\ s # {} => Cardinality(s \ {pick[s]}) = Cardinality(s) - 1
             /\ s = {} <=> Cardinality(s) = 0
  <2>1. IsFiniteSet(s)
    BY FS_Subset
  <2>2. ASSUME s # {} PROVE Cardinality(s \ {pick[s]}) = Cardinality(s) - 1
    <3>1. pick[s] \in s
      BY <2>2 DEF Picks
    <3> QED
      BY <2>1, <3>1, FS_RemoveElement
  <2> QED
    BY <2>1, <2>2, FS_CardinalityType, FS_EmptySet
<1>2. Moved({})
  BY DEF Tallies
<1>3. 0 \in T
  <2> HIDE DEF Moved
  <2> SUFFICES ASSUME NEW s \in SUBSET S, Cardinality(s) <= 0 PROVE Moved(s)
    OBVIOUS
  <2>1. Cardinality(s) \in Nat /\ (s = {} <=> Cardinality(s) = 0)
    BY <1>1
  <2>2. s = {}
    BY <2>1
  <2> QED
    BY <1>2, <2>2
<1>4. ASSUME NEW n \in Nat, n \in T PROVE n + 1 \in T
  <2> HIDE DEF Moved
  <2> SUFFICES ASSUME NEW s \in SUBSET S, Cardinality(s) <= n + 1 PROVE Moved(s)
    OBVIOUS
  <2>1. CASE s = {}
    BY <1>2, <2>1
  <2>2. CASE s # {}
    <3> DEFINE x == pick[s]
               r == s \ {x}
    <3>1. x \in s /\ x \in S /\ r \in SUBSET S
      BY <2>2 DEF Picks
    <3>2. Cardinality(s) \in Nat /\ Cardinality(r) = Cardinality(s) - 1
      BY <1>1, <2>2
    <3>3. Cardinality(r) <= n
      BY <3>2
    <3>4. Moved(r)
      BY <1>4, <3>1, <3>3
    <3>5. h[s] = w[x] + h[r] /\ g[s] = v[x] + g[r]
      BY <2>2 DEF Tallies
    <3>6. /\ w[x] \in Int /\ v[x] \in Int /\ h[r] \in Int /\ g[r] \in Int /\ w[o] \in Int
          /\ v[o] \in Int
      BY <3>1
    <3>7. CASE x = o
      <4>1. o \in s /\ o \notin r
        BY <3>1, <3>7
      <4> HIDE DEF x, r
      <4> QED
        BY <3>4, <3>5, <3>6, <3>7, <4>1 DEF Moved
    <3>8. CASE x # o
      <4>1. (o \in s <=> o \in r) /\ w[x] = v[x]
        BY <3>1, <3>8 DEF DifferAt
      <4> HIDE DEF x, r
      <4> QED
        BY <3>4, <3>5, <3>6, <4>1 DEF Moved
    <3> QED
      BY <3>7, <3>8
  <2> QED
    BY <2>1, <2>2
<1>5. Cardinality(S) \in T
  <2>1. Cardinality(S) \in Nat
    BY FS_CardinalityType
  <2> HIDE DEF T
  <2>2. Inductive(T)
    BY <1>3, <1>4 DEF Inductive
  <2>3. Nat \subseteq T
    BY <2>2, Induction
  <2> QED
    BY <2>1, <2>3
<1>6. Moved(S)
  <2>1. Cardinality(S) <= Cardinality(S)
    BY FS_CardinalityType
  <2> HIDE DEF Moved
  <2> QED
    BY <1>5, <2>1
<1>7. h[S] \in Int /\ w[o] \in Int /\ v[o] \in Int
  OBVIOUS
<1> QED
  BY <1>6, <1>7

\* Numbers that may be added up.
Additive(V) == 0 \in V /\ \A a, b \in V : a + b \in V

\* A total, over any subset, is among the numbers that the weights are from: the
\* natural ones, or 0 alone.
LEMMA TallyType ==
  ASSUME NEW S, IsFiniteSet(S), NEW pick, Picks(pick, S), NEW V, Additive(V), NEW w \in [S -> V],
         NEW h, Tallies(h, S, w, pick)
  PROVE  \A s \in SUBSET S : h[s] \in V
<1> DEFINE T == {n \in Nat : \A s \in SUBSET S : Cardinality(s) = n => h[s] \in V}
<1>1. ASSUME NEW s \in SUBSET S
      PROVE  IsFiniteSet(s) /\ Cardinality(s) \in Nat /\ (s = {} <=> Cardinality(s) = 0)
  <2>1. IsFiniteSet(s)
    BY FS_Subset
  <2> QED
    BY <2>1, FS_CardinalityType, FS_EmptySet
<1>2. 0 \in T
  <2>1. ASSUME NEW s \in SUBSET S, Cardinality(s) = 0 PROVE h[s] \in V
    <3>1. s = {}
      BY <1>1, <2>1
    <3> QED
      BY <3>1 DEF Tallies, Additive
  <2> QED
    BY <2>1
<1>3. ASSUME NEW n \in Nat, n \in T PROVE n + 1 \in T
  <2> SUFFICES ASSUME NEW s \in SUBSET S, Cardinality(s) = n + 1 PROVE h[s] \in V
    OBVIOUS
  <2> DEFINE x == pick[s]
             r == s \ {x}
  <2>1. s # {}
    BY <1>1
  <2>2. x \in s /\ x \in S /\ r \in SUBSET S
    BY <2>1 DEF Picks
  <2>3. Cardinality(r) = n
    <3>1. IsFiniteSet(s)
      BY <1>1
    <3>2. Cardinality(r) = Cardinality(s) - 1
      BY <2>2, <3>1, FS_RemoveElement
    <3> QED
      BY <3>2
  <2>4. h[r] \in V
    BY <1>3, <2>2, <2>3
  <2>5. h[s] = w[x] + h[r]
    BY <2>1 DEF Tallies
  <2>6. w[x] \in V
    BY <2>2
  <2> HIDE DEF x, r
  <2> QED
    BY <2>4, <2>5, <2>6 DEF Additive
<1> HIDE DEF T
<1>4. Nat \subseteq T
  <2>1. Inductive(T)
    BY <1>2, <1>3 DEF Inductive
  <2> QED
    BY <2>1, Induction
<1> QED
  BY <1>1, <1>4 DEF T

=============================================================================
