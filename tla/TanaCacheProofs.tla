-------------------------- MODULE TanaCacheProofs ---------------------------
(***************************************************************************)
(* Theorems about the cache, for every set of objects and sizes, any       *)
(* patterns, thresholds and clock: the counters are the sums over the      *)
(* entries, an eviction pass leaves alone what it must, takes the coldest  *)
(* and makes enough room, and the mount answers for what there is.         *)
(***************************************************************************)
EXTENDS TanaCache, TanaInduction

-----------------------------------------------------------------------------
(***************************************************************************)
(* Sums over the entries.                                                  *)
(***************************************************************************)

\* What the entries add up to in one counter.
Total(en, c) == MapThenSumSet(LAMBDA o : Weight(en[o])[c], Objects)

Weights(en, c) == [o \in Objects |-> Weight(en[o])[c]]
Picked == [s \in SUBSET Objects |-> CHOOSE x \in s : TRUE]

\* The entries there may be (the rows of the index).
Entries == [Objects -> Entry \cup {None}]

\* What is picked of a set is in it.
LEMMA PickedPicks == Picks(Picked, Objects)
BY DEF Picks, Picked

\* Every weight is a natural number (Stats.add).
LEMMA WeightType ==
  ASSUME NEW e \in Entry \cup {None}
  PROVE  Weight(e) \in [Counters -> Nat]
<1>1. CASE e = None
  BY <1>1 DEF Weight, Counters
<1>2. CASE e # None
  <2>1. e.size \in Nat
    BY <1>2, CacheBounds DEF Entry
  <2> QED
    BY <1>2, <2>1 DEF Weight, Counters
<1> QED
  BY <1>1, <1>2

\* A sum over the entries is a tally of their weights (Stats).
LEMMA TotalTally ==
  ASSUME NEW en \in Entries, NEW c \in Counters
  PROVE  \E h \in [SUBSET Objects -> Nat] :
           Tallies(h, Objects, Weights(en, c), Picked) /\ Total(en, c) = h[Objects]
<1> DEFINE One(s) == CHOOSE x \in s : TRUE
           IsRec(f) == f = [s \in SUBSET Objects |->
                              IF s = {} THEN 0 ELSE Weight(en[One(s)])[c] + f[s \ {One(s)}]]
           G == CHOOSE f : IsRec(f)
           w == Weights(en, c)
<1>1. Total(en, c) = G[Objects]
  BY Zenon DEF Total, MapThenSumSet, MapThenFoldSet
<1>2. w \in [Objects -> Nat]
  BY WeightType DEF Weights, Entries
<1>3. IsFiniteSet(Objects) /\ Picks(Picked, Objects)
  BY CacheBounds, PickedPicks
<1> DEFINE step == [p \in Objects \X Nat |-> w[p[1]] + p[2]]
<1>4. step \in [Objects \X Nat -> Nat]
  BY <1>2
<1>5. ASSUME NEW s \in SUBSET Objects, s # {}
      PROVE  One(s) \in s /\ Picked[s] = One(s) /\ s \ {One(s)} \in SUBSET Objects
  BY <1>5 DEF Picked
<1>6. \E f : IsRec(f)
  <2>1. PICK f \in [SUBSET Objects -> Nat] : Solves(f, Objects, 0, step, Picked)
    <3> HIDE DEF step
    <3> QED
      BY <1>3, <1>4, SetRecursion
  <2>2. ASSUME NEW s \in SUBSET Objects, s # {}
        PROVE  f[s] = Weight(en[One(s)])[c] + f[s \ {One(s)}]
    <3>1. <<One(s), f[s \ {One(s)}]>> \in Objects \X Nat
      BY <1>5, <2>1, <2>2
    <3>2. f[s] = step[<<One(s), f[s \ {One(s)}]>>]
      BY <1>5, <2>1, <2>2 DEF Solves
    <3>3. One(s) \in Objects
      BY <1>5, <2>2
    <3> HIDE DEF One
    <3> QED
      BY <3>1, <3>2, <3>3 DEF Weights
  <2>3. \A s \in SUBSET Objects :
          f[s] = IF s = {} THEN 0 ELSE Weight(en[One(s)])[c] + f[s \ {One(s)}]
    BY <2>1, <2>2 DEF Solves
  <2> QED
    BY <2>1, <2>3
<1>7. IsRec(G)
  BY <1>6
<1> HIDE DEF G
<1>8. Tallies(G, Objects, w, Picked)
  <2>1. G[{}] = 0
    BY <1>7
  <2>2. ASSUME NEW s \in SUBSET Objects, s # {}
        PROVE  G[s] = w[Picked[s]] + G[s \ {Picked[s]}]
    <3>1. One(s) \in Objects /\ Picked[s] = One(s)
      BY <1>5, <2>2
    <3> HIDE DEF One
    <3> QED
      BY <1>7, <2>2, <3>1 DEF Weights
  <2> QED
    BY <2>1, <2>2 DEF Tallies
<1>9. \A s \in SUBSET Objects : G[s] \in Nat
  <2> HIDE DEF w
  <2> QED
    <3>1. Additive(Nat)
      BY DEF Additive
    <3> QED
      BY <1>2, <1>3, <1>8, <3>1, TallyType
<1>10. G \in [SUBSET Objects -> Nat]
  BY <1>7, <1>9
<1> QED
  BY <1>1, <1>8, <1>10

\* A sum over the entries is a natural number.
LEMMA TotalType ==
  ASSUME NEW en \in Entries, NEW c \in Counters
  PROVE  Total(en, c) \in Nat
BY TotalTally

\* Replacing one entry moves the sums by the difference of the two weights.
LEMMA TotalChange ==
  ASSUME NEW en \in Entries, NEW o \in Objects, NEW e \in Entry \cup {None}, NEW c \in Counters
  PROVE  Total([en EXCEPT ![o] = e], c) = Total(en, c) - Weight(en[o])[c] + Weight(e)[c]
<1> DEFINE en2 == [en EXCEPT ![o] = e]
<1>1. en2 \in Entries /\ en2[o] = e /\ \A x \in Objects : x # o => en[x] = en2[x]
  BY DEF Entries
<1> HIDE DEF en2
<1>2. PICK h \in [SUBSET Objects -> Nat] :
        Tallies(h, Objects, Weights(en, c), Picked) /\ Total(en, c) = h[Objects]
  BY TotalTally
<1>3. PICK g \in [SUBSET Objects -> Nat] :
        Tallies(g, Objects, Weights(en2, c), Picked) /\ Total(en2, c) = g[Objects]
  BY <1>1, TotalTally
<1> DEFINE w == Weights(en, c)
           v == Weights(en2, c)
<1>4. /\ w \in [Objects -> Int] /\ v \in [Objects -> Int]
      /\ w[o] = Weight(en[o])[c] /\ v[o] = Weight(e)[c]
      /\ \A x \in Objects : x # o => w[x] = v[x]
  BY <1>1, WeightType DEF Weights, Entries
<1>5. h \in [SUBSET Objects -> Int] /\ g \in [SUBSET Objects -> Int]
  OBVIOUS
<1> HIDE DEF w, v
<1>6. Tallies(h, Objects, w, Picked) /\ Tallies(g, Objects, v, Picked)
  BY <1>2, <1>3 DEF w, v
<1>7. g[Objects] = h[Objects] - w[o] + v[o]
  <2>1. w \in [Objects -> Int] /\ v \in [Objects -> Int]
    BY <1>4
  <2>2. DifferAt(w, v, Objects, o)
    BY <1>4 DEF DifferAt
  <2>3. IsFiniteSet(Objects)
    BY CacheBounds
  <2> QED
    BY <1>5, <1>6, <2>1, <2>2, <2>3, PickedPicks, TallyChange, ZenonT(30)
<1>8. Total(en2, c) = Total(en, c) - Weight(en[o])[c] + Weight(e)[c]
  BY <1>2, <1>3, <1>4, <1>7
<1> QED
  BY <1>8 DEF en2

\* Entries of the same weights have the same sums (Tx.Touch changes no counter).
LEMMA TotalSame ==
  ASSUME NEW en \in Entries, NEW en2 \in Entries, NEW c \in Counters,
         \A o \in Objects : Weight(en[o]) = Weight(en2[o])
  PROVE  Total(en, c) = Total(en2, c)
<1>1. PICK h \in [SUBSET Objects -> Nat] :
        Tallies(h, Objects, Weights(en, c), Picked) /\ Total(en, c) = h[Objects]
  BY TotalTally
<1>2. PICK g \in [SUBSET Objects -> Nat] :
        Tallies(g, Objects, Weights(en2, c), Picked) /\ Total(en2, c) = g[Objects]
  BY TotalTally
<1> DEFINE w == Weights(en, c)
<1>3. w = Weights(en2, c) /\ w \in [Objects -> Int]
  BY WeightType DEF Weights, Entries
<1>4. CASE Objects = {}
  BY <1>1, <1>2, <1>4 DEF Tallies
<1>5. CASE Objects # {}
  <2>1. PICK o \in Objects : TRUE
    BY <1>5
  <2>2. h \in [SUBSET Objects -> Int] /\ g \in [SUBSET Objects -> Int]
    OBVIOUS
  <2> HIDE DEF w
  <2>3. Tallies(h, Objects, w, Picked) /\ Tallies(g, Objects, w, Picked)
    BY <1>1, <1>2, <1>3 DEF w
  <2>4. g[Objects] = h[Objects] - w[o] + w[o]
    <3>1. w \in [Objects -> Int] /\ IsFiniteSet(Objects)
      BY <1>3, CacheBounds
    <3>2. DifferAt(w, w, Objects, o)
      BY DEF DifferAt
    <3> QED
      BY <2>2, <2>3, <3>1, <3>2, PickedPicks, TallyChange, Zenon
  <2>5. g[Objects] \in Int /\ h[Objects] \in Int /\ w[o] \in Int
    BY <1>3
  <2> QED
    BY <1>1, <1>2, <2>4, <2>5
<1> QED
  BY <1>4, <1>5

-----------------------------------------------------------------------------
(***************************************************************************)
(* Type correctness and the counters.                                      *)
(***************************************************************************)
Candidate == [key : Objects, size : Nat, atime : Nat, read : Nat]

PassState ==
  [pc : {"idle", "measured", "evicting", "checked", "removed", "done"}, target : Nat, goal : Int,
   pool : Seq(Candidate), cur : Objects \cup {None}, freed : Nat, last : Nat,
   gone : SUBSET Nat, calm : BOOLEAN, settled : BOOLEAN]

CallState ==
  [pc : {"idle", "half"}, op : Ops, seen : SUBSET Objects, calm : SUBSET Objects,
   missed : SUBSET Objects]

\* An object being evicted is the first that is left; only a pass at work has a
\* pool.
PassShape(p) ==
  /\ p.pc \in {"checked", "removed"} => p.pool # <<>> /\ p.cur = Head(p.pool).key
  /\ p.pc \notin {"checked", "removed"} => p.cur = None
  /\ p.pc \notin {"evicting", "checked", "removed"} => p.pool = <<>>

\* The counters are the sums.
Exact(en, st) == st \in [Counters -> Nat] /\ \A c \in Counters : st[c] = Total(en, c)

IndexInv == entry \in Entries /\ Exact(entry, stats)
TimesOK ==
  /\ pending \in [Objects -> -1..MaxClock] /\ flushing \in [Objects -> -1..MaxClock]
  /\ read \in [Objects -> Nat] /\ clock \in 0..MaxClock
FilesOK == file \subseteq Objects /\ landing \subseteq Objects /\ unread \subseteq Objects
PassOK == pass \in PassState /\ PassShape(pass)

TypeInv == IndexInv /\ TimesOK /\ FilesOK /\ PassOK /\ call \in CallState

\* Store keeps the counters exact (Tx.Put, Tx.SetState, Tx.Delete).
LEMMA StoreExact ==
  ASSUME IndexInv, NEW o \in Objects, NEW e \in Entry \cup {None}, Store(o, e)
  PROVE  IndexInv'
<1>1. entry' \in Entries /\ entry' = [entry EXCEPT ![o] = e]
  BY DEF Store, Entries, IndexInv
<1>2. ASSUME NEW c \in Counters PROVE stats'[c] = Total(entry', c)
  <2>1. stats'[c] = Total(entry, c) - Weight(entry[o])[c] + Weight(e)[c]
    BY DEF Store, IndexInv, Exact
  <2>2. Total([entry EXCEPT ![o] = e], c) = Total(entry, c) - Weight(entry[o])[c] + Weight(e)[c]
    BY TotalChange DEF IndexInv
  <2> QED
    BY <1>1, <2>1, <2>2
<1>3. \A c \in Counters : Total(entry', c) \in Nat
  BY <1>1, TotalType
<1>4. stats' \in [Counters -> Nat]
  <2>1. stats' = [c \in Counters |-> stats'[c]]
    BY DEF Store
  <2> QED
    BY <1>2, <1>3, <2>1
<1> QED
  BY <1>1, <1>2, <1>4 DEF IndexInv, Exact

\* So does a change of state.
LEMMA SetStateExact ==
  ASSUME IndexInv, NEW o \in Objects, NEW s \in {"dirty", "synced", "evicted"}, SetState(o, s)
  PROVE  IndexInv'
<1>1. CASE entry[o] = None
  <2>1. entry' = entry /\ stats' = stats
    BY <1>1 DEF SetState, index
  <2> QED
    BY <2>1 DEF IndexInv, Exact
<1>2. CASE entry[o] # None
  <2>1. [entry[o] EXCEPT !.state = s] \in Entry
    BY <1>2 DEF IndexInv, Entries, Entry
  <2> QED
    BY <1>2, <2>1, StoreExact DEF SetState
<1> QED
  BY <1>1, <1>2

\* What a flush makes of an entry: the later of the two times (Tx.Touch).
LEMMA FlushKeeps ==
  ASSUME IndexInv, TimesOK, Flush, NEW o \in Objects
  PROVE  /\ entry[o] = None => entry'[o] = None
         /\ entry[o] # None =>
              /\ entry'[o] \in Entry /\ entry'[o] # None
              /\ entry'[o].size = entry[o].size /\ entry'[o].state = entry[o].state
              /\ entry'[o].atime = Later(entry[o].atime, flushing[o])
<1>1. /\ entry[o] \in Entry \cup {None} /\ flushing[o] \in -1..MaxClock
      /\ entry'[o] = IF entry[o] # None /\ flushing[o] > entry[o].atime
                     THEN [entry[o] EXCEPT !.atime = flushing[o]] ELSE entry[o]
  BY DEF IndexInv, Entries, TimesOK, Flush
<1>2. CASE entry[o] # None /\ flushing[o] > entry[o].atime
  <2>1. entry[o] \in Entry /\ entry[o].atime \in Nat
    BY <1>1, <1>2 DEF Entry
  <2>2. flushing[o] \in Nat
    BY <1>1, <1>2, <2>1, CacheBounds
  <2>3. entry'[o] = [entry[o] EXCEPT !.atime = flushing[o]]
    BY <1>1, <1>2
  <2>4. entry'[o] \in Entry
    BY <2>1, <2>2, <2>3 DEF Entry
  <2>5. /\ entry'[o].size = entry[o].size /\ entry'[o].state = entry[o].state
        /\ entry'[o].atime = flushing[o]
    BY <2>1, <2>3 DEF Entry
  <2>6. Later(entry[o].atime, flushing[o]) = flushing[o]
    BY <1>2, <2>1, <2>2 DEF Later
  <2> QED
    BY <1>2, <2>4, <2>5, <2>6, CacheNone
<1>3. CASE ~(entry[o] # None /\ flushing[o] > entry[o].atime)
  <2>1. entry'[o] = entry[o]
    BY <1>1, <1>3
  <2>2. entry[o] # None => Later(entry[o].atime, flushing[o]) = entry[o].atime
    <3>1. entry[o] # None => entry[o].atime \in Int /\ flushing[o] \in Int
      BY <1>1 DEF Entry
    <3> QED
      BY <1>3, <3>1 DEF Later
  <2> QED
    BY <1>1, <2>1, <2>2
<1> QED
  BY <1>2, <1>3

\* A flush of access times moves no counter.
LEMMA FlushExact ==
  ASSUME IndexInv, TimesOK, Flush
  PROVE  IndexInv'
<1>1. ASSUME NEW o \in Objects
      PROVE  entry'[o] \in Entry \cup {None} /\ Weight(entry[o]) = Weight(entry'[o])
  <2>1. CASE entry[o] = None
    BY <2>1, FlushKeeps
  <2>2. CASE entry[o] # None
    BY <2>2, FlushKeeps DEF Weight, Local
  <2> QED
    BY <2>1, <2>2
<1>2. entry' \in Entries
  <2>1. entry' = [o \in Objects |-> entry'[o]]
    BY DEF Flush
  <2> QED
    BY <1>1, <2>1 DEF Entries
<1>3. stats' = stats
  BY DEF Flush
<1>4. \A c \in Counters : Total(entry, c) = Total(entry', c)
  BY <1>1, <1>2, TotalSame DEF IndexInv
<1> QED
  BY <1>2, <1>3, <1>4 DEF IndexInv, Exact

\* What a disturbed pass keeps, and what it forgets.
LEMMA DisturbedShape ==
  ASSUME PassOK
  PROVE  /\ Disturbed \in PassState /\ PassShape(Disturbed)
         /\ pass.pc \notin {"idle", "done"} =>
              /\ Disturbed.pc = pass.pc /\ Disturbed.pool = pass.pool /\ Disturbed.cur = pass.cur
              /\ Disturbed.freed = pass.freed /\ Disturbed.target = pass.target
              /\ ~Disturbed.calm /\ Disturbed.gone = {}
         /\ pass.pc \in {"idle", "done"} => Disturbed.pc = "idle"
         /\ ~Disturbed.settled
<1>1. CASE pass.pc \in {"idle", "done"}
  BY <1>1 DEF Disturbed, Resting, PassState, PassShape, Candidate
<1>2. CASE pass.pc \notin {"idle", "done"}
  <2>1. Disturbed = [pass EXCEPT !.calm = FALSE, !.goal = 0, !.last = 0, !.gone = {},
                                 !.settled = FALSE]
    BY <1>2 DEF Disturbed
  <2>2. pass \in PassState /\ PassShape(pass)
    BY DEF PassOK
  <2>3. Disturbed \in PassState
    <3> DEFINE no == FALSE
               none == {}
    <3>1. no \in BOOLEAN /\ none \in SUBSET Nat /\ 0 \in Nat /\ 0 \in Int
      OBVIOUS
    <3>2. Disturbed = [pass EXCEPT !.calm = no, !.goal = 0, !.last = 0, !.gone = none,
                                   !.settled = no]
      BY <2>1
    <3> HIDE DEF no, none
    <3> QED
      BY <2>2, <3>1, <3>2 DEF PassState
  <2>4. /\ Disturbed.pc = pass.pc /\ Disturbed.pool = pass.pool /\ Disturbed.cur = pass.cur
        /\ Disturbed.freed = pass.freed /\ Disturbed.target = pass.target
        /\ Disturbed.calm = FALSE /\ Disturbed.settled = FALSE /\ Disturbed.gone = {}
    BY <2>1, <2>2 DEF PassState
  <2> QED
    BY <1>2, <2>2, <2>3, <2>4 DEF PassShape
<1> QED
  BY <1>1, <1>2

\* The candidates of a walk, and what their sequence holds: every one of them,
\* once.
Candidates == {[key |-> o, size |-> entry[o].size, atime |-> entry[o].atime, read |-> read[o]] :
                 o \in {x \in Objects : Evictable(x)}}

\* They are candidates, finitely many.
LEMMA CandidateType ==
  ASSUME IndexInv, TimesOK
  PROVE  Candidates \in SUBSET Candidate /\ IsFiniteSet(Candidates)
<1>1. ASSUME NEW o \in Objects, Evictable(o)
      PROVE  [key |-> o, size |-> entry[o].size, atime |-> entry[o].atime, read |-> read[o]]
               \in Candidate
  <2>1. entry[o] \in Entry
    BY <1>1 DEF Evictable, IndexInv, Entries
  <2>2. entry[o].size \in Nat /\ entry[o].atime \in Nat /\ read[o] \in Nat
    BY <2>1, CacheBounds DEF Entry, TimesOK
  <2> QED
    BY <2>2 DEF Candidate
<1>2. IsFiniteSet(Candidates)
  <2> DEFINE D == {x \in Objects : Evictable(x)}
             f == [o \in D |-> [key |-> o, size |-> entry[o].size, atime |-> entry[o].atime,
                                read |-> read[o]]]
  <2>1. f \in Surjection(D, Candidates)
    BY DEF Surjection, Candidates
  <2>2. IsFiniteSet(D)
    BY CacheBounds, FS_Subset
  <2> HIDE DEF D, f
  <2> QED
    BY <2>1, <2>2, FS_Surjection
<1> QED
  BY <1>1, <1>2 DEF Candidates

\* A sequence of a set holds each of its members, once (the pool of EvictToFit).
LEMMA Sequenced ==
  ASSUME NEW S, IsFiniteSet(S), NEW pool \in SetToSeqs(S)
  PROVE  /\ pool \in Seq(S) /\ DOMAIN pool = 1..Len(pool)
         /\ \A i, j \in DOMAIN pool : i # j => pool[i] # pool[j]
         /\ \A x \in S : \E i \in DOMAIN pool : pool[i] = x
<1> DEFINE n == Cardinality(S)
<1>1. n \in Nat
  BY FS_CardinalityType
<1>2. pool \in [1..n -> S] /\ \A i, j \in 1..n : i # j => pool[i] # pool[j]
  BY DEF SetToSeqs
<1>3. Cardinality(1..n) = n
  <2> HIDE DEF n
  <2>1. Cardinality(1..n) = IF 1 > n THEN 0 ELSE n - 1 + 1
    BY <1>1, FS_Interval
  <2> QED
    BY <1>1, <2>1
<1>4. Cardinality(1..n) = Cardinality(S)
  BY <1>3
<1> HIDE DEF n
<1>5. pool \in Surjection(1..n, S)
  <2>1. pool \in Injection(1..n, S)
    BY <1>2 DEF Injection, IsInjective
  <2> DEFINE D == 1..n
  <2> HIDE DEF D
  <2>2. pool \in Injection(D, S) /\ Cardinality(D) = Cardinality(S)
    BY <1>4, <2>1 DEF D
  <2>3. Cardinality(D) = Cardinality(S) <=> pool \in Surjection(D, S)
    BY <2>2, FS_Injection
  <2> QED
    BY <2>2, <2>3 DEF D
<1>6. \A x \in S : \E i \in 1..n : pool[i] = x
  BY <1>5 DEF Surjection
<1>7. pool \in Seq(S) /\ Len(pool) = n /\ DOMAIN pool = 1..n
  BY <1>1, <1>2
<1> QED
  BY <1>2, <1>6, <1>7

\* The pass of every step of the agent is well formed.
LEMMA MeasurePass ==
  ASSUME IndexInv, NEW short \in 0..1, Measure(short)
  PROVE  /\ pass' \in PassState /\ PassShape(pass')
         /\ pass'.pc = "measured" /\ pass'.calm /\ ~pass'.settled /\ pass'.pool = <<>>
         /\ pass'.freed = 0 /\ pass'.last = 0 /\ pass'.gone = {} /\ pass'.cur = None
         /\ pass'.target = OverBy(short)
         /\ pass'.goal = Smaller(MaxSize, stats["localBytes"] - short)
<1> DEFINE t == OverBy(short)
           g == Smaller(MaxSize, stats["localBytes"] - short)
<1>1. stats["localBytes"] \in Nat /\ MaxSize \in Nat
  BY CacheBounds DEF IndexInv, Exact, Counters
<1>2. t \in Nat /\ g \in Int
  BY <1>1 DEF OverBy, Smaller, Measure
<1>3. pass' = [Resting EXCEPT !.pc = "measured", !.target = t, !.goal = g]
  BY DEF Measure
<1> HIDE DEF t, g
<1>4. pass' = [pc |-> "measured", target |-> t, goal |-> g, pool |-> <<>>, cur |-> None,
               freed |-> 0, last |-> 0, gone |-> {}, calm |-> TRUE, settled |-> FALSE]
  BY <1>3 DEF Resting
<1>5. <<>> \in Seq(Candidate)
  OBVIOUS
<1>6. pass' \in PassState
  BY <1>2, <1>4, <1>5 DEF PassState
<1> QED
  BY <1>4, <1>6 DEF PassShape, t, g

\* What a walk makes of the pass.
LEMMA WalkPass ==
  ASSUME IndexInv, TimesOK, PassOK, Walk
  PROVE  /\ pass' \in PassState /\ PassShape(pass')
         /\ pass'.pc = "evicting" /\ pass'.calm = pass.calm
         /\ pass'.settled = (pass.calm /\ NoTimesWait)
         /\ pass'.freed = pass.freed /\ pass'.last = pass.last /\ pass'.gone = pass.gone
         /\ pass'.target = pass.target /\ pass'.goal = pass.goal
         /\ pass'.pool \in SetToSeqs(Candidates)
         /\ \A i, j \in DOMAIN pass'.pool : i < j => ColdestFirst(pass'.pool[i], pass'.pool[j])
<1>1. PICK pool \in SetToSeqs(Candidates) :
        /\ \A i, j \in DOMAIN pool : i < j => ColdestFirst(pool[i], pool[j])
        /\ pass' = [pass EXCEPT !.pc = "evicting", !.pool = pool,
                                !.settled = pass.calm /\ NoTimesWait]
  BY Zenon DEF Walk, Candidates
<1>2. pool \in Seq(Candidates) /\ Candidates \in SUBSET Candidate
  BY CandidateType, Sequenced
<1>3. pool \in Seq(Candidate)
  BY <1>2
<1> DEFINE settled == pass.calm /\ NoTimesWait
<1>4. pass \in PassState /\ PassShape(pass) /\ pass.pc = "measured"
  BY DEF PassOK, Walk
<1>5. settled \in BOOLEAN
  BY <1>4 DEF PassState
<1>6. pass' = [pass EXCEPT !.pc = "evicting", !.pool = pool, !.settled = settled]
  BY <1>1
<1> HIDE DEF settled
<1>7. pass' \in PassState
  BY <1>3, <1>4, <1>5, <1>6 DEF PassState
<1>8. /\ pass'.pc = "evicting" /\ pass'.calm = pass.calm /\ pass'.settled = settled
      /\ pass'.freed = pass.freed /\ pass'.last = pass.last /\ pass'.gone = pass.gone
      /\ pass'.target = pass.target /\ pass'.goal = pass.goal /\ pass'.pool = pool
      /\ pass'.cur = pass.cur
  BY <1>4, <1>6 DEF PassState
<1>9. PassShape(pass')
  BY <1>4, <1>8 DEF PassShape
<1> QED
  BY <1>1, <1>7, <1>8, <1>9 DEF settled

\* What an object that is passed over makes of it.
LEMMA SkipPass ==
  ASSUME PassOK, SkipUnsafe
  PROVE  /\ pass' \in PassState /\ PassShape(pass')
         /\ pass'.pc = "evicting" /\ pass'.calm = pass.calm /\ pass'.settled = pass.settled
         /\ pass'.freed = pass.freed /\ pass'.last = pass.last /\ pass'.gone = pass.gone
         /\ pass'.target = pass.target /\ pass'.goal = pass.goal
         /\ pass.pool # <<>> /\ pass'.pool = Tail(pass.pool)
<1>1. /\ pass \in PassState /\ PassShape(pass) /\ pass.pc = "evicting" /\ pass.pool # <<>>
      /\ pass' = [pass EXCEPT !.pool = Tail(pass.pool)]
  BY DEF PassOK, SkipUnsafe, Needed
<1>2. Tail(pass.pool) \in Seq(Candidate)
  BY <1>1 DEF PassState
<1> DEFINE tail == Tail(pass.pool)
<1> HIDE DEF tail
<1>3. pass' = [pass EXCEPT !.pool = tail] /\ tail \in Seq(Candidate)
  BY <1>1, <1>2 DEF tail
<1>4. pass' \in PassState
  BY <1>1, <1>3 DEF PassState
<1>5. /\ pass'.pc = pass.pc /\ pass'.calm = pass.calm /\ pass'.settled = pass.settled
      /\ pass'.freed = pass.freed /\ pass'.last = pass.last /\ pass'.gone = pass.gone
      /\ pass'.target = pass.target /\ pass'.goal = pass.goal /\ pass'.pool = tail
      /\ pass'.cur = pass.cur
  BY <1>1, <1>3 DEF PassState
<1> QED
  BY <1>1, <1>4, <1>5 DEF tail, PassShape

\* What a look at an entry makes of it.
LEMMA CheckPass ==
  ASSUME PassOK, CheckEntry
  PROVE  /\ pass' \in PassState /\ PassShape(pass')
         /\ pass'.pc = "checked" /\ pass'.calm = pass.calm /\ pass'.settled = pass.settled
         /\ pass'.freed = pass.freed /\ pass'.last = pass.last /\ pass'.gone = pass.gone
         /\ pass'.target = pass.target /\ pass'.goal = pass.goal
         /\ pass.pool # <<>> /\ pass'.pool = pass.pool /\ pass'.cur = Head(pass.pool).key
         /\ Head(pass.pool) \in Candidate
<1> DEFINE o == Head(pass.pool).key
<1>1. /\ pass \in PassState /\ PassShape(pass) /\ pass.pc = "evicting" /\ pass.pool # <<>>
      /\ pass' = [pass EXCEPT !.pc = "checked", !.cur = o]
  BY DEF PassOK, CheckEntry, Needed
<1>2. Head(pass.pool) \in Candidate
  BY <1>1 DEF PassState
<1>3. o \in Objects
  BY <1>2 DEF Candidate
<1> HIDE DEF o
<1>4. pass' \in PassState
  BY <1>1, <1>3 DEF PassState
<1>5. /\ pass'.pc = "checked" /\ pass'.calm = pass.calm /\ pass'.settled = pass.settled
      /\ pass'.freed = pass.freed /\ pass'.last = pass.last /\ pass'.gone = pass.gone
      /\ pass'.target = pass.target /\ pass'.goal = pass.goal /\ pass'.pool = pass.pool
      /\ pass'.cur = o
  BY <1>1 DEF PassState
<1> QED
  BY <1>1, <1>2, <1>4, <1>5 DEF o, PassShape

\* What a removed file makes of it.
LEMMA EvictPass ==
  ASSUME PassOK, EvictFile
  PROVE  /\ pass' \in PassState /\ PassShape(pass')
         /\ pass'.pc = "removed" /\ pass'.calm = pass.calm /\ pass'.settled = pass.settled
         /\ pass'.freed = pass.freed /\ pass'.last = pass.last /\ pass'.gone = pass.gone
         /\ pass'.target = pass.target /\ pass'.goal = pass.goal
         /\ pass.pool # <<>> /\ pass'.pool = pass.pool /\ pass.cur = Head(pass.pool).key
         /\ pass.cur \in Objects
<1>1. /\ pass \in PassState /\ PassShape(pass) /\ pass.pc = "checked"
      /\ pass' = [pass EXCEPT !.pc = "removed"]
  BY DEF PassOK, EvictFile
<1>2. pass.pool # <<>> /\ pass.cur = Head(pass.pool).key
  BY <1>1 DEF PassShape
<1>3. Head(pass.pool) \in Candidate
  BY <1>1, <1>2 DEF PassState
<1>4. pass.cur \in Objects
  BY <1>2, <1>3 DEF Candidate
<1>5. pass' \in PassState
  BY <1>1 DEF PassState
<1>6. /\ pass'.pc = "removed" /\ pass'.calm = pass.calm /\ pass'.settled = pass.settled
      /\ pass'.freed = pass.freed /\ pass'.last = pass.last /\ pass'.gone = pass.gone
      /\ pass'.target = pass.target /\ pass'.goal = pass.goal /\ pass'.pool = pass.pool
      /\ pass'.cur = pass.cur
  BY <1>1 DEF PassState
<1> QED
  BY <1>1, <1>2, <1>4, <1>5, <1>6 DEF PassShape

\* What an entry marked evicted makes of it.
LEMMA MarkPass ==
  ASSUME PassOK, MarkEvicted
  PROVE  /\ pass' \in PassState /\ PassShape(pass')
         /\ pass'.pc = "evicting" /\ pass'.calm = pass.calm /\ pass'.settled = pass.settled
         /\ pass'.freed = pass.freed + Head(pass.pool).size
         /\ pass'.last = IF pass.calm THEN Head(pass.pool).size ELSE 0
         /\ pass'.gone = IF pass.settled THEN pass.gone \cup {Head(pass.pool).read} ELSE pass.gone
         /\ pass'.target = pass.target /\ pass'.goal = pass.goal
         /\ pass.pool # <<>> /\ pass'.pool = Tail(pass.pool) /\ Head(pass.pool) \in Candidate
<1> DEFINE x == Head(pass.pool)
           tail == Tail(pass.pool)
           freed == pass.freed + x.size
           last == IF pass.calm THEN x.size ELSE 0
           gone == IF pass.settled THEN pass.gone \cup {x.read} ELSE pass.gone
<1>1. /\ pass \in PassState /\ PassShape(pass) /\ pass.pc = "removed" /\ pass.pool # <<>>
      /\ pass' = [pass EXCEPT !.pc = "evicting", !.pool = tail, !.cur = None,
                !.freed = freed, !.last = last, !.gone = gone]
  <2>1. pass \in PassState /\ PassShape(pass) /\ pass.pc = "removed"
    BY DEF PassOK, MarkEvicted
  <2>2. pass.pool # <<>>
    BY <2>1 DEF PassShape
  <2> QED
    BY <2>1, <2>2, Zenon DEF MarkEvicted
<1>2. x \in Candidate /\ tail \in Seq(Candidate)
  BY <1>1 DEF PassState
<1>3. freed \in Nat /\ last \in Nat /\ gone \in SUBSET Nat
  BY <1>1, <1>2 DEF PassState, Candidate
<1> HIDE DEF x, tail, freed, last, gone
<1>4. pass' \in PassState
  BY <1>1, <1>2, <1>3 DEF PassState
<1>5. /\ pass'.pc = "evicting" /\ pass'.calm = pass.calm /\ pass'.settled = pass.settled
      /\ pass'.freed = freed /\ pass'.last = last /\ pass'.gone = gone
      /\ pass'.target = pass.target /\ pass'.goal = pass.goal /\ pass'.pool = tail
      /\ pass'.cur = None
  BY <1>1 DEF PassState
<1> QED
  BY <1>1, <1>2, <1>4, <1>5 DEF x, tail, freed, last, gone, PassShape

\* What the end of a pass leaves.
LEMMA EndedPass ==
  ASSUME PassOK, EndPass
  PROVE  /\ pass' \in PassState /\ PassShape(pass')
         /\ pass.calm =>
              /\ pass'.pc = "done" /\ pass'.calm = pass.calm /\ pass'.settled = pass.settled
              /\ pass'.freed = pass.freed /\ pass'.last = pass.last /\ pass'.gone = pass.gone
              /\ pass'.target = pass.target /\ pass'.goal = pass.goal
         /\ ~pass.calm => pass' = Resting
<1>1. pass \in PassState /\ PassShape(pass) /\ pass.pc = "evicting"
  BY DEF PassOK, EndPass
<1>2. CASE pass.calm
  <2> DEFINE e == <<>>
  <2>1. e \in Seq(Candidate) /\ e = <<>>
    OBVIOUS
  <2> HIDE DEF e
  <2>2. pass' = [pass EXCEPT !.pc = "done", !.pool = e]
    BY <1>2, <2>1 DEF EndPass
  <2>3. pass' \in PassState
    BY <1>1, <2>1, <2>2 DEF PassState
  <2>4. /\ pass'.pc = "done" /\ pass'.calm = pass.calm /\ pass'.settled = pass.settled
        /\ pass'.freed = pass.freed /\ pass'.last = pass.last /\ pass'.gone = pass.gone
        /\ pass'.target = pass.target /\ pass'.goal = pass.goal /\ pass'.pool = e
        /\ pass'.cur = pass.cur
    BY <1>1, <2>2 DEF PassState
  <2> QED
    BY <1>1, <1>2, <2>1, <2>3, <2>4 DEF PassShape
<1>3. CASE ~pass.calm
  <2>1. pass' = Resting
    BY <1>3 DEF EndPass
  <2> QED
    BY <1>3, <2>1 DEF Resting, PassState, PassShape
<1> QED
  BY <1>2, <1>3

\* The state is well typed, step by step.
LEMMA TypeStep ==
  ASSUME TypeInv, [CacheNext]_vars
  PROVE  TypeInv'
<1> USE DEF TypeInv
<1>1. ASSUME NEW o \in Objects, NEW s \in Sizes, RecordFile(o, s) PROVE TypeInv'
  <2>1. clock \in Nat /\ [size |-> s, state |-> "dirty", atime |-> clock] \in Entry
    BY CacheBounds DEF TimesOK, Entry
  <2>2. IndexInv'
    BY <1>1, <2>1, StoreExact DEF RecordFile
  <2>3. TimesOK' /\ FilesOK'
    BY <1>1, <2>1 DEF RecordFile, TimesOK, FilesOK, atimes
  <2>4. PassOK'
    BY <1>1, DisturbedShape DEF RecordFile, PassOK
  <2>5. call' \in CallState
    BY <1>1 DEF RecordFile, Moved, CallState
  <2> QED
    BY <2>2, <2>3, <2>4, <2>5
<1>2. ASSUME NEW o \in Objects, Upload(o) PROVE TypeInv'
  <2>1. IndexInv'
    BY <1>2, SetStateExact DEF Upload
  <2>2. PassOK'
    BY <1>2, DisturbedShape DEF Upload, PassOK
  <2> QED
    BY <1>2, <2>1, <2>2 DEF Upload, TimesOK, FilesOK, atimes, disk
<1>3. ASSUME NEW o \in Objects, RemoveObject(o) PROVE TypeInv'
  <2>1. IndexInv'
    BY <1>3, StoreExact DEF RemoveObject
  <2>2. PassOK'
    BY <1>3, DisturbedShape DEF RemoveObject, PassOK
  <2>3. TimesOK' /\ FilesOK'
    BY <1>3, CacheBounds DEF RemoveObject, TimesOK, FilesOK
  <2>4. call' \in CallState
    BY <1>3 DEF RemoveObject, CallState
  <2> QED
    BY <2>1, <2>2, <2>3, <2>4
<1>4. ASSUME NEW o \in Objects, LandRecall(o) PROVE TypeInv'
  BY <1>4 DEF LandRecall, TimesOK, FilesOK, atimes, index, IndexInv, PassOK
<1>5. ASSUME NEW o \in Objects, MarkRecalled(o) PROVE TypeInv'
  <2>1. IndexInv'
    BY <1>5, SetStateExact DEF MarkRecalled
  <2>2. PassOK'
    BY <1>5, DisturbedShape DEF MarkRecalled, PassOK
  <2>3. TimesOK' /\ FilesOK'
    BY <1>5, CacheBounds DEF MarkRecalled, Touched, Later, TimesOK, FilesOK, disk
  <2>4. call' \in CallState
    BY <1>5 DEF MarkRecalled, Moved, CallState
  <2> QED
    BY <2>1, <2>2, <2>3, <2>4
<1>6. ASSUME NEW o \in Objects, Touch(o) PROVE TypeInv'
  <2>1. TimesOK'
    BY <1>6, CacheBounds DEF Touch, Touched, Later, TimesOK
  <2> QED
    BY <1>6, <2>1 DEF Touch, disk, FilesOK, index, IndexInv, PassOK
<1>7. ASSUME TakePending PROVE TypeInv'
  <2>1. NoTimes \in [Objects -> -1..MaxClock]
    BY CacheBounds DEF NoTimes
  <2> QED
    BY <1>7, <2>1 DEF TakePending, disk, FilesOK, TimesOK, index, IndexInv, PassOK
<1>8. ASSUME Flush PROVE TypeInv'
  <2>1. NoTimes \in [Objects -> -1..MaxClock]
    BY CacheBounds DEF NoTimes
  <2>2. IndexInv'
    BY <1>8, FlushExact
  <2> QED
    BY <1>8, <2>1, <2>2 DEF Flush, disk, FilesOK, TimesOK, PassOK
<1>9. ASSUME FailFlush PROVE TypeInv'
  <2>1. NoTimes \in [Objects -> -1..MaxClock]
    BY CacheBounds DEF NoTimes
  <2>2. ASSUME NEW o \in Objects
        PROVE  (IF entry[o] = None THEN read[o] ELSE Later(entry[o].atime, pending[o])) \in Nat
    <3>1. CASE entry[o] = None
      BY <3>1 DEF TimesOK
    <3>2. CASE entry[o] # None
      <4>1. entry[o].atime \in Nat /\ pending[o] \in -1..MaxClock
        BY <3>2 DEF IndexInv, Entries, Entry, TimesOK
      <4> QED
        BY <3>2, <4>1, CacheBounds DEF Later
    <3> QED
      BY <3>1, <3>2
  <2>3. read' \in [Objects -> Nat]
    BY <1>9, <2>2 DEF FailFlush
  <2> QED
    BY <1>9, <2>1, <2>3 DEF FailFlush, disk, FilesOK, TimesOK, index, IndexInv, PassOK
<1>10. ASSUME NEW short \in 0..1, Measure(short) PROVE TypeInv'
  <2>1. PassOK'
    BY <1>10, MeasurePass DEF PassOK
  <2> QED
    BY <1>10, <2>1 DEF Measure, disk, FilesOK, TimesOK, index, atimes, IndexInv
<1>11. ASSUME Walk PROVE TypeInv'
  <2>1. PassOK'
    BY <1>11, WalkPass DEF PassOK
  <2> QED
    BY <1>11, <2>1 DEF Walk, disk, FilesOK, TimesOK, index, atimes, IndexInv
<1>12. ASSUME SkipUnsafe PROVE TypeInv'
  <2>1. PassOK'
    BY <1>12, SkipPass DEF PassOK
  <2> QED
    BY <1>12, <2>1 DEF SkipUnsafe, disk, FilesOK, TimesOK, index, atimes, IndexInv
<1>20. ASSUME NEW o \in Objects, WriteFile(o) PROVE TypeInv'
  BY <1>20 DEF WriteFile, FilesOK, TimesOK, index, atimes, IndexInv, PassOK
<1>21. ASSUME CheckEntry PROVE TypeInv'
  <2>1. PassOK'
    BY <1>21, CheckPass DEF PassOK
  <2> QED
    BY <1>21, <2>1 DEF CheckEntry, disk, FilesOK, TimesOK, index, atimes, IndexInv
<1>13. ASSUME EvictFile PROVE TypeInv'
  <2>1. PassOK'
    BY <1>13, EvictPass DEF PassOK
  <2>2. call' \in CallState
    BY <1>13 DEF EvictFile, Moved, CallState
  <2> QED
    BY <1>13, <2>1, <2>2 DEF EvictFile, FilesOK, TimesOK, index, atimes, IndexInv
<1>14. ASSUME MarkEvicted PROVE TypeInv'
  <2>1. PassOK'
    BY <1>14, MarkPass DEF PassOK
  <2>2. pass.cur \in Objects
    BY <1>14, MarkPass DEF PassOK, PassShape, Candidate, MarkEvicted
  <2>3. IndexInv'
    BY <1>14, <2>2, SetStateExact DEF MarkEvicted
  <2> QED
    BY <1>14, <2>1, <2>3 DEF MarkEvicted, disk, FilesOK, TimesOK, atimes
<1>15. ASSUME EndPass PROVE TypeInv'
  <2>1. PassOK'
    BY <1>15, EndedPass DEF PassOK
  <2> QED
    BY <1>15, <2>1 DEF EndPass, disk, FilesOK, TimesOK, index, atimes, IndexInv
<1>16. ASSUME NEW op \in Ops, BeginCall(op) PROVE TypeInv'
  <2>1. call' \in CallState
    <3> DEFINE seen == IF op = "open" THEN LocalInIndex ELSE file
               calm == IF op = "getattr" THEN Indexed ELSE Indexed \ (LocalInIndex \ file)
    <3>1. seen \in SUBSET Objects /\ calm \in SUBSET Objects
      BY DEF FilesOK, LocalInIndex, Indexed
    <3>2. call' = [pc |-> "half", op |-> op, seen |-> seen, calm |-> calm, missed |-> {}]
      BY <1>16 DEF BeginCall
    <3> HIDE DEF seen, calm
    <3> QED
      BY <3>1, <3>2 DEF CallState
  <2> QED
    BY <1>16, <2>1 DEF BeginCall, disk, FilesOK, TimesOK, index, atimes, IndexInv, PassOK
<1>17. ASSUME FinishCall PROVE TypeInv'
  <2>1. call' \in CallState
    <3> DEFINE m == call.calm \ Answered(call)
    <3>1. m \in SUBSET Objects
      BY DEF CallState
    <3>2. call' = [Silent EXCEPT !.missed = m]
      BY <1>17 DEF FinishCall
    <3> HIDE DEF m
    <3> QED
      BY <3>1, <3>2 DEF CallState, Silent, Ops
  <2> QED
    BY <1>17, <2>1 DEF FinishCall, disk, FilesOK, TimesOK, index, atimes, IndexInv, PassOK
<1>18. ASSUME Tick PROVE TypeInv'
  BY <1>18, CacheBounds DEF Tick, disk, FilesOK, TimesOK, index, atimes, IndexInv, PassOK
<1>19. ASSUME UNCHANGED vars PROVE TypeInv'
  BY <1>19 DEF vars, FilesOK, TimesOK, IndexInv, PassOK
<1> QED
  BY <1>1, <1>2, <1>3, <1>4, <1>5, <1>6, <1>7, <1>8, <1>9, <1>10, <1>11, <1>12, <1>13, <1>14,
     <1>15, <1>16, <1>17, <1>18, <1>19, <1>20, <1>21 DEF CacheNext, Flusher

\* The state is well typed, with every counter at zero, in the beginning.
LEMMA TypeInit ==
  ASSUME CacheInit
  PROVE  TypeInv
<1>1. entry \in Entries
  BY DEF CacheInit, Entries
<1>2. ASSUME NEW c \in Counters PROVE Total(entry, c) = 0
  <2>1. PICK h \in [SUBSET Objects -> Nat] :
          Tallies(h, Objects, Weights(entry, c), Picked) /\ Total(entry, c) = h[Objects]
    BY <1>1, TotalTally
  <2> DEFINE w == Weights(entry, c)
  <2>2. w \in [Objects -> {0}] /\ Additive({0})
    BY <1>1 DEF Weights, CacheInit, Weight, Additive
  <2> HIDE DEF w
  <2>3. Tallies(h, Objects, w, Picked)
    BY <2>1 DEF w
  <2>4. IsFiniteSet(Objects)
    BY CacheBounds
  <2>5. h[Objects] \in {0}
    BY <2>2, <2>3, <2>4, PickedPicks, TallyType
  <2> QED
    BY <2>1, <2>5
<1>3. Exact(entry, stats)
  BY <1>2 DEF Exact, CacheInit
<1>4. TimesOK /\ FilesOK
  BY CacheBounds DEF CacheInit, TimesOK, FilesOK, NoTimes
<1>5. PassOK /\ call \in CallState
  BY DEF CacheInit, PassOK, PassState, PassShape, Resting, CallState, Silent, Ops
<1> QED
  BY <1>1, <1>3, <1>4, <1>5 DEF TypeInv, IndexInv

\* The counters are the sums over the entries (Stats: "so they can never drift
\* from the objects").
THEOREM CountersExact == CacheSpec => []StatsExact
<1>1. ASSUME TypeInv PROVE StatsExact
  <2>1. CacheTypeOK
    BY <1>1 DEF TypeInv, CacheTypeOK, IndexInv, Entries, Exact, TimesOK, FilesOK, PassOK,
                PassState, CallState
  <2>2. \A c \in Counters : stats[c] = MapThenSumSet(LAMBDA o : Weight(entry[o])[c], Objects)
    BY <1>1, Zenon DEF TypeInv, IndexInv, Exact, Total
  <2> QED
    BY <2>1, <2>2, Zenon DEF StatsExact
<1>2. CacheInit => TypeInv
  BY TypeInit
<1>3. TypeInv /\ [CacheNext]_vars => TypeInv'
  BY TypeStep
<1>4. TypeInv => StatsExact
  BY <1>1
<1> QED
  BY <1>2, <1>3, <1>4, PTL DEF CacheSpec

-----------------------------------------------------------------------------
(***************************************************************************)
(* What an eviction leaves alone.                                          *)
(***************************************************************************)
\* A candidate is not protected, and, unless it has gone, it is large enough.
Poolable(en, x) == x.key \notin NeverEvict /\ (en[x.key] # None => en[x.key].size >= KeepBelow)

PoolInv == \A i \in DOMAIN pass.pool : Poolable(entry, pass.pool[i])

\* A pool that loses its head, and one that loses nothing.
LEMMA TailMembers ==
  ASSUME NEW q \in Seq(Candidate), q # <<>>
  PROVE  /\ Head(q) = q[1] /\ 1 \in DOMAIN q
         /\ \A i \in DOMAIN Tail(q) : i + 1 \in DOMAIN q /\ Tail(q)[i] = q[i + 1]
         /\ \A i \in DOMAIN q : i # 1 => i - 1 \in DOMAIN Tail(q) /\ Tail(q)[i - 1] = q[i]
OBVIOUS

\* An entry that one step replaces by one as large, or removes.
LEMMA PoolKept ==
  ASSUME TypeInv, PoolInv, pass'.pool = pass.pool,
         \A o \in Objects : entry'[o] # None =>
            \/ ~Pooled(o) \/ entry'[o].size >= KeepBelow
            \/ entry[o] # None /\ entry'[o].size = entry[o].size
  PROVE  PoolInv'
<1> SUFFICES ASSUME NEW i \in DOMAIN pass.pool PROVE Poolable(entry', pass.pool[i])
  BY DEF PoolInv
<1>1. pass.pool \in Seq(Candidate) /\ PassShape(pass)
  BY DEF TypeInv, PassOK, PassState
<1>2. pass.pool[i].key \in Objects
  <2>1. pass.pool[i] \in Candidate
    BY <1>1
  <2> QED
    BY <2>1 DEF Candidate
<1>3. Pooled(pass.pool[i].key)
  BY DEF Pooled
<1>4. Poolable(entry, pass.pool[i])
  BY DEF PoolInv
<1> QED
  BY <1>2, <1>3, <1>4 DEF Poolable

\* A disturbed pass keeps its pool (EvictToFit holds it in a local variable).
LEMMA DisturbedPool ==
  ASSUME TypeInv
  PROVE  Disturbed.pool = pass.pool
BY DisturbedShape DEF TypeInv, PassOK, PassShape

\* Every step keeps the pool free of what must stay.
LEMMA PoolStep ==
  ASSUME TypeInv, PoolInv, [CacheNext]_vars, "stale" \notin Hardships
  PROVE  PoolInv'
<1>0. pass \in PassState /\ PassShape(pass) /\ entry \in Entries
  BY DEF TypeInv, PassOK, IndexInv
<1>1. ASSUME NEW o \in Objects, NEW s \in Sizes, RecordFile(o, s) PROVE PoolInv'
  <2>1. pass'.pool = pass.pool
    BY <1>1, DisturbedPool DEF RecordFile
  <2>2. entry' = [entry EXCEPT ![o] = [size |-> s, state |-> "dirty", atime |-> clock]]
    BY <1>1 DEF RecordFile, Store
  <2>3. ~Pooled(o) \/ s >= KeepBelow
    BY <1>1 DEF RecordFile
  <2> QED
    BY <1>0, <2>1, <2>2, <2>3, PoolKept DEF Entries
<1>2. ASSUME NEW o \in Objects, NEW s, SetState(o, s), pass'.pool = pass.pool PROVE PoolInv'
  <2>1. \A x \in Objects : entry'[x] # None => entry[x] # None /\ entry'[x].size = entry[x].size
    BY <1>0, <1>2 DEF SetState, Store, index, Entries, Entry
  <2> QED
    BY <1>2, <2>1, PoolKept
<1>3. ASSUME NEW o \in Objects, Upload(o) PROVE PoolInv'
  BY <1>2, <1>3, DisturbedPool DEF Upload
<1>4. ASSUME NEW o \in Objects, RemoveObject(o) PROVE PoolInv'
  <2>1. pass'.pool = pass.pool
    BY <1>4, DisturbedPool DEF RemoveObject
  <2>2. entry' = [entry EXCEPT ![o] = None]
    BY <1>4 DEF RemoveObject, Store
  <2> QED
    BY <1>0, <2>1, <2>2, PoolKept DEF Entries
<1>5. ASSUME NEW o \in Objects, MarkRecalled(o) PROVE PoolInv'
  BY <1>2, <1>5, DisturbedPool DEF MarkRecalled
<1>6. ASSUME Flush PROVE PoolInv'
  <2>1. \A x \in Objects : entry'[x] # None => entry[x] # None /\ entry'[x].size = entry[x].size
    BY <1>6, FlushKeeps DEF TypeInv
  <2> QED
    BY <1>6, <2>1, PoolKept DEF Flush
<1>7. ASSUME NEW short \in 0..1, Measure(short) PROVE PoolInv'
  BY <1>7, MeasurePass DEF TypeInv, PoolInv
<1>8. ASSUME Walk PROVE PoolInv'
  <2>1. pass'.pool \in SetToSeqs(Candidates)
    BY <1>8, WalkPass DEF TypeInv
  <2>2. IsFiniteSet(Candidates)
    BY CandidateType DEF TypeInv
  <2>3. \A i \in DOMAIN pass'.pool : pass'.pool[i] \in Candidates
    BY <2>1, <2>2, Sequenced
  <2>4. \A x \in Candidates : Poolable(entry, x)
    BY DEF Candidates, Poolable, Evictable
  <2>5. entry' = entry
    BY <1>8 DEF Walk, index
  <2> QED
    BY <2>3, <2>4, <2>5 DEF PoolInv
<1>9. ASSUME pass.pool # <<>>, pass'.pool = Tail(pass.pool), entry' = entry PROVE PoolInv'
  BY <1>0, <1>9, TailMembers DEF PoolInv, PassState
<1>10. ASSUME SkipUnsafe PROVE PoolInv'
  BY <1>9, <1>10, SkipPass DEF SkipUnsafe, index, TypeInv
<1>11. ASSUME EvictFile PROVE PoolInv'
  BY <1>11, EvictPass DEF EvictFile, index, TypeInv, PoolInv
<1>20. ASSUME CheckEntry PROVE PoolInv'
  BY <1>20, CheckPass DEF CheckEntry, index, TypeInv, PoolInv
<1>12. ASSUME MarkEvicted PROVE PoolInv'
  <2>1. pass.pool # <<>> /\ pass'.pool = Tail(pass.pool) /\ pass.cur \in Objects
    BY <1>12, MarkPass DEF TypeInv, PassOK, PassShape, Candidate, MarkEvicted
  <2>2. \A x \in Objects : entry'[x] # None => entry[x] # None /\ entry'[x].size = entry[x].size
    BY <1>0, <1>12, <2>1 DEF MarkEvicted, SetState, Store, index, Entries, Entry
  <2>3. pass.pool \in Seq(Candidate)
    BY <1>0 DEF PassState
  <2> SUFFICES ASSUME NEW i \in DOMAIN Tail(pass.pool) PROVE Poolable(entry', Tail(pass.pool)[i])
    BY <2>1 DEF PoolInv
  <2>4. i + 1 \in DOMAIN pass.pool /\ Tail(pass.pool)[i] = pass.pool[i + 1]
    BY <2>1, <2>3, TailMembers
  <2>5. Poolable(entry, pass.pool[i + 1]) /\ pass.pool[i + 1] \in Candidate
    BY <2>3, <2>4 DEF PoolInv
  <2>6. pass.pool[i + 1].key \in Objects
    BY <2>5 DEF Candidate
  <2> QED
    BY <2>2, <2>4, <2>5, <2>6 DEF Poolable
<1>13. ASSUME EndPass PROVE PoolInv'
  BY <1>0, <1>13, EndedPass DEF PoolInv, EndPass, TypeInv, PassShape, Resting
<1>14. ASSUME entry' = entry, pass' = pass PROVE PoolInv'
  BY <1>14 DEF PoolInv
<1>21. ASSUME NEW o \in Objects, WriteFile(o) PROVE PoolInv'
  BY <1>14, <1>21 DEF WriteFile, index
<1>15. ASSUME NEW o \in Objects, LandRecall(o) \/ Touch(o) PROVE PoolInv'
  BY <1>14, <1>15 DEF LandRecall, Touch, index
<1>16. ASSUME TakePending \/ FailFlush PROVE PoolInv'
  BY <1>14, <1>16 DEF TakePending, FailFlush, index
<1>17. ASSUME NEW op \in Ops, BeginCall(op) PROVE PoolInv'
  BY <1>14, <1>17 DEF BeginCall, index
<1>18. ASSUME FinishCall \/ Tick PROVE PoolInv'
  BY <1>14, <1>18 DEF FinishCall, Tick, index
<1>19. ASSUME UNCHANGED vars PROVE PoolInv'
  BY <1>14, <1>19 DEF vars
<1> QED
  BY <1>1, <1>3, <1>4, <1>5, <1>6, <1>7, <1>8, <1>10, <1>11, <1>12, <1>13, <1>15, <1>16, <1>17,
     <1>18, <1>19, <1>20, <1>21 DEF CacheNext, Flusher

\* A state that is set leaves the object in the index, and evicted if it is that
\* state.
LEMMA SetStateKeeps ==
  ASSUME TypeInv, NEW o \in Objects, NEW s \in {"dirty", "synced", "evicted"}, SetState(o, s),
         NEW x \in Objects, entry[x] # None
  PROVE  /\ entry'[x] # None
         /\ x # o => entry'[x] = entry[x]
         /\ x = o => entry'[x].state = s
<1>1. entry \in Entries
  BY DEF TypeInv, IndexInv
<1>2. entry[x] \in Entry
  BY <1>1 DEF Entries
<1>3. CASE x = o
  <2>1. entry'[x] = [entry[x] EXCEPT !.state = s]
    BY <1>1, <1>3 DEF SetState, Store, Entries
  <2>2. entry'[x] \in Entry /\ entry'[x].state = s
    BY <1>2, <2>1 DEF Entry
  <2> QED
    BY <1>3, <2>2, CacheNone
<1>4. CASE x # o
  <2>1. entry'[x] = entry[x]
    BY <1>1, <1>4 DEF SetState, Store, Entries, index
  <2> QED
    BY <1>4, <2>1
<1> QED
  BY <1>3, <1>4

\* What the counters of a pass are made of.
LEMMA Amounts ==
  ASSUME TypeInv
  PROVE  /\ stats["localBytes"] \in Nat /\ pass.freed \in Nat /\ pass.target \in Nat
         /\ pass.goal \in Int /\ pass.last \in Nat /\ pass.calm \in BOOLEAN
         /\ MaxSize \in Nat /\ pass.pool \in Seq(Candidate)
BY CacheBounds DEF TypeInv, IndexInv, Exact, Counters, PassOK, PassState

\* A file that goes while its object stays goes by the turn of a pass (Evict).
LEMMA TakenInTurn ==
  ASSUME TypeInv, [CacheNext]_vars, NEW o \in Objects, o \in file, o \notin file',
         entry'[o] # None
  PROVE  /\ pass.pc = "checked" /\ pass.cur = o /\ entry' = entry
         /\ 1 \in DOMAIN pass.pool /\ pass.pool[1].key = o
<1>1. entry \in Entries
  BY DEF TypeInv, IndexInv
<1>2. ~RemoveObject(o)
  BY <1>1 DEF RemoveObject, Store, Entries
<1>3. \A x \in Objects : x # o => ~RemoveObject(x)
  BY DEF RemoveObject
<1>4. EvictFile
  BY <1>2, <1>3, Zenon DEF CacheNext, Flusher, WriteFile, RecordFile, Upload, LandRecall,
     MarkRecalled, Touch, TakePending, Flush, FailFlush, Measure, Walk, SkipUnsafe, CheckEntry,
     MarkEvicted, EndPass, BeginCall, FinishCall, Tick, disk, vars
<1>5. pass.pc = "checked" /\ pass.cur = o /\ entry' = entry
  BY <1>4 DEF EvictFile, index
<1>6. pass.pool # <<>> /\ pass.cur = Head(pass.pool).key /\ pass.pool \in Seq(Candidate)
  BY <1>4, EvictPass DEF TypeInv, PassOK, PassState
<1> QED
  BY <1>5, <1>6, TailMembers

\* What the turn of an object has seen stays true of it until its file goes, if
\* the file does not change meanwhile (Evict, between its look and os.Remove).
TurnInv ==
  pass.pc = "checked" =>
    /\ pass.cur \notin unread
    /\ entry[pass.cur] = None \/ entry[pass.cur].state = "synced"

\* An entry set to synced, or one that was.
LEMMA TurnSynced ==
  ASSUME TypeInv, TurnInv, NEW o \in Objects, SetState(o, "synced"), pass' = Disturbed,
         unread' = unread
  PROVE  TurnInv'
<1> SUFFICES ASSUME pass'.pc = "checked"
             PROVE  /\ pass'.cur \notin unread
                    /\ entry'[pass'.cur] = None \/ entry'[pass'.cur].state = "synced"
  BY DEF TurnInv
<1>1. pass.pc = "checked" /\ pass'.cur = pass.cur
  BY DisturbedShape DEF TypeInv
<1>2. pass.cur \in Objects
  <2>1. pass.pool # <<>> /\ pass.cur = Head(pass.pool).key /\ pass.pool \in Seq(Candidate)
    BY <1>1 DEF TypeInv, PassOK, PassShape, PassState
  <2>2. Head(pass.pool) \in Candidate
    BY <2>1
  <2> QED
    BY <2>1, <2>2 DEF Candidate
<1>3. entry \in Entries
  BY DEF TypeInv, IndexInv
<1>4. CASE entry[pass.cur] = None
  <2>1. entry'[pass.cur] = None
    BY <1>2, <1>3, <1>4 DEF SetState, Store, index, Entries
  <2> QED
    BY <1>1, <2>1 DEF TurnInv
<1>5. CASE entry[pass.cur] # None
  <2>1. /\ pass.cur # o => entry'[pass.cur] = entry[pass.cur]
        /\ pass.cur = o => entry'[pass.cur].state = "synced"
    BY <1>2, <1>5, SetStateKeeps
  <2> QED
    BY <1>1, <1>5, <2>1 DEF TurnInv
<1> QED
  BY <1>4, <1>5

\* Every step keeps it.
LEMMA TurnStep ==
  ASSUME TypeInv, TurnInv, [CacheNext]_vars, "rewritten" \notin Hardships
  PROVE  TurnInv'
<1>0. entry \in Entries
  BY DEF TypeInv, IndexInv
<1>1. ASSUME NEW o \in Objects, WriteFile(o) PROVE TurnInv'
  BY <1>1 DEF WriteFile, Doomed, TurnInv, index
<1>2. ASSUME pass' = Disturbed, pass.pc # "checked" PROVE TurnInv'
  <2>1. pass'.pc # "checked"
    BY <1>2, DisturbedShape DEF TypeInv
  <2> QED
    BY <2>1 DEF TurnInv
<1>3. ASSUME pass' = Disturbed, pass.pc = "checked"
      PROVE  pass'.cur = pass.cur /\ pass.cur \in Objects
  <2>1. pass.pool # <<>> /\ pass.cur = Head(pass.pool).key /\ pass.pool \in Seq(Candidate)
    BY <1>3 DEF TypeInv, PassOK, PassShape, PassState
  <2>2. Head(pass.pool) \in Candidate
    BY <2>1
  <2> QED
    BY <1>3, <2>1, <2>2, DisturbedShape DEF Candidate, TypeInv
<1>4. ASSUME NEW o \in Objects, NEW s \in Sizes, RecordFile(o, s) PROVE TurnInv'
  <2>1. /\ pass' = Disturbed /\ o \in unread /\ unread' = unread \ {o}
        /\ \A x \in Objects : x # o => entry'[x] = entry[x]
    BY <1>0, <1>4 DEF RecordFile, Store, Entries
  <2>2. CASE pass.pc = "checked"
    BY <1>3, <2>1, <2>2 DEF TurnInv
  <2> QED
    BY <1>2, <2>1, <2>2
<1>5. ASSUME NEW o \in Objects, RemoveObject(o) PROVE TurnInv'
  <2>1. /\ pass' = Disturbed /\ unread' = unread \ {o}
        /\ \A x \in Objects : entry'[x] = None \/ entry'[x] = entry[x]
    BY <1>0, <1>5 DEF RemoveObject, Store, Entries
  <2>2. CASE pass.pc = "checked"
    BY <1>3, <2>1, <2>2 DEF TurnInv
  <2> QED
    BY <1>2, <2>1, <2>2
<1>6. ASSUME NEW o \in Objects, Upload(o) \/ MarkRecalled(o) PROVE TurnInv'
  BY <1>6, TurnSynced DEF Upload, MarkRecalled, disk
<1>7. ASSUME entry' = entry, unread' = unread, pass' = pass PROVE TurnInv'
  BY <1>7 DEF TurnInv
<1>8. ASSUME NEW o \in Objects, LandRecall(o) \/ Touch(o) PROVE TurnInv'
  BY <1>7, <1>8 DEF LandRecall, Touch, index, disk
<1>9. ASSUME TakePending \/ FailFlush PROVE TurnInv'
  BY <1>7, <1>9 DEF TakePending, FailFlush, index, disk
<1>10. ASSUME Flush PROVE TurnInv'
  <2>1. pass' = pass /\ unread' = unread
    BY <1>10 DEF Flush, disk
  <2> SUFFICES ASSUME pass.pc = "checked"
               PROVE  entry'[pass.cur] = None \/ entry'[pass.cur].state = "synced"
    BY <2>1 DEF TurnInv
  <2>2. pass.pool # <<>> /\ pass.cur = Head(pass.pool).key /\ pass.pool \in Seq(Candidate)
    BY DEF TypeInv, PassOK, PassShape, PassState
  <2>3. Head(pass.pool) \in Candidate
    BY <2>2
  <2>4. pass.cur \in Objects
    BY <2>2, <2>3 DEF Candidate
  <2>5. /\ entry[pass.cur] = None => entry'[pass.cur] = None
        /\ entry[pass.cur] # None => entry'[pass.cur].state = entry[pass.cur].state
    BY <1>10, <2>4, FlushKeeps DEF TypeInv
  <2> QED
    BY <2>5 DEF TurnInv
<1>11. ASSUME CheckEntry PROVE TurnInv'
  <2>1. pass'.cur = Head(pass.pool).key
    BY <1>11, CheckPass DEF TypeInv
  <2> QED
    BY <1>11, <2>1 DEF CheckEntry, TurnInv, index, disk
<1>12. ASSUME pass'.pc # "checked" PROVE TurnInv'
  BY <1>12 DEF TurnInv
<1>13. ASSUME NEW short \in 0..1, Measure(short) PROVE TurnInv'
  BY <1>12, <1>13, MeasurePass DEF TypeInv
<1>14. ASSUME Walk \/ SkipUnsafe PROVE TurnInv'
  BY <1>12, <1>14, WalkPass, SkipPass DEF TypeInv
<1>15. ASSUME EvictFile \/ MarkEvicted PROVE TurnInv'
  BY <1>12, <1>15, EvictPass, MarkPass DEF TypeInv
<1>16. ASSUME EndPass PROVE TurnInv'
  <2>1. pass'.pc # "checked"
    BY <1>16, EndedPass, Amounts DEF TypeInv, Resting
  <2> QED
    BY <1>12, <2>1
<1>17. ASSUME NEW op \in Ops, BeginCall(op) PROVE TurnInv'
  BY <1>7, <1>17 DEF BeginCall, index, disk
<1>18. ASSUME FinishCall \/ Tick PROVE TurnInv'
  BY <1>7, <1>18 DEF FinishCall, Tick, index, disk
<1>19. ASSUME UNCHANGED vars PROVE TurnInv'
  BY <1>7, <1>19 DEF vars
<1> QED
  BY <1>1, <1>4, <1>5, <1>6, <1>8, <1>9, <1>10, <1>11, <1>13, <1>14, <1>15, <1>16, <1>17, <1>18,
     <1>19 DEF CacheNext, Flusher

\* A step that takes a file away takes one that may go.
LEMMA TakenMayGo ==
  ASSUME TypeInv, PoolInv, TurnInv, [CacheNext]_vars, NEW o \in Objects, o \in file, o \notin file',
         entry'[o] # None
  PROVE  Evictable(o) /\ o \notin unread
<1>1. /\ pass.pc = "checked" /\ pass.cur = o /\ entry' = entry
      /\ 1 \in DOMAIN pass.pool /\ pass.pool[1].key = o
  BY TakenInTurn
<1>2. entry[o] # None /\ entry[o].state = "synced" /\ o \notin unread
  BY <1>1 DEF TurnInv
<1>3. Poolable(entry, pass.pool[1])
  BY <1>1 DEF PoolInv
<1>4. entry[o].size >= KeepBelow /\ o \notin NeverEvict
  BY <1>1, <1>2, <1>3 DEF Poolable
<1> QED
  BY <1>2, <1>4 DEF Evictable, Local, Safe

\* If no object is rewritten too small to evict between the walk of a pass and
\* its turn, and no file changes behind the back of the turn, nothing protected
\* or small loses its bytes, and nothing whose bytes are only local, whatever is
\* written, uploaded, recalled and deleted meanwhile (EvictToFit, Evict).
THEOREM KeepersStay ==
  ASSUME "stale" \notin Hardships, "rewritten" \notin Hardships
  PROVE  CacheSpec => KeepersKeep
<1> DEFINE Inv == TypeInv /\ PoolInv /\ TurnInv
           Taken == \A o \in file \ file' :
                      entry'[o] # None => Evictable(o) /\ o \notin unread
<1>1. CacheInit => Inv
  BY TypeInit DEF CacheInit, PoolInv, TurnInv, Resting
<1>2. Inv /\ [CacheNext]_vars => Inv'
  BY TypeStep, PoolStep, TurnStep
<1>3. Inv /\ [CacheNext]_vars => Taken
  <2> SUFFICES ASSUME Inv, [CacheNext]_vars, NEW o \in file \ file', entry'[o] # None
               PROVE  Evictable(o) /\ o \notin unread
    OBVIOUS
  <2>1. o \in Objects
    BY DEF TypeInv, FilesOK
  <2> QED
    BY <2>1, TakenMayGo
<1>4. Inv /\ [CacheNext]_vars => [Taken]_vars
  BY <1>3
<1> HIDE DEF Inv
<1> QED
  BY <1>1, <1>2, <1>4, PTL DEF CacheSpec, KeepersKeep

\* No candidate of a pass is protected (EvictToFit asks the patterns).
ProtectedInv == \A i \in DOMAIN pass.pool : pass.pool[i].key \notin NeverEvict

\* Every step keeps protected objects out of the pool.
LEMMA ProtectedStep ==
  ASSUME TypeInv, ProtectedInv, [CacheNext]_vars
  PROVE  ProtectedInv'
<1>0. pass \in PassState /\ PassShape(pass) /\ pass.pool \in Seq(Candidate)
  BY DEF TypeInv, PassOK, PassState
<1>1. ASSUME pass'.pool = pass.pool PROVE ProtectedInv'
  BY <1>1 DEF ProtectedInv
<1>2. ASSUME pass'.pool = <<>> PROVE ProtectedInv'
  BY <1>2 DEF ProtectedInv
<1>3. ASSUME pass.pool # <<>>, pass'.pool = Tail(pass.pool) PROVE ProtectedInv'
  BY <1>0, <1>3, TailMembers DEF ProtectedInv
<1>4. ASSUME pass' = Disturbed PROVE ProtectedInv'
  BY <1>1, <1>4, DisturbedPool
<1>5. ASSUME NEW o \in Objects, NEW s \in Sizes, RecordFile(o, s) PROVE ProtectedInv'
  BY <1>4, <1>5 DEF RecordFile
<1>6. ASSUME NEW o \in Objects, Upload(o) \/ RemoveObject(o) \/ MarkRecalled(o) PROVE ProtectedInv'
  BY <1>4, <1>6 DEF Upload, RemoveObject, MarkRecalled
<1>7. ASSUME NEW o \in Objects, WriteFile(o) \/ LandRecall(o) \/ Touch(o) PROVE ProtectedInv'
  BY <1>1, <1>7 DEF WriteFile, LandRecall, Touch
<1>8. ASSUME Flusher PROVE ProtectedInv'
  BY <1>1, <1>8 DEF Flusher, TakePending, Flush, FailFlush
<1>9. ASSUME NEW short \in 0..1, Measure(short) PROVE ProtectedInv'
  BY <1>2, <1>9, MeasurePass DEF TypeInv
<1>10. ASSUME Walk PROVE ProtectedInv'
  <2>1. pass'.pool \in SetToSeqs(Candidates) /\ IsFiniteSet(Candidates)
    BY <1>10, WalkPass, CandidateType DEF TypeInv
  <2>2. \A i \in DOMAIN pass'.pool : pass'.pool[i] \in Candidates
    BY <2>1, Sequenced
  <2>3. \A x \in Candidates : x.key \notin NeverEvict
    BY DEF Candidates, Evictable
  <2> QED
    BY <2>2, <2>3 DEF ProtectedInv
<1>11. ASSUME SkipUnsafe PROVE ProtectedInv'
  BY <1>3, <1>11, SkipPass DEF TypeInv
<1>12. ASSUME CheckEntry PROVE ProtectedInv'
  BY <1>1, <1>12, CheckPass DEF TypeInv
<1>13. ASSUME EvictFile PROVE ProtectedInv'
  BY <1>1, <1>13, EvictPass DEF TypeInv
<1>14. ASSUME MarkEvicted PROVE ProtectedInv'
  BY <1>3, <1>14, MarkPass DEF TypeInv
<1>15. ASSUME EndPass PROVE ProtectedInv'
  <2>1. CASE pass.calm
    BY <1>2, <1>15, <2>1, EndedPass DEF TypeInv, PassShape
  <2>2. CASE ~pass.calm
    BY <1>2, <1>15, <2>2 DEF EndPass, Resting
  <2> QED
    BY <2>1, <2>2
<1>16. ASSUME NEW op \in Ops, BeginCall(op) PROVE ProtectedInv'
  BY <1>1, <1>16 DEF BeginCall
<1>17. ASSUME FinishCall \/ Tick PROVE ProtectedInv'
  BY <1>1, <1>17 DEF FinishCall, Tick
<1>18. ASSUME UNCHANGED vars PROVE ProtectedInv'
  BY <1>1, <1>18 DEF vars
<1> QED
  BY <1>5, <1>6, <1>7, <1>8, <1>9, <1>10, <1>11, <1>12, <1>13, <1>14, <1>15, <1>16, <1>17,
     <1>18 DEF CacheNext

\* Whatever happens, a file that changes unread included, an object a
\* never_evict pattern matches keeps its bytes as long as it is in the index
\* (EvictToFit).
THEOREM ProtectedStay ==
  CacheSpec => [][\A o \in NeverEvict : o \in file /\ o \notin file' => entry'[o] = None]_vars
<1> DEFINE Inv == TypeInv /\ ProtectedInv
           Kept == \A o \in NeverEvict : o \in file /\ o \notin file' => entry'[o] = None
<1>1. CacheInit => Inv
  BY TypeInit DEF CacheInit, ProtectedInv, Resting
<1>2. Inv /\ [CacheNext]_vars => Inv'
  BY TypeStep, ProtectedStep
<1>3. ASSUME Inv, [CacheNext]_vars, NEW o \in NeverEvict, o \in file, o \notin file',
             entry'[o] # None
      PROVE  FALSE
  <2>1. o \in Objects
    BY CacheBounds
  <2>2. 1 \in DOMAIN pass.pool /\ pass.pool[1].key = o
    BY <1>3, <2>1, TakenInTurn
  <2> QED
    BY <1>3, <2>2 DEF ProtectedInv
<1>4. Inv /\ [CacheNext]_vars => [Kept]_vars
  BY <1>3
<1> HIDE DEF Inv
<1> QED
  BY <1>1, <1>2, <1>4, PTL DEF CacheSpec

-----------------------------------------------------------------------------
(***************************************************************************)
(* What the mount answers.                                                 *)
(***************************************************************************)
\* An object that no step since the first half has made the answer wrong about
\* is found by the second half.
Found(c, o) ==
  /\ entry[o] # None
  /\ c.op = "list" => o \in c.seen \/ ~Local(entry[o])
  /\ c.op = "open" /\ o \in c.seen => o \in file

CallInv ==
  /\ call.missed = {}
  /\ call.pc = "half" => \A o \in call.calm : Found(call, o)

\* A step that leaves the call alone but for objects that are calm no more, and
\* the bytes of the others where they are.
LEMMA CallKept ==
  ASSUME TypeInv, CallInv, call'.missed = {}, call'.pc = call.pc, call'.op = call.op,
         call'.seen = call.seen, call'.calm \subseteq call.calm,
         \A o \in call'.calm :
           /\ entry[o] # None => entry'[o] # None
           /\ call.op = "list" /\ entry[o] # None /\ ~Local(entry[o]) => ~Local(entry'[o])
           /\ call.op = "open" /\ o \in file => o \in file'
  PROVE  CallInv'
BY DEF CallInv, Found

\* What Moved keeps of a call.
LEMMA MovedCall ==
  ASSUME TypeInv, NEW o \in Objects
  PROVE  /\ Moved(o).missed = call.missed /\ Moved(o).pc = call.pc /\ Moved(o).op = call.op
         /\ Moved(o).seen = call.seen
         /\ Moved(o).calm = IF call.op = "getattr" THEN call.calm ELSE call.calm \ {o}
BY DEF TypeInv, CallState, Moved

\* No step makes a call miss what is calm.
LEMMA CallStep ==
  ASSUME TypeInv, CallInv, [CacheNext]_vars
  PROVE  CallInv'
<1>0. entry \in Entries /\ call \in CallState
  BY DEF TypeInv, IndexInv
<1>1. ASSUME NEW o \in Objects, NEW s \in Sizes, RecordFile(o, s) PROVE CallInv'
  <2>1. entry' = [entry EXCEPT ![o] = [size |-> s, state |-> "dirty", atime |-> clock]]
    BY <1>1 DEF RecordFile, Store
  <2>2. entry'[o] # None
    <3>1. [size |-> s, state |-> "dirty", atime |-> clock] \in Entry
      BY CacheBounds DEF TypeInv, TimesOK, Entry
    <3> QED
      BY <1>0, <2>1, <3>1, CacheNone DEF Entries
  <2>3. \A x \in Objects : x # o => entry'[x] = entry[x]
    BY <1>0, <2>1 DEF Entries
  <2>4. call' = Moved(o) /\ file' = file
    BY <1>1 DEF RecordFile
  <2>5. call.calm \subseteq Objects
    BY <1>0 DEF CallState
  <2> QED
    BY <2>2, <2>3, <2>4, <2>5, MovedCall, CallKept DEF CallInv
<1>2. ASSUME NEW o \in Objects, Upload(o) PROVE CallInv'
  <2>1. call' = call /\ file' = file /\ SetState(o, "synced")
    BY <1>2 DEF Upload, disk
  <2>2. Local(entry[o]) /\ call.calm \subseteq Objects
    BY <1>0, <1>2 DEF Upload, Local, CallState
  <2>3. \A x \in Objects : entry[x] # None =>
          entry'[x] # None /\ (~Local(entry[x]) => ~Local(entry'[x]))
    BY <2>1, <2>2, SetStateKeeps
  <2> QED
    BY <2>1, <2>2, <2>3, CallKept DEF CallInv
<1>3. ASSUME NEW o \in Objects, RemoveObject(o) PROVE CallInv'
  <2>1. entry' = [entry EXCEPT ![o] = None] /\ file' = file \ {o}
    BY <1>3 DEF RemoveObject, Store
  <2>2. \A x \in Objects : x # o => entry'[x] = entry[x]
    BY <1>0, <2>1 DEF Entries
  <2>3. /\ call'.missed = call.missed /\ call'.pc = call.pc /\ call'.op = call.op
        /\ call'.seen = call.seen /\ call'.calm = call.calm \ {o} /\ call.calm \subseteq Objects
    BY <1>0, <1>3 DEF RemoveObject, CallState
  <2> QED
    BY <2>1, <2>2, <2>3, CallKept DEF CallInv
<1>4. ASSUME NEW o \in Objects, LandRecall(o) PROVE CallInv'
  BY <1>4, CallKept DEF LandRecall, index, CallInv
<1>5. ASSUME NEW o \in Objects, MarkRecalled(o) PROVE CallInv'
  <2>1. call' = Moved(o) /\ file' = file /\ SetState(o, "synced") /\ call.calm \subseteq Objects
    BY <1>0, <1>5 DEF MarkRecalled, disk, CallState
  <2>2. \A x \in Objects : entry[x] # None =>
          entry'[x] # None /\ (x # o => entry'[x] = entry[x])
    BY <2>1, SetStateKeeps
  <2> QED
    BY <2>1, <2>2, MovedCall, CallKept DEF CallInv
<1>6. ASSUME NEW o \in Objects, Touch(o) PROVE CallInv'
  BY <1>6, CallKept DEF Touch, disk, index, CallInv
<1>7. ASSUME TakePending \/ FailFlush PROVE CallInv'
  BY <1>7, CallKept DEF TakePending, FailFlush, disk, index, CallInv
<1>8. ASSUME Flush PROVE CallInv'
  <2>1. \A x \in Objects : entry[x] # None =>
          entry'[x] # None /\ entry'[x].state = entry[x].state
    BY <1>8, FlushKeeps DEF TypeInv
  <2>2. call.calm \subseteq Objects
    BY <1>0 DEF CallState
  <2> QED
    BY <1>8, <2>1, <2>2, CallKept DEF Flush, disk, CallInv, Local
<1>9. ASSUME NEW short \in 0..1, Measure(short) PROVE CallInv'
  BY <1>9, CallKept DEF Measure, disk, index, CallInv
<1>10. ASSUME Walk \/ SkipUnsafe \/ CheckEntry \/ EndPass PROVE CallInv'
  <2>1. entry' = entry /\ file' = file /\ call' = call
    BY <1>10, Zenon DEF Walk, SkipUnsafe, CheckEntry, EndPass, disk, index
  <2> QED
    BY <2>1, CallKept DEF CallInv
<1>11. ASSUME EvictFile PROVE CallInv'
  <2> DEFINE o == pass.cur
  <2>1. o \in Objects
    BY <1>11, EvictPass DEF TypeInv
  <2>2. call' = Moved(o) /\ file' = file \ {o} /\ entry' = entry
    BY <1>11 DEF EvictFile, index
  <2> HIDE DEF o
  <2>3. call.op \in Ops
    BY <1>0 DEF CallState
  <2> QED
    BY <2>1, <2>2, <2>3, MovedCall, CallKept DEF CallInv
<1>12. ASSUME MarkEvicted PROVE CallInv'
  <2>1. pass.cur \in Objects
    BY <1>12, MarkPass DEF TypeInv, PassOK, PassShape, Candidate, MarkEvicted
  <2>2. call' = call /\ file' = file /\ SetState(pass.cur, "evicted") /\ call.calm \subseteq Objects
    BY <1>0, <1>12 DEF MarkEvicted, disk, CallState
  <2>3. \A x \in Objects : entry[x] # None =>
          entry'[x] # None /\ (~Local(entry[x]) => ~Local(entry'[x]))
    BY <2>1, <2>2, SetStateKeeps DEF Local
  <2> QED
    BY <2>2, <2>3, CallKept DEF CallInv
<1>13. ASSUME NEW op \in Ops, BeginCall(op) PROVE CallInv'
  <2>1. /\ call' = [pc |-> "half", op |-> op, missed |-> {},
                    seen |-> IF op = "open" THEN LocalInIndex ELSE file,
                    calm |-> IF op = "getattr" THEN Indexed ELSE Indexed \ (LocalInIndex \ file)]
        /\ entry' = entry /\ file' = file
    BY <1>13 DEF BeginCall, disk, index
  <2>2. /\ call'.missed = {} /\ call'.op = op
        /\ call'.seen = (IF op = "open" THEN LocalInIndex ELSE file)
        /\ call'.calm = (IF op = "getattr" THEN Indexed ELSE Indexed \ (LocalInIndex \ file))
    BY <2>1
  <2>3. ASSUME NEW o \in call'.calm PROVE Found(call, o)'
    <3>1. o \in Indexed /\ (op # "getattr" => (o \in LocalInIndex => o \in file))
      BY <2>2, <2>3
    <3>2. entry[o] # None /\ (o \in LocalInIndex <=> Local(entry[o]))
      BY <3>1 DEF Indexed, LocalInIndex
    <3> QED
      BY <2>1, <2>2, <3>1, <3>2 DEF Found
  <2> QED
    BY <2>2, <2>3 DEF CallInv
<1>14. ASSUME FinishCall PROVE CallInv'
  <2>1. call.pc = "half" /\ call' = [Silent EXCEPT !.missed = call.calm \ Answered(call)]
    BY <1>14 DEF FinishCall
  <2>2. ASSUME NEW o \in call.calm PROVE o \in Answered(call)
    <3>1. o \in Objects /\ call.op \in Ops
      BY <1>0 DEF CallState
    <3>2. Found(call, o)
      BY <2>1 DEF CallInv
    <3> QED
      BY <3>1, <3>2 DEF Found, Answered, Indexed, LocalInIndex, Ops
  <2>3. call'.missed = {} /\ call'.pc = "idle"
    BY <2>1, <2>2 DEF Silent
  <2> QED
    BY <2>3 DEF CallInv
<1>15. ASSUME Tick PROVE CallInv'
  BY <1>15, CallKept DEF Tick, disk, index, CallInv
<1>17. ASSUME NEW o \in Objects, WriteFile(o) PROVE CallInv'
  BY <1>17, CallKept DEF WriteFile, index, CallInv
<1>16. ASSUME UNCHANGED vars PROVE CallInv'
  BY <1>16 DEF vars, CallInv, Found
<1> QED
  BY <1>1, <1>2, <1>3, <1>4, <1>5, <1>6, <1>7, <1>8, <1>9, <1>10, <1>11, <1>12, <1>13, <1>14,
     <1>15, <1>16, <1>17 DEF CacheNext, Flusher

\* Readdir, Lookup, Open and Getattr answer for every object that nothing took
\* away or brought back between the two halves of the call.
THEOREM CallsAnswer == CacheSpec => []MountAnswers
<1>1. CacheInit => TypeInv /\ CallInv
  BY TypeInit DEF CacheInit, CallInv, Silent
<1>2. TypeInv /\ CallInv /\ [CacheNext]_vars => (TypeInv /\ CallInv)'
  BY TypeStep, CallStep
<1>3. CallInv => MountAnswers
  BY DEF CallInv, MountAnswers
<1> QED
  BY <1>1, <1>2, <1>3, PTL DEF CacheSpec

-----------------------------------------------------------------------------
(***************************************************************************)
(* What a pass that nothing disturbs makes room for.                       *)
(***************************************************************************)
\* What is over the goal is what is still to go.
Fits(p, st) ==
  st["localBytes"] + p.freed = p.goal + p.target /\ p.target > 0 /\ p.freed - p.last < p.target

\* The pool holds what may be evicted, once, and with its size.
PoolIs(q) ==
  /\ \A o \in Objects : Evictable(o) => \E i \in DOMAIN q : q[i].key = o
  /\ \A i \in DOMAIN q : Evictable(q[i].key) /\ q[i].size = entry[q[i].key].size
  /\ \A i, j \in DOMAIN q : i # j => q[i].key # q[j].key

FitInv ==
  /\ pass.pc = "done" =>
       pass.calm /\ (stats["localBytes"] > pass.goal => \A o \in Objects : ~Evictable(o))
  /\ pass.calm /\ pass.pc # "idle" => Fits(pass, stats)
  /\ pass.pc \in {"checked", "removed"} => pass.freed < pass.target
  /\ pass.calm /\ pass.pc \in {"evicting", "checked", "removed"} => PoolIs(pass.pool)

\* A step that leaves the pass, the counters and what may be evicted alone.
LEMMA FitKept ==
  ASSUME TypeInv, FitInv, pass' = pass, stats' = stats,
         \A o \in Objects : /\ Evictable(o)' <=> Evictable(o)
                            /\ Evictable(o) => entry'[o].size = entry[o].size
  PROVE  FitInv'
<1>1. pass.pool \in Seq(Candidate)
  BY DEF TypeInv, PassOK, PassState
<1>2. \A i \in DOMAIN pass.pool : pass.pool[i].key \in Objects
  <2> SUFFICES ASSUME NEW i \in DOMAIN pass.pool PROVE pass.pool[i].key \in Objects
    OBVIOUS
  <2>1. pass.pool[i] \in Candidate
    BY <1>1
  <2> QED
    BY <2>1 DEF Candidate
<1> DEFINE q == pass.pool
<1>3. PoolIs(q) => PoolIs(q)'
  <2>1. q' = q
    OBVIOUS
  <2>2. \A i \in DOMAIN q : q[i].key \in Objects
    BY <1>2
  <2> HIDE DEF q
  <2> QED
    BY <2>1, <2>2 DEF PoolIs
<1> QED
  BY <1>3 DEF FitInv, Fits

\* A disturbed pass promises nothing.
LEMMA FitDisturbed ==
  ASSUME TypeInv, FitInv, pass' = Disturbed
  PROVE  FitInv'
<1>1. PassOK
  BY DEF TypeInv
<1>2. CASE pass.pc \in {"idle", "done"}
  <2>1. pass'.pc = "idle"
    BY <1>1, <1>2, DisturbedShape
  <2> QED
    BY <2>1 DEF FitInv
<1>3. CASE pass.pc \notin {"idle", "done"}
  <2>1. /\ pass'.pc = pass.pc /\ ~pass'.calm /\ pass'.freed = pass.freed
        /\ pass'.target = pass.target
    BY <1>1, <1>3, DisturbedShape
  <2> QED
    BY <1>3, <2>1 DEF FitInv
<1> QED
  BY <1>2, <1>3

\* What a pass is for, and what it is to evict: the counters decide (Measure).
LEMMA FitMeasure ==
  ASSUME TypeInv, NEW short \in 0..1, Measure(short)
  PROVE  FitInv'
<1>1. stats["localBytes"] \in Nat /\ MaxSize \in Nat /\ short \in Int
  BY Amounts
<1>2. /\ pass'.pc = "measured" /\ pass'.freed = 0 /\ pass'.last = 0
      /\ pass'.target = OverBy(short) /\ pass'.goal = Smaller(MaxSize, stats["localBytes"] - short)
      /\ stats' = stats
  BY MeasurePass DEF TypeInv, Measure, index
<1>3. OverBy(short) > 0
  BY DEF Measure
<1>4. stats["localBytes"] = Smaller(MaxSize, stats["localBytes"] - short) + OverBy(short)
  BY <1>1 DEF Smaller, OverBy
<1>5. OverBy(short) \in Int /\ Smaller(MaxSize, stats["localBytes"] - short) \in Int
  BY <1>1 DEF Smaller, OverBy
<1>6. Fits(pass', stats')
  BY <1>1, <1>2, <1>3, <1>4, <1>5 DEF Fits
<1> QED
  BY <1>2, <1>6 DEF FitInv

\* A walk finds everything that may be evicted (EvictToFit).
LEMMA FitWalk ==
  ASSUME TypeInv, FitInv, Walk
  PROVE  FitInv'
<1>1. /\ pass'.pc = "evicting" /\ pass'.calm = pass.calm
      /\ pass'.freed = pass.freed /\ pass'.last = pass.last
      /\ pass'.target = pass.target /\ pass'.goal = pass.goal
      /\ pass'.pool \in SetToSeqs(Candidates)
  BY WalkPass DEF TypeInv
<1>2. stats' = stats /\ entry' = entry /\ pass.pc = "measured"
  BY DEF Walk, index
<1>3. Fits(pass, stats) => Fits(pass', stats')
  BY <1>1, <1>2 DEF Fits
<1> DEFINE q == pass'.pool
<1>4. PoolIs(q)
  <2>1. IsFiniteSet(Candidates)
    BY CandidateType DEF TypeInv
  <2>2. /\ \A i \in DOMAIN q : q[i] \in Candidates
        /\ \A i, j \in DOMAIN q : i # j => q[i] # q[j]
        /\ \A x \in Candidates : \E i \in DOMAIN q : q[i] = x
    BY <1>1, <2>1, Sequenced
  <2> HIDE DEF q
  <2>3. ASSUME NEW x \in Candidates
        PROVE  /\ Evictable(x.key) /\ x.size = entry[x.key].size
               /\ x = [key |-> x.key, size |-> entry[x.key].size, atime |-> entry[x.key].atime,
                       read |-> read[x.key]]
    BY DEF Candidates
  <2>4. ASSUME NEW o \in Objects, Evictable(o) PROVE \E i \in DOMAIN q : q[i].key = o
    <3> DEFINE x == [key |-> o, size |-> entry[o].size, atime |-> entry[o].atime, read |-> read[o]]
    <3>1. x \in Candidates /\ x.key = o
      BY <2>4 DEF Candidates
    <3> HIDE DEF x
    <3> QED
      BY <2>2, <3>1
  <2>5. \A i \in DOMAIN q : Evictable(q[i].key) /\ q[i].size = entry[q[i].key].size
    BY <2>2, <2>3
  <2>6. ASSUME NEW i \in DOMAIN q, NEW j \in DOMAIN q, i # j PROVE q[i].key # q[j].key
    <3>1. q[i] # q[j]
      BY <2>2, <2>6
    <3>2. q[i] \in Candidates /\ q[j] \in Candidates
      BY <2>2
    <3> DEFINE a == q[i]
               b == q[j]
    <3> HIDE DEF a, b
    <3>3. a \in Candidates /\ b \in Candidates /\ a # b
      BY <3>1, <3>2 DEF a, b
    <3>4. a.key # b.key
      BY <2>3, <3>3
    <3> QED
      BY <3>4 DEF a, b
  <2> QED
    BY <2>4, <2>5, <2>6 DEF PoolIs
<1>5. PoolIs(pass.pool)'
  BY <1>2, <1>4 DEF PoolIs, Evictable, Local, Safe
<1> QED
  BY <1>1, <1>2, <1>3, <1>5 DEF FitInv

\* An undisturbed pass skips nothing: what it walked is still there.
LEMMA NothingSkipped ==
  ASSUME TypeInv, FitInv, SkipUnsafe
  PROVE  ~pass.calm
<1> SUFFICES ASSUME pass.calm PROVE FALSE
  BY Amounts
<1>1. PoolIs(pass.pool) /\ pass.pool \in Seq(Candidate) /\ pass.pool # <<>>
  BY Amounts DEF FitInv, SkipUnsafe, Needed
<1>2. Evictable(Head(pass.pool).key)
  BY <1>1, TailMembers DEF PoolIs
<1> QED
  BY <1>2 DEF SkipUnsafe, Evictable

\* So passing one over is the step of a disturbed pass.
LEMMA FitSkip ==
  ASSUME TypeInv, FitInv, SkipUnsafe
  PROVE  FitInv'
<1>1. pass'.pc = "evicting" /\ pass'.calm = pass.calm
  BY SkipPass DEF TypeInv
<1> QED
  BY <1>1, NothingSkipped DEF FitInv

\* A look at an entry changes nothing (Evict).
LEMMA FitCheck ==
  ASSUME TypeInv, FitInv, CheckEntry
  PROVE  FitInv'
<1>1. /\ pass'.pc = "checked" /\ pass'.calm = pass.calm
      /\ pass'.freed = pass.freed /\ pass'.last = pass.last
      /\ pass'.target = pass.target /\ pass'.goal = pass.goal
      /\ pass'.pool = pass.pool
  BY CheckPass DEF TypeInv
<1>2. stats' = stats /\ entry' = entry /\ pass.pc = "evicting" /\ pass.freed < pass.target
  BY DEF CheckEntry, index, Needed
<1>3. Fits(pass, stats) => Fits(pass', stats')
  BY <1>1, <1>2 DEF Fits
<1>4. PoolIs(pass.pool) => PoolIs(pass.pool)'
  BY <1>1, <1>2 DEF PoolIs, Evictable, Local, Safe
<1> QED
  BY <1>1, <1>2, <1>3, <1>4 DEF FitInv

\* A removed file is still on the counters (Evict).
LEMMA FitEvict ==
  ASSUME TypeInv, FitInv, EvictFile
  PROVE  FitInv'
<1>1. /\ pass'.pc = "removed" /\ pass'.calm = pass.calm
      /\ pass'.freed = pass.freed /\ pass'.last = pass.last
      /\ pass'.target = pass.target /\ pass'.goal = pass.goal
      /\ pass'.pool = pass.pool
  BY EvictPass DEF TypeInv
<1>2. stats' = stats /\ entry' = entry /\ pass.pc = "checked" /\ pass.freed < pass.target
  BY DEF EvictFile, index, FitInv
<1>3. Fits(pass, stats) => Fits(pass', stats')
  BY <1>1, <1>2 DEF Fits
<1>4. PoolIs(pass.pool) => PoolIs(pass.pool)'
  BY <1>1, <1>2 DEF PoolIs, Evictable, Local, Safe
<1> QED
  BY <1>1, <1>2, <1>3, <1>4 DEF FitInv

\* What is marked evicted is off the counters, and its pool loses its head (Evict).
LEMMA FitMark ==
  ASSUME TypeInv, FitInv, MarkEvicted
  PROVE  FitInv'
<1>0. PICK q \in Seq(Candidate) : q = pass.pool
  BY Amounts
<1> DEFINE x == Head(q)
           o == x.key
<1>1. /\ pass'.pc = "evicting" /\ pass'.calm = pass.calm
      /\ pass'.freed = pass.freed + x.size
      /\ pass'.last = IF pass.calm THEN x.size ELSE 0
      /\ pass'.target = pass.target /\ pass'.goal = pass.goal
      /\ q # <<>> /\ pass'.pool = Tail(q) /\ x \in Candidate
  BY <1>0, MarkPass DEF TypeInv
<1>2. /\ pass.pc = "removed" /\ pass.cur = o /\ SetState(o, "evicted") /\ o \in Objects
  BY <1>0, <1>1 DEF MarkEvicted, TypeInv, PassOK, PassShape, Candidate
<1>3. CASE ~pass.calm
  BY <1>1, <1>3 DEF FitInv
<1>4. CASE pass.calm
  <2>1. PoolIs(q) /\ Fits(pass, stats) /\ pass.freed < pass.target
    BY <1>0, <1>2, <1>4 DEF FitInv
  <2>2. x = q[1] /\ 1 \in DOMAIN q
    BY <1>1, Amounts, TailMembers
  <2>3. Evictable(o) /\ x.size = entry[o].size
    BY <2>1, <2>2 DEF PoolIs
  <2>4. entry[o] \in Entry /\ entry[o] # None /\ entry[o].state # "evicted" /\ entry[o].size \in Nat
    BY <1>2, <2>3, CacheBounds DEF Evictable, Local, TypeInv, IndexInv, Entries, Entry
  <2>5. stats'["localBytes"] = stats["localBytes"] - x.size
    <3> DEFINE e == [entry[o] EXCEPT !.state = "evicted"]
    <3>1. stats'["localBytes"] = stats["localBytes"] - Weight(entry[o])["localBytes"]
                                 + Weight(e)["localBytes"]
      BY <1>2, <2>4 DEF SetState, Store, Counters
    <3>2. e \in Entry /\ e.state = "evicted"
      BY <2>4 DEF Entry
    <3> HIDE DEF e
    <3>3. Weight(e)["localBytes"] = 0 /\ Weight(entry[o])["localBytes"] = entry[o].size
      BY <2>4, <3>2, CacheNone DEF Weight, Local
    <3>4. stats["localBytes"] \in Int
      BY Amounts
    <3> QED
      BY <2>3, <2>4, <3>1, <3>3, <3>4
  <2>6. Fits(pass', stats')
    <3> DEFINE size == x.size
    <3>1. size \in Nat
      BY <1>1 DEF Candidate
    <3>2. /\ pass'.freed = pass.freed + size /\ pass'.last = size
          /\ stats'["localBytes"] = stats["localBytes"] - size
      BY <1>1, <1>4, <2>5
    <3> HIDE DEF size
    <3>3. pass'.freed - pass'.last < pass'.target
      <4>1. pass.freed \in Nat /\ pass'.target = pass.target /\ pass.freed < pass.target
        BY <1>1, <2>1, Amounts
      <4>2. pass'.freed - pass'.last = pass.freed
        BY <3>1, <3>2, <4>1
      <4> QED
        BY <4>1, <4>2
    <3>4. pass'.target = pass.target /\ pass'.goal = pass.goal
      BY <1>1
    <3>5. stats["localBytes"] + pass.freed = pass.goal + pass.target /\ pass.target > 0
      BY <2>1 DEF Fits
    <3>6. stats'["localBytes"] + pass'.freed = stats["localBytes"] + pass.freed
      BY <3>1, <3>2, Amounts
    <3> QED
      BY <3>3, <3>4, <3>5, <3>6, Zenon DEF Fits
  <2>7. ASSUME NEW y \in Objects
        PROVE  /\ y # o => entry'[y] = entry[y]
               /\ ~Evictable(o)'
    <3>1. y # o => entry'[y] = entry[y]
      BY <1>2, <2>4 DEF SetState, Store, TypeInv, IndexInv, Entries
    <3>2. entry'[o].state = "evicted"
      BY <1>2, <2>4, SetStateKeeps
    <3> HIDE DEF o
    <3> QED
      BY <3>1, <3>2 DEF Evictable, Local
  <2> DEFINE t == Tail(q)
  <2>8. /\ \A i \in DOMAIN t : i + 1 \in DOMAIN q /\ t[i] = q[i + 1] /\ i + 1 # 1
        /\ \A i \in DOMAIN q : i # 1 => i - 1 \in DOMAIN t /\ t[i - 1] = q[i]
        /\ DOMAIN t \subseteq Int
    BY <1>1, <2>2, TailMembers
  <2>9. \A i \in DOMAIN q : q[i].key \in Objects
    <3> SUFFICES ASSUME NEW i \in DOMAIN q PROVE q[i].key \in Objects
      OBVIOUS
    <3>1. q[i] \in Candidate
      BY <2>2
    <3> QED
      BY <3>1 DEF Candidate
  <2>10. o = q[1].key
    BY <2>2
  <2> HIDE DEF x, t
  <2>11. ASSUME NEW y \in Objects, Evictable(y)' PROVE \E i \in DOMAIN t : t[i].key = y
    <3>1. y # o /\ Evictable(y)
      BY <2>7, <2>11 DEF Evictable, Local, Safe
    <3>2. PICK i \in DOMAIN q : q[i].key = y
      BY <2>1, <3>1 DEF PoolIs
    <3>3. i # 1
      BY <2>10, <3>1, <3>2
    <3> QED
      BY <2>8, <3>2, <3>3
  <2>12. ASSUME NEW i \in DOMAIN t
         PROVE  t[i].key # o /\ Evictable(t[i].key)' /\ t[i].size = entry'[t[i].key].size
    <3>1. i + 1 \in DOMAIN q /\ t[i] = q[i + 1] /\ i + 1 # 1
      BY <2>8
    <3>2. t[i].key # o /\ Evictable(t[i].key) /\ t[i].size = entry[t[i].key].size
      BY <2>1, <2>2, <2>10, <3>1 DEF PoolIs
    <3>3. entry'[t[i].key] = entry[t[i].key]
      BY <2>7, <2>9, <3>1, <3>2
    <3> QED
      BY <3>2, <3>3 DEF Evictable, Local, Safe
  <2>13. ASSUME NEW i \in DOMAIN t, NEW j \in DOMAIN t, i # j PROVE t[i].key # t[j].key
    <3>1. /\ i + 1 \in DOMAIN q /\ t[i] = q[i + 1] /\ j + 1 \in DOMAIN q /\ t[j] = q[j + 1]
          /\ i \in Int /\ j \in Int
      BY <2>8
    <3>2. i + 1 # j + 1
      BY <2>13, <3>1
    <3> QED
      BY <2>1, <3>1, <3>2 DEF PoolIs
  <2>14. pass'.pool = t
    BY <1>1 DEF t
  <2>15. PoolIs(pass.pool)'
    BY <2>11, <2>12, <2>13, <2>14 DEF PoolIs
  <2> QED
    BY <1>1, <2>6, <2>15 DEF FitInv
<1> QED
  BY <1>3, <1>4

\* At the end there is enough room, or nothing left to evict (EvictToFit).
LEMMA FitEnd ==
  ASSUME TypeInv, FitInv, EndPass
  PROVE  FitInv'
<1>1. pass.pc = "evicting" /\ ~Needed /\ stats' = stats /\ entry' = entry
  BY DEF EndPass, index
<1>2. CASE ~pass.calm
  <2>1. pass' = Resting
    BY <1>2, EndedPass DEF TypeInv
  <2> QED
    BY <2>1 DEF Resting, FitInv
<1>3. CASE pass.calm
  <2>1. /\ pass'.pc = "done" /\ pass'.calm = pass.calm
        /\ pass'.freed = pass.freed /\ pass'.last = pass.last
        /\ pass'.target = pass.target /\ pass'.goal = pass.goal
    BY <1>3, EndedPass DEF TypeInv
  <2>2. PoolIs(pass.pool) /\ Fits(pass, stats)
    BY <1>1, <1>3 DEF FitInv
  <2>3. Fits(pass', stats')
    BY <1>1, <2>1, <2>2 DEF Fits
  <2>4. ASSUME stats["localBytes"] > pass.goal, NEW o \in Objects PROVE ~Evictable(o)
    <3>1. pass.freed < pass.target
      BY <2>2, <2>4, Amounts DEF Fits
    <3>2. pass.pool = <<>>
      BY <1>1, <3>1 DEF Needed
    <3> QED
      BY <2>2, <3>2 DEF PoolIs
  <2>5. \A o \in Objects : Evictable(o)' <=> Evictable(o)
    BY <1>1 DEF Evictable, Local, Safe
  <2> QED
    BY <1>1, <1>3, <2>1, <2>3, <2>4, <2>5 DEF FitInv
<1> QED
  BY <1>2, <1>3

\* Every step keeps the account of the pass.
LEMMA FitStep ==
  ASSUME TypeInv, FitInv, [CacheNext]_vars
  PROVE  FitInv'
<1>1. ASSUME NEW o \in Objects, NEW s \in Sizes, RecordFile(o, s) PROVE FitInv'
  BY <1>1, FitDisturbed DEF RecordFile
<1>2. ASSUME NEW o \in Objects, Upload(o) \/ RemoveObject(o) \/ MarkRecalled(o) PROVE FitInv'
  BY <1>2, FitDisturbed DEF Upload, RemoveObject, MarkRecalled
<1>3. ASSUME pass' = pass, stats' = stats, entry' = entry PROVE FitInv'
  BY <1>3, FitKept DEF Evictable, Local, Safe
<1>4. ASSUME NEW o \in Objects, WriteFile(o) \/ LandRecall(o) \/ Touch(o) PROVE FitInv'
  BY <1>3, <1>4 DEF WriteFile, LandRecall, Touch, index
<1>5. ASSUME TakePending \/ FailFlush PROVE FitInv'
  BY <1>3, <1>5 DEF TakePending, FailFlush, index
<1>6. ASSUME Flush PROVE FitInv'
  <2>1. pass' = pass /\ stats' = stats
    BY <1>6 DEF Flush
  <2>2. \A o \in Objects : /\ Evictable(o)' <=> Evictable(o)
                           /\ Evictable(o) => entry'[o].size = entry[o].size
    BY <1>6, FlushKeeps DEF TypeInv, Evictable, Local, Safe
  <2> QED
    BY <2>1, <2>2, FitKept
<1>7. ASSUME NEW short \in 0..1, Measure(short) PROVE FitInv'
  BY <1>7, FitMeasure
<1>8. ASSUME NEW op \in Ops, BeginCall(op) PROVE FitInv'
  BY <1>3, <1>8 DEF BeginCall, index
<1>9. ASSUME FinishCall \/ Tick PROVE FitInv'
  BY <1>3, <1>9 DEF FinishCall, Tick, index
<1>10. ASSUME UNCHANGED vars PROVE FitInv'
  BY <1>3, <1>10 DEF vars
<1> QED
  BY <1>1, <1>2, <1>4, <1>5, <1>6, <1>7, <1>8, <1>9, <1>10, FitWalk, FitSkip, FitCheck,
     FitEvict, FitMark, FitEnd DEF CacheNext, Flusher

\* A pass that nothing disturbs ends below the ceiling and with the room that
\* the disk was short of, or with nothing left to evict, and evicts nothing more
\* than it has to (EvictToFit).
THEOREM PassesFit == CacheSpec => []PassFits
<1>1. CacheInit => TypeInv /\ FitInv
  BY TypeInit DEF CacheInit, FitInv, Resting
<1>2. TypeInv /\ FitInv /\ [CacheNext]_vars => (TypeInv /\ FitInv)'
  BY TypeStep, FitStep
<1>3. ASSUME TypeInv, FitInv PROVE PassFits
  <2> SUFFICES ASSUME pass.pc = "done" PROVE stats["localBytes"] + pass.last > pass.goal
    BY <1>3 DEF PassFits, FitInv
  <2>1. /\ stats["localBytes"] + pass.freed = pass.goal + pass.target
        /\ pass.freed - pass.last < pass.target
    BY <1>3 DEF FitInv, Fits
  <2>2. /\ stats["localBytes"] \in Nat /\ pass.freed \in Nat /\ pass.target \in Nat
        /\ pass.goal \in Int /\ pass.last \in Nat
    BY <1>3, Amounts
  <2> QED
    BY <2>1, <2>2
<1>4. TypeInv /\ FitInv => PassFits
  BY <1>3
<1> QED
  BY <1>1, <1>2, <1>4, PTL DEF CacheSpec

-----------------------------------------------------------------------------
(***************************************************************************)
(* That the coldest go first.                                              *)
(***************************************************************************)
\* No time is later than now, and an object was read at the latest of the times
\* in its entry, in memory and in the hands of the flusher.
TimesInv ==
  \A o \in Objects :
    /\ pending[o] <= clock /\ flushing[o] <= clock
    /\ entry[o] # None =>
         /\ entry[o].atime <= clock
         /\ read[o] = Later(Later(entry[o].atime, pending[o]), flushing[o])

\* The times of an object are numbers.
LEMMA TimeTypes ==
  ASSUME TypeInv, NEW o \in Objects
  PROVE  /\ pending[o] \in Int /\ flushing[o] \in Int /\ read[o] \in Nat /\ clock \in Nat
         /\ pending[o] >= -1 /\ flushing[o] >= -1
         /\ entry[o] # None => entry[o] \in Entry /\ entry[o].atime \in Nat
<1>1. pending[o] \in -1..MaxClock /\ flushing[o] \in -1..MaxClock /\ clock \in 0..MaxClock
  BY DEF TypeInv, TimesOK
<1>2. read[o] \in Nat /\ MaxClock \in Nat
  BY CacheBounds DEF TypeInv, TimesOK
<1>3. entry[o] # None => entry[o] \in Entry /\ entry[o].atime \in Nat
  BY DEF TypeInv, IndexInv, Entries, Entry
<1> QED
  BY <1>1, <1>2, <1>3

\* The times of entries that keep them, and of objects that are gone.
LEMMA TimesKept ==
  ASSUME TypeInv, TimesInv, pending' = pending, flushing' = flushing, read' = read, clock' = clock,
         \A o \in Objects : entry'[o] # None => entry[o] # None /\ entry'[o].atime = entry[o].atime
  PROVE  TimesInv'
BY DEF TimesInv

\* A state that is set keeps the times.
LEMMA SetStateTimes ==
  ASSUME TypeInv, NEW o \in Objects, NEW s \in {"dirty", "synced", "evicted"}, SetState(o, s),
         NEW x \in Objects
  PROVE  /\ entry'[x] # None <=> entry[x] # None
         /\ entry[x] # None => entry'[x].atime = entry[x].atime /\ entry'[x].size = entry[x].size
<1>1. entry \in Entries
  BY DEF TypeInv, IndexInv
<1>2. CASE entry[x] = None
  BY <1>1, <1>2 DEF SetState, Store, Entries, index
<1>3. CASE entry[x] # None
  <2>1. entry[x] \in Entry /\ entry'[x] # None /\ (x # o => entry'[x] = entry[x])
    BY <1>1, <1>3, SetStateKeeps DEF Entries
  <2>2. x = o => entry'[x] = [entry[x] EXCEPT !.state = s]
    BY <1>1, <1>3 DEF SetState, Store, Entries
  <2> QED
    BY <1>3, <2>1, <2>2 DEF Entry
<1> QED
  BY <1>2, <1>3

\* What is touched is touched now (DB.Touch).
LEMMA TouchedNow ==
  ASSUME TypeInv, TimesInv, NEW o \in Objects
  PROVE  /\ Touched(o)[o] = clock
         /\ \A x \in Objects : x # o => Touched(o)[x] = pending[x]
<1>1. pending \in [Objects -> -1..MaxClock]
  BY DEF TypeInv, TimesOK
<1>2. pending[o] <= clock /\ pending[o] \in Int /\ clock \in Int
  BY TimeTypes DEF TimesInv
<1> QED
  BY <1>1, <1>2 DEF Touched, Later

\* A later time is the latest.
LEMMA LatestIsNow ==
  ASSUME NEW a \in Int, NEW b \in Int, NEW c \in Int, a <= c, b <= c
  PROVE  /\ Later(Later(a, c), b) = c /\ Later(Later(c, a), b) = c
         /\ Later(Later(a, -1), b) = Later(Later(a, b), -1)
         /\ a >= 0 => Later(a, -1) = a
         /\ Later(Later(a, b), -1) >= a /\ Later(Later(a, b), c) >= a
BY DEF Later

\* Every step keeps the times in order.
LEMMA TimesStep ==
  ASSUME TypeInv, TimesInv, [CacheNext]_vars
  PROVE  TimesInv'
<1>0. /\ entry \in Entries /\ clock \in Nat /\ pending \in [Objects -> -1..MaxClock]
      /\ read \in [Objects -> Nat]
  BY DEF TypeInv, IndexInv, TimesOK
<1>1. ASSUME NEW o \in Objects, NEW s \in Sizes, RecordFile(o, s) PROVE TimesInv'
  <2>1. /\ entry' = [entry EXCEPT ![o] = [size |-> s, state |-> "dirty", atime |-> clock]]
        /\ read' = [read EXCEPT ![o] = clock]
        /\ pending' = pending /\ flushing' = flushing /\ clock' = clock
    BY <1>1 DEF RecordFile, Store, atimes
  <2> SUFFICES ASSUME NEW x \in Objects
               PROVE  /\ pending[x] <= clock /\ flushing[x] <= clock
                      /\ entry'[x] # None =>
                           /\ entry'[x].atime <= clock
                           /\ read'[x] = Later(Later(entry'[x].atime, pending[x]), flushing[x])
    BY <2>1 DEF TimesInv
  <2>2. CASE x = o
    <3>1. entry'[x].atime = clock /\ read'[x] = clock
      BY <1>0, <2>1, <2>2 DEF Entries
    <3>2. pending[x] <= clock /\ flushing[x] <= clock
      BY DEF TimesInv
    <3>3. Later(Later(clock, pending[x]), flushing[x]) = clock
      BY <3>2, TimeTypes, LatestIsNow
    <3> QED
      BY <1>0, <3>1, <3>2, <3>3
  <2>3. CASE x # o
    <3>1. entry'[x] = entry[x] /\ read'[x] = read[x]
      BY <1>0, <2>1, <2>3 DEF Entries
    <3> QED
      BY <3>1 DEF TimesInv
  <2> QED
    BY <2>2, <2>3
<1>2. ASSUME NEW o \in Objects, Upload(o) PROVE TimesInv'
  BY <1>2, SetStateTimes, TimesKept DEF Upload, atimes
<1>3. ASSUME NEW o \in Objects, RemoveObject(o) PROVE TimesInv'
  <2>1. /\ entry' = [entry EXCEPT ![o] = None] /\ read' = [read EXCEPT ![o] = 0]
        /\ pending' = [pending EXCEPT ![o] = -1] /\ flushing' = flushing /\ clock' = clock
    BY <1>3 DEF RemoveObject, Store
  <2>2. /\ entry'[o] = None /\ pending'[o] = -1
        /\ \A x \in Objects : x # o =>
             entry'[x] = entry[x] /\ read'[x] = read[x] /\ pending'[x] = pending[x]
    BY <1>0, <2>1 DEF Entries
  <2> QED
    BY <1>0, <2>1, <2>2 DEF TimesInv
<1>4. ASSUME NEW o \in Objects, WriteFile(o) \/ LandRecall(o) PROVE TimesInv'
  BY <1>4, TimesKept DEF WriteFile, LandRecall, index, atimes
<1>5. ASSUME NEW o \in Objects, pending' = Touched(o), read' = [read EXCEPT ![o] = clock],
             flushing' = flushing, clock' = clock,
             \A x \in Objects : entry'[x] # None =>
               entry[x] # None /\ entry'[x].atime = entry[x].atime
      PROVE  TimesInv'
  <2> SUFFICES ASSUME NEW x \in Objects
               PROVE  /\ pending'[x] <= clock /\ flushing[x] <= clock
                      /\ entry'[x] # None =>
                           /\ entry'[x].atime <= clock
                           /\ read'[x] = Later(Later(entry'[x].atime, pending'[x]), flushing[x])
    BY <1>5 DEF TimesInv
  <2>1. CASE x = o
    <3>1. pending'[x] = clock /\ read'[x] = clock
      BY <1>0, <1>5, <2>1, TouchedNow
    <3>2. flushing[x] <= clock /\ (entry[x] # None => entry[x].atime <= clock)
      BY DEF TimesInv
    <3>3. entry[x] # None => Later(Later(entry[x].atime, clock), flushing[x]) = clock
      BY <3>2, TimeTypes, LatestIsNow
    <3> QED
      BY <1>0, <1>5, <3>1, <3>2, <3>3
  <2>2. CASE x # o
    <3>1. pending'[x] = pending[x] /\ read'[x] = read[x]
      BY <1>0, <1>5, <2>2, TouchedNow
    <3> QED
      BY <1>5, <3>1 DEF TimesInv
  <2> QED
    BY <2>1, <2>2
<1>6. ASSUME NEW o \in Objects, MarkRecalled(o) PROVE TimesInv'
  BY <1>5, <1>6, SetStateTimes DEF MarkRecalled
<1>7. ASSUME NEW o \in Objects, Touch(o) PROVE TimesInv'
  BY <1>5, <1>7 DEF Touch, index
<1>8. ASSUME TakePending PROVE TimesInv'
  <2>1. /\ flushing = NoTimes /\ flushing' = pending /\ pending' = NoTimes
        /\ entry' = entry /\ read' = read /\ clock' = clock
    BY <1>8 DEF TakePending, index
  <2> SUFFICES ASSUME NEW x \in Objects
               PROVE  /\ -1 <= clock /\ pending[x] <= clock
                      /\ entry[x] # None =>
                           /\ entry[x].atime <= clock
                           /\ read[x] = Later(Later(entry[x].atime, -1), pending[x])
    BY <2>1 DEF TimesInv, NoTimes
  <2>2. /\ pending[x] <= clock
        /\ entry[x] # None =>
             /\ entry[x].atime <= clock
             /\ read[x] = Later(Later(entry[x].atime, pending[x]), -1)
    BY <2>1 DEF TimesInv, NoTimes
  <2> QED
    BY <1>0, <2>2, TimeTypes, LatestIsNow
<1>9. ASSUME Flush PROVE TimesInv'
  <2>1. /\ flushing' = NoTimes /\ pending' = pending /\ read' = read /\ clock' = clock
    BY <1>9 DEF Flush
  <2> SUFFICES ASSUME NEW x \in Objects
               PROVE  /\ pending[x] <= clock /\ -1 <= clock
                      /\ entry'[x] # None =>
                           /\ entry'[x].atime <= clock
                           /\ read[x] = Later(Later(entry'[x].atime, pending[x]), -1)
    BY <2>1 DEF TimesInv, NoTimes
  <2>2. /\ entry[x] = None => entry'[x] = None
        /\ entry[x] # None => entry'[x].atime = Later(entry[x].atime, flushing[x])
    BY <1>9, FlushKeeps DEF TypeInv
  <2>3. /\ pending[x] <= clock /\ flushing[x] <= clock
        /\ entry[x] # None =>
             /\ entry[x].atime <= clock
             /\ read[x] = Later(Later(entry[x].atime, pending[x]), flushing[x])
    BY DEF TimesInv
  <2> QED
    BY <1>0, <2>2, <2>3, TimeTypes DEF Later
<1>10. ASSUME FailFlush PROVE TimesInv'
  <2>1. /\ flushing' = NoTimes /\ pending' = pending /\ entry' = entry /\ clock' = clock
        /\ read' = [o \in Objects |-> IF entry[o] = None THEN read[o]
                                      ELSE Later(entry[o].atime, pending[o])]
    BY <1>10 DEF FailFlush, index
  <2> SUFFICES ASSUME NEW x \in Objects
               PROVE  /\ pending[x] <= clock /\ -1 <= clock
                      /\ entry[x] # None =>
                           /\ entry[x].atime <= clock
                           /\ Later(entry[x].atime, pending[x])
                                = Later(Later(entry[x].atime, pending[x]), -1)
    BY <2>1 DEF TimesInv, NoTimes
  <2> QED
    BY <1>0, TimeTypes DEF TimesInv, Later
<1>11. ASSUME NEW short \in 0..1, Measure(short) PROVE TimesInv'
  BY <1>11, TimesKept DEF Measure, index, atimes
<1>12. ASSUME Walk \/ SkipUnsafe PROVE TimesInv'
  <2>1. UNCHANGED <<index, atimes, read, clock>>
    BY <1>12, Zenon DEF Walk, SkipUnsafe
  <2> QED
    BY <2>1, TimesKept DEF index, atimes
<1>13. ASSUME CheckEntry \/ EvictFile \/ EndPass PROVE TimesInv'
  <2>1. UNCHANGED <<index, atimes, read, clock>>
    BY <1>13, Zenon DEF CheckEntry, EvictFile, EndPass
  <2> QED
    BY <2>1, TimesKept DEF index, atimes
<1>14. ASSUME MarkEvicted PROVE TimesInv'
  <2>1. pass.cur \in Objects
    BY <1>14, MarkPass DEF TypeInv, PassOK, PassShape, Candidate, MarkEvicted
  <2> QED
    BY <1>14, <2>1, SetStateTimes, TimesKept DEF MarkEvicted, atimes
<1>15. ASSUME NEW op \in Ops, BeginCall(op) PROVE TimesInv'
  BY <1>15, TimesKept DEF BeginCall, index, atimes
<1>16. ASSUME FinishCall PROVE TimesInv'
  BY <1>16, TimesKept DEF FinishCall, index, atimes
<1>17. ASSUME Tick PROVE TimesInv'
  <2>1. /\ clock' = clock + 1 /\ entry' = entry /\ read' = read /\ pending' = pending
        /\ flushing' = flushing
    BY <1>17 DEF Tick, index, atimes
  <2> SUFFICES ASSUME NEW x \in Objects
               PROVE  /\ pending[x] <= clock + 1 /\ flushing[x] <= clock + 1
                      /\ entry[x] # None =>
                           /\ entry[x].atime <= clock + 1
                           /\ read[x] = Later(Later(entry[x].atime, pending[x]), flushing[x])
    BY <2>1 DEF TimesInv
  <2> QED
    BY TimeTypes DEF TimesInv
<1>18. ASSUME UNCHANGED vars PROVE TimesInv'
  BY <1>18, TimesKept DEF vars
<1> QED
  BY <1>1, <1>2, <1>3, <1>4, <1>6, <1>7, <1>8, <1>9, <1>10, <1>11, <1>12, <1>13, <1>14, <1>15,
     <1>16, <1>17, <1>18 DEF CacheNext, Flusher

\* A settled pass evicts in the order of the times it walked with, and no entry
\* is older than that; what it has evicted is no later than what is left.
ColdInv ==
  /\ pass.pc = "measured" => pass.gone = {}
  /\ pass.settled =>
       /\ pass.calm /\ pass.pc \in {"evicting", "checked", "removed", "done"}
       /\ \A i \in DOMAIN pass.pool : pass.pool[i].read <= entry[pass.pool[i].key].atime
       /\ \A i, j \in DOMAIN pass.pool : i < j => pass.pool[i].read <= pass.pool[j].read
       /\ \A t \in pass.gone, i \in DOMAIN pass.pool : t <= pass.pool[i].read
       /\ pass.pc = "done" =>
            \A t \in pass.gone, o \in Objects : Evictable(o) => t <= entry[o].atime

\* What the pool is made of, and where it may be looked at.
LEMMA PoolMembers ==
  ASSUME TypeInv
  PROVE  /\ pass.pool \in Seq(Candidate) /\ pass.gone \in SUBSET Nat
         /\ \A i \in DOMAIN pass.pool : pass.pool[i] \in Candidate /\ pass.pool[i].key \in Objects
                                        /\ pass.pool[i].read \in Nat
<1>1. pass.pool \in Seq(Candidate) /\ pass.gone \in SUBSET Nat
  BY DEF TypeInv, PassOK, PassState
<1> SUFFICES ASSUME NEW i \in DOMAIN pass.pool
             PROVE  /\ pass.pool[i] \in Candidate /\ pass.pool[i].key \in Objects
                    /\ pass.pool[i].read \in Nat
  BY <1>1
<1>2. pass.pool[i] \in Candidate
  BY <1>1
<1> QED
  BY <1>2 DEF Candidate

\* Times grow, and nothing becomes evictable.
LEMMA ColdKept ==
  ASSUME TypeInv, FitInv, ColdInv, pass' = pass,
         \A o \in Objects : Evictable(o)' => Evictable(o),
         \A o \in Objects : entry[o] # None =>
            entry'[o].atime \in Nat /\ entry[o].atime <= entry'[o].atime
  PROVE  ColdInv'
<1>1. pass.settled => PassShape(pass) /\ pass.calm
  BY DEF ColdInv, TypeInv, PassOK
<1>2. ASSUME pass.settled, NEW i \in DOMAIN pass.pool
      PROVE  pass.pool[i].read <= entry'[pass.pool[i].key].atime
  <2> DEFINE k == pass.pool[i].key
  <2>1. k \in Objects /\ pass.pool[i].read \in Nat
    BY PoolMembers
  <2>2. PoolIs(pass.pool)
    BY <1>1, <1>2 DEF PassShape, FitInv, ColdInv
  <2>3. entry[k] # None
    BY <2>2 DEF PoolIs, Evictable
  <2>4. pass.pool[i].read <= entry[k].atime
    BY <1>2 DEF ColdInv
  <2>5. entry[k].atime \in Nat
    BY <2>1, <2>3, TimeTypes
  <2> QED
    BY <2>1, <2>3, <2>4, <2>5
<1>3. ASSUME pass.settled, pass.pc = "done", NEW t \in pass.gone, NEW o \in Objects, Evictable(o)'
      PROVE  t <= entry'[o].atime
  <2>1. Evictable(o) /\ t \in Nat
    BY <1>3, PoolMembers
  <2>2. t <= entry[o].atime /\ entry[o] # None
    BY <1>3, <2>1 DEF ColdInv, Evictable
  <2>3. entry[o].atime \in Nat
    BY <2>2, TimeTypes
  <2> QED
    BY <2>1, <2>2, <2>3
<1> QED
  BY <1>2, <1>3 DEF ColdInv

\* A pass that begins while no time is in memory walks with the times of the
\* last reads.
LEMMA ColdWalk ==
  ASSUME TypeInv, TimesInv, FitInv, ColdInv, Walk
  PROVE  ColdInv'
<1>1. /\ pass'.pc = "evicting" /\ pass'.calm = pass.calm
      /\ pass'.settled = (pass.calm /\ NoTimesWait) /\ pass'.gone = pass.gone
      /\ pass'.pool \in SetToSeqs(Candidates)
      /\ \A i, j \in DOMAIN pass'.pool : i < j => ColdestFirst(pass'.pool[i], pass'.pool[j])
  BY WalkPass DEF TypeInv
<1>2. entry' = entry /\ pass.pc = "measured"
  BY DEF Walk, index
<1>3. pass'.gone = {}
  BY <1>1, <1>2 DEF ColdInv
<1> SUFFICES ASSUME pass'.settled
             PROVE  /\ pass'.calm
                    /\ \A i \in DOMAIN pass'.pool :
                         pass'.pool[i].read <= entry[pass'.pool[i].key].atime
                    /\ \A i, j \in DOMAIN pass'.pool :
                         i < j => pass'.pool[i].read <= pass'.pool[j].read
  BY <1>1, <1>2, <1>3 DEF ColdInv
<1>4. pass.calm /\ NoTimesWait
  BY <1>1
<1>5. PICK q : q = pass'.pool
  OBVIOUS
<1>6. IsFiniteSet(Candidates) /\ q \in SetToSeqs(Candidates)
  BY <1>1, <1>5, CandidateType DEF TypeInv
<1>7. \A i \in DOMAIN q : q[i] \in Candidates
  BY <1>6, Sequenced
<1>8. ASSUME NEW x \in Candidates
      PROVE  x.read \in Nat /\ x.read = x.atime /\ x.atime = entry[x.key].atime
  <2>1. PICK o \in Objects : /\ Evictable(o)
                             /\ x = [key |-> o, size |-> entry[o].size, atime |-> entry[o].atime,
                                     read |-> read[o]]
    BY DEF Candidates
  <2>2. entry[o] # None /\ pending[o] = -1 /\ flushing[o] = -1
    BY <1>4, <2>1 DEF Evictable, NoTimesWait, NoTimes
  <2>3. read[o] = Later(Later(entry[o].atime, -1), -1) /\ entry[o].atime \in Nat
    BY <2>2, TimeTypes DEF TimesInv
  <2>4. read[o] = entry[o].atime
    BY <2>3 DEF Later
  <2> QED
    BY <2>1, <2>3, <2>4
<1>9. \A i \in DOMAIN q : q[i].read <= entry[q[i].key].atime
  <2> SUFFICES ASSUME NEW i \in DOMAIN q PROVE q[i].read <= entry[q[i].key].atime
    OBVIOUS
  <2>1. q[i] \in Candidates
    BY <1>7
  <2>2. q[i].read \in Nat /\ q[i].read = entry[q[i].key].atime
    BY <1>8, <2>1
  <2> QED
    BY <2>2
<1>10. ASSUME NEW i \in DOMAIN q, NEW j \in DOMAIN q, i < j PROVE q[i].read <= q[j].read
  <2>1. q[i] \in Candidates /\ q[j] \in Candidates
    BY <1>7
  <2>2. ColdestFirst(q[i], q[j])
    BY <1>1, <1>5, <1>10
  <2>3. /\ q[i].read \in Nat /\ q[j].read \in Nat
        /\ q[i].read = q[i].atime /\ q[j].read = q[j].atime
    BY <1>8, <2>1
  <2> QED
    BY <2>2, <2>3 DEF ColdestFirst
<1> QED
  BY <1>1, <1>4, <1>5, <1>9, <1>10

\* A look at an entry leaves the order alone.
LEMMA ColdCheck ==
  ASSUME TypeInv, ColdInv, CheckEntry
  PROVE  ColdInv'
<1>1. /\ pass'.pc = "checked" /\ pass'.calm = pass.calm /\ pass'.settled = pass.settled
      /\ pass'.gone = pass.gone /\ pass'.pool = pass.pool /\ entry' = entry
  BY CheckPass DEF TypeInv, CheckEntry, index
<1> QED
  BY <1>1 DEF ColdInv

\* A removed file leaves the order alone.
LEMMA ColdEvict ==
  ASSUME TypeInv, ColdInv, EvictFile
  PROVE  ColdInv'
<1>1. /\ pass'.pc = "removed" /\ pass'.calm = pass.calm /\ pass'.settled = pass.settled
      /\ pass'.gone = pass.gone /\ pass'.pool = pass.pool /\ entry' = entry
  BY EvictPass DEF TypeInv, EvictFile, index
<1> QED
  BY <1>1 DEF ColdInv

\* The head of the pool goes, and is no later than the rest (EvictToFit).
LEMMA ColdMark ==
  ASSUME TypeInv, ColdInv, MarkEvicted, FitInv
  PROVE  ColdInv'
<1>0. PICK q \in Seq(Candidate) : q = pass.pool
  BY Amounts
<1>1. /\ pass'.pc = "evicting" /\ pass'.calm = pass.calm /\ pass'.settled = pass.settled
      /\ pass'.gone = IF pass.settled THEN pass.gone \cup {Head(q).read} ELSE pass.gone
      /\ q # <<>> /\ pass'.pool = Tail(q)
  BY <1>0, MarkPass DEF TypeInv
<1> SUFFICES ASSUME pass.settled PROVE ColdInv'
  BY <1>1 DEF ColdInv
<1>2. pass.cur \in Objects /\ SetState(pass.cur, "evicted") /\ pass.pc = "removed"
  BY MarkPass DEF TypeInv, PassOK, PassShape, Candidate, MarkEvicted
<1>3. /\ pass.calm
      /\ \A i \in DOMAIN q : q[i].read <= entry[q[i].key].atime
      /\ \A i, j \in DOMAIN q : i < j => q[i].read <= q[j].read
      /\ \A t \in pass.gone, i \in DOMAIN q : t <= q[i].read
  BY <1>0 DEF ColdInv
<1>4. PoolIs(q)
  BY <1>0, <1>2, <1>3 DEF FitInv
<1> DEFINE t == Tail(q)
<1>5. /\ \A i \in DOMAIN t : i + 1 \in DOMAIN q /\ t[i] = q[i + 1] /\ i \in Nat /\ i > 0
      /\ Head(q) = q[1] /\ 1 \in DOMAIN q
  BY <1>1, TailMembers
<1>6. pass'.pool = t
  BY <1>1
<1> HIDE DEF t
<1>7. ASSUME NEW i \in DOMAIN t PROVE t[i].read <= entry'[t[i].key].atime
  <2>1. i + 1 \in DOMAIN q /\ t[i] = q[i + 1]
    BY <1>5
  <2>2. t[i].key \in Objects /\ entry[t[i].key] # None
    BY <1>0, <1>4, <2>1, PoolMembers DEF PoolIs, Evictable
  <2>3. entry'[t[i].key].atime = entry[t[i].key].atime
    BY <1>2, <2>2, SetStateTimes
  <2> QED
    BY <1>3, <2>1, <2>3
<1>8. ASSUME NEW i \in DOMAIN t, NEW j \in DOMAIN t, i < j PROVE t[i].read <= t[j].read
  <2>1. /\ i + 1 \in DOMAIN q /\ t[i] = q[i + 1] /\ j + 1 \in DOMAIN q /\ t[j] = q[j + 1]
        /\ i \in Nat /\ j \in Nat
    BY <1>5
  <2>2. i + 1 < j + 1
    BY <1>8, <2>1
  <2> QED
    BY <1>3, <2>1, <2>2
<1>9. ASSUME NEW u \in pass'.gone, NEW i \in DOMAIN t PROVE u <= t[i].read
  <2>1. i + 1 \in DOMAIN q /\ t[i] = q[i + 1] /\ 1 < i + 1
    BY <1>5
  <2>2. u \in pass.gone \/ u = q[1].read
    BY <1>1, <1>5
  <2> QED
    BY <1>3, <1>5, <2>1, <2>2
<1> QED
  BY <1>1, <1>3, <1>6, <1>7, <1>8, <1>9 DEF ColdInv

\* What may still be evicted at the end is in the pool that is left.
LEMMA ColdEnd ==
  ASSUME TypeInv, FitInv, ColdInv, EndPass
  PROVE  ColdInv'
<1>1. pass.pc = "evicting" /\ entry' = entry
  BY DEF EndPass, index
<1>2. CASE ~pass.calm
  <2>1. pass' = Resting
    BY <1>2, EndedPass DEF TypeInv
  <2> QED
    BY <2>1 DEF Resting, ColdInv
<1>3. CASE pass.calm
  <2>1. /\ pass'.pc = "done" /\ pass'.calm = pass.calm /\ pass'.settled = pass.settled
        /\ pass'.gone = pass.gone /\ PassShape(pass')
    BY <1>3, EndedPass DEF TypeInv
  <2>2. pass'.pool = <<>> /\ PoolIs(pass.pool)
    BY <1>1, <1>3, <2>1 DEF PassShape, FitInv
  <2>3. ASSUME pass.settled, NEW t \in pass.gone, NEW o \in Objects, Evictable(o)
        PROVE  t <= entry[o].atime
    <3>1. PICK i \in DOMAIN pass.pool : pass.pool[i].key = o
      BY <2>2, <2>3 DEF PoolIs
    <3>2. t <= pass.pool[i].read /\ pass.pool[i].read <= entry[o].atime
      BY <2>3, <3>1 DEF ColdInv
    <3>3. t \in Nat /\ pass.pool[i].read \in Nat /\ entry[o].atime \in Nat
      BY <2>3, <3>1, PoolMembers, TimeTypes DEF Evictable
    <3> QED
      BY <3>2, <3>3
  <2>4. \A o \in Objects : Evictable(o)' => Evictable(o)
    BY <1>1 DEF Evictable, Local, Safe
  <2> QED
    BY <1>1, <1>3, <2>1, <2>2, <2>3, <2>4 DEF ColdInv
<1> QED
  BY <1>2, <1>3

\* Every step keeps the order of the pool.
LEMMA ColdStep ==
  ASSUME TypeInv, TimesInv, FitInv, ColdInv, [CacheNext]_vars
  PROVE  ColdInv'
<1>1. ASSUME pass' = Disturbed PROVE ColdInv'
  <2>1. ~pass'.settled /\ (pass'.pc = "measured" => pass'.gone = {})
    BY <1>1, DisturbedShape DEF TypeInv
  <2> QED
    BY <2>1 DEF ColdInv
<1>2. ASSUME NEW o \in Objects, NEW s \in Sizes, RecordFile(o, s) PROVE ColdInv'
  BY <1>1, <1>2 DEF RecordFile
<1>3. ASSUME NEW o \in Objects, Upload(o) \/ RemoveObject(o) \/ MarkRecalled(o) PROVE ColdInv'
  BY <1>1, <1>3 DEF Upload, RemoveObject, MarkRecalled
<1>4. ASSUME pass' = pass, entry' = entry PROVE ColdInv'
  BY <1>4 DEF ColdInv, Evictable, Local, Safe
<1>5. ASSUME NEW o \in Objects, WriteFile(o) \/ LandRecall(o) \/ Touch(o) PROVE ColdInv'
  BY <1>4, <1>5 DEF WriteFile, LandRecall, Touch, index
<1>6. ASSUME TakePending \/ FailFlush PROVE ColdInv'
  BY <1>4, <1>6 DEF TakePending, FailFlush, index
<1>7. ASSUME Flush PROVE ColdInv'
  <2>1. \A o \in Objects : Evictable(o)' => Evictable(o)
    BY <1>7, FlushKeeps DEF TypeInv, Evictable, Local, Safe
  <2>2. ASSUME NEW o \in Objects, entry[o] # None
        PROVE  entry'[o].atime \in Nat /\ entry[o].atime <= entry'[o].atime
    <3>1. entry'[o].atime = Later(entry[o].atime, flushing[o])
      BY <1>7, <2>2, FlushKeeps DEF TypeInv
    <3>2. entry[o].atime \in Nat /\ flushing[o] \in Int
      BY <2>2, TimeTypes
    <3> QED
      BY <3>1, <3>2 DEF Later
  <2> QED
    BY <1>7, <2>1, <2>2, ColdKept DEF Flush
<1>8. ASSUME NEW short \in 0..1, Measure(short) PROVE ColdInv'
  <2>1. ~pass'.settled /\ pass'.gone = {}
    BY <1>8, MeasurePass DEF TypeInv
  <2> QED
    BY <2>1 DEF ColdInv
<1>9. ASSUME SkipUnsafe PROVE ColdInv'
  <2>1. pass'.calm = pass.calm /\ pass'.settled = pass.settled /\ pass'.pc = "evicting"
    BY <1>9, SkipPass DEF TypeInv
  <2>2. ~pass.calm
    BY <1>9, NothingSkipped
  <2> QED
    BY <2>1, <2>2 DEF ColdInv
<1>10. ASSUME NEW op \in Ops, BeginCall(op) PROVE ColdInv'
  BY <1>4, <1>10 DEF BeginCall, index
<1>11. ASSUME FinishCall \/ Tick PROVE ColdInv'
  BY <1>4, <1>11 DEF FinishCall, Tick, index
<1>12. ASSUME UNCHANGED vars PROVE ColdInv'
  BY <1>4, <1>12 DEF vars
<1> QED
  BY <1>2, <1>3, <1>5, <1>6, <1>7, <1>8, <1>9, <1>10, <1>11, <1>12, ColdWalk, ColdCheck,
     ColdEvict, ColdMark, ColdEnd DEF CacheNext, Flusher

\* A pass that began with no access time in memory evicts nothing that had then
\* been written or read after something it could have evicted instead
\* (EvictToFit, coldest first).
THEOREM ColdestFirstGoes == CacheSpec => []ColdestGo
<1> DEFINE Inv == TypeInv /\ TimesInv /\ FitInv /\ ColdInv
<1>1. CacheInit => Inv
  BY TypeInit DEF CacheInit, TimesInv, FitInv, ColdInv, Resting, NoTimes
<1>2. Inv /\ [CacheNext]_vars => Inv'
  BY TypeStep, TimesStep, FitStep, ColdStep
<1>3. Inv => ColdestGo
  <2> SUFFICES ASSUME Inv, pass.pc = "done", pass.settled, NEW t \in pass.gone,
                      NEW p \in Objects, Evictable(p)
               PROVE  t <= read[p]
    BY DEF ColdestGo
  <2>1. t <= entry[p].atime /\ entry[p] # None /\ t \in Nat
    BY PoolMembers DEF ColdInv, Evictable
  <2>2. read[p] = Later(Later(entry[p].atime, pending[p]), flushing[p])
    BY <2>1 DEF TimesInv
  <2>3. /\ entry[p].atime \in Nat /\ pending[p] \in Int /\ flushing[p] \in Int
    BY <2>1, TimeTypes
  <2> QED
    BY <2>1, <2>2, <2>3 DEF Later
<1> HIDE DEF Inv
<1> QED
  BY <1>1, <1>2, <1>3, PTL DEF CacheSpec

=============================================================================
