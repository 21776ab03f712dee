------------------------------ MODULE TanaFrontProofs ------------------------------
(***************************************************************************)
(* Theorems about the configuration and the front end, for all files, keys,*)
(* groups, page sizes and contents.                                        *)
(***************************************************************************)
EXTENDS TanaFront, TanaInduction

-----------------------------------------------------------------------------
(***************************************************************************)
(* Settled configurations.                                                 *)
(***************************************************************************)
\* What each step of a reload owes to the file it was made from.
ReloadInv ==
  /\ watch.pc \in {"starting", "idle", "loaded", "swapped"}
  /\ watch.pc # "swapped" => tenants = ToSet(running.buckets)
  /\ watch.pc = "starting" => ~watch.event
  /\ ~watch.event /\ ~watch.lost =>
       CASE watch.pc = "loaded"  -> watch.loaded = Loaded[document]
         [] watch.pc = "swapped" -> /\ running = Loaded[document] /\ ~loadError
                                    /\ Loaded[document] # Invalid
         [] OTHER -> /\ loadError <=> Loaded[document] = Invalid
                     /\ ~loadError => running = Loaded[document]

\* Nothing but a reload moves what runs, and a reload takes the file as it is
\* (Manager.reload).
LEMMA ReloadStep ==
  ASSUME ReloadInv, [FrontNext]_vars
  PROVE  ReloadInv'
<1>1. CASE ConfigNext
  <2>1. CASE StartWatch
    BY <2>1 DEF StartWatch, ReloadInv
  <2>2. ASSUME NEW d \in Documents, Edit(d) PROVE ReloadInv'
    BY <2>2 DEF Edit, ReloadInv
  <2>3. CASE LoseEvent
    BY <2>3 DEF LoseEvent, ReloadInv
  <2>4. CASE ReadDocument
    BY <2>4 DEF ReadDocument, ReloadInv
  <2>5. CASE KeepRunning
    BY <2>5 DEF KeepRunning, ReloadInv
  <2>6. CASE SwapRunning
    BY <2>6 DEF SwapRunning, ReloadInv
  <2>7. CASE Configure
    BY <2>7 DEF Configure, ReloadInv
  <2> QED
    BY <1>1, <2>1, <2>2, <2>3, <2>4, <2>5, <2>6, <2>7 DEF ConfigNext, Reload
<1>2. CASE UNCHANGED configVars
  BY <1>2 DEF configVars, ReloadInv
<1> QED
  BY <1>1, <1>2 DEF FrontNext, vars, configVars, DeleteObject, PutObject, BeginList, ListPage, Refuse,
     HeadObject, Leave, BeginGet, GetObject

\* The watcher rests on the file it has last seen, and the store answers from
\* the configuration that runs (Manager.Watch, Manager.reload, Store.Configure).
THEOREM RestsSettled == FrontSpec => []SettledRuns
<1>1. FrontInit => ReloadInv
  BY DEF FrontInit, ConfigInit, ReloadInv
<1>2. ReloadInv /\ [FrontNext]_vars => ReloadInv'
  BY ReloadStep
<1>3. ReloadInv => SettledRuns
  BY DEF ReloadInv, SettledRuns
<1> QED
  BY <1>1, <1>2, <1>3, PTL DEF FrontSpec

-----------------------------------------------------------------------------
(***************************************************************************)
(* What Load keeps.  A fold over a list is a recursion over the sets of    *)
(* its indices, each reduced by its greatest; what it makes of 1..n is     *)
(* what the loop has after n turns.                                        *)
(***************************************************************************)
\* The indices of the first n + 1 entries without the last.
LEMMA LastTurn ==
  ASSUME NEW n \in Nat
  PROVE  /\ Max(1..n + 1) = n + 1 /\ (1..n + 1) \ {n + 1} = 1..n
         /\ 1..n + 1 # {} /\ 1..0 = {}
<1>1. n + 1 \in 1..n + 1 /\ \A y \in 1..n + 1 : n + 1 >= y
  OBVIOUS
<1>2. Max(1..n + 1) \in 1..n + 1 /\ \A y \in 1..n + 1 : Max(1..n + 1) >= y
  BY <1>1 DEF Max
<1>3. Max(1..n + 1) = n + 1
  BY <1>1, <1>2
<1> QED
  BY <1>3

\* A set of indices that is not empty has its greatest among its members.
LEMMA LastIndex ==
  ASSUME NEW n \in Nat, NEW s \in SUBSET (1..n), s # {}
  PROVE  Max(s) \in s
<1>1. s \in SUBSET Nat /\ \A y \in s : y <= n
  OBVIOUS
<1>2. PICK x \in s : \A y \in s : y <= x
  BY <1>1, Greatest
<1>3. x \in s /\ \A y \in s : x >= y
  BY <1>1, <1>2
<1> QED
  BY <1>3 DEF Max

\* The loop of validateStore, turn by turn.
LEMMA BucketTurns ==
  ASSUME NEW d, d.buckets \in Seq(ToSet(d.buckets))
  PROVE  \E h : /\ h[0] = [kept |-> <<>>, names |-> {}]
                /\ \A n \in Nat : n + 1 <= Len(d.buckets) =>
                     h[n + 1] = KeepBucket(h[n], d.buckets[n + 1])
                /\ KeptBuckets(d) = h[Len(d.buckets)].kept
<1> DEFINE q == d.buckets
           D == DOMAIN q
           B == ToSet(q)
           V == [kept : Seq(B), names : SUBSET {b.name : b \in B}]
           base == [kept |-> <<>>, names |-> {}]
           IsRec(f) == f = [s \in SUBSET D |-> IF s = {} THEN base
                                               ELSE KeepBucket(f[s \ {Max(s)}], q[Max(s)])]
           G == CHOOSE f : IsRec(f)
<1>1. D = 1..Len(q) /\ Len(q) \in Nat /\ IsFiniteSet(D) /\ \A i \in D : q[i] \in B
  BY FS_Interval DEF ToSet
<1>2. KeptBuckets(d) = G[D].kept
  BY Zenon DEF KeptBuckets, FoldLeft, MapThenFoldSet
<1>3. base \in V
  OBVIOUS
<1>4. ASSUME NEW st \in V, NEW b \in B PROVE KeepBucket(st, b) \in V
  BY DEF KeepBucket
<1> DEFINE step == [p \in D \X V |-> KeepBucket(p[2], q[p[1]])]
           pick == [s \in SUBSET D |-> Max(s)]
<1>5. step \in [D \X V -> V]
  BY <1>1, <1>4
<1>6. Picks(pick, D)
  BY <1>1, LastIndex DEF Picks
<1> HIDE DEF V, base
<1>7. \E f : IsRec(f)
  <2>1. PICK f \in [SUBSET D -> V] : Solves(f, D, base, step, pick)
    <3> HIDE DEF D, step, pick
    <3>1. IsFiniteSet(D)
      BY <1>1
    <3> QED
      BY <3>1, <1>3, <1>5, <1>6, SetRecursion, Zenon
  <2>2. ASSUME NEW s \in SUBSET D, s # {}
        PROVE  f[s] = KeepBucket(f[s \ {Max(s)}], q[Max(s)])
    <3>1. Max(s) \in D /\ s \ {Max(s)} \in SUBSET D /\ pick[s] = Max(s)
      BY <1>6, <2>2 DEF Picks
    <3>2. <<Max(s), f[s \ {Max(s)}]>> \in D \X V
      BY <2>1, <3>1
    <3> QED
      BY <2>1, <2>2, <3>1, <3>2 DEF Solves
  <2>3. \A s \in SUBSET D : f[s] = IF s = {} THEN base ELSE KeepBucket(f[s \ {Max(s)}], q[Max(s)])
    BY <2>1, <2>2 DEF Solves
  <2> QED
    BY <2>1, <2>3
<1>8. G = [s \in SUBSET D |-> IF s = {} THEN base ELSE KeepBucket(G[s \ {Max(s)}], q[Max(s)])]
  BY <1>7
<1> HIDE DEF G, D
<1> DEFINE h == [n \in 0..Len(q) |-> G[1..n]]
<1>9. h[0] = base
  <2>1. 0 \in 0..Len(q) /\ 1..0 = {} /\ {} \in SUBSET D
    BY <1>1
  <2> QED
    BY <1>8, <2>1
<1>10. ASSUME NEW n \in Nat, n + 1 <= Len(q) PROVE h[n + 1] = KeepBucket(h[n], q[n + 1])
  <2>1. n \in 0..Len(q) /\ n + 1 \in 0..Len(q) /\ 1..n + 1 \in SUBSET D
    BY <1>1, <1>10
  <2>2. G[1..n + 1] = KeepBucket(G[1..n], q[n + 1])
    <3>1. Max(1..n + 1) = n + 1 /\ (1..n + 1) \ {n + 1} = 1..n /\ 1..n + 1 # {}
      BY LastTurn
    <3>2. G[1..n + 1] = KeepBucket(G[(1..n + 1) \ {Max(1..n + 1)}], q[Max(1..n + 1)])
      BY <1>8, <2>1, <3>1, Zenon
    <3> QED
      BY <3>1, <3>2, Zenon
  <2> QED
    BY <2>1, <2>2
<1>11. h[Len(q)] = G[D]
  BY <1>1
<1> HIDE DEF h
<1> QED
  BY <1>2, <1>9, <1>10, <1>11 DEF base

\* The loop of validateAgent, turn by turn.
LEMMA SiteTurns ==
  ASSUME NEW d, d.sites \in Seq(ToSet(d.sites))
  PROVE  \E h : /\ h[0] = [kept |-> <<>>, names |-> {}, paths |-> {}]
                /\ \A n \in Nat : n + 1 <= Len(d.sites) =>
                     h[n + 1] = KeepSite(h[n], d.sites[n + 1])
                /\ KeptSites(d) = h[Len(d.sites)].kept
<1> DEFINE q == d.sites
           D == DOMAIN q
           B == ToSet(q)
           V == [kept : Seq(B), names : SUBSET {b.name : b \in B},
                paths : SUBSET UNION {SitePaths(b) : b \in B}]
           base == [kept |-> <<>>, names |-> {}, paths |-> {}]
           IsRec(f) == f = [s \in SUBSET D |-> IF s = {} THEN base
                                               ELSE KeepSite(f[s \ {Max(s)}], q[Max(s)])]
           G == CHOOSE f : IsRec(f)
<1>1. D = 1..Len(q) /\ Len(q) \in Nat /\ IsFiniteSet(D) /\ \A i \in D : q[i] \in B
  BY FS_Interval DEF ToSet
<1>2. KeptSites(d) = G[D].kept
  BY Zenon DEF KeptSites, FoldLeft, MapThenFoldSet
<1>3. base \in V
  OBVIOUS
<1>4. ASSUME NEW st \in V, NEW b \in B PROVE KeepSite(st, b) \in V
  BY DEF KeepSite
<1> DEFINE step == [p \in D \X V |-> KeepSite(p[2], q[p[1]])]
           pick == [s \in SUBSET D |-> Max(s)]
<1>5. step \in [D \X V -> V]
  BY <1>1, <1>4
<1>6. Picks(pick, D)
  BY <1>1, LastIndex DEF Picks
<1> HIDE DEF V, base
<1>7. \E f : IsRec(f)
  <2>1. PICK f \in [SUBSET D -> V] : Solves(f, D, base, step, pick)
    <3> HIDE DEF D, step, pick
    <3>1. IsFiniteSet(D)
      BY <1>1
    <3> QED
      BY <3>1, <1>3, <1>5, <1>6, SetRecursion, Zenon
  <2>2. ASSUME NEW s \in SUBSET D, s # {}
        PROVE  f[s] = KeepSite(f[s \ {Max(s)}], q[Max(s)])
    <3>1. Max(s) \in D /\ s \ {Max(s)} \in SUBSET D /\ pick[s] = Max(s)
      BY <1>6, <2>2 DEF Picks
    <3>2. <<Max(s), f[s \ {Max(s)}]>> \in D \X V
      BY <2>1, <3>1
    <3> QED
      BY <2>1, <2>2, <3>1, <3>2 DEF Solves
  <2>3. \A s \in SUBSET D : f[s] = IF s = {} THEN base ELSE KeepSite(f[s \ {Max(s)}], q[Max(s)])
    BY <2>1, <2>2 DEF Solves
  <2> QED
    BY <2>1, <2>3
<1>8. G = [s \in SUBSET D |-> IF s = {} THEN base ELSE KeepSite(G[s \ {Max(s)}], q[Max(s)])]
  BY <1>7
<1> HIDE DEF G, D
<1> DEFINE h == [n \in 0..Len(q) |-> G[1..n]]
<1>9. h[0] = base
  <2>1. 0 \in 0..Len(q) /\ 1..0 = {} /\ {} \in SUBSET D
    BY <1>1
  <2> QED
    BY <1>8, <2>1
<1>10. ASSUME NEW n \in Nat, n + 1 <= Len(q) PROVE h[n + 1] = KeepSite(h[n], q[n + 1])
  <2>1. n \in 0..Len(q) /\ n + 1 \in 0..Len(q) /\ 1..n + 1 \in SUBSET D
    BY <1>1, <1>10
  <2>2. G[1..n + 1] = KeepSite(G[1..n], q[n + 1])
    <3>1. Max(1..n + 1) = n + 1 /\ (1..n + 1) \ {n + 1} = 1..n /\ 1..n + 1 # {}
      BY LastTurn
    <3>2. G[1..n + 1] = KeepSite(G[(1..n + 1) \ {Max(1..n + 1)}], q[Max(1..n + 1)])
      BY <1>8, <2>1, <3>1, Zenon
    <3> QED
      BY <3>1, <3>2, Zenon
  <2> QED
    BY <2>1, <2>2
<1>11. h[Len(q)] = G[D]
  BY <1>1
<1> HIDE DEF h
<1> QED
  BY <1>2, <1>9, <1>10, <1>11 DEF base

\* What holds of the buckets kept in the first n turns over q.
BucketsKept(st, q, n) ==
  LET ks == st.kept
  IN  /\ ks \in Seq(ToSet(q))
      /\ \A x : x \in st.names <=> \E i \in DOMAIN ks : ks[i].name = x
      /\ \A i, j \in DOMAIN ks : i # j => ks[i].name # ks[j].name
      /\ \A i \in 1..n : q[i].usable => q[i].name \in st.names

\* What holds of the sites kept in the first n turns over q.
SitesClash(s, t) == s.name = t.name \/ SitePaths(s) \cap SitePaths(t) # {}
SitesKept(st, q, n) ==
  LET ks == st.kept
  IN  /\ ks \in Seq(ToSet(q))
      /\ \A x : x \in st.names <=> \E i \in DOMAIN ks : ks[i].name = x
      /\ \A x : x \in st.paths <=> \E i \in DOMAIN ks : x \in SitePaths(ks[i])
      /\ \A i \in DOMAIN ks : SiteUsable(ks[i])
      /\ \A i, j \in DOMAIN ks : i # j => ~SitesClash(ks[i], ks[j])
      /\ \A i \in 1..n : SiteUsable(q[i]) => \E j \in DOMAIN ks : SitesClash(ks[j], q[i])

\* Before the first turn nothing is kept.
LEMMA NothingKept ==
  ASSUME NEW q
  PROVE  /\ BucketsKept([kept |-> <<>>, names |-> {}], q, 0)
         /\ SitesKept([kept |-> <<>>, names |-> {}, paths |-> {}], q, 0)
<1>1. <<>> \in Seq(ToSet(q)) /\ DOMAIN <<>> = {} /\ 1..0 = {}
  OBVIOUS
<1> DEFINE e == <<>>
           b == [kept |-> e, names |-> {}]
           t == [kept |-> e, names |-> {}, paths |-> {}]
<1>2. b.kept = e /\ b.names = {} /\ t.kept = e /\ t.names = {} /\ t.paths = {}
  OBVIOUS
<1> HIDE DEF b, t
<1>3. BucketsKept(b, q, 0)
  BY <1>1, <1>2 DEF BucketsKept
<1>4. SitesKept(t, q, 0)
  BY <1>1, <1>2 DEF SitesKept
<1> QED
  BY <1>3, <1>4 DEF b, t

\* One more turn keeps an entry apart from those before, or drops one that a
\* kept one has the name of (validateStore).
LEMMA BucketTurn ==
  ASSUME NEW q, q \in Seq(ToSet(q)), NEW n \in Nat, n + 1 <= Len(q),
         NEW st, BucketsKept(st, q, n)
  PROVE  BucketsKept(KeepBucket(st, q[n + 1]), q, n + 1)
<1> DEFINE b == q[n + 1]
           ks == st.kept
           new == KeepBucket(st, b)
<1>1. ks \in Seq(ToSet(q)) /\ Len(ks) \in Nat /\ DOMAIN ks = 1..Len(ks)
  BY DEF BucketsKept
<1>2. b \in ToSet(q)
  BY DEF ToSet
<1>3. \A i \in 1..n + 1 : i \in 1..n \/ i = n + 1
  OBVIOUS
<1>4. CASE b.usable /\ b.name \notin st.names
  <2>1. new.kept = Append(ks, b) /\ new.names = st.names \cup {b.name}
    BY <1>4 DEF KeepBucket
  <2>2. /\ Append(ks, b) \in Seq(ToSet(q)) /\ Len(Append(ks, b)) = Len(ks) + 1
        /\ DOMAIN Append(ks, b) = 1..Len(ks) + 1
        /\ \A i \in 1..Len(ks) : Append(ks, b)[i] = ks[i]
        /\ Append(ks, b)[Len(ks) + 1] = b
    BY <1>1, <1>2
  <2> DEFINE app == Append(ks, b)
  <2>3. \A i \in DOMAIN app : \/ i \in DOMAIN ks /\ app[i] = ks[i]
                              \/ i = Len(ks) + 1 /\ i \notin DOMAIN ks /\ app[i] = b
    BY <1>1, <2>2
  <2>4. DOMAIN ks \subseteq DOMAIN app /\ Len(ks) + 1 \in DOMAIN app
    BY <1>1, <2>2
  <2>5. app \in Seq(ToSet(q)) /\ app[Len(ks) + 1] = b /\ new.kept = app
    BY <2>1, <2>2
  <2> HIDE DEF app, new, ks, b
  <2>6. \A x : x \in new.names <=> \E i \in DOMAIN app : app[i].name = x
    <3>1. \A x : x \in st.names <=> \E i \in DOMAIN ks : ks[i].name = x
      BY DEF BucketsKept, ks
    <3> QED
      BY <2>1, <2>3, <2>4, <2>5, <3>1
  <2>7. \A i, j \in DOMAIN app : i # j => app[i].name # app[j].name
    <3>1. \A i \in DOMAIN ks : ks[i].name # b.name
      BY <1>4 DEF BucketsKept, ks
    <3>2. \A i, j \in DOMAIN ks : i # j => ks[i].name # ks[j].name
      BY DEF BucketsKept, ks
    <3> QED
      BY <2>3, <3>1, <3>2
  <2>8. \A i \in 1..n + 1 : q[i].usable => q[i].name \in new.names
    BY <1>3, <2>1 DEF BucketsKept, b
  <2> QED
    BY <2>5, <2>6, <2>7, <2>8 DEF BucketsKept, new, b
<1>5. CASE ~(b.usable /\ b.name \notin st.names)
  <2>1. new = st
    BY <1>5 DEF KeepBucket
  <2> QED
    BY <1>3, <1>5, <2>1 DEF BucketsKept
<1> QED
  BY <1>4, <1>5

\* The same of a site, which a kept one may also have a path of (validateAgent).
LEMMA SiteTurn ==
  ASSUME NEW q, q \in Seq(ToSet(q)), NEW n \in Nat, n + 1 <= Len(q),
         NEW st, SitesKept(st, q, n)
  PROVE  SitesKept(KeepSite(st, q[n + 1]), q, n + 1)
<1> DEFINE s == q[n + 1]
           ks == st.kept
           new == KeepSite(st, s)
           Fits == SiteUsable(s) /\ s.name \notin st.names /\ SitePaths(s) \cap st.paths = {}
<1>1. ks \in Seq(ToSet(q)) /\ Len(ks) \in Nat /\ DOMAIN ks = 1..Len(ks)
  BY DEF SitesKept
<1>2. s \in ToSet(q)
  BY DEF ToSet
<1>3. \A i \in 1..n + 1 : i \in 1..n \/ i = n + 1
  OBVIOUS
<1>4. CASE Fits
  <2>1. /\ new.kept = Append(ks, s) /\ new.names = st.names \cup {s.name}
        /\ new.paths = st.paths \cup SitePaths(s)
    BY <1>4 DEF KeepSite
  <2>2. /\ Append(ks, s) \in Seq(ToSet(q)) /\ Len(Append(ks, s)) = Len(ks) + 1
        /\ DOMAIN Append(ks, s) = 1..Len(ks) + 1
        /\ \A i \in 1..Len(ks) : Append(ks, s)[i] = ks[i]
        /\ Append(ks, s)[Len(ks) + 1] = s
    BY <1>1, <1>2
  <2> DEFINE app == Append(ks, s)
  <2>3. \A i \in DOMAIN app : \/ i \in DOMAIN ks /\ app[i] = ks[i]
                              \/ i = Len(ks) + 1 /\ i \notin DOMAIN ks /\ app[i] = s
    BY <1>1, <2>2
  <2>4. \A i \in DOMAIN ks : i \in DOMAIN app /\ app[i] = ks[i]
    BY <1>1, <2>2
  <2>5. /\ app \in Seq(ToSet(q)) /\ Len(ks) + 1 \in DOMAIN app /\ app[Len(ks) + 1] = s
        /\ new.kept = app
    BY <1>1, <2>1, <2>2
  <2> HIDE DEF app, new, ks, s
  <2>6. \A x : x \in new.names <=> \E i \in DOMAIN app : app[i].name = x
    <3>1. \A x : x \in st.names <=> \E i \in DOMAIN ks : ks[i].name = x
      BY DEF SitesKept, ks
    <3> QED
      BY <2>1, <2>3, <2>4, <2>5, <3>1
  <2>7. \A x : x \in new.paths <=> \E i \in DOMAIN app : x \in SitePaths(app[i])
    <3>1. \A x : x \in st.paths <=> \E i \in DOMAIN ks : x \in SitePaths(ks[i])
      BY DEF SitesKept, ks
    <3> QED
      BY <2>1, <2>3, <2>4, <2>5, <3>1
  <2>8. \A i, j \in DOMAIN app : i # j => ~SitesClash(app[i], app[j])
    <3>1. \A i \in DOMAIN ks : ~SitesClash(ks[i], s) /\ ~SitesClash(s, ks[i])
      <4> SUFFICES ASSUME NEW i \in DOMAIN ks
                   PROVE  ~SitesClash(ks[i], s) /\ ~SitesClash(s, ks[i])
        OBVIOUS
      <4>1. ks[i].name # s.name
        BY <1>4 DEF SitesKept, ks
      <4>2. SitePaths(ks[i]) \cap SitePaths(s) = {}
        <5>1. \A x \in SitePaths(ks[i]) : x \in st.paths
          BY DEF SitesKept, ks
        <5> QED
          BY <1>4, <5>1
      <4> QED
        BY <4>1, <4>2 DEF SitesClash
    <3>2. \A i, j \in DOMAIN ks : i # j => ~SitesClash(ks[i], ks[j])
      BY DEF SitesKept, ks
    <3> QED
      BY <2>3, <3>1, <3>2
  <2>9. \A i \in 1..n + 1 : SiteUsable(q[i]) => \E j \in DOMAIN app : SitesClash(app[j], q[i])
    <3>1. \A i \in 1..n : SiteUsable(q[i]) => \E j \in DOMAIN ks : SitesClash(ks[j], q[i])
      BY DEF SitesKept, ks
    <3>2. SitesClash(app[Len(ks) + 1], q[n + 1])
      BY <2>5 DEF SitesClash, s
    <3> QED
      BY <1>3, <2>4, <2>5, <3>1, <3>2
  <2>10. \A i \in DOMAIN app : SiteUsable(app[i])
    <3>1. \A i \in DOMAIN ks : SiteUsable(ks[i])
      BY DEF SitesKept, ks
    <3> QED
      BY <1>4, <2>3, <3>1
  <2> QED
    BY <2>5, <2>6, <2>7, <2>8, <2>9, <2>10 DEF SitesKept, new, s
<1>5. CASE ~Fits
  <2>1. new = st
    BY <1>5 DEF KeepSite
  <2>2. SiteUsable(s) => \E j \in DOMAIN ks : SitesClash(ks[j], s)
    <3>1. CASE s.name \in st.names
      BY <3>1 DEF SitesKept, SitesClash
    <3>2. CASE SitePaths(s) \cap st.paths # {}
      <4>1. PICK x : x \in SitePaths(s) /\ x \in st.paths
        BY <3>2
      <4>2. PICK j \in DOMAIN ks : x \in SitePaths(ks[j])
        BY <4>1 DEF SitesKept
      <4> QED
        BY <4>1, <4>2 DEF SitesClash
    <3> QED
      BY <1>5, <3>1, <3>2
  <2> QED
    BY <1>3, <2>1, <2>2 DEF SitesKept
<1> QED
  BY <1>4, <1>5

\* What the loops leave of a file.
LEMMA BucketsSettled ==
  ASSUME NEW d, d.buckets \in Seq(ToSet(d.buckets))
  PROVE  \E st : st.kept = KeptBuckets(d) /\ BucketsKept(st, d.buckets, Len(d.buckets))
<1> DEFINE q == d.buckets
<1>1. PICK h : /\ h[0] = [kept |-> <<>>, names |-> {}]
               /\ \A n \in Nat : n + 1 <= Len(q) => h[n + 1] = KeepBucket(h[n], q[n + 1])
               /\ KeptBuckets(d) = h[Len(q)].kept
  BY BucketTurns
<1> DEFINE T == {n \in Nat : n <= Len(q) => BucketsKept(h[n], q, n)}
<1>2. 0 \in T
  <2>1. BucketsKept([kept |-> <<>>, names |-> {}], q, 0)
    BY NothingKept
  <2> QED
    BY <1>1, <2>1
<1>3. ASSUME NEW n \in Nat, n \in T PROVE n + 1 \in T
  <2> SUFFICES ASSUME n + 1 <= Len(q) PROVE BucketsKept(h[n + 1], q, n + 1)
    OBVIOUS
  <2>1. Len(q) \in Nat
    OBVIOUS
  <2>2. BucketsKept(h[n], q, n)
    BY <1>3, <2>1
  <2>3. h[n + 1] = KeepBucket(h[n], q[n + 1])
    BY <1>1
  <2> HIDE DEF q, T
  <2>4. q \in Seq(ToSet(q))
    BY DEF q
  <2>5. BucketsKept(KeepBucket(h[n], q[n + 1]), q, n + 1)
    BY <2>2, <2>4, BucketTurn
  <2> QED
    BY <2>3, <2>5
<1>4. Len(q) \in T
  <2>1. Len(q) \in Nat
    OBVIOUS
  <2> HIDE DEF T, q
  <2> QED
    BY <1>2, <1>3, <2>1, Induction DEF Inductive
<1> QED
  BY <1>1, <1>4

\* The same of sites.
LEMMA SitesSettled ==
  ASSUME NEW d, d.sites \in Seq(ToSet(d.sites))
  PROVE  \E st : st.kept = KeptSites(d) /\ SitesKept(st, d.sites, Len(d.sites))
<1> DEFINE q == d.sites
<1>1. PICK h : /\ h[0] = [kept |-> <<>>, names |-> {}, paths |-> {}]
               /\ \A n \in Nat : n + 1 <= Len(q) => h[n + 1] = KeepSite(h[n], q[n + 1])
               /\ KeptSites(d) = h[Len(q)].kept
  BY SiteTurns
<1> DEFINE T == {n \in Nat : n <= Len(q) => SitesKept(h[n], q, n)}
<1>2. 0 \in T
  <2>1. SitesKept([kept |-> <<>>, names |-> {}, paths |-> {}], q, 0)
    BY NothingKept
  <2> QED
    BY <1>1, <2>1
<1>3. ASSUME NEW n \in Nat, n \in T PROVE n + 1 \in T
  <2> SUFFICES ASSUME n + 1 <= Len(q) PROVE SitesKept(h[n + 1], q, n + 1)
    OBVIOUS
  <2>1. Len(q) \in Nat
    OBVIOUS
  <2>2. SitesKept(h[n], q, n)
    BY <1>3, <2>1
  <2>3. h[n + 1] = KeepSite(h[n], q[n + 1])
    BY <1>1
  <2> HIDE DEF q, T
  <2>4. q \in Seq(ToSet(q))
    BY DEF q
  <2>5. SitesKept(KeepSite(h[n], q[n + 1]), q, n + 1)
    BY <2>2, <2>4, SiteTurn
  <2> QED
    BY <2>3, <2>5
<1>4. Len(q) \in T
  <2>1. Len(q) \in Nat
    OBVIOUS
  <2> HIDE DEF T, q
  <2> QED
    BY <1>2, <1>3, <2>1, Induction DEF Inductive
<1> QED
  BY <1>1, <1>4

\* What runs is what Load made of some file that it did not refuse, and so is
\* what is about to (Manager.reload).
RunsLoaded ==
  /\ document \in Documents
  /\ running # Invalid /\ \E d \in Documents : running = Loaded[d]
  /\ watch.loaded # Invalid => \E d \in Documents : watch.loaded = Loaded[d]

\* Only a file that loads replaces what runs.
LEMMA RunsLoadedStep ==
  ASSUME RunsLoaded, [FrontNext]_vars
  PROVE  RunsLoaded'
<1>1. CASE ConfigNext
  <2>1. CASE StartWatch
    BY <2>1 DEF StartWatch, RunsLoaded
  <2>2. ASSUME NEW d \in Documents, Edit(d) PROVE RunsLoaded'
    BY <2>2 DEF Edit, RunsLoaded
  <2>3. CASE LoseEvent
    BY <2>3 DEF LoseEvent, RunsLoaded
  <2>4. CASE ReadDocument
    BY <2>4 DEF ReadDocument, RunsLoaded
  <2>5. CASE KeepRunning
    BY <2>5 DEF KeepRunning, RunsLoaded
  <2>6. CASE SwapRunning
    BY <2>6 DEF SwapRunning, RunsLoaded
  <2>7. CASE Configure
    BY <2>7 DEF Configure, RunsLoaded
  <2> QED
    BY <1>1, <2>1, <2>2, <2>3, <2>4, <2>5, <2>6, <2>7 DEF ConfigNext, Reload
<1>2. CASE UNCHANGED configVars
  BY <1>2 DEF configVars, RunsLoaded
<1> QED
  BY <1>1, <1>2 DEF FrontNext, vars, configVars, DeleteObject, PutObject, BeginList, ListPage, Refuse,
     HeadObject, Leave, BeginGet, GetObject

\* What Load returns of a file that it does not refuse.
LEMMA LoadedFields ==
  ASSUME NEW d \in Documents, Loaded[d] # Invalid
  PROVE  /\ d # Garbage /\ Loaded[d].roles # {} /\ Loaded[d].roles = d.roles
         /\ "store" \in d.roles => Loaded[d].buckets = KeptBuckets(d) /\ KeptBuckets(d) # <<>>
         /\ "agent" \in d.roles => Loaded[d].sites = KeptSites(d) /\ KeptSites(d) # <<>>
<1>1. Load(d) # Invalid /\ Loaded[d] = Load(d)
  BY DEF Loaded
<1>2. d # Garbage
  BY <1>1 DEF Load
<1>3. Load(d) = [roles   |-> d.roles,
                 buckets |-> IF "store" \in d.roles THEN KeptBuckets(d) ELSE d.buckets,
                 sites   |-> IF "agent" \in d.roles THEN KeptSites(d) ELSE d.sites]
  BY <1>1, <1>2, Zenon DEF Load
<1>4. /\ d.roles # {}
      /\ "store" \in d.roles => StoreUsable(d)
      /\ "agent" \in d.roles => KeptSites(d) # <<>>
  BY <1>1, <1>2, Zenon DEF Load
<1> QED
  BY <1>1, <1>2, <1>3, <1>4 DEF StoreUsable

\* What runs is a configuration in which nothing clashes, and which drops no
\* usable entry but for a clash with a kept one (validateStore, validateAgent).
THEOREM RunsApart == FrontSpec => []KeptApart
<1>1. FrontInit => RunsLoaded
  BY DEF FrontInit, ConfigInit, RunsLoaded
<1>2. RunsLoaded /\ [FrontNext]_vars => RunsLoaded'
  BY RunsLoadedStep
<1>3. RunsLoaded => KeptApart
  <2> SUFFICES ASSUME RunsLoaded PROVE KeptApart
    OBVIOUS
  <2> DEFINE bs == running.buckets
             ss == running.sites
  <2>1. running # Invalid /\ \E d \in Documents : running = Loaded[d]
    BY DEF RunsLoaded
  <2>2. running.roles # {}
    BY <2>1, LoadedFields
  <2>3. ASSUME NEW d \in Documents, Loaded[d] = running, "store" \in running.roles
        PROVE  /\ bs # <<>>
               /\ \A i, j \in DOMAIN bs : i # j => bs[i].name # bs[j].name
               /\ \A i \in DOMAIN d.buckets : d.buckets[i].usable =>
                    \E j \in DOMAIN bs : bs[j].name = d.buckets[i].name
    <3>1. d # Garbage /\ bs = KeptBuckets(d) /\ bs # <<>>
      BY <2>1, <2>3, LoadedFields
    <3>2. d.buckets \in Seq(ToSet(d.buckets))
      BY <3>1, ConfigFiles
    <3>3. PICK st : st.kept = bs /\ BucketsKept(st, d.buckets, Len(d.buckets))
      BY <3>1, <3>2, BucketsSettled
    <3>4. DOMAIN d.buckets = 1..Len(d.buckets)
      BY <3>2
    <3> QED
      BY <3>1, <3>3, <3>4 DEF BucketsKept
  <2>4. ASSUME NEW d \in Documents, Loaded[d] = running, "agent" \in running.roles
        PROVE  /\ ss # <<>>
               /\ \A i, j \in DOMAIN ss : i # j => ~SitesClash(ss[i], ss[j])
               /\ \A i \in DOMAIN ss : SiteUsable(ss[i])
               /\ \A i \in DOMAIN d.sites : SiteUsable(d.sites[i]) =>
                    \E j \in DOMAIN ss : SitesClash(ss[j], d.sites[i])
    <3>1. d # Garbage /\ ss = KeptSites(d) /\ ss # <<>>
      BY <2>1, <2>4, LoadedFields
    <3>2. d.sites \in Seq(ToSet(d.sites))
      BY <3>1, ConfigFiles
    <3>3. PICK st : st.kept = ss /\ SitesKept(st, d.sites, Len(d.sites))
      BY <3>1, <3>2, SitesSettled
    <3>4. DOMAIN d.sites = 1..Len(d.sites)
      BY <3>2
    <3> QED
      BY <3>1, <3>3, <3>4 DEF SitesKept
  <2>5. "store" \in running.roles =>
           /\ bs # <<>>
           /\ \A i, j \in DOMAIN bs : i # j => bs[i].name # bs[j].name
           /\ \A d \in Documents \ {Garbage} : Loaded[d] = running =>
                \A i \in DOMAIN d.buckets : d.buckets[i].usable =>
                  \E j \in DOMAIN bs : bs[j].name = d.buckets[i].name
    BY <2>1, <2>3
  <2>6. "agent" \in running.roles =>
           /\ ss # <<>>
           /\ \A i, j \in DOMAIN ss : i # j => ~SitesClash(ss[i], ss[j])
           /\ \A i \in DOMAIN ss : SiteUsable(ss[i])
           /\ \A d \in Documents \ {Garbage} : Loaded[d] = running =>
                \A i \in DOMAIN d.sites : SiteUsable(d.sites[i]) =>
                  \E j \in DOMAIN ss : SitesClash(ss[j], d.sites[i])
    BY <2>1, <2>4
  <2>7. \A i \in DOMAIN ss : SiteUsable(ss[i]) =>
           ~Under(ss[i].backing, ss[i].uploads) /\ ~Under(ss[i].uploads, ss[i].backing)
    BY DEF SiteUsable
  <2>8. "agent" \in running.roles =>
           /\ ss # <<>>
           /\ \A i, j \in DOMAIN ss : i # j => ~SitesClash(ss[i], ss[j])
           /\ \A i \in DOMAIN ss : ~Under(ss[i].backing, ss[i].uploads)
                                   /\ ~Under(ss[i].uploads, ss[i].backing)
           /\ \A d \in Documents \ {Garbage} : Loaded[d] = running =>
                \A i \in DOMAIN d.sites : SiteUsable(d.sites[i]) =>
                  \E j \in DOMAIN ss : SitesClash(ss[j], d.sites[i])
    BY <2>6, <2>7, Zenon
  <2> HIDE DEF bs, ss
  <2>9. KeptApart <=>
           /\ running # Invalid /\ running.roles # {}
           /\ "store" \in running.roles =>
                /\ bs # <<>>
                /\ \A i, j \in DOMAIN bs : i # j => bs[i].name # bs[j].name
                /\ \A d \in Documents \ {Garbage} : Loaded[d] = running =>
                     \A i \in DOMAIN d.buckets : d.buckets[i].usable =>
                       \E j \in DOMAIN bs : bs[j].name = d.buckets[i].name
           /\ "agent" \in running.roles =>
                /\ ss # <<>>
                /\ \A i, j \in DOMAIN ss : i # j => ~SitesClash(ss[i], ss[j])
                /\ \A i \in DOMAIN ss : ~Under(ss[i].backing, ss[i].uploads)
                                        /\ ~Under(ss[i].uploads, ss[i].backing)
                /\ \A d \in Documents \ {Garbage} : Loaded[d] = running =>
                     \A i \in DOMAIN d.sites : SiteUsable(d.sites[i]) =>
                       \E j \in DOMAIN ss : SitesClash(ss[j], d.sites[i])
    BY DEF KeptApart, SitesClash, bs, ss
  <2> QED
    BY <2>1, <2>2, <2>5, <2>8, <2>9, Zenon
<1> QED
  BY <1>1, <1>2, <1>3, PTL DEF FrontSpec

-----------------------------------------------------------------------------
(***************************************************************************)
(* Listings.                                                               *)
(***************************************************************************)
\* How many keys there are, and that they are numbered.
LEMMA KeysNumbered ==
  /\ Cardinality(Keys) \in Nat /\ Keys = 1..Cardinality(Keys)
  /\ \A s \in SUBSET Keys : IsFiniteSet(s) /\ s \in SUBSET Nat
  BY FrontBounds, FS_CardinalityType, FS_Subset

\* A page begins at the token, leaves no key out between its first and its last,
\* has at least one key if any is left, and no more items than asked for; the
\* next page begins after its last key (Index.List, Client.List).
LEMMA PageTaken ==
  ASSUME NEW after \in Int, NEW d \in BOOLEAN
  PROVE  LET from == Candidates(after)
             t    == Taken(after, d)
             last == LastTaken(t, d)
         IN  /\ t \subseteq from
             /\ \A k \in t, j \in from : j < k => j \in t
             /\ from # {} => t # {}
             /\ Cardinality({Item(k, d) : k \in t}) <= PageSize
             /\ t = {} => last = 0
             /\ t # {} => last \in t /\ \A k \in t : k <= last
<1> DEFINE from == Candidates(after)
           t    == Taken(after, d)
           last == LastTaken(t, d)
           Before(k) == {i \in from : i < k}
           Items(s) == {Item(j, d) : j \in s}
<1>0. PageSize \in Nat /\ 0 < PageSize /\ Cardinality({}) = 0
  BY FS_EmptySet, FrontBounds
<1>1. from \subseteq Keys /\ t \subseteq from
  BY DEF Candidates, Present, Taken
<1>2. ASSUME NEW s \in SUBSET Keys
      PROVE  IsFiniteSet(Items(s)) /\ Cardinality(Items(s)) \in Nat
  <2>1. IsFiniteSet(s)
    BY KeysNumbered
  <2>2. IsFiniteSet({Item(j, d) : j \in s})
    <3> DEFINE f == [j \in s |-> Item(j, d)]
    <3>1. f \in Surjection(s, {Item(j, d) : j \in s})
      BY DEF Surjection
    <3> QED
      BY <2>1, <3>1, FS_Surjection
  <2> QED
    BY <2>2, FS_CardinalityType
<1>3. \A k : k \in t <=> k \in from /\ Cardinality(Items(Before(k))) < PageSize
  BY DEF Taken
<1>4. ASSUME NEW k \in t, NEW j \in from, j < k PROVE j \in t
  <2>1. Before(j) \subseteq Before(k) /\ Before(k) \in SUBSET Keys /\ Before(j) \in SUBSET Keys
    BY <1>1, <1>4, KeysNumbered
  <2>2. Items(Before(j)) \subseteq Items(Before(k))
    BY <2>1
  <2>3. Cardinality(Items(Before(j))) <= Cardinality(Items(Before(k)))
    <3>1. IsFiniteSet(Items(Before(k)))
      BY <1>2, <2>1
    <3> HIDE DEF Items, Before
    <3> QED
      BY <2>2, <3>1, FS_Subset
  <2>4. Cardinality(Items(Before(j))) \in Nat /\ Cardinality(Items(Before(k))) \in Nat
    BY <1>2, <2>1
  <2>5. Cardinality(Items(Before(k))) < PageSize
    BY <1>3
  <2> HIDE DEF Items, Before, from, t
  <2> QED
    BY <1>3, <2>3, <2>4, <2>5, FrontBounds
<1>5. ASSUME from # {} PROVE t # {}
  <2>1. from \in SUBSET Nat
    BY <1>1, KeysNumbered
  <2>2. PICK x \in from : \A y \in from : x <= y
    <3> HIDE DEF from
    <3> QED
      BY <1>5, <2>1, Least
  <2>3. Before(x) = {}
    BY <2>1, <2>2
  <2>4. Items(Before(x)) = {}
    BY <2>3
  <2>5. Cardinality(Items(Before(x))) < PageSize
    <3> HIDE DEF Items
    <3> QED
      BY <1>0, <2>4
  <2> QED
    BY <1>3, <2>5
<1>6. t = {} => last = 0
  <2>1. \A x \in {0} : \A y \in {0} : x >= y
    OBVIOUS
  <2> QED
    BY <2>1 DEF LastTaken, Max
<1>7. ASSUME t # {} PROVE last \in t /\ \A k \in t : k <= last
  <2>1. t \in SUBSET Nat /\ \A y \in t : y <= Cardinality(Keys) /\ 1 <= y
    BY <1>1, KeysNumbered
  <2>2. PICK x \in t : \A y \in t : y <= x
    <3> HIDE DEF t
    <3> QED
      BY <1>7, <2>1, KeysNumbered, Greatest
  <2>3. x \in {0} \cup t /\ \A y \in {0} \cup t : x >= y
    BY <2>1, <2>2
  <2>4. last \in {0} \cup t /\ \A y \in {0} \cup t : last >= y
    BY <2>3 DEF LastTaken, Max
  <2> QED
    BY <2>1, <2>2, <2>4
<1>8. Cardinality(Items(t)) <= PageSize
  <2>1. CASE t = {}
    <3>1. Items(t) = {}
      BY <2>1
    <3> HIDE DEF Items
    <3> QED
      BY <1>0, <3>1
  <2>2. CASE t # {}
    <3>1. last \in t /\ \A k \in t : k <= last
      BY <1>7, <2>2
    <3>2. t \in SUBSET Nat /\ Before(last) \in SUBSET Keys
      BY <1>1, KeysNumbered
    <3>3. Items(t) \subseteq Items(Before(last)) \cup {Item(last, d)}
      <4> SUFFICES ASSUME NEW k \in t PROVE Item(k, d) \in Items(Before(last)) \cup {Item(last, d)}
        OBVIOUS
      <4>1. k = last \/ k \in Before(last)
        BY <1>1, <3>1, <3>2
      <4> QED
        BY <4>1
    <3>4. IsFiniteSet(Items(Before(last))) /\ Cardinality(Items(Before(last))) \in Nat
      BY <1>2, <3>2
    <3>5. Cardinality(Items(Before(last))) < PageSize
      BY <1>3, <3>1
    <3> DEFINE I == Items(Before(last))
               J == Items(t)
               l == Item(last, d)
    <3> HIDE DEF I, J, l, Items, Before, t, last
    <3>6. IsFiniteSet(I \cup {l}) /\ Cardinality(I \cup {l}) <= Cardinality(I) + 1
          /\ Cardinality(I \cup {l}) \in Nat
      <4>1. IsFiniteSet(I) /\ Cardinality(I) \in Nat
        BY <3>4 DEF I
      <4>2. /\ IsFiniteSet(I \cup {l})
            /\ Cardinality(I \cup {l}) = IF l \in I THEN Cardinality(I) ELSE Cardinality(I) + 1
        BY <4>1, FS_AddElement, Zenon
      <4> QED
        BY <4>1, <4>2
    <3>7. Cardinality(J) <= Cardinality(I \cup {l}) /\ Cardinality(J) \in Nat
      BY <3>3, <3>6, FS_Subset, FS_CardinalityType DEF I, J, l
    <3> QED
      BY <3>4, <3>5, <3>6, <3>7, FrontBounds DEF I, J, l
  <2> QED
    BY <2>1, <2>2
<1> QED
  BY <1>1, <1>4, <1>5, <1>6, <1>7, <1>8

\* The object table.
ObjectsTyped == object \in [Keys -> Versions \cup {None}]

\* The fields of a listing (Client.List).
ListShape(r) ==
  r = [op |-> "list", pc |-> r.pc, delimited |-> r.delimited, after |-> r.after,
       listed |-> r.listed, repeated |-> r.repeated, split |-> r.split,
       disorder |-> r.disorder, steady |-> r.steady]

\* A listing under way has listed what is up to its token and nothing else; what
\* its token ends in is a key, or a group that a later page may repeat.
ListInv ==
  request.op = "list" =>
    LET r == request
        It(k) == Item(k, r.delimited)
    IN  /\ ListShape(r)
        /\ r.pc \in {"asking", "done", "refused"} /\ r.delimited \in BOOLEAN
        /\ r.disorder = FALSE /\ r.repeated \subseteq r.split
        /\ r.steady \subseteq Present \cap Matching
        /\ r.pc = "asking" =>
             /\ r.after \in 0..Cardinality(Keys)
             /\ \A k \in r.steady : k <= r.after => It(k) \in r.listed
             /\ \A x \in r.listed : \E k \in Keys : k <= r.after /\ x = It(k)
             /\ r.after # 0 => It(r.after) \in r.split \/ It(r.after) \in Keys
        /\ r.pc = "done" => \A k \in r.steady : It(k) \in r.listed

\* Two keys are listed as one only if they are of one group, and so are all the
\* keys between them (delimited listings).
LEMMA ItemsShared ==
  ASSUME NEW d \in BOOLEAN, NEW j \in Keys, NEW k \in Keys, j < k, Item(j, d) = Item(k, d)
  PROVE  /\ Item(k, d) \notin Keys
         /\ \A i \in Keys : j <= i /\ i <= k => Item(i, d) = Item(k, d)
<1>1. \A i \in Keys : Item(i, d) \in Keys => Item(i, d) = i
  BY GroupsApart DEF Item
<1>2. j # k
  BY KeysNumbered
<1>3. Item(k, d) \notin Keys
  BY <1>1, <1>2
<1>4. d /\ Group[k] # None /\ Item(k, d) = Group[k]
  BY <1>3 DEF Item
<1>5. Group[j] = Group[k]
  BY <1>3, <1>4 DEF Item
<1>6. ASSUME NEW i \in Keys, j <= i, i <= k PROVE Item(i, d) = Item(k, d)
  <2>1. i \in j..k
    BY <1>6, KeysNumbered
  <2>2. Group[i] = Group[j]
    BY <1>4, <1>5, <2>1, GroupsAreIntervals
  <2> QED
    BY <1>4, <1>5, <2>2 DEF Item
<1> QED
  BY <1>3, <1>6

\* The fields of a listing that a page sets.
Paged(r, p, a, l, rp, sp, o) ==
  [r EXCEPT !.pc = p, !.after = a, !.listed = l, !.repeated = rp, !.split = sp, !.disorder = o]

\* A page sets these fields and no other (Client.List).
LEMMA RequestUpdated ==
  ASSUME NEW r, ListShape(r), NEW p, NEW a, NEW l, NEW rp, NEW sp, NEW o
  PROVE  LET x == Paged(r, p, a, l, rp, sp, o)
         IN  /\ ListShape(x) /\ x.pc = p /\ x.after = a /\ x.listed = l /\ x.repeated = rp
             /\ x.split = sp /\ x.disorder = o
             /\ x.op = "list" /\ x.delimited = r.delimited /\ x.steady = r.steady
<1> DEFINE F == {"op", "pc", "delimited", "after", "listed", "repeated", "split", "disorder",
                 "steady"}
           x == Paged(r, p, a, l, rp, sp, o)
           y == [op |-> "list", pc |-> p, delimited |-> r.delimited, after |-> a, listed |-> l,
                 repeated |-> rp, split |-> sp, disorder |-> o, steady |-> r.steady]
<1>1. DOMAIN r = F /\ r = [f \in F |-> r[f]] /\ r.op = "list"
  BY DEF ListShape
<1>2. x = [f \in F |-> x[f]] /\ y = [f \in F |-> y[f]]
  BY <1>1 DEF Paged
<1>3. /\ x.op = "list" /\ x.pc = p /\ x.delimited = r.delimited /\ x.after = a /\ x.listed = l
      /\ x.repeated = rp /\ x.split = sp /\ x.disorder = o /\ x.steady = r.steady
  BY <1>1 DEF Paged
<1>4. /\ y.op = "list" /\ y.pc = p /\ y.delimited = r.delimited /\ y.after = a /\ y.listed = l
      /\ y.repeated = rp /\ y.split = sp /\ y.disorder = o /\ y.steady = r.steady
  OBVIOUS
<1> HIDE DEF x, y
<1>5. \A f \in F : x[f] = y[f]
  BY <1>3, <1>4
<1> HIDE DEF F
<1>6. [f \in F |-> x[f]] = [f \in F |-> y[f]]
  BY <1>5
<1>7. x = y
  BY <1>2, <1>6
<1>8. ListShape(x)
  BY <1>3, <1>7 DEF y, ListShape
<1> QED
  BY <1>3, <1>8 DEF x

\* A page adds what is between its token and the next.
LEMMA PageStep ==
  ASSUME ListInv, ObjectsTyped, ListPage
  PROVE  ListInv'
<1> DEFINE r == request
           d == r.delimited
           a == r.after
           from == Candidates(a)
           t == Taken(a, d)
           items == {Item(k, d) : k \in t}
           full == t # from
           last == LastTaken(t, d)
           split2 == IF full THEN r.split \cup ({Item(k, d) : k \in t \cap {last}} \ Keys)
                     ELSE r.split
           slip == \E k \in t : k < a \/ Cardinality(items) > PageSize
<1>1. /\ ListShape(r)
      /\ r.pc = "asking" /\ d \in BOOLEAN /\ r.disorder = FALSE /\ r.repeated \subseteq r.split
      /\ r.steady \subseteq Present \cap Matching
      /\ a \in 0..Cardinality(Keys)
      /\ \A k \in r.steady : k <= a => Item(k, d) \in r.listed
      /\ \A x \in r.listed : \E k \in Keys : k <= a /\ x = Item(k, d)
      /\ a # 0 => Item(a, d) \in r.split \/ Item(a, d) \in Keys
  BY DEF ListInv, ListPage
<1>2. /\ object' = object
      /\ request' = [request EXCEPT
           !.pc       = IF full /\ last # 0 THEN "asking" ELSE "done",
           !.after    = last,
           !.listed   = @ \cup items,
           !.repeated = @ \cup (items \cap request.listed),
           !.split    = IF full THEN @ \cup ({Item(k, d) : k \in t \cap {last}} \ Keys)
                        ELSE @,
           !.disorder = @ \/ slip]
  BY DEF ListPage
<1>3. /\ t \subseteq from
      /\ \A k \in t, j \in from : j < k => j \in t
      /\ from # {} => t # {}
      /\ Cardinality(items) <= PageSize
      /\ t = {} => last = 0
      /\ t # {} => last \in t /\ \A k \in t : k <= last
  <2>1. a \in Int /\ d \in BOOLEAN
    BY <1>1
  <2> HIDE DEF a, d
  <2> QED
    BY <2>1, PageTaken
<1>4. /\ \A k : k \in from <=> k \in Present /\ k \in Matching /\ k > a
      /\ from \subseteq Keys
  BY DEF Candidates, Present
<1>5. Cardinality(items) \in Nat
  <2>1. t \subseteq Keys
    BY <1>3, <1>4
  <2>2. IsFiniteSet(t)
    BY <2>1, KeysNumbered
  <2> DEFINE f == [j \in t |-> Item(j, d)]
  <2>3. f \in Surjection(t, items)
    BY DEF Surjection
  <2> QED
    BY <2>2, <2>3, FS_Surjection, FS_CardinalityType
<1> HIDE DEF from, t, items, last
<1>6. ~slip
  <2>1. \A k \in t : ~(k < a)
    BY <1>1, <1>3, <1>4, KeysNumbered
  <2>2. ~(Cardinality(items) > PageSize)
    BY <1>3, <1>5, FrontBounds
  <2> QED
    BY <2>1, <2>2
<1>7. /\ ListShape(request')
      /\ request'.op = "list" /\ request'.delimited = d /\ request'.steady = r.steady
      /\ request'.pc = IF full /\ last # 0 THEN "asking" ELSE "done"
      /\ request'.after = last /\ request'.listed = r.listed \cup items
      /\ request'.repeated = r.repeated \cup (items \cap r.listed)
      /\ request'.split = split2 /\ request'.disorder = FALSE
  <2> DEFINE pc2 == IF full /\ last # 0 THEN "asking" ELSE "done"
             listed2 == r.listed \cup items
             repeated2 == r.repeated \cup (items \cap r.listed)
             disorder2 == r.disorder \/ slip
  <2>1. request' = [r EXCEPT !.pc = pc2, !.after = last, !.listed = listed2,
                             !.repeated = repeated2, !.split = split2, !.disorder = disorder2]
    BY <1>2
  <2>2. disorder2 = FALSE
    <3> HIDE DEF slip
    <3> QED
      BY <1>1, <1>6
  <2>3. ListShape(r)
    BY <1>1
  <2> HIDE DEF pc2, listed2, repeated2, split2, disorder2
  <2>4. /\ ListShape(request')
        /\ request'.op = "list" /\ request'.delimited = d /\ request'.steady = r.steady
        /\ request'.pc = pc2 /\ request'.after = last /\ request'.listed = listed2
        /\ request'.repeated = repeated2 /\ request'.split = split2
        /\ request'.disorder = disorder2
    <3> DEFINE x == Paged(r, pc2, last, listed2, repeated2, split2, disorder2)
    <3>1. /\ ListShape(x) /\ x.pc = pc2 /\ x.after = last /\ x.listed = listed2
          /\ x.repeated = repeated2 /\ x.split = split2 /\ x.disorder = disorder2
          /\ x.op = "list" /\ x.delimited = d /\ x.steady = r.steady
      <4> HIDE DEF x, r
      <4> QED
        BY <2>3, RequestUpdated DEF x
    <3>2. request' = x
      BY <2>1 DEF Paged
    <3> HIDE DEF x
    <3> QED
      BY <3>1, <3>2
  <2> QED
    BY <2>2, <2>4 DEF pc2, listed2, repeated2
<1>8. items \cap r.listed \subseteq r.split
  <2> SUFFICES ASSUME NEW x \in items, x \in r.listed PROVE x \in r.split
    OBVIOUS
  <2>1. PICK k \in t : x = Item(k, d)
    BY DEF items
  <2>2. PICK j \in Keys : j <= a /\ x = Item(j, d)
    BY <1>1
  <2>3. k \in Keys /\ a < k /\ j < k /\ j \in Nat /\ k \in Nat /\ a \in Keys /\ a # 0
    <3>1. k \in Keys /\ a < k
      BY <1>3, <1>4, <2>1
    <3>2. a \in 0..Cardinality(Keys)
      BY <1>1
    <3> HIDE DEF a
    <3>3. a \in Nat /\ a <= Cardinality(Keys) /\ Cardinality(Keys) \in Nat
      BY <3>2, KeysNumbered
    <3>4. j \in Nat /\ 1 <= j /\ k \in Nat
      BY <3>1, KeysNumbered
    <3>5. j < k /\ a # 0 /\ a \in 1..Cardinality(Keys)
      BY <2>2, <3>1, <3>3, <3>4
    <3>6. a \in Keys
      BY <3>5, KeysNumbered
    <3> QED
      BY <3>1, <3>4, <3>5, <3>6
  <2>4. Item(k, d) \notin Keys /\ Item(a, d) = Item(k, d)
    <3>1. d \in BOOLEAN /\ Item(j, d) = Item(k, d) /\ j <= a /\ a <= k
      BY <1>1, <2>1, <2>2, <2>3, KeysNumbered
    <3> HIDE DEF d, a
    <3> QED
      BY <2>3, <3>1, ItemsShared
  <2> QED
    BY <1>1, <2>1, <2>3, <2>4
<1>9. r.repeated \cup (items \cap r.listed) \subseteq split2
  BY <1>1, <1>8
<1>10. \A k \in r.steady : k \in Keys /\ k \in Nat /\ (k > a => k \in from)
  BY <1>1, <1>4, KeysNumbered DEF Present
<1>11. \A k \in t : Item(k, d) \in items
  BY DEF items
<1>12. CASE full /\ last # 0
  <2>1. last \in t /\ last \in Keys /\ last \in 0..Cardinality(Keys) /\ last > a
        /\ \A k \in t : k <= last
    BY <1>3, <1>4, <1>12, KeysNumbered
  <2>2. ASSUME NEW k \in r.steady, k <= last PROVE Item(k, d) \in r.listed \cup items
    <3>1. CASE k <= a
      BY <1>1, <3>1
    <3>2. CASE k > a
      <4>1. k \in from /\ (k = last \/ k < last)
        BY <1>10, <2>1, <2>2, <3>2
      <4>2. k \in t
        BY <1>3, <2>1, <4>1
      <4> QED
        BY <1>11, <4>2
    <3> QED
      BY <1>1, <1>10, <3>1, <3>2
  <2>3. ASSUME NEW x \in r.listed \cup items PROVE \E k \in Keys : k <= last /\ x = Item(k, d)
    <3>1. CASE x \in r.listed
      <4>1. PICK k \in Keys : k <= a /\ x = Item(k, d)
        BY <1>1, <3>1
      <4>2. k <= last
        BY <1>1, <2>1, <4>1, KeysNumbered
      <4> QED
        BY <4>1, <4>2
    <3>2. CASE x \in items
      <4>1. PICK k \in t : x = Item(k, d)
        BY <3>2 DEF items
      <4> QED
        BY <1>3, <1>4, <2>1, <4>1
    <3> QED
      BY <2>3, <3>1, <3>2
  <2>4. Item(last, d) \in split2 \/ Item(last, d) \in Keys
    BY <1>12, <2>1
  <2>5. Present' = Present
    BY <1>2 DEF Present
  <2> HIDE DEF split2, full
  <2> QED
    BY <1>1, <1>7, <1>9, <1>12, <2>1, <2>2, <2>3, <2>4, <2>5 DEF ListInv
<1>13. CASE ~(full /\ last # 0)
  <2>1. t = from
    <3>1. CASE t = {}
      BY <1>3, <3>1
    <3>2. CASE t # {}
      BY <1>3, <1>4, <1>13, <3>2, KeysNumbered
    <3> QED
      BY <3>1, <3>2
  <2>2. ASSUME NEW k \in r.steady PROVE Item(k, d) \in r.listed \cup items
    <3>1. CASE k <= a
      BY <1>1, <3>1
    <3>2. CASE k > a
      BY <1>10, <1>11, <2>1, <3>2
    <3> QED
      BY <1>1, <1>10, <3>1, <3>2
  <2>3. Present' = Present
    BY <1>2 DEF Present
  <2> HIDE DEF split2, full
  <2> QED
    BY <1>1, <1>7, <1>9, <1>13, <2>2, <2>3 DEF ListInv
<1> QED
  BY <1>12, <1>13

\* Another client's write leaves a listing what it has; a key that goes, or is
\* replaced, has not been there all the time (PutObject, DeleteObject).
LEMMA WriteUnderList ==
  ASSUME ListInv, request.op = "list", NEW k,
         \/ request' = request /\ Present \subseteq Present'
         \/ request' = [request EXCEPT !.steady = @ \ {k}] /\ Present \ {k} \subseteq Present'
  PROVE  ListInv'
<1>1. CASE request' = request /\ Present \subseteq Present'
  BY <1>1 DEF ListInv
<1>2. CASE request' = [request EXCEPT !.steady = @ \ {k}] /\ Present \ {k} \subseteq Present'
  <2>1. ListShape(request)
    BY DEF ListInv
  <2>2. /\ ListShape(request') /\ request'.op = "list"
        /\ request'.pc = request.pc /\ request'.after = request.after
        /\ request'.listed = request.listed /\ request'.repeated = request.repeated
        /\ request'.split = request.split /\ request'.disorder = request.disorder
        /\ request'.delimited = request.delimited /\ request'.steady = request.steady \ {k}
    BY <1>2, <2>1 DEF ListShape
  <2> QED
    BY <1>2, <2>2 DEF ListInv
<1> QED
  BY <1>1, <1>2

\* The invariant of a listing is inductive.
LEMMA ListStep ==
  ASSUME ListInv, ObjectsTyped, [FrontNext]_vars
  PROVE  ListInv' /\ ObjectsTyped'
<1>1. ASSUME NEW k \in Keys, DeleteObject(k) PROVE ListInv' /\ ObjectsTyped'
  <2>1. object' = [object EXCEPT ![k] = None] /\ request' = Touched(k)
    BY <1>1 DEF DeleteObject
  <2>2. ObjectsTyped' /\ Present' = Present \ {k}
    BY <2>1 DEF ObjectsTyped, Present
  <2>3. CASE request.op = "list"
    <3>1. request' = [request EXCEPT !.steady = @ \ {k}]
      BY <2>1, <2>3 DEF Touched
    <3> QED
      BY <2>2, <2>3, <3>1, WriteUnderList
  <2>4. CASE request.op # "list"
    <3>1. request'.op # "list"
      BY <2>1, <2>4 DEF Touched
    <3> QED
      BY <2>2, <3>1 DEF ListInv
  <2> QED
    BY <2>3, <2>4
<1>2. ASSUME NEW k \in Keys, NEW v \in Versions, PutObject(k, v) PROVE ListInv' /\ ObjectsTyped'
  <2>1. /\ object' = [object EXCEPT ![k] = v] /\ v # None
        /\ request' = IF object[k] = None /\ request.op = "list" THEN request ELSE Touched(k)
    BY <1>2, FrontBounds DEF PutObject
  <2>2. ObjectsTyped' /\ Present' = Present \cup {k}
    BY <2>1 DEF ObjectsTyped, Present
  <2>3. CASE request.op = "list"
    <3>1. request' = request \/ request' = [request EXCEPT !.steady = @ \ {k}]
      BY <2>1, <2>3 DEF Touched
    <3> QED
      BY <2>2, <2>3, <3>1, WriteUnderList
  <2>4. CASE request.op # "list"
    <3>1. request'.op # "list"
      BY <2>1, <2>4 DEF Touched
    <3> QED
      BY <2>2, <3>1 DEF ListInv
  <2> QED
    BY <2>3, <2>4
<1>3. ASSUME NEW d \in BOOLEAN, BeginList(d) PROVE ListInv' /\ ObjectsTyped'
  <2>1. /\ object' = object
        /\ request' = [op |-> "list", pc |-> "asking", delimited |-> d, after |-> 0,
                       listed |-> {}, repeated |-> {}, split |-> {}, disorder |-> FALSE,
                       steady |-> Present \cap Matching]
    BY <1>3 DEF BeginList
  <2>2. Present' = Present /\ \A k \in Present : 1 <= k /\ k \in Nat
    BY <2>1, KeysNumbered DEF Present
  <2>3. ListShape(request')
    BY <2>1 DEF ListShape
  <2>4. Cardinality(Keys) \in Nat
    BY KeysNumbered
  <2> QED
    BY <2>1, <2>2, <2>3, <2>4 DEF ListInv, ObjectsTyped
<1>4. CASE ListPage
  BY <1>4, PageStep DEF ListPage, ObjectsTyped
<1>5. CASE Refuse
  <2>1. object' = object /\ request' = [request EXCEPT !.pc = "refused"]
    BY <1>5 DEF Refuse
  <2>2. Present' = Present /\ ObjectsTyped'
    BY <2>1 DEF Present, ObjectsTyped
  <2>3. CASE request.op = "list"
    <3>1. ListShape(request)
      BY <2>3 DEF ListInv
    <3>2. /\ ListShape(request') /\ request'.pc = "refused"
          /\ request'.repeated = request.repeated /\ request'.split = request.split
          /\ request'.disorder = request.disorder /\ request'.steady = request.steady
          /\ request'.delimited = request.delimited
      BY <2>1, <3>1 DEF ListShape
    <3> QED
      BY <2>2, <2>3, <3>2 DEF ListInv
  <2>4. CASE request.op # "list"
    <3>1. request'.op # "list"
      BY <2>1, <2>4
    <3> QED
      BY <2>2, <3>1 DEF ListInv
  <2> QED
    BY <2>3, <2>4
<1>6. CASE HeadObject
  <2>1. object' = object /\ request'.op # "list"
    BY <1>6 DEF HeadObject
  <2> QED
    BY <2>1 DEF ListInv, ObjectsTyped
<1>7. CASE Leave
  BY <1>7 DEF Leave, NoRequest, ListInv, ObjectsTyped
<1>8. ASSUME NEW k \in Keys, NEW anonymous \in BOOLEAN, NEW body \in BOOLEAN,
             BeginGet(k, anonymous, body)
      PROVE  ListInv' /\ ObjectsTyped'
  BY <1>8 DEF BeginGet, ListInv, ObjectsTyped
<1>9. ASSUME NEW h \in Ranges, GetObject(h) PROVE ListInv' /\ ObjectsTyped'
  <2>1. object' = object /\ request'.op # "list"
    BY <1>9 DEF GetObject
  <2> QED
    BY <2>1 DEF ListInv, ObjectsTyped
<1>10. CASE UNCHANGED <<object, request>>
  BY <1>10 DEF ListInv, ObjectsTyped, Present
<1> QED
  BY <1>1, <1>2, <1>3, <1>4, <1>5, <1>6, <1>7, <1>8, <1>9, <1>10 DEF FrontNext, vars, frontVars

\* What FrontInit sets.
LEMMA FrontStarts ==
  ASSUME FrontInit
  PROVE  ObjectsTyped /\ request = NoRequest
<1>1. PICK b \in Nat : \A y \in Versions : y <= b
  BY FrontBounds, Bounded
<1>2. PICK x \in Versions : \A y \in Versions : y <= x
  BY <1>1, FrontBounds, Greatest
<1>3. x \in Versions /\ \A y \in Versions : x >= y
  BY <1>2, FrontBounds
<1>4. Max(Versions) \in Versions
  BY <1>3 DEF Max
<1> QED
  BY <1>4 DEF FrontInit, ObjectsTyped

\* A listing lists nothing twice but for a group that a full page ended in, and
\* no more on a page than asked for (Index.List, ListObjectsV2).
THEOREM ListsOnce == FrontSpec => []ListedOnce
<1>1. FrontInit => ListInv /\ ObjectsTyped
  BY FrontStarts DEF ListInv, NoRequest
<1>2. ListInv /\ ObjectsTyped /\ [FrontNext]_vars => ListInv' /\ ObjectsTyped'
  BY ListStep
<1>3. ListInv => ListedOnce
  BY DEF ListInv, ListedOnce
<1> QED
  BY <1>1, <1>2, <1>3, PTL DEF FrontSpec

\* A listing that reaches its end has every key that was there from its first
\* page to its last, whatever other clients did (Client.List).
THEOREM ListsAll == FrontSpec => []NothingMissed
<1>1. FrontInit => ListInv /\ ObjectsTyped
  BY FrontStarts DEF ListInv, NoRequest
<1>2. ListInv /\ ObjectsTyped /\ [FrontNext]_vars => ListInv' /\ ObjectsTyped'
  BY ListStep
<1>3. ListInv => NothingMissed
  BY DEF ListInv, NothingMissed
<1> QED
  BY <1>1, <1>2, <1>3, PTL DEF FrontSpec

-----------------------------------------------------------------------------
(***************************************************************************)
(* Replies.                                                                *)
(***************************************************************************)
\* The largest content there is.
LEMMA LargestVersion == Max(Versions) \in Versions /\ Max(Versions) \in Nat
<1>1. PICK b \in Nat : \A y \in Versions : y <= b
  BY FrontBounds, Bounded
<1>2. PICK x \in Versions : \A y \in Versions : y <= x
  BY <1>1, FrontBounds, Greatest
<1>3. x \in Versions /\ \A y \in Versions : x >= y
  BY <1>2, FrontBounds
<1> QED
  BY <1>3, FrontBounds DEF Max

\* The four forms of a Range header.
LEMMA RangeForms ==
  ASSUME NEW h \in Ranges
  PROVE  \/ h.kind = "none"
         \/ h.kind = "from" /\ h.first \in Nat
         \/ h.kind = "span" /\ h.first \in Nat /\ h.last \in Nat
         \/ h.kind = "suffix" /\ h.n \in Nat
<1>1. Edges \subseteq Nat
  BY LargestVersion DEF Edges
<1> QED
  BY <1>1 DEF Ranges

\* The bytes a slice promises.
Promised(range) ==
  IF range.length <= 0 THEN {} ELSE range.offset .. range.offset + range.length - 1

\* What a header is parsed to lies in the object, promises what was asked, and
\* is partial only of something, but for the last bytes of nothing (parseRange).
LEMMA RangeExact ==
  ASSUME NEW h \in Ranges, NEW size \in Nat
  PROVE  LET range == ParseRange(h, size)
         IN  /\ range.offset \in Nat /\ range.length \in Int
             /\ range.length > 0 => range.offset + range.length <= size
             /\ Promised(range) = BytesAsked(h, size)
             /\ range.partial /\ ~(size = 0 /\ h.kind = "suffix") => Promised(range) # {}
<1> DEFINE range == ParseRange(h, size)
<1> SUFFICES /\ range.offset \in Nat /\ range.length \in Int
             /\ range.length > 0 => range.offset + range.length <= size
             /\ Promised(range) = BytesAsked(h, size)
             /\ range.partial /\ ~(size = 0 /\ h.kind = "suffix") => Promised(range) # {}
  OBVIOUS
<1>1. ASSUME h.kind = "none"
      PROVE  range.offset = 0 /\ range.length = size /\ range.partial = FALSE
             /\ BytesAsked(h, size) = 0 .. size - 1
  BY <1>1 DEF ParseRange, BytesAsked
<1>2. ASSUME NEW a \in Nat, NEW b \in Int, a <= b, b < size, range = Slice(a, b),
             BytesAsked(h, size) = a .. b
      PROVE  /\ range.offset \in Nat /\ range.length \in Int
             /\ range.length > 0 => range.offset + range.length <= size
             /\ Promised(range) = BytesAsked(h, size)
             /\ range.partial => Promised(range) # {}
  <2>1. range.offset = a /\ range.length = b - a + 1
    BY <1>2 DEF Slice
  <2>2. range.length > 0 /\ a + (b - a + 1) - 1 = b /\ a \in a .. b
    BY <1>2, <2>1
  <2> HIDE DEF range
  <2>3. Promised(range) = a .. b
    BY <2>1, <2>2 DEF Promised
  <2>4. a + (b - a + 1) <= size /\ b - a + 1 \in Int
    BY <1>2
  <2>5. a .. b # {}
    BY <2>2
  <2> QED
    BY <1>2, <2>1, <2>3, <2>4, <2>5
<1>3. ASSUME range = Unsatisfiable, BytesAsked(h, size) = {}
      PROVE  /\ range.offset \in Nat /\ range.length \in Int
             /\ range.length > 0 => range.offset + range.length <= size
             /\ Promised(range) = BytesAsked(h, size)
             /\ range.partial => Promised(range) # {}
  BY <1>3 DEF Unsatisfiable, Promised
<1>4. CASE h.kind = "none"
  <2>1. range.offset = 0 /\ range.length = size /\ range.partial = FALSE
        /\ BytesAsked(h, size) = 0 .. size - 1
    BY <1>1, <1>4
  <2> HIDE DEF range
  <2>2. Promised(range) = BytesAsked(h, size)
    BY <2>1 DEF Promised
  <2> QED
    BY <2>1, <2>2
<1>5. CASE h.kind = "from" /\ h.first \in Nat
  <2>1. BytesAsked(h, size) = h.first .. size - 1
    BY <1>5 DEF BytesAsked
  <2>2. CASE h.first >= size
    <3>1. range = Unsatisfiable
      BY <1>5, <2>2 DEF ParseRange
    <3>2. h.first .. size - 1 = {}
      BY <1>5, <2>2
    <3> HIDE DEF range
    <3> QED
      BY <1>3, <2>1, <3>1, <3>2
  <2>3. CASE h.first < size
    <3>1. range = Slice(h.first, size - 1)
      BY <1>5, <2>3 DEF ParseRange
    <3>2. h.first <= size - 1 /\ size - 1 < size /\ size - 1 \in Int
      BY <1>5, <2>3
    <3> HIDE DEF range
    <3> QED
      BY <1>2, <1>5, <2>1, <3>1, <3>2
  <2> QED
    BY <1>5, <2>2, <2>3
<1>6. CASE h.kind = "span" /\ h.first \in Nat /\ h.last \in Nat
  <2>1. BytesAsked(h, size) = (0 .. size - 1) \cap (h.first .. h.last)
    BY <1>6 DEF BytesAsked
  <2>2. CASE h.first >= size \/ h.last < h.first
    <3>1. range = Unsatisfiable
      BY <1>6, <2>2 DEF ParseRange
    <3>2. (0 .. size - 1) \cap (h.first .. h.last) = {}
      BY <1>6, <2>2
    <3> HIDE DEF range
    <3> QED
      BY <1>3, <2>1, <3>1, <3>2
  <2>3. CASE ~(h.first >= size \/ h.last < h.first)
    <3> DEFINE b == Smaller(h.last, size - 1)
    <3>1. range = Slice(h.first, b)
      BY <1>6, <2>3 DEF ParseRange
    <3>2. b \in Int /\ h.first <= b /\ b < size
          /\ (0 .. size - 1) \cap (h.first .. h.last) = h.first .. b
      BY <1>6, <2>3 DEF Smaller
    <3> HIDE DEF range, b
    <3> QED
      BY <1>2, <1>6, <2>1, <3>1, <3>2
  <2> QED
    BY <2>2, <2>3
<1>7. CASE h.kind = "suffix" /\ h.n \in Nat
  <2>1. BytesAsked(h, size) = {i \in 0 .. size - 1 : i >= size - h.n}
    BY <1>7 DEF BytesAsked
  <2>2. CASE h.n = 0
    <3>1. range = Unsatisfiable
      BY <1>7, <2>2 DEF ParseRange
    <3>2. {i \in 0 .. size - 1 : i >= size - h.n} = {}
      BY <2>2
    <3> HIDE DEF range
    <3> QED
      BY <1>3, <2>1, <3>1, <3>2
  <2>3. CASE h.n # 0
    <3> DEFINE a == size - Smaller(h.n, size)
    <3>1. range = Slice(a, size - 1)
      BY <1>7, <2>3 DEF ParseRange
    <3>2. a \in Nat /\ size - 1 \in Int /\ size - 1 < size /\ (size # 0 => a <= size - 1)
          /\ (size = 0 => a = 0)
          /\ {i \in 0 .. size - 1 : i >= size - h.n} = a .. size - 1
      BY <1>7, <2>3 DEF Smaller
    <3> HIDE DEF a
    <3>3. CASE size # 0
      <4> HIDE DEF range
      <4> QED
        BY <1>2, <2>1, <3>1, <3>2, <3>3
    <3>4. CASE size = 0
      <4>1. range.offset = 0 /\ range.length = 0
        <5>0. a = 0
          BY <3>2, <3>4
        <5>1. (size - 1) - a + 1 = 0
          BY <3>4, <5>0
        <5>2. range.offset = a /\ range.length = (size - 1) - a + 1
          BY <3>1 DEF Slice
        <5> HIDE DEF range
        <5> QED
          BY <5>0, <5>1, <5>2
      <4>2. BytesAsked(h, size) = {}
        <5>0. size - 1 = -1
          BY <3>4
        <5> DEFINE top == size - 1
        <5>1. 0 .. top = {}
          BY <5>0
        <5> QED
          BY <2>1, <5>1
      <4> HIDE DEF range
      <4>3. Promised(range) = {}
        BY <4>1 DEF Promised
      <4> QED
        BY <1>7, <3>4, <4>1, <4>2, <4>3
    <3> QED
      BY <3>3, <3>4
  <2> QED
    BY <2>2, <2>3
<1> QED
  BY <1>4, <1>5, <1>6, <1>7, RangeForms

\* The fields of a GET (Server.getObject).
GetShape(r) ==
  r = [op |-> "get", pc |-> r.pc, key |-> r.key, body |-> r.body, calm |-> r.calm,
       size |-> r.size, reply |-> r.reply]

\* What a reply to a GET is made from.
Answered(reply, size) ==
  /\ size \in Versions /\ reply.asked \in Ranges /\ reply.version \in Versions
  /\ reply.range = ParseRange(reply.asked, size)
  /\ reply.sent =
       LET range == reply.range
           rest  == Smaller(range.length, reply.version - range.offset)
       IN  IF range.length <= 0 \/ rest <= 0 THEN {}
           ELSE range.offset .. range.offset + rest - 1

\* A GET that has its headers knows the size of what they are of, which is still
\* there if nothing was written under it; its reply was made from that size.
GetInv ==
  request.op = "get" =>
    LET r == request
    IN  /\ GetShape(r)
        /\ r.key \in Keys /\ r.body \in BOOLEAN /\ r.calm \in BOOLEAN
        /\ r.pc = "headed" => r.size \in Versions /\ (r.calm => object[r.key] = r.size)
        /\ r.pc = "done" /\ r.body => Answered(r.reply, r.size) /\ (r.calm => r.reply.version = r.size)

\* The last bytes of an empty object: the one reply that is partial of nothing.
SuffixOfNothing ==
  /\ request.op = "get" /\ request.pc = "done" /\ request.body
  /\ request.size = 0 /\ request.reply.asked.kind = "suffix"

\* A reply made so is exact.
LEMMA ReplyExact ==
  ASSUME GetInv, ~SuffixOfNothing
  PROVE  ReplyMatches
<1> SUFFICES ASSUME request.op = "get", request.pc = "done", request.body
             PROVE  LET r == request.reply
                        asked == BytesAsked(r.asked, request.size)
                    IN  /\ Promised(r.range) = asked
                        /\ r.range.partial => Promised(r.range) # {}
                        /\ request.calm => r.version = request.size /\ r.sent = asked
  BY DEF ReplyMatches, Promised
<1> DEFINE h == request.reply.asked
           size == request.size
           range == request.reply.range
           rest == Smaller(range.length, request.reply.version - range.offset)
<1>1. /\ size \in Nat /\ h \in Ranges /\ range = ParseRange(h, size)
      /\ request.calm => request.reply.version = size
      /\ request.reply.sent = IF range.length <= 0 \/ rest <= 0 THEN {}
                              ELSE range.offset .. range.offset + rest - 1
  BY FrontBounds DEF GetInv, Answered
<1>2. ~(size = 0 /\ h.kind = "suffix")
  BY DEF SuffixOfNothing
<1>3. /\ range.offset \in Nat /\ range.length \in Int
      /\ range.length > 0 => range.offset + range.length <= size
      /\ Promised(range) = BytesAsked(h, size)
      /\ range.partial => Promised(range) # {}
  <2> HIDE DEF h, size, range
  <2> QED
    BY <1>1, <1>2, RangeExact
<1>4. ASSUME request.calm PROVE request.reply.sent = Promised(range)
  <2>1. request.reply.version = size
    BY <1>1, <1>4
  <2> HIDE DEF range, size
  <2>2. CASE range.length <= 0
    BY <1>1, <2>2 DEF Promised
  <2>3. CASE range.length > 0
    <3>1. rest = range.length
      BY <1>1, <1>3, <2>1, <2>3 DEF Smaller
    <3> QED
      BY <1>1, <1>3, <2>3, <3>1 DEF Promised
  <2> QED
    BY <1>3, <2>2, <2>3
<1> QED
  BY <1>1, <1>3, <1>4

\* The invariant of a GET is inductive.
LEMMA GetStep ==
  ASSUME GetInv, ListInv, ObjectsTyped, [FrontNext]_vars
  PROVE  GetInv'
<1>1. ASSUME NEW k \in Keys, NEW x, object' = [object EXCEPT ![k] = x],
             \/ request' = Touched(k)
             \/ request.op = "list" /\ request' = request
      PROVE  GetInv'
  <2>1. CASE request.op = "get" /\ request.key = k
    <3>1. request' = [request EXCEPT !.calm = FALSE] /\ GetShape(request)
      BY <1>1, <2>1 DEF Touched, GetInv
    <3>2. /\ GetShape(request') /\ request'.calm = FALSE /\ request'.op = "get"
          /\ request'.pc = request.pc /\ request'.key = request.key
          /\ request'.body = request.body /\ request'.size = request.size
          /\ request'.reply = request.reply
      <4> DEFINE no == FALSE
      <4>1. request' = [request EXCEPT !.calm = no] /\ GetShape(request)
        BY <3>1
      <4> HIDE DEF no
      <4>2. GetShape(request')
        BY <4>1 DEF GetShape
      <4>3. /\ request'.calm = no /\ request'.op = "get"
            /\ request'.pc = request.pc /\ request'.key = request.key
            /\ request'.body = request.body /\ request'.size = request.size
            /\ request'.reply = request.reply
        BY <4>1 DEF GetShape
      <4> QED
        BY <4>2, <4>3 DEF no
    <3> QED
      BY <2>1, <3>2 DEF GetInv
  <2>2. CASE request.op = "get" /\ request.key # k
    <3>1. request' = request /\ object'[request'.key] = object[request.key]
      BY <1>1, <2>2 DEF Touched, GetInv, ObjectsTyped
    <3> QED
      BY <2>2, <3>1 DEF GetInv
  <2>3. CASE request.op # "get"
    <3>1. request'.op # "get"
      <4>1. request.op = "list" => ListShape(request)
        BY DEF ListInv
      <4>2. CASE request.op = "list"
        BY <1>1, <4>1, <4>2 DEF Touched, ListShape
      <4>3. CASE request.op # "list"
        BY <1>1, <2>3, <4>3 DEF Touched
      <4> QED
        BY <4>2, <4>3
    <3> QED
      BY <3>1 DEF GetInv
  <2> QED
    BY <2>1, <2>2, <2>3
<1>2. ASSUME NEW k \in Keys, DeleteObject(k) PROVE GetInv'
  BY <1>1, <1>2 DEF DeleteObject
<1>3. ASSUME NEW k \in Keys, NEW v \in Versions, PutObject(k, v) PROVE GetInv'
  <2>1. \/ request' = Touched(k)
        \/ request.op = "list" /\ request' = request
    BY <1>3 DEF PutObject
  <2>2. object' = [object EXCEPT ![k] = v]
    BY <1>3 DEF PutObject
  <2> QED
    BY <1>1, <2>1, <2>2
<1>4. ASSUME NEW d \in BOOLEAN, BeginList(d) PROVE GetInv'
  BY <1>4 DEF BeginList, GetInv
<1>5. CASE ListPage
  <2>1. request'.op # "get"
    BY <1>5 DEF ListPage
  <2> QED
    BY <2>1 DEF GetInv
<1>6. CASE Refuse
  <2>1. object' = object /\ request' = [request EXCEPT !.pc = "refused"]
    BY <1>6 DEF Refuse
  <2>2. CASE request.op = "get"
    <3>1. /\ GetShape(request') /\ request'.pc = "refused" /\ request'.calm = request.calm
          /\ request'.key = request.key /\ request'.body = request.body
      BY <2>1, <2>2 DEF GetInv, GetShape
    <3> QED
      BY <2>2, <3>1 DEF GetInv
  <2>3. CASE request.op # "get"
    <3>1. request'.op # "get"
      BY <2>1, <2>3
    <3> QED
      BY <3>1 DEF GetInv
  <2> QED
    BY <2>2, <2>3
<1>7. CASE HeadObject
  <2>1. /\ object' = object /\ GetShape(request) /\ request.op = "get"
        /\ request.key \in Keys /\ request.body \in BOOLEAN /\ request.calm \in BOOLEAN
    BY <1>7 DEF HeadObject, GetInv
  <2>2. CASE object[request.key] = None
    <3>1. request' = [request EXCEPT !.pc = "refused"]
      BY <1>7, <2>2 DEF HeadObject
    <3>2. /\ GetShape(request') /\ request'.pc = "refused" /\ request'.calm = request.calm
          /\ request'.key = request.key /\ request'.body = request.body
      BY <2>1, <3>1 DEF GetShape
    <3> QED
      BY <2>1, <3>2 DEF GetInv
  <2>3. CASE object[request.key] # None
    <3> DEFINE pc2 == IF request.body THEN "headed" ELSE "done"
               size2 == object[request.key]
    <3>1. request' = [request EXCEPT !.pc = pc2, !.size = size2]
      BY <1>7, <2>3 DEF HeadObject
    <3>2. size2 \in Versions
      BY <2>1, <2>3 DEF ObjectsTyped
    <3> HIDE DEF pc2, size2
    <3>3. /\ GetShape(request') /\ request'.pc = pc2 /\ request'.calm = request.calm
          /\ request'.key = request.key /\ request'.body = request.body
          /\ request'.size = size2
      BY <2>1, <3>1 DEF GetShape
    <3>4. object'[request'.key] = size2
      BY <2>1, <3>3 DEF size2
    <3>5. ~(pc2 = "done" /\ request.body)
      BY DEF pc2
    <3> QED
      BY <2>1, <3>2, <3>3, <3>4, <3>5 DEF GetInv
  <2> QED
    BY <2>2, <2>3
<1>8. CASE Leave
  BY <1>8 DEF Leave, NoRequest, GetInv
<1>9. ASSUME NEW k \in Keys, NEW anonymous \in BOOLEAN, NEW body \in BOOLEAN,
             BeginGet(k, anonymous, body)
      PROVE  GetInv'
  BY <1>9 DEF BeginGet, GetInv, GetShape
<1>10. ASSUME NEW h \in Ranges, GetObject(h) PROVE GetInv'
  <2>1. /\ object' = object /\ GetShape(request) /\ request.op = "get"
        /\ request.key \in Keys /\ request.body \in BOOLEAN /\ request.calm \in BOOLEAN
        /\ request.size \in Versions /\ (request.calm => object[request.key] = request.size)
    BY <1>10 DEF GetObject, GetInv
  <2>2. CASE object[request.key] = None
    <3>1. request' = [request EXCEPT !.pc = "refused"]
      BY <1>10, <2>2 DEF GetObject
    <3>2. /\ GetShape(request') /\ request'.pc = "refused" /\ request'.calm = request.calm
          /\ request'.key = request.key /\ request'.body = request.body
      BY <2>1, <3>1 DEF GetShape
    <3> QED
      BY <2>1, <3>2 DEF GetInv
  <2>3. CASE object[request.key] # None
    <3> DEFINE answer == Reply(h)
    <3>1. request' = [request EXCEPT !.pc = "done", !.reply = answer]
      BY <1>10, <2>3 DEF GetObject
    <3>2. object[request.key] \in Versions
      BY <2>1, <2>3 DEF ObjectsTyped
    <3>3. /\ answer.asked = h /\ answer.version = object[request.key]
          /\ answer.range = ParseRange(h, request.size)
          /\ answer.sent =
               LET rest == Smaller(answer.range.length, answer.version - answer.range.offset)
               IN  IF answer.range.length <= 0 \/ rest <= 0 THEN {}
                   ELSE answer.range.offset .. answer.range.offset + rest - 1
      BY Zenon DEF Reply
    <3>5. Answered(answer, request.size)
      <4> HIDE DEF answer
      <4> QED
        BY <2>1, <3>2, <3>3 DEF Answered
    <3> HIDE DEF answer
    <3>4. /\ GetShape(request') /\ request'.pc = "done" /\ request'.calm = request.calm
          /\ request'.key = request.key /\ request'.body = request.body
          /\ request'.size = request.size /\ request'.reply = answer
      BY <2>1, <3>1 DEF GetShape
    <3> QED
      BY <2>1, <3>3, <3>4, <3>5 DEF GetInv
  <2> QED
    BY <2>2, <2>3
<1>11. CASE UNCHANGED <<object, request>>
  BY <1>11 DEF GetInv, GetShape
<1> QED
  BY <1>2, <1>3, <1>4, <1>5, <1>6, <1>7, <1>8, <1>9, <1>10, <1>11 DEF FrontNext, vars, frontVars

\* A reply promises the bytes its header asks for, and sends them if nothing was
\* written between the lookups; a partial one promises some, but for the last
\* bytes of an empty object (Server.getObject, parseRange).
THEOREM RepliesMatch == FrontSpec => [](~SuffixOfNothing => ReplyMatches)
<1>1. FrontInit => GetInv /\ ObjectsTyped
  BY FrontStarts DEF GetInv, NoRequest
<1>2. GetInv /\ ListInv /\ ObjectsTyped /\ [FrontNext]_vars => GetInv'
  BY GetStep
<1>3. FrontInit => ListInv /\ ObjectsTyped
  BY FrontStarts DEF ListInv, NoRequest
<1>4. ListInv /\ ObjectsTyped /\ [FrontNext]_vars => ListInv' /\ ObjectsTyped'
  BY ListStep
<1>5. GetInv => (~SuffixOfNothing => ReplyMatches)
  BY ReplyExact
<1> QED
  BY <1>1, <1>2, <1>3, <1>4, <1>5, PTL DEF FrontSpec

=============================================================================
