------------------------ MODULE TanaExtensionsProofs ------------------------
(***************************************************************************)
(* Theorems of the two modules that extend the store: TanaReplica, a       *)
(* secondary that follows a primary, for all keys, contents, page sizes,   *)
(* bounds, failures and hardships; and TanaMultipart, uploads in parts,    *)
(* for all clients, uploads, part numbers, contents and bounds.            *)
(***************************************************************************)
EXTENDS TanaReplica, TanaMultipart, TanaStoreProofs

-----------------------------------------------------------------------------
(***************************************************************************)
(* Types.                                                                  *)
(***************************************************************************)
PullerType ==
  [pc : {"idle"}, page : {<<>>}]
    \cup [pc : {"record", "fetch", "append", "apply"}, page : Seq(Numbered) \ {<<>>}]

\* Records the primary's handlers and collector make are records.
LEMMA RecordsOf ==
  ASSUME NEW t \in Nat
  PROVE  /\ \A k \in Keys, h \in Hashes : PutRecord(k, h, t) \in Record
         /\ \A k \in Keys : DeleteRecord(k, t) \in Record
         /\ \A h \in Hashes : GCRecord(h, t) \in Record
BY DEF PutRecord, DeleteRecord, GCRecord, Record

\* The primary's own steps (PutWith, Delete, collectExpired).
LEMMA PrimaryType ==
  ASSUME ReplicaTypeOK, PrimaryNext
  PROVE  ReplicaTypeOK'
<1>0. clock \in Nat /\ upstream \in Seq(Record)
  BY DEF ReplicaTypeOK, TypeOK
<1>1. ASSUME NEW k \in Keys, NEW h \in Hashes, PrimaryPut(k, h)
      PROVE  ReplicaTypeOK'
  BY <1>0, <1>1, RecordsOf DEF PrimaryPut, Grows, ReplicaTypeOK, TypeOK, disk, replay
<1>2. ASSUME NEW k \in Keys, PrimaryDelete(k)
      PROVE  ReplicaTypeOK'
  BY <1>0, <1>2, RecordsOf DEF PrimaryDelete, Grows, ReplicaTypeOK, TypeOK, vars
<1>3. ASSUME NEW h \in Hashes, PrimaryCollect(h)
      PROVE  ReplicaTypeOK'
  BY <1>3 DEF PrimaryCollect, ReplicaTypeOK, TypeOK, vars
<1>4. CASE PrimaryJournalCollected
  BY <1>0, <1>4, RecordsOf DEF PrimaryJournalCollected, ReplicaTypeOK, TypeOK, vars
<1> QED
  BY <1>1, <1>2, <1>3, <1>4 DEF PrimaryNext

\* What a busy pull works on (Pull).
LEMMA PageFacts ==
  ASSUME ReplicaTypeOK, puller.pc # "idle"
  PROVE  /\ puller.page \in Seq(Numbered) /\ puller.page # <<>>
         /\ Len(puller.page) \in Nat \ {0}
         /\ 1 \in DOMAIN puller.page /\ Next1 = puller.page[1]
         /\ Next1 \in Numbered /\ Next1.seq \in Nat \ {0} /\ Next1.rec \in Record
         /\ Next1.rec.op = "put" => Next1.rec.hash \in Hashes
<1>1. puller.page \in Seq(Numbered) /\ puller.page # <<>>
  BY DEF ReplicaTypeOK
<1>2. Next1 = puller.page[1] /\ Next1 \in Numbered /\ Len(puller.page) \in Nat \ {0}
  BY <1>1 DEF Next1
<1> QED
  BY <1>1, <1>2 DEF Numbered, Record

\* The page the feed sends (ReplicaHandler).
LEMMA PageType ==
  ASSUME ReplicaTypeOK, NEW first \in Nat \ {0}, first <= Len(upstream)
  PROVE  /\ Page(first) \in Seq(Numbered) /\ Page(first) # <<>>
         /\ \A i \in DOMAIN Page(first) :
              /\ Page(first)[i].seq \in DOMAIN upstream
              /\ Page(first)[i].rec = upstream[Page(first)[i].seq]
<1> DEFINE left == Len(upstream) - first + 1
           n == IF left < Batch THEN left ELSE Batch
<1>1. /\ upstream \in Seq(Record) /\ Len(upstream) \in Nat /\ DOMAIN upstream = 1..Len(upstream)
      /\ n \in Nat \ {0} /\ n <= left
  BY ReplicaAssumption DEF ReplicaTypeOK
<1>2. Page(first) = [i \in 1..n |-> [seq |-> first + i - 1, rec |-> upstream[first + i - 1]]]
  BY DEF Page
<1> HIDE DEF n
<1>3. \A i \in 1..n : first + i - 1 \in DOMAIN upstream /\ first + i - 1 \in Nat \ {0}
  BY <1>1
<1>4. \A i \in 1..n : [seq |-> first + i - 1, rec |-> upstream[first + i - 1]] \in Numbered
  BY <1>1, <1>3 DEF Numbered
<1>5. Page(first) \in [1..n -> Numbered]
  BY <1>2, <1>4
<1>6. Page(first) \in Seq(Numbered) /\ Len(Page(first)) = n
  BY <1>1, <1>5
<1>7. Page(first) # <<>> /\ DOMAIN Page(first) = 1..n
  BY <1>1, <1>2, <1>6
<1>8. ASSUME NEW i \in DOMAIN Page(first)
      PROVE  /\ Page(first)[i].seq \in DOMAIN upstream
             /\ Page(first)[i].rec = upstream[Page(first)[i].seq]
  BY <1>2, <1>3, <1>7
<1> QED
  BY <1>6, <1>7, <1>8

\* The pull goes on with its page, or gives it up (Pull, applyOne).
LEMMA PullerMoves ==
  ASSUME ReplicaTypeOK
  PROVE  /\ EndPull => puller' \in PullerType
         /\ puller.pc # "idle" =>
              \A pc \in {"record", "fetch", "append", "apply"} :
                Go(pc) => puller' \in PullerType
<1>1. EndPull => puller' \in PullerType
  BY DEF EndPull, Waiting, PullerType
<1>2. ASSUME puller.pc # "idle", NEW pc \in {"record", "fetch", "append", "apply"}, Go(pc)
      PROVE  puller' \in PullerType
  <2>1. puller \in [pc : {"record", "fetch", "append", "apply"}, page : Seq(Numbered) \ {<<>>}]
    BY <1>2 DEF ReplicaTypeOK
  <2>2. puller' = [puller EXCEPT !.pc = pc]
    BY <1>2 DEF Go
  <2> QED
    BY <2>1, <2>2 DEF PullerType
<1> QED
  BY <1>1, <1>2

\* Applying a pulled record (applyOne).
LEMMA ApplyPulledType ==
  ASSUME ReplicaTypeOK, ApplyPulled
  PROVE  index' \in Index /\ puller' \in PullerType
<1>1. puller.pc # "idle"
  BY DEF ApplyPulled
<1>2. index' \in Index
  BY <1>1, PageFacts, ApplyType DEF ApplyPulled, ReplicaTypeOK, TypeOK
<1>3. CASE Len(puller.page) = 1
  BY <1>2, <1>3 DEF ApplyPulled, Waiting, PullerType
<1>4. CASE Len(puller.page) # 1
  <2>1. Tail(puller.page) \in Seq(Numbered) \ {<<>>}
    <3>1. Tail(puller.page) \in Seq(Numbered) /\ Len(Tail(puller.page)) = Len(puller.page) - 1
      BY <1>1, PageFacts
    <3>2. Len(Tail(puller.page)) # 0
      BY <1>1, <1>4, <3>1, PageFacts
    <3>3. Len(<<>>) = 0
      OBVIOUS
    <3> QED
      BY <3>1, <3>2, <3>3
  <2>2. puller' = [pc |-> "record", page |-> Tail(puller.page)]
    BY <1>4 DEF ApplyPulled
  <2> QED
    BY <1>2, <2>1, <2>2 DEF PullerType
<1> QED
  BY <1>2, <1>3, <1>4

\* The secondary's pull (Pull, applyOne).
LEMMA PullType ==
  ASSUME ReplicaTypeOK, Pull \/ LoseRequest \/ FailApply
  PROVE  ReplicaTypeOK'
<1> USE DEF primary, disk, replay
<1>1. CASE AskJournal
  <2>1. index.applied + 1 \in Nat \ {0} /\ index.applied + 1 <= Len(upstream)
    BY <1>1 DEF AskJournal, ReplicaTypeOK, TypeOK, Index
  <2>2. Page(index.applied + 1) \in Seq(Numbered) \ {<<>>}
    BY <2>1, PageType
  <2>3. puller' \in PullerType
    BY <1>1, <2>2 DEF AskJournal, PullerType
  <2> QED
    BY <1>1, <2>3 DEF AskJournal, ReplicaTypeOK, TypeOK, PullerType, vars
<1>2. CASE StatBlob
  <2>1. puller' \in PullerType
    BY <1>2, PullerMoves DEF StatBlob
  <2> QED
    BY <1>2, <2>1 DEF StatBlob, ReplicaTypeOK, TypeOK, PullerType, vars
<1>3. CASE FetchBlob
  <2>1. puller' \in PullerType
    BY <1>3, PullerMoves DEF FetchBlob
  <2>2. stored' \subseteq Hashes /\ mtime' \in [Hashes -> Nat]
    <3>1. CASE Next1.rec.hash \in blobs
      BY <1>3, <3>1 DEF FetchBlob, ReplicaTypeOK, TypeOK
    <3>2. CASE Next1.rec.hash \notin blobs
      BY <1>3, <3>2 DEF FetchBlob, ReplicaTypeOK, TypeOK
    <3> QED
      BY <3>1, <3>2
  <2>3. UNCHANGED <<journal, index, mode, replay, handler, gc, sent, clock, primary>>
    BY <1>3 DEF FetchBlob
  <2> QED
    BY <2>1, <2>2, <2>3 DEF ReplicaTypeOK, TypeOK, PullerType
<1>4. CASE AppendAt
  <2>1. puller' \in PullerType
    BY <1>4, PullerMoves DEF AppendAt
  <2>2. journal' \in Seq(Record)
    <3>1. Next1.rec \in Record /\ journal \in Seq(Record)
      BY <1>4, PageFacts DEF AppendAt, ReplicaTypeOK, TypeOK
    <3>2. Append(journal, Next1.rec) \in Seq(Record)
      BY <3>1
    <3> QED
      BY <1>4, <3>1, <3>2 DEF AppendAt
  <2> QED
    BY <1>4, <2>1, <2>2 DEF AppendAt, ReplicaTypeOK, TypeOK, PullerType
<1>5. CASE ApplyPulled
  <2>1. index' \in Index /\ puller' \in PullerType
    BY <1>5, ApplyPulledType
  <2> QED
    BY <1>5, <2>1 DEF ApplyPulled, ReplicaTypeOK, TypeOK, PullerType
<1>6. CASE LoseRequest \/ FailApply
  <2>1. puller' \in PullerType
    BY <1>6, PullerMoves DEF LoseRequest, FailApply
  <2> QED
    BY <1>6, <2>1 DEF LoseRequest, FailApply, ReplicaTypeOK, TypeOK, PullerType, vars
<1> QED
  BY <1>1, <1>2, <1>3, <1>4, <1>5, <1>6 DEF Pull

\* Every step keeps the state of both sides typed.
LEMMA ReplicaTypeStep ==
  ASSUME ReplicaTypeOK, [ReplicaNext]_allVars
  PROVE  ReplicaTypeOK'
<1>1. CASE ReplicaCrash
  <2>1. TypeOK'
    BY <1>1, ProcessType DEF ReplicaCrash, ReplicaTypeOK
  <2> QED
    BY <1>1, <2>1 DEF ReplicaCrash, EndPull, Waiting, ReplicaTypeOK, primary
<1>2. CASE ReplicaStore
  <2>1. TypeOK'
    BY <1>2, ProcessType, CollectType DEF ReplicaStore, ReplicaTypeOK
  <2> QED
    BY <1>2, <2>1 DEF ReplicaStore, ReplicaTypeOK, primary
<1>3. CASE UNCHANGED allVars
  BY <1>3 DEF allVars, vars, primary, disk, replay, ReplicaTypeOK, TypeOK
<1> QED
  BY <1>1, <1>2, <1>3, PrimaryType, PullType DEF ReplicaNext

\* Both sides of a replication stay well typed, whatever fails or dies.
THEOREM ReplicaTypes == ReplicaSpec => []ReplicaTypeOK
<1>1. ReplicaInit => ReplicaTypeOK
  BY StoreTypeOKInit DEF ReplicaInit, ReplicaTypeOK, Waiting
<1>2. ReplicaTypeOK /\ [ReplicaNext]_allVars => ReplicaTypeOK'
  BY ReplicaTypeStep
<1> QED
  BY <1>1, <1>2, PTL DEF ReplicaSpec

-----------------------------------------------------------------------------
(***************************************************************************)
(* A secondary that does not collect on its own copies its primary: what   *)
(* it has on its page is what the primary's journal says, and the local    *)
(* journal grows by nothing else.                                          *)
(***************************************************************************)
PageFaithful ==
  \A i \in DOMAIN puller.page :
    /\ puller.page[i].seq \in DOMAIN upstream
    /\ puller.page[i].rec = upstream[puller.page[i].seq]

CopyInv == ReplicaTypeOK /\ gc.pc = "asleep" /\ JournalIsPrefix /\ PageFaithful

\* The primary's journal only grows (Append).
LEMMA UpstreamGrows ==
  ASSUME CopyInv, PrimaryNext
  PROVE  JournalIsPrefix' /\ PageFaithful' /\ gc' = gc
<1>1. /\ journal' = journal /\ puller' = puller /\ gc' = gc
      /\ upstream' = upstream \/ \E rec : upstream' = Append(upstream, rec)
  BY DEF PrimaryNext, PrimaryPut, PrimaryDelete, PrimaryCollect, PrimaryJournalCollected, Grows,
    vars
<1>2. /\ upstream \in Seq(Record) /\ journal \in Seq(Record)
      /\ Len(journal) \in Nat /\ DOMAIN journal = 1..Len(journal)
      /\ Len(upstream) \in Nat /\ DOMAIN upstream = 1..Len(upstream)
      /\ JournalIsPrefix /\ PageFaithful
  BY DEF CopyInv, ReplicaTypeOK, TypeOK
<1>3. /\ Len(upstream') \in Nat /\ Len(upstream') >= Len(upstream)
      /\ DOMAIN upstream \subseteq DOMAIN upstream'
      /\ \A i \in DOMAIN upstream : upstream'[i] = upstream[i]
  <2>1. CASE upstream' = upstream
    BY <1>2, <2>1
  <2>2. ASSUME NEW rec, upstream' = Append(upstream, rec)
        PROVE  /\ Len(upstream') \in Nat /\ Len(upstream') >= Len(upstream)
               /\ DOMAIN upstream \subseteq DOMAIN upstream'
               /\ \A i \in DOMAIN upstream : upstream'[i] = upstream[i]
    BY <1>2, <2>2
  <2> QED
    BY <1>1, <2>1, <2>2
<1>4. JournalIsPrefix'
  BY <1>1, <1>2, <1>3 DEF JournalIsPrefix
<1>5. PageFaithful'
  BY <1>1, <1>2, <1>3 DEF PageFaithful
<1> QED
  BY <1>1, <1>4, <1>5

\* A pull copies records under their own numbers (Pull, AppendAt).
LEMMA PullCopies ==
  ASSUME CopyInv, Pull \/ LoseRequest \/ FailApply
  PROVE  JournalIsPrefix' /\ PageFaithful' /\ gc' = gc
<1> USE DEF primary, disk, replay
<1>0. /\ ReplicaTypeOK /\ JournalIsPrefix /\ PageFaithful
      /\ upstream' = upstream /\ gc' = gc
  BY DEF CopyInv, Pull, AskJournal, StatBlob, FetchBlob, AppendAt, ApplyPulled, LoseRequest,
    FailApply, vars
<1>1. CASE AskJournal
  <2>1. index.applied + 1 \in Nat \ {0} /\ index.applied + 1 <= Len(upstream)
    BY <1>0, <1>1 DEF AskJournal, ReplicaTypeOK, TypeOK, Index
  <2>2. puller'.page = Page(index.applied + 1) /\ journal' = journal
    BY <1>1 DEF AskJournal, vars
  <2>3. PageFaithful'
    BY <1>0, <2>1, <2>2, PageType DEF PageFaithful
  <2> QED
    BY <1>0, <2>2, <2>3 DEF JournalIsPrefix
<1>2. ASSUME EndPull
      PROVE  PageFaithful'
  BY <1>2 DEF EndPull, Waiting, PageFaithful
<1>3. ASSUME NEW pc, Go(pc)
      PROVE  PageFaithful'
  <2>1. puller'.page = puller.page
    BY <1>0, <1>3 DEF Go, ReplicaTypeOK
  <2> QED
    BY <1>0, <2>1 DEF PageFaithful
<1>4. CASE StatBlob \/ FetchBlob \/ LoseRequest \/ FailApply
  <2>1. journal' = journal /\ (EndPull \/ \E pc : Go(pc))
    BY <1>4 DEF StatBlob, FetchBlob, LoseRequest, FailApply, vars
  <2> QED
    BY <1>0, <1>2, <1>3, <2>1 DEF JournalIsPrefix
<1>5. CASE AppendAt
  <2>1. PageFaithful'
    BY <1>2, <1>3, <1>5 DEF AppendAt
  <2>2. puller.pc # "idle"
    BY <1>5 DEF AppendAt
  <2>3. Next1.seq \in DOMAIN upstream /\ Next1.rec = upstream[Next1.seq]
    BY <1>0, <2>2, PageFacts DEF PageFaithful
  <2>4. /\ journal \in Seq(Record) /\ Len(journal) \in Nat
        /\ DOMAIN journal = 1..Len(journal) /\ DOMAIN upstream = 1..Len(upstream)
        /\ Len(upstream) \in Nat
    BY <1>0 DEF ReplicaTypeOK, TypeOK
  <2>5. CASE Next1.seq = Len(journal) + 1
    <3>1. journal' = Append(journal, Next1.rec)
      BY <1>5, <2>5 DEF AppendAt
    <3>2. /\ Len(journal') = Len(journal) + 1 /\ DOMAIN journal' = 1..(Len(journal) + 1)
          /\ \A i \in 1..Len(journal) : journal'[i] = journal[i]
          /\ journal'[Len(journal) + 1] = Next1.rec
      BY <2>4, <3>1
    <3> QED
      BY <1>0, <2>1, <2>3, <2>4, <2>5, <3>2 DEF JournalIsPrefix
  <2>6. CASE Next1.seq # Len(journal) + 1
    BY <1>0, <1>5, <2>1, <2>6 DEF AppendAt, JournalIsPrefix
  <2> QED
    BY <2>5, <2>6
<1>6. CASE ApplyPulled
  <2>1. puller.pc # "idle" /\ journal' = journal
    BY <1>6 DEF ApplyPulled
  <2>2. CASE Len(puller.page) = 1
    BY <1>0, <1>6, <2>1, <2>2 DEF ApplyPulled, Waiting, PageFaithful, JournalIsPrefix
  <2>3. CASE Len(puller.page) # 1
    <3>1. puller'.page = Tail(puller.page)
      BY <1>6, <2>3 DEF ApplyPulled
    <3>2. \A i \in DOMAIN Tail(puller.page) :
            i + 1 \in DOMAIN puller.page /\ Tail(puller.page)[i] = puller.page[i + 1]
      BY <1>0, <2>1, PageFacts
    <3> QED
      BY <1>0, <2>1, <3>1, <3>2 DEF PageFaithful, JournalIsPrefix
  <2> QED
    BY <2>2, <2>3
<1> QED
  BY <1>0, <1>1, <1>4, <1>5, <1>6 DEF Pull

\* A secondary whose collector never wakes leaves its journal to the pull.
LEMMA StoreLeavesJournal ==
  ASSUME Interval = 0, CopyInv, ReplicaStore \/ ReplicaCrash
  PROVE  journal' = journal /\ gc'.pc = "asleep" /\ (puller' = puller \/ EndPull)
BY DEF CopyInv, ReplicaStore, ReplicaCrash, Collect, StartPass, RemoveExpired, JournalCollected,
  FindOrphans, EndPass, DropExpired, SkipReferenced, RemoveOrphan, FailPass, Recovery, Start,
  ReplayRecord, CommitReplay, Rebuild, DropNamespaces, ResetIndex, Crash, KillRebuild, Halt, Tick,
  Sleeping, disk, replay

\* Whatever comes, the secondary copies.
LEMMA CopyInvariant ==
  ASSUME Interval = 0
  PROVE  ReplicaSpec => []CopyInv
<1>1. ReplicaInit => CopyInv
  BY StoreTypeOKInit DEF ReplicaInit, Init, Waiting, Sleeping, CopyInv, ReplicaTypeOK,
    JournalIsPrefix, PageFaithful
<1>2. ASSUME CopyInv, ReplicaTypeOK', [ReplicaNext]_allVars
      PROVE  CopyInv'
  <2>1. CASE PrimaryNext
    BY <1>2, <2>1, UpstreamGrows DEF CopyInv
  <2>2. CASE Pull \/ LoseRequest \/ FailApply
    BY <1>2, <2>2, PullCopies DEF CopyInv
  <2>3. CASE ReplicaStore \/ ReplicaCrash
    <3>1. upstream' = upstream
      BY <2>3 DEF ReplicaStore, ReplicaCrash, primary
    <3>2. journal' = journal /\ gc'.pc = "asleep" /\ (puller' = puller \/ EndPull)
      BY <1>2, <2>3, StoreLeavesJournal
    <3> QED
      BY <1>2, <3>1, <3>2 DEF CopyInv, JournalIsPrefix, PageFaithful, EndPull, Waiting
  <2>4. CASE UNCHANGED allVars
    BY <1>2, <2>4 DEF allVars, vars, primary, CopyInv, JournalIsPrefix, PageFaithful
  <2> QED
    BY <1>2, <2>1, <2>2, <2>3, <2>4 DEF ReplicaNext
<1> QED
  BY <1>1, <1>2, ReplicaTypes, PTL DEF ReplicaSpec

\* The journal of a secondary without a collector of its own is a prefix of its
\* primary's, for any primary: collected blobs, failures, failed transactions,
\* crashes and rebuilds included (AppendAt, Pull).
THEOREM ReplicaCopies ==
  ASSUME Interval = 0
  PROVE  ReplicaSpec => []JournalIsPrefix
<1>1. CopyInv => JournalIsPrefix
  BY DEF CopyInv
<1> QED
  BY <1>1, CopyInvariant, PTL

-----------------------------------------------------------------------------
(***************************************************************************)
(* Nothing the secondary journals or binds is missing there: the blob is   *)
(* fetched before the record is appended, and applied after.               *)
(***************************************************************************)
CarriedBacked ==
  puller.pc \in {"append", "apply"} /\ Next1.rec.op = "put" => Next1.rec.hash \in stored

FollowInv ==
  /\ CopyInv /\ CarriedBacked /\ JournalBacked
  /\ Backed(index, stored) /\ Backed(work, stored)

\* Any record of the primary, a collection included, keeps the index backed.
LEMMA ApplyAnyBacked ==
  ASSUME NEW ix \in Index, NEW rec \in Record, NEW seq \in Nat, NEW some,
         Backed(ix, some), rec.op = "put" => rec.hash \in some
  PROVE  Backed(Apply(ix, rec, seq), some)
<1>1. CASE rec.op # "gc"
  BY <1>1, ApplyBacked
<1>2. CASE rec.op = "gc"
  <2>1. rec.hash \in Hashes
    BY <1>2 DEF Record
  <2>2. Apply(ix, rec, seq) = AppliedTo(DropRef(ix, rec.hash), seq)
    BY <1>2 DEF Apply
  <2> DEFINE dx == DropRef(ix, rec.hash)
  <2>3. dx \in Index /\ dx.keys = ix.keys /\ dx.refs = [ix.refs EXCEPT ![rec.hash] = NoRef]
    BY <2>1, DropRefType
  <2> HIDE DEF dx
  <2>4. \A g \in Hashes : dx.refs[g].count = IF g = rec.hash THEN 0 ELSE ix.refs[g].count
    BY <2>1, <2>3 DEF NoRef, Index
  <2>5. Backed(dx, some)
    <3>1. \A k \in Keys : dx.keys[k] \in some \cup {None}
      BY <2>3 DEF Backed
    <3>2. \A g \in Hashes : dx.refs[g].count > 0 => g \in some
      BY <2>4 DEF Backed
    <3> QED
      BY <3>1, <3>2 DEF Backed
  <2>6. Backed(AppliedTo(dx, seq), some)
    BY <2>3, <2>5, AppliedToType DEF Backed
  <2> QED
    BY <2>2, <2>6 DEF dx
<1> QED
  BY <1>1, <1>2

\* A pull names nothing it has not fetched (applyOne).
LEMMA PullBacked ==
  ASSUME FollowInv, Pull \/ LoseRequest \/ FailApply
  PROVE  CarriedBacked' /\ JournalBacked' /\ Backed(index, stored)' /\ Backed(work, stored)'
<1> USE DEF primary, disk, replay
<1>0. /\ ReplicaTypeOK /\ CarriedBacked /\ JournalBacked
      /\ Backed(index, stored) /\ Backed(work, stored)
  BY DEF FollowInv, CopyInv
<1>1. CASE AskJournal \/ LoseRequest \/ FailApply
  <2>1. UNCHANGED vars /\ puller'.pc \notin {"append", "apply"}
    BY <1>1 DEF AskJournal, LoseRequest, FailApply, EndPull, Waiting
  <2> QED
    BY <1>0, <2>1 DEF vars, CarriedBacked, JournalBacked
<1>2. CASE StatBlob
  <2>1. UNCHANGED vars /\ puller.pc = "record" /\ puller'.page = puller.page
        /\ (Next1.rec.op = "put" /\ Next1.rec.hash \notin stored => puller'.pc = "fetch")
    BY <1>0, <1>2 DEF StatBlob, Go, ReplicaTypeOK
  <2> QED
    BY <1>0, <2>1 DEF vars, CarriedBacked, JournalBacked, Next1
<1>3. CASE FetchBlob
  <2>1. /\ UNCHANGED <<journal, index, work>> /\ stored \subseteq stored'
        /\ \/ puller' = Waiting
           \/ puller'.page = puller.page /\ Next1.rec.hash \in stored'
    BY <1>0, <1>3 DEF FetchBlob, Go, EndPull, ReplicaTypeOK
  <2>2. Backed(index, stored') /\ Backed(work, stored')
    BY <1>0, <2>1, MoreBlobs
  <2>3. CarriedBacked'
    BY <2>1 DEF CarriedBacked, Next1, Waiting
  <2> QED
    BY <1>0, <2>1, <2>2, <2>3 DEF JournalBacked
<1>4. CASE AppendAt
  <2>1. UNCHANGED <<stored, index, work>> /\ puller.pc = "append" /\ puller \in PullerType
    BY <1>0, <1>4 DEF AppendAt, ReplicaTypeOK, PullerType
  <2>2. CarriedBacked'
    <3>1. CASE EndPull
      BY <3>1 DEF EndPull, Waiting, CarriedBacked
    <3>2. CASE Go("apply")
      <4>1. puller'.page = puller.page
        BY <2>1, <3>2 DEF Go, PullerType
      <4> QED
        BY <1>0, <2>1, <4>1 DEF CarriedBacked, Next1
    <3> QED
      BY <1>4, <3>1, <3>2 DEF AppendAt
  <2>3. CASE journal' = journal
    BY <1>0, <2>1, <2>2, <2>3 DEF JournalBacked
  <2>4. CASE journal' = Append(journal, Next1.rec)
    <3>1. /\ journal \in Seq(Record) /\ Len(journal) \in Nat /\ DOMAIN journal = 1..Len(journal)
          /\ Next1.rec \in Record
      BY <1>0, <2>1, PageFacts DEF ReplicaTypeOK, TypeOK
    <3>2. /\ DOMAIN journal' = 1..(Len(journal) + 1)
          /\ \A i \in 1..Len(journal) : journal'[i] = journal[i]
          /\ journal'[Len(journal) + 1] = Next1.rec
      BY <2>4, <3>1
    <3>3. JournalBacked'
      BY <1>0, <2>1, <3>1, <3>2 DEF JournalBacked, CarriedBacked
    <3> QED
      BY <1>0, <2>1, <2>2, <3>3
  <2> QED
    BY <1>4, <2>3, <2>4 DEF AppendAt
<1>5. CASE ApplyPulled
  <2>1. /\ UNCHANGED <<stored, journal, work>>
        /\ puller.pc = "apply" /\ puller'.pc \notin {"append", "apply"}
        /\ index' = Apply(index, Next1.rec, Next1.seq)
    BY <1>5 DEF ApplyPulled, Waiting
  <2>2. index \in Index /\ Next1.rec \in Record /\ Next1.seq \in Nat
    BY <1>0, <2>1, PageFacts DEF ReplicaTypeOK, TypeOK
  <2>3. Backed(index', stored)
    BY <1>0, <2>1, <2>2, ApplyAnyBacked DEF CarriedBacked
  <2> QED
    BY <1>0, <2>1, <2>3 DEF CarriedBacked, JournalBacked
<1> QED
  BY <1>1, <1>2, <1>3, <1>4, <1>5 DEF Pull

\* Nor does the store underneath: it replays what the journal names, and without
\* a collector no file goes away (Recover, rebuildIndex).
LEMMA StoreStaysBacked ==
  ASSUME Interval = 0, FollowInv, ReplicaStore \/ ReplicaCrash
  PROVE  CarriedBacked' /\ JournalBacked' /\ Backed(index, stored)' /\ Backed(work, stored)'
<1> USE DEF disk, replay
<1>0. /\ TypeOK /\ CarriedBacked /\ JournalBacked /\ gc.pc = "asleep"
      /\ Backed(index, stored) /\ Backed(work, stored) /\ Backed(EmptyIndex, stored)
  BY EmptyIndexBacked DEF FollowInv, CopyInv, ReplicaTypeOK
<1>1. stored' = stored /\ journal' = journal /\ (puller' = puller \/ EndPull)
  <2>1. stored' = stored
    BY <1>0 DEF ReplicaStore, ReplicaCrash, Collect, StartPass, RemoveExpired, JournalCollected,
      FindOrphans, EndPass, DropExpired, SkipReferenced, RemoveOrphan, FailPass, Recovery, Start,
      ReplayRecord, CommitReplay, Rebuild, DropNamespaces, ResetIndex, Crash, KillRebuild, Halt,
      Tick
  <2> QED
    BY <2>1, StoreLeavesJournal DEF FollowInv
<1>2. CarriedBacked' /\ JournalBacked'
  BY <1>0, <1>1 DEF CarriedBacked, JournalBacked, EndPull, Waiting, Next1
<1>3. CASE ReplayRecord
  <2>1. /\ cursor \in DOMAIN journal /\ cursor \in Nat
        /\ journal[cursor] \in Record /\ work \in Index
    BY <1>0, <1>3 DEF ReplayRecord, TypeOK
  <2>2. Backed(work', stored)
    BY <1>0, <1>3, <2>1, ApplyAnyBacked DEF ReplayRecord, JournalBacked
  <2> QED
    BY <1>0, <1>1, <1>2, <1>3, <2>2 DEF ReplayRecord
<1>4. CASE DropNamespaces
  <2>1. Backed(index', stored)
    BY <1>0, <1>4 DEF DropNamespaces, Backed, EmptyIndex, TypeOK, Index
  <2> QED
    BY <1>0, <1>1, <1>2, <1>4, <2>1 DEF DropNamespaces
<1>5. CASE ResetIndex
  <2>1. Backed(index', stored) /\ work' = index'
    BY <1>0, <1>5 DEF ResetIndex, Backed, EmptyIndex, NoRef, TypeOK, Index
  <2> QED
    BY <1>0, <1>1, <1>2, <2>1
<1>6. CASE Start \/ CommitReplay
  BY <1>0, <1>1, <1>2, <1>6 DEF Start, CommitReplay
<1>7. CASE Crash \/ KillRebuild \/ Tick
  BY <1>0, <1>1, <1>2, <1>7 DEF Crash, KillRebuild, Halt, Tick
<1>8. CASE Collect \/ FailPass
  BY <1>0, <1>1, <1>2, <1>8 DEF Collect, FailPass, StartPass, RemoveExpired, JournalCollected,
    FindOrphans, EndPass, DropExpired, SkipReferenced, RemoveOrphan
<1> QED
  BY <1>3, <1>4, <1>5, <1>6, <1>7, <1>8 DEF ReplicaStore, ReplicaCrash, Recovery, Rebuild

\* A secondary without a collector of its own never names a blob it does not
\* have, however far behind it is and whatever its primary has collected.
THEOREM ReplicaStaysHealthy ==
  ASSUME Interval = 0
  PROVE  ReplicaSpec => []ReplicaHealthy
<1>1. ReplicaInit => FollowInv
  <2> SUFFICES ASSUME ReplicaInit PROVE FollowInv
    OBVIOUS
  <2>1. CopyInv
    BY StoreTypeOKInit DEF ReplicaInit, Init, Waiting, Sleeping, CopyInv, ReplicaTypeOK,
      JournalIsPrefix, PageFaithful
  <2> QED
    BY <2>1, EmptyIndexBacked DEF ReplicaInit, Init, Waiting, CarriedBacked, JournalBacked, FollowInv
<1>2. ASSUME FollowInv, CopyInv', [ReplicaNext]_allVars
      PROVE  FollowInv'
  <2>1. CASE PrimaryNext
    <3>1. UNCHANGED <<journal, index, work, stored, puller>>
      BY <2>1 DEF PrimaryNext, PrimaryPut, PrimaryDelete, PrimaryCollect,
        PrimaryJournalCollected, vars, disk, replay
    <3> QED
      BY <1>2, <3>1 DEF FollowInv, CarriedBacked, JournalBacked, Next1
  <2>2. CASE UNCHANGED allVars
    BY <1>2, <2>2 DEF allVars, vars, FollowInv, CarriedBacked, JournalBacked, Next1
  <2> QED
    BY <1>2, <2>1, <2>2, PullBacked, StoreStaysBacked DEF ReplicaNext, FollowInv
<1>3. FollowInv => ReplicaHealthy
  BY DEF FollowInv, Backed, ReplicaHealthy, Healthy
<1> QED
  BY <1>1, <1>2, <1>3, CopyInvariant, PTL DEF ReplicaSpec

-----------------------------------------------------------------------------
(***************************************************************************)
(* The secondary mirrors the primary.  Every index of it, committed or in  *)
(* the making, is a replay of the primary's journal, since its own journal *)
(* is a prefix of that one; and a page never starts behind the index.      *)
(***************************************************************************)
\* The rest of a page starts with the record after the applied one.
PageConsecutive ==
  puller.pc # "idle" => /\ mode = "serving"
                        /\ \A i \in DOMAIN puller.page : puller.page[i].seq = index.applied + i

AppliesNext == puller.pc = "apply" => Len(journal) = index.applied + 1

IndexMirrors ==
  /\ mode # "dropped" => /\ index.applied <= Len(journal)
                         /\ index = ReplayedTo(upstream, index.applied)
  /\ mode = "dropped" => index.keys = EmptyIndex.keys

WorkMirrors ==
  mode \in {"recovering", "rebuilding"} => /\ cursor <= Len(journal) + 1
                                           /\ work = ReplayedTo(upstream, cursor - 1)

MirrorInv == CopyInv /\ PageConsecutive /\ AppliesNext /\ IndexMirrors /\ WorkMirrors

\* What is known of the numbers.
LEMMA MirrorTypes ==
  ASSUME MirrorInv
  PROVE  /\ journal \in Seq(Record) /\ upstream \in Seq(Record)
         /\ Len(journal) \in Nat /\ Len(upstream) \in Nat /\ Len(journal) <= Len(upstream)
         /\ DOMAIN journal = 1..Len(journal) /\ DOMAIN upstream = 1..Len(upstream)
         /\ index \in Index /\ index.applied \in Nat /\ cursor \in Nat \ {0}
         /\ \A i \in DOMAIN journal : journal[i] = upstream[i]
BY DEF MirrorInv, CopyInv, ReplicaTypeOK, TypeOK, Index, JournalIsPrefix

\* The primary's journal grows behind what the secondary has of it.
LEMMA MirrorPrimary ==
  ASSUME MirrorInv, PrimaryNext
  PROVE  PageConsecutive' /\ AppliesNext' /\ IndexMirrors' /\ WorkMirrors'
<1>1. /\ UNCHANGED <<journal, index, work, cursor, mode, puller>>
      /\ upstream' = upstream \/ \E rec \in Record : upstream' = Append(upstream, rec)
  <2>1. \A t : t = clock => t \in Nat
    BY DEF MirrorInv, CopyInv, ReplicaTypeOK, TypeOK
  <2>2. collected # None => collected \in Hashes
    BY DEF MirrorInv, CopyInv, ReplicaTypeOK
  <2> QED
    BY <2>1, <2>2, RecordsOf DEF PrimaryNext, PrimaryPut, PrimaryDelete, PrimaryCollect,
        PrimaryJournalCollected, Grows, vars, replay, disk
<1>2. ASSUME NEW n \in 0..Len(journal)
      PROVE  ReplayedTo(upstream', n) = ReplayedTo(upstream, n)
  <2>1. CASE upstream' = upstream
    BY <2>1
  <2>2. ASSUME NEW rec \in Record, upstream' = Append(upstream, rec)
        PROVE  ReplayedTo(upstream', n) = ReplayedTo(upstream, n)
    <3>1. /\ upstream' \in Seq(Record) /\ n \in 0..Len(upstream) /\ n <= Len(upstream')
          /\ \A i \in 1..n : upstream[i] = upstream'[i]
      BY <2>2, MirrorTypes
    <3> QED
      BY <3>1, MirrorTypes, ReplayedAgree
  <2> QED
    BY <1>1, <2>1, <2>2
<1>3. PageConsecutive' /\ AppliesNext'
  BY <1>1 DEF MirrorInv, PageConsecutive, AppliesNext
<1>4. IndexMirrors'
  BY <1>1, <1>2, MirrorTypes DEF MirrorInv, IndexMirrors
<1>5. WorkMirrors'
  <2> SUFFICES ASSUME mode \in {"recovering", "rebuilding"}
               PROVE  work = ReplayedTo(upstream', cursor - 1)
    BY <1>1 DEF WorkMirrors, MirrorInv
  <2>1. cursor - 1 \in 0..Len(journal) /\ work = ReplayedTo(upstream, cursor - 1)
    BY MirrorTypes DEF MirrorInv, WorkMirrors
  <2> QED
    BY <1>2, <2>1
<1> QED
  BY <1>3, <1>4, <1>5

\* The steps of a pull but the last leave the index where it is (Pull, applyOne).
LEMMA MirrorFetch ==
  ASSUME MirrorInv, AskJournal \/ StatBlob \/ FetchBlob \/ AppendAt \/ LoseRequest \/ FailApply
  PROVE  PageConsecutive' /\ AppliesNext' /\ IndexMirrors' /\ WorkMirrors'
<1> USE DEF disk, replay, primary
<1>1. /\ UNCHANGED <<index, work, cursor, mode, upstream>>
      /\ puller \in PullerType
  BY DEF MirrorInv, CopyInv, ReplicaTypeOK, PullerType, AskJournal, StatBlob, FetchBlob, AppendAt,
         LoseRequest, FailApply, vars
<1>2. /\ Len(journal') \in Nat /\ Len(journal') >= Len(journal)
      /\ journal' = journal \/ (AppendAt /\ Len(journal') = Len(journal) + 1)
  <2>1. CASE journal' = journal
    BY <2>1, MirrorTypes
  <2>2. CASE journal' # journal
    <3>1. AppendAt /\ journal' = Append(journal, Next1.rec)
      BY <2>2 DEF AskJournal, StatBlob, FetchBlob, AppendAt, LoseRequest, FailApply, vars
    <3> QED
      BY <3>1, MirrorTypes
  <2> QED
    BY <2>1, <2>2
<1>3. IndexMirrors' /\ WorkMirrors'
  BY <1>1, <1>2, MirrorTypes DEF MirrorInv, IndexMirrors, WorkMirrors
<1>4. CASE EndPull /\ ~AskJournal
  BY <1>3, <1>4 DEF EndPull, Waiting, PageConsecutive, AppliesNext
<1>5. CASE AskJournal
  <2>1. /\ mode = "serving" /\ index.applied < Len(upstream)
        /\ puller' = [pc |-> "record", page |-> Page(index.applied + 1)]
    BY <1>5 DEF AskJournal
  <2>2. \A i \in DOMAIN Page(index.applied + 1) : Page(index.applied + 1)[i].seq = index.applied + i
    BY MirrorTypes, ReplicaAssumption DEF Page
  <2> QED
    BY <1>1, <1>3, <2>1, <2>2 DEF PageConsecutive, AppliesNext
<1>6. ASSUME NEW pc \in {"record", "fetch", "append"}, Go(pc), puller.pc # "idle"
      PROVE  PageConsecutive' /\ AppliesNext'
  <2>1. puller'.page = puller.page /\ puller'.pc = pc
    BY <1>1, <1>6 DEF Go, PullerType
  <2> QED
    BY <1>1, <1>6, <2>1 DEF MirrorInv, PageConsecutive, AppliesNext
<1>7. CASE AppendAt /\ Go("apply")
  <2>1. puller'.page = puller.page /\ puller'.pc = "apply" /\ puller.pc = "append"
    BY <1>1, <1>7 DEF Go, PullerType, AppendAt
  <2>2. Next1.seq = index.applied + 1
    BY <2>1, PageFacts, MirrorTypes DEF MirrorInv, CopyInv, PageConsecutive
  <2>3. Next1.seq = Len(journal) + 1 /\ journal' = Append(journal, Next1.rec)
    <3>1. ~EndPull
      BY <2>1 DEF EndPull, Waiting
    <3> QED
      BY <1>7, <3>1 DEF AppendAt
  <2>4. Len(journal') = index.applied + 1
    BY <2>2, <2>3, MirrorTypes
  <2> QED
    BY <1>1, <1>3, <2>1, <2>4 DEF MirrorInv, PageConsecutive, AppliesNext
<1> QED
  BY <1>3, <1>4, <1>5, <1>6, <1>7 DEF StatBlob, FetchBlob, AppendAt, LoseRequest, FailApply

\* A record is applied under its own number, right after the one before it (applyOne).
LEMMA MirrorApply ==
  ASSUME MirrorInv, ApplyPulled
  PROVE  PageConsecutive' /\ AppliesNext' /\ IndexMirrors' /\ WorkMirrors'
<1> USE DEF disk, replay, primary
<1>0. /\ puller.pc = "apply" /\ mode = "serving" /\ Len(journal) = index.applied + 1
      /\ UNCHANGED <<journal, upstream, mode>>
      /\ ReplicaTypeOK
  BY DEF MirrorInv, CopyInv, PageConsecutive, AppliesNext, ApplyPulled
<1>1. /\ Next1.seq = index.applied + 1 /\ Next1.rec = upstream[Next1.seq]
      /\ Next1.rec \in Record /\ puller.page \in Seq(Numbered) /\ puller.page # <<>>
      /\ Len(puller.page) \in Nat \ {0}
  BY <1>0, PageFacts, MirrorTypes DEF MirrorInv, CopyInv, PageConsecutive, PageFaithful
<1>2. index' = Apply(index, Next1.rec, Next1.seq)
  BY DEF ApplyPulled
<1> DEFINE n == index.applied
<1>3. n \in 0..(Len(upstream) - 1) /\ n + 1 = Len(journal) /\ n \in Nat /\ index = ReplayedTo(upstream, n)
  BY <1>0, MirrorTypes DEF MirrorInv, IndexMirrors
<1>4. index' = ReplayedTo(upstream, n + 1) /\ index'.applied = n + 1
  <2>1. index'.applied = n + 1
    BY <1>1, <1>2, MirrorTypes, ApplyPosition
  <2> HIDE DEF n
  <2>2. ReplayedTo(upstream, n + 1) = Apply(ReplayedTo(upstream, n), upstream[n + 1], n + 1)
    BY <1>3, MirrorTypes, ReplayedSteps
  <2> QED
    BY <1>1, <1>2, <1>3, <2>1, <2>2 DEF n
<1>5. IndexMirrors' /\ WorkMirrors'
  BY <1>0, <1>3, <1>4 DEF IndexMirrors, WorkMirrors
<1>6. CASE Len(puller.page) = 1
  BY <1>5, <1>6 DEF ApplyPulled, Waiting, PageConsecutive, AppliesNext
<1>7. CASE Len(puller.page) # 1
  <2>1. puller' = [pc |-> "record", page |-> Tail(puller.page)]
    BY <1>7 DEF ApplyPulled
  <2>2. \A i \in DOMAIN Tail(puller.page) :
          /\ i \in Nat /\ i + 1 \in DOMAIN puller.page
          /\ Tail(puller.page)[i] = puller.page[i + 1]
    <3>1. puller.pc # "idle"
      BY <1>0
    <3> QED
      BY <1>1, <3>1
  <2>3. \A i \in DOMAIN puller.page : puller.page[i].seq = n + i
    BY <1>0 DEF MirrorInv, PageConsecutive
  <2>4. \A i \in DOMAIN Tail(puller.page) : Tail(puller.page)[i].seq = (n + 1) + i
    <3> SUFFICES ASSUME NEW i \in DOMAIN Tail(puller.page)
                 PROVE  Tail(puller.page)[i].seq = (n + 1) + i
      OBVIOUS
    <3>1. i \in Nat /\ Tail(puller.page)[i].seq = n + (i + 1)
      BY <2>2, <2>3
    <3> HIDE DEF n
    <3> QED
      BY <1>3, <3>1
  <2> QED
    BY <1>0, <1>4, <1>5, <2>1, <2>4 DEF PageConsecutive, AppliesNext
<1> QED
  BY <1>5, <1>6, <1>7

\* Recoveries and rebuilds of the secondary replay its own journal, which is the
\* primary's (Recover, rebuildIndex).
LEMMA MirrorStore ==
  ASSUME Interval = 0, "kill" \notin Environment, MirrorInv, ReplicaStore \/ ReplicaCrash
  PROVE  PageConsecutive' /\ AppliesNext' /\ IndexMirrors' /\ WorkMirrors'
<1> USE DEF disk, replay, primary
<1>0. /\ journal' = journal /\ upstream' = upstream /\ (puller' = puller \/ EndPull)
      /\ gc.pc = "asleep"
      /\ PageConsecutive /\ AppliesNext /\ IndexMirrors /\ WorkMirrors
  BY StoreLeavesJournal DEF MirrorInv, CopyInv, ReplicaStore, ReplicaCrash
<1>1. CASE ReplicaCrash
  BY <1>0, <1>1, MirrorTypes DEF ReplicaCrash, Crash, Halt, EndPull, Waiting, PageConsecutive, AppliesNext,
     IndexMirrors, WorkMirrors
<1>2. CASE ReplicaStore /\ UNCHANGED <<index, work, cursor, mode>>
  BY <1>0, <1>2 DEF ReplicaStore, PageConsecutive, AppliesNext, IndexMirrors, WorkMirrors
<1>3. ASSUME ReplicaStore, Recovery \/ Rebuild
      PROVE  PageConsecutive' /\ AppliesNext'
  BY <1>0, <1>3 DEF ReplicaStore, Recovery, Start, ReplayRecord, CommitReplay, Rebuild, DropNamespaces,
     ResetIndex, PageConsecutive, AppliesNext
<1>4. ASSUME Start
      PROVE  IndexMirrors' /\ WorkMirrors'
  <2>1. /\ mode = "stopped" /\ mode' = "recovering" /\ index' = index
        /\ work' = index /\ cursor' = index.applied + 1
    BY <1>4 DEF Start
  <2>2. (index.applied + 1) - 1 = index.applied /\ index.applied + 1 <= Len(journal) + 1
    BY <1>0, <2>1, MirrorTypes DEF IndexMirrors
  <2> QED
    BY <1>0, <2>1, <2>2 DEF IndexMirrors, WorkMirrors
<1>5. ASSUME ReplayRecord
      PROVE  IndexMirrors' /\ WorkMirrors'
  <2>1. /\ cursor \in 1..Len(journal) /\ work = ReplayedTo(upstream, cursor - 1)
        /\ work' = Apply(work, journal[cursor], cursor)
        /\ cursor' = cursor + 1 /\ index' = index /\ mode' = mode
    BY <1>0, <1>5, MirrorTypes DEF ReplayRecord, WorkMirrors
  <2>2. \A n \in 0..(Len(upstream) - 1) :
          ReplayedTo(upstream, n + 1) = Apply(ReplayedTo(upstream, n), upstream[n + 1], n + 1)
    BY MirrorTypes, ReplayedSteps
  <2>3. cursor - 1 \in 0..(Len(upstream) - 1) /\ (cursor - 1) + 1 = cursor
        /\ journal[cursor] = upstream[cursor]
    BY <2>1, MirrorTypes
  <2>4. work' = ReplayedTo(upstream, cursor)
    BY <2>1, <2>2, <2>3
  <2>5. cursor' - 1 = cursor /\ cursor' <= Len(journal) + 1
    BY <2>1, MirrorTypes
  <2> QED
    BY <1>0, <2>1, <2>4, <2>5 DEF IndexMirrors, WorkMirrors
<1>6. ASSUME CommitReplay
      PROVE  IndexMirrors' /\ WorkMirrors'
  <2>1. /\ cursor - 1 = Len(journal) /\ work = ReplayedTo(upstream, cursor - 1)
        /\ index' = work /\ mode' \in {"serving", "stopped"}
    BY <1>0, <1>6, MirrorTypes DEF CommitReplay, WorkMirrors
  <2>2. work.applied = Len(journal)
    BY <2>1, MirrorTypes, ReplayedType
  <2> QED
    BY <1>0, <2>1, <2>2, MirrorTypes DEF IndexMirrors, WorkMirrors
<1>7. ASSUME DropNamespaces
      PROVE  IndexMirrors' /\ WorkMirrors'
  BY <1>0, <1>7, MirrorTypes DEF DropNamespaces, IndexMirrors, WorkMirrors, Index
<1>8. ASSUME ResetIndex
      PROVE  IndexMirrors' /\ WorkMirrors'
  <2>1. index' = EmptyIndex /\ work' = index' /\ cursor' = 1 /\ mode' = "rebuilding"
    BY <1>0, <1>8, MirrorTypes DEF ResetIndex, IndexMirrors, Index, EmptyIndex
  <2>2. ReplayedTo(upstream, 0) = EmptyIndex /\ EmptyIndex.applied = 0
    BY MirrorTypes, ReplayedSteps DEF EmptyIndex
  <2> QED
    BY <1>0, <2>1, <2>2, MirrorTypes DEF IndexMirrors, WorkMirrors
<1>9. ReplicaStore => Recovery \/ Rebuild \/ UNCHANGED <<index, work, cursor, mode>>
  BY <1>0 DEF ReplicaStore, Collect, StartPass, RemoveExpired, JournalCollected, FindOrphans, EndPass,
     DropExpired, SkipReferenced, RemoveOrphan, FailPass, KillRebuild, Tick
<1> QED
  BY <1>1, <1>2, <1>3, <1>4, <1>5, <1>6, <1>7, <1>8, <1>9 DEF Recovery, Rebuild

\* What a secondary without a collector of its own serves is the primary's index
\* at the applied position, whole: bindings, counts and times. A transaction of
\* the index may fail, pulls may break off anywhere, the process may crash and be
\* rebuilt; only a rebuild killed between its two transactions is excluded.
THEOREM ReplicaMirrors ==
  ASSUME Interval = 0, "kill" \notin Environment
  PROVE  ReplicaSpec => []MirrorsPrimary
<1>1. ReplicaInit /\ CopyInv => MirrorInv
  <2> SUFFICES ASSUME ReplicaInit, CopyInv PROVE MirrorInv
    OBVIOUS
  <2>1. ReplayedTo(upstream, 0) = EmptyIndex
    BY ReplayedSteps DEF CopyInv, ReplicaTypeOK
  <2> QED
    BY <2>1 DEF ReplicaInit, Init, Waiting, EmptyIndex, MirrorInv, PageConsecutive, AppliesNext,
       IndexMirrors, WorkMirrors
<1>2. MirrorInv /\ CopyInv' /\ [ReplicaNext]_allVars => MirrorInv'
  <2>1. CASE UNCHANGED allVars
    BY <2>1 DEF allVars, vars, primary, disk, replay, MirrorInv, PageConsecutive, AppliesNext,
       IndexMirrors, WorkMirrors
  <2> QED
    BY <2>1, MirrorPrimary, MirrorFetch, MirrorApply, MirrorStore DEF ReplicaNext, Pull, MirrorInv
<1>3. MirrorInv => MirrorsPrimary
  <2> SUFFICES ASSUME MirrorInv, mode = "serving"
               PROVE  index.applied <= Len(upstream) /\ index = ReplayedTo(upstream, index.applied)
    BY DEF MirrorsPrimary, ReplayedTo
  <2> QED
    BY MirrorTypes DEF MirrorInv, IndexMirrors
<1> QED
  BY <1>1, <1>2, <1>3, CopyInvariant, PTL DEF ReplicaSpec

-----------------------------------------------------------------------------
(***************************************************************************)
(* Uploads: the requests under way and the parts that were acknowledged.   *)
(* While no two requests work on one upload, the record a request loaded   *)
(* stays the record of the upload until the request saves or deletes it.   *)
(***************************************************************************)
Storing == {"loaded", "stored", "held", "released"}

\* What a busy request knows of its upload (UploadPart, CompleteUpload).
RequestKnows(c) ==
  LET m == mp[c] IN
  m.pc # "idle" =>
    /\ m.upload \in Uploads
    /\ uploads[m.upload].status = "open"
    /\ m.parts = uploads[m.upload].parts
    /\ m.pc \in Storing => m.number \in Numbers
    /\ m.pc \in Storing \ {"loaded"} => m.hash \in Hashes
    /\ m.pc = "released" => m.parts[m.number] # None
    /\ m.pc \notin Storing => m.todo \subseteq Held(m.parts)
    /\ m.pc = "listed" => m.todo # {}

RequestsApart ==
  \A c, d \in Clients :
    mp[c].pc # "idle" /\ mp[d].pc # "idle" /\ mp[c].upload = mp[d].upload => c = d

UploadsInv ==
  /\ MultipartTypeOK
  /\ \A c \in Clients : RequestKnows(c)
  /\ RequestsApart
  /\ \A u \in Uploads : uploads[u].status # "open" => acked[u] = NoParts
  /\ AckedPartKept

\* The records the model writes are well typed.
LEMMA UploadTypes ==
  /\ NoParts \in [Numbers -> Hashes \cup {None}]
  /\ IdlePart \in MultipartState
  /\ Absent.status = "new" /\ Gone.status = "gone"
  /\ Absent.parts = NoParts /\ Gone.parts = NoParts
  /\ \A u \in {Absent, Gone} \cup OpenUpload :
       /\ u.parts \in [Numbers -> Hashes \cup {None}]
       /\ u.status = "open" <=> u \in OpenUpload
       /\ u.status # "open" => u.parts = NoParts
BY DEF NoParts, IdlePart, MultipartState, Absent, Gone, OpenUpload

\* An upload nobody sent a part to is well typed (loadUpload before CreateUpload).
LEMMA UploadsInit == MultipartInit => UploadsInv
<1> SUFFICES ASSUME MultipartInit PROVE UploadsInv
  OBVIOUS
<1>1. TypeOK
  BY StoreTypeOKInit DEF MultipartInit
<1>2. MultipartTypeOK
  BY <1>1, UploadTypes DEF MultipartInit, MultipartTypeOK
<1> QED
  BY <1>2, UploadTypes DEF MultipartInit, UploadsInv, RequestKnows, RequestsApart, AckedPartKept,
     IdlePart, NoParts

\* The store's own steps keep the types, and leave the uploads alone.
LEMMA StoreStepTypes ==
  ASSUME MultipartTypeOK, StoreStep \/ TickAll
  PROVE  MultipartTypeOK'
<1>1. TypeOK'
  BY RequestType, CollectType, ProcessType DEF MultipartTypeOK, StoreStep, TickAll, Continue
<1> QED
  BY <1>1 DEF MultipartTypeOK, StoreStep, TickAll, multi

\* A crash and a rebuild keep the types (Recover, rebuildIndex).
LEMMA ProcessStepTypes ==
  ASSUME MultipartTypeOK, CrashAll \/ RebuildAll
  PROVE  MultipartTypeOK'
<1>1. TypeOK'
  BY ProcessType DEF MultipartTypeOK, CrashAll, RebuildAll, Rebuild
<1>2. CASE CrashAll
  <2>1. mp' \in [Clients -> MultipartState]
    BY <1>2, UploadTypes DEF CrashAll
  <2> QED
    BY <1>1, <1>2, <2>1 DEF CrashAll, MultipartTypeOK
<1>3. CASE RebuildAll
  BY <1>1, <1>3 DEF RebuildAll, MultipartTypeOK, multi
<1> QED
  BY <1>2, <1>3

\* A transaction that moves a reference keeps the store well typed (releaseBlob).
LEMMA MoveRefType ==
  ASSUME TypeOK, NEW h \in Hashes, NEW d \in Int, MoveRef(h, d),
         UNCHANGED <<journal, disk, mode, replay, handler, gc, sent, clock>>
  PROVE  /\ TypeOK'
         /\ index'.keys = index.keys
         /\ index'.refs = AdjustRef(index.refs, h, d, clock)
<1>1. index.refs \in [Hashes -> Ref] /\ clock \in Int
  BY DEF TypeOK, Index
<1>2. AdjustRef(index.refs, h, d, clock) \in [Hashes -> Ref]
  BY <1>1, AdjustRefType
<1>3. index' = [index EXCEPT !.refs = AdjustRef(index.refs, h, d, clock)]
  BY DEF MoveRef
<1>4. /\ index' \in Index
      /\ index'.keys = index.keys
      /\ index'.refs = AdjustRef(index.refs, h, d, clock)
  BY <1>2, <1>3 DEF TypeOK, Index
<1> QED
  BY <1>4 DEF TypeOK, disk, replay

\* Writing a request's own record keeps it a record (UploadPart, CompleteUpload).
LEMMA RequestRecord ==
  ASSUME MultipartTypeOK, NEW c \in Clients
  PROVE  /\ mp[c] \in MultipartState
         /\ EndRequest(c) => mp' \in [Clients -> MultipartState] /\ mp'[c] = IdlePart
                             /\ \A d \in Clients \ {c} : mp'[d] = mp[d]
         /\ \A pc \in {"held", "released", "putting"} :
              Moves(c, pc) => /\ mp' \in [Clients -> MultipartState]
                              /\ mp'[c] = [mp[c] EXCEPT !.pc = pc]
                              /\ \A d \in Clients \ {c} : mp'[d] = mp[d]
<1>1. mp \in [Clients -> MultipartState] /\ mp[c] \in MultipartState
  BY DEF MultipartTypeOK
<1>2. \A pc \in {"held", "released", "putting"} : [mp[c] EXCEPT !.pc = pc] \in MultipartState
  BY <1>1 DEF MultipartState
<1>3. EndRequest(c) => mp' \in [Clients -> MultipartState] /\ mp'[c] = IdlePart
                       /\ \A d \in Clients \ {c} : mp'[d] = mp[d]
  BY <1>1, UploadTypes DEF EndRequest
<1>4. ASSUME NEW pc \in {"held", "released", "putting"}, Moves(c, pc)
      PROVE  /\ mp' \in [Clients -> MultipartState]
             /\ mp'[c] = [mp[c] EXCEPT !.pc = pc]
             /\ \A d \in Clients \ {c} : mp'[d] = mp[d]
  <2> DEFINE m == [mp[c] EXCEPT !.pc = pc]
  <2>1. mp' = [mp EXCEPT ![c] = m]
    BY <1>1, <1>4 DEF Moves
  <2>2. m \in MultipartState
    BY <1>2
  <2> HIDE DEF m
  <2>3. mp' \in [Clients -> MultipartState] /\ mp'[c] = m
        /\ \A d \in Clients \ {c} : mp'[d] = mp[d]
    BY <1>1, <2>1, <2>2
  <2> QED
    BY <2>3 DEF m
<1> QED
  BY <1>1, <1>3, <1>4

LoadedRecord(m, u) == [m EXCEPT !.upload = u, !.parts = uploads[u].parts, !.since = clock]

\* What a request that loads the record of an upload starts from (loadUpload).
LEMMA LoadRecord ==
  ASSUME UploadsInv, NEW c \in Clients, NEW u \in Uploads,
         NEW m \in MultipartState, Load(c, u, m), "parallel" \notin Mishaps
  PROVE  /\ uploads[u] \in OpenUpload
         /\ mp' \in [Clients -> MultipartState]
         /\ mp'[c] = LoadedRecord(m, u)
         /\ mp[c].pc = "idle"
         /\ \A d \in Clients : mp[d].upload # u
         /\ \A d \in Clients \ {c} : mp'[d] = mp[d]
<1>1. uploads[u] \in OpenUpload
  BY UploadTypes DEF Load, UploadsInv, MultipartTypeOK
<1>2. LoadedRecord(m, u) \in MultipartState
  <2>1. clock \in Nat
    BY DEF UploadsInv, MultipartTypeOK, TypeOK
  <2>2. uploads[u].parts \in [Numbers -> Hashes \cup {None}]
    BY <1>1 DEF OpenUpload
  <2> QED
    BY <2>1, <2>2 DEF MultipartState, LoadedRecord
<1>3. mp \in [Clients -> MultipartState]
  BY DEF UploadsInv, MultipartTypeOK
<1>4. mp' = [mp EXCEPT ![c] = LoadedRecord(m, u)]
  BY DEF Load, LoadedRecord
<1> QED
  BY <1>1, <1>2, <1>3, <1>4 DEF Load, Free

\* A loading request is the only one on its upload, so it changes nothing that
\* the others know.
LEMMA LoadKeeps ==
  ASSUME UploadsInv, NEW c \in Clients, NEW u \in Uploads,
         NEW m \in MultipartState, Load(c, u, m), "parallel" \notin Mishaps,
         UNCHANGED <<vars, uploads, acked>>,
         m.pc \in {"loaded", "listed", "discarding"},
         m.pc = "loaded" => m.number \in Numbers,
         m.pc # "loaded" => m.todo \subseteq Held(uploads[u].parts),
         m.pc = "listed" => m.todo # {}
  PROVE  UploadsInv'
<1>1. /\ uploads[u] \in OpenUpload
      /\ mp' \in [Clients -> MultipartState]
      /\ mp'[c] = LoadedRecord(m, u)
      /\ mp[c].pc = "idle"
      /\ \A d \in Clients : mp[d].upload # u
      /\ \A d \in Clients \ {c} : mp'[d] = mp[d]
  BY LoadRecord
<1>2. TypeOK'
  BY DEF UploadsInv, MultipartTypeOK, TypeOK, vars, disk, replay
<1>3. MultipartTypeOK'
  BY <1>1, <1>2 DEF UploadsInv, MultipartTypeOK
<1>4. /\ mp'[c].upload = u /\ mp'[c].pc = m.pc /\ mp'[c].number = m.number
      /\ mp'[c].parts = uploads[u].parts /\ mp'[c].todo = m.todo
  BY <1>1 DEF MultipartState, LoadedRecord
<1>5. uploads[u].status = "open"
  BY <1>1 DEF OpenUpload
<1>6. RequestKnows(c)'
  BY <1>4, <1>5 DEF RequestKnows, Storing, Held
<1>7. \A d \in Clients \ {c} : RequestKnows(d)'
  BY <1>1 DEF UploadsInv, RequestKnows, Held
<1>8. RequestsApart'
  <2> SUFFICES ASSUME NEW d \in Clients, NEW e \in Clients, mp'[d].pc # "idle",
                      mp'[e].pc # "idle", mp'[d].upload = mp'[e].upload
               PROVE  d = e
    BY DEF RequestsApart
  <2>1. mp'[c].upload = u /\ \A x \in Clients \ {c} : mp'[x] = mp[x] /\ mp[x].upload # u
    BY <1>1, <1>4
  <2> QED
    BY <2>1 DEF UploadsInv, RequestsApart
<1>9. AckedPartKept' /\ \A v \in Uploads : uploads'[v].status # "open" => acked'[v] = NoParts
  <2>1. uploads' = uploads /\ acked' = acked
    OBVIOUS
  <2> QED
    BY <2>1 DEF UploadsInv, AckedPartKept
<1> QED
  BY <1>3, <1>6, <1>7, <1>8, <1>9 DEF UploadsInv

\* A request that goes on with its own record, or ends, leaves what the others
\* know and what was acknowledged alone.
LEMMA GoesOn ==
  ASSUME UploadsInv, NEW c \in Clients, MultipartTypeOK',
         uploads' = uploads, acked' = acked,
         \A d \in Clients \ {c} : mp'[d] = mp[d],
         mp'[c].pc # "idle" => mp[c].pc # "idle" /\ mp'[c].upload = mp[c].upload,
         RequestKnows(c)'
  PROVE  UploadsInv'
<1>1. \A d \in Clients : RequestKnows(d)'
  BY DEF UploadsInv, RequestKnows, Held
<1>2. RequestsApart'
  <2> SUFFICES ASSUME NEW d \in Clients, NEW e \in Clients, mp'[d].pc # "idle",
                      mp'[e].pc # "idle", mp'[d].upload = mp'[e].upload
               PROVE  d = e
    BY DEF RequestsApart
  <2>1. \A x \in Clients : mp'[x].pc # "idle" =>
          mp[x].pc # "idle" /\ mp'[x].upload = mp[x].upload
    OBVIOUS
  <2> QED
    BY <2>1 DEF UploadsInv, RequestsApart
<1>3. AckedPartKept' /\ \A u \in Uploads : uploads'[u].status # "open" => acked'[u] = NoParts
  BY DEF UploadsInv, AckedPartKept
<1> QED
  BY <1>1, <1>2, <1>3 DEF UploadsInv

\* A request that is over knows nothing.
LEMMA OverKnows ==
  ASSUME NEW c \in Clients, mp'[c] = IdlePart
  PROVE  RequestKnows(c)'
BY DEF RequestKnows, IdlePart

\* The fields of a busy request (UploadPart, CompleteUpload, discardUpload).
LEMMA RequestFields ==
  ASSUME UploadsInv, NEW c \in Clients, mp[c].pc # "idle"
  PROVE  /\ mp[c].upload \in Uploads
         /\ uploads[mp[c].upload] \in OpenUpload
         /\ mp[c].parts = uploads[mp[c].upload].parts
         /\ mp[c].parts \in [Numbers -> Hashes \cup {None}]
         /\ mp[c].todo \subseteq Numbers
         /\ mp[c].since \in Nat
         /\ mp[c].pc \in Storing => mp[c].number \in Numbers
         /\ mp[c].pc \in Storing \ {"loaded"} => mp[c].hash \in Hashes
         /\ mp[c].pc \in Storing => Replaced(c) \in Hashes \cup {None}
         /\ mp[c].pc = "released" => Replaced(c) # None
         /\ mp[c].pc \notin Storing =>
              mp[c].todo \subseteq Held(mp[c].parts) /\ \A n \in mp[c].todo : mp[c].parts[n] \in Hashes
         /\ mp[c].pc = "listed" => mp[c].todo # {}
<1>1. RequestKnows(c) /\ mp[c] \in MultipartState
  BY DEF UploadsInv, MultipartTypeOK
<1>2. uploads[mp[c].upload] \in OpenUpload
  BY <1>1, UploadTypes DEF UploadsInv, MultipartTypeOK, RequestKnows
<1>3. /\ mp[c].parts \in [Numbers -> Hashes \cup {None}]
      /\ mp[c].todo \subseteq Numbers /\ mp[c].since \in Nat
  BY <1>1 DEF MultipartState
<1> QED
  BY <1>1, <1>2, <1>3 DEF RequestKnows, Replaced, Held

\* A part is acknowledged when the record that names it is saved; nobody else
\* works on that upload (UploadPart).
LEMMA SaveKeeps ==
  ASSUME UploadsInv, NEW c \in Clients, SavePart(c)
  PROVE  /\ UploadsInv'
         /\ uploads'[mp[c].upload].parts = [mp[c].parts EXCEPT ![mp[c].number] = mp[c].hash]
         /\ \A u \in Uploads \ {mp[c].upload} : uploads'[u] = uploads[u]
<1> DEFINE m == mp[c]
           u == m.upload
           saved == [m.parts EXCEPT ![m.number] = m.hash]
<1>1. m.pc \in {"held", "released"}
  BY DEF SavePart
<1>2. /\ u \in Uploads /\ uploads[u] \in OpenUpload /\ m.parts = uploads[u].parts
      /\ m.parts \in [Numbers -> Hashes \cup {None}]
      /\ m.number \in Numbers /\ m.hash \in Hashes
  BY <1>1, RequestFields DEF Storing
<1>3. saved \in [Numbers -> Hashes \cup {None}]
  BY <1>2
<1>4. /\ mp' \in [Clients -> MultipartState] /\ mp'[c] = IdlePart
      /\ \A d \in Clients \ {c} : mp'[d] = mp[d]
  BY RequestRecord DEF SavePart, UploadsInv
<1>5. TypeOK'
  BY DEF SavePart, UploadsInv, MultipartTypeOK, TypeOK, vars, disk, replay
<1>6. /\ uploads' = [uploads EXCEPT ![u].status = "open", ![u].parts = saved]
      /\ acked' = [acked EXCEPT ![u][m.number] = m.hash]
     
  BY DEF SavePart
<1> HIDE DEF saved
<1>7. uploads'[u] = [uploads[u] EXCEPT !.status = "open", !.parts = saved]
      /\ \A v \in Uploads \ {u} : uploads'[v] = uploads[v]
  BY <1>2, <1>6 DEF UploadsInv, MultipartTypeOK
<1>8. uploads'[u] \in OpenUpload /\ uploads'[u].parts = saved
  BY <1>2, <1>3, <1>7 DEF OpenUpload
<1>9. uploads' \in [Uploads -> {Absent, Gone} \cup OpenUpload]
  BY <1>6, <1>7, <1>8 DEF UploadsInv, MultipartTypeOK
<1>10. /\ acked'[u] = [acked[u] EXCEPT ![m.number] = m.hash]
       /\ \A v \in Uploads \ {u} : acked'[v] = acked[v]
       /\ acked' \in [Uploads -> [Numbers -> Hashes \cup {None}]]
  BY <1>2, <1>6 DEF UploadsInv, MultipartTypeOK
<1>11. MultipartTypeOK'
  BY <1>4, <1>5, <1>6, <1>9, <1>10 DEF MultipartTypeOK, UploadsInv
<1>12. \A d \in Clients \ {c} : mp[d].pc # "idle" => mp[d].upload # u
  BY <1>1 DEF UploadsInv, RequestsApart
<1>13. \A d \in Clients : RequestKnows(d)'
  <2>1. RequestKnows(c)'
    BY <1>4, OverKnows
  <2>2. ASSUME NEW d \in Clients \ {c}  PROVE RequestKnows(d)'
    <3>1. mp'[d] = mp[d] /\ RequestKnows(d)
      BY <1>4 DEF UploadsInv
    <3>2. mp[d].pc # "idle" => uploads'[mp[d].upload] = uploads[mp[d].upload]
      BY <1>7, <1>12, <3>1 DEF RequestKnows
    <3> QED
      BY <3>1, <3>2 DEF RequestKnows, Held
  <2> QED
    BY <2>1, <2>2
<1>14. RequestsApart'
  BY <1>4 DEF UploadsInv, RequestsApart, IdlePart
<1>15. AckedPartKept'
  <2> SUFFICES ASSUME NEW v \in Uploads, NEW n \in Numbers,
                      uploads'[v].status = "open", acked'[v][n] # None
               PROVE  uploads'[v].parts[n] = acked'[v][n]
    BY DEF AckedPartKept
  <2>1. CASE v # u
    BY <1>7, <1>10, <2>1 DEF UploadsInv, AckedPartKept
  <2>2. CASE v = u
    <3>1. acked[u][n] # None => uploads[u].parts[n] = acked[u][n]
      BY <1>2 DEF UploadsInv, AckedPartKept, OpenUpload
    <3>2. acked[u] \in [Numbers -> Hashes \cup {None}]
      BY <1>2 DEF UploadsInv, MultipartTypeOK
    <3> QED
      BY <1>2, <1>8, <1>10, <2>2, <3>1, <3>2 DEF saved
  <2> QED
    BY <2>1, <2>2
<1>16. \A v \in Uploads : uploads'[v].status # "open" => acked'[v] = NoParts
  <2>1. uploads'[u].status = "open"
    BY <1>8 DEF OpenUpload
  <2> QED
    BY <1>7, <1>10, <2>1 DEF UploadsInv
<1>17. UploadsInv'
  BY <1>11, <1>13, <1>14, <1>15, <1>16 DEF UploadsInv
<1> QED
  BY <1>7, <1>8, <1>17 DEF saved

\* An upload that is over takes its acknowledgements with it (discardUpload).
LEMMA DeleteKeeps ==
  ASSUME UploadsInv, NEW c \in Clients, DeleteUpload(c)
  PROVE  /\ UploadsInv'
         /\ uploads'[mp[c].upload] = Gone
         /\ \A u \in Uploads \ {mp[c].upload} : uploads'[u] = uploads[u]
<1> DEFINE u == mp[c].upload
<1>1. mp[c].pc = "discarding" /\ u \in Uploads
  BY RequestFields DEF DeleteUpload
<1>2. /\ mp' \in [Clients -> MultipartState] /\ mp'[c] = IdlePart
      /\ \A d \in Clients \ {c} : mp'[d] = mp[d]
  BY RequestRecord DEF DeleteUpload, UploadsInv
<1>3. TypeOK'
  BY DEF DeleteUpload, UploadsInv, MultipartTypeOK, TypeOK, vars, disk, replay
<1>4. /\ uploads' = [uploads EXCEPT ![u] = Gone]
      /\ acked' = [acked EXCEPT ![u] = NoParts]
     
  BY DEF DeleteUpload
<1>5. /\ uploads'[u] = Gone /\ \A v \in Uploads \ {u} : uploads'[v] = uploads[v]
      /\ uploads' \in [Uploads -> {Absent, Gone} \cup OpenUpload]
  BY <1>1, <1>4 DEF UploadsInv, MultipartTypeOK
<1>6. /\ acked'[u] = NoParts /\ \A v \in Uploads \ {u} : acked'[v] = acked[v]
      /\ acked' \in [Uploads -> [Numbers -> Hashes \cup {None}]]
  BY <1>1, <1>4, UploadTypes DEF UploadsInv, MultipartTypeOK
<1>7. MultipartTypeOK'
  BY <1>2, <1>3, <1>4, <1>5, <1>6 DEF MultipartTypeOK, UploadsInv
<1>8. \A d \in Clients \ {c} : mp[d].pc # "idle" => mp[d].upload # u
  BY <1>1 DEF UploadsInv, RequestsApart
<1>9. \A d \in Clients : RequestKnows(d)'
  <2>1. RequestKnows(c)'
    BY <1>2, OverKnows
  <2>2. ASSUME NEW d \in Clients \ {c}  PROVE RequestKnows(d)'
    <3>1. mp'[d] = mp[d] /\ RequestKnows(d)
      BY <1>2 DEF UploadsInv
    <3>2. mp[d].pc # "idle" => uploads'[mp[d].upload] = uploads[mp[d].upload]
      BY <1>5, <1>8, <3>1 DEF RequestKnows
    <3> QED
      BY <3>1, <3>2 DEF RequestKnows, Held
  <2> QED
    BY <2>1, <2>2
<1>10. RequestsApart'
  BY <1>2 DEF UploadsInv, RequestsApart, IdlePart
<1>11. AckedPartKept'
  BY <1>5, <1>6, UploadTypes DEF UploadsInv, AckedPartKept
<1>12. \A v \in Uploads : uploads'[v].status # "open" => acked'[v] = NoParts
  BY <1>5, <1>6 DEF UploadsInv
<1>13. UploadsInv'
  BY <1>7, <1>9, <1>10, <1>11, <1>12 DEF UploadsInv
<1> QED
  BY <1>5, <1>13

\* An upload that is created has no part yet, and nobody works on it (CreateUpload).
LEMMA CreateKeeps ==
  ASSUME UploadsInv, NEW c \in Clients, NEW u \in Uploads, NEW k \in Keys,
         CreateUpload(c, u, k)
  PROVE  /\ UploadsInv'
         /\ \A v \in Uploads : uploads'[v].parts = uploads[v].parts
<1> DEFINE new == [status |-> "open", key |-> k, parts |-> NoParts]
<1>1. new \in OpenUpload /\ new.status = "open" /\ new.parts = NoParts
  BY UploadTypes DEF OpenUpload
<1>2. TypeOK'
  BY DEF CreateUpload, UploadsInv, MultipartTypeOK, TypeOK, vars, disk, replay
<1>3. uploads[u] = Absent /\ uploads' = [uploads EXCEPT ![u] = new]
      /\ mp' = mp /\ acked' = acked
  BY DEF CreateUpload
<1> HIDE DEF new
<1>4. /\ uploads'[u] = new /\ \A v \in Uploads \ {u} : uploads'[v] = uploads[v]
      /\ uploads' \in [Uploads -> {Absent, Gone} \cup OpenUpload]
  BY <1>1, <1>3 DEF UploadsInv, MultipartTypeOK
<1>5. MultipartTypeOK'
  BY <1>2, <1>3, <1>4 DEF MultipartTypeOK, UploadsInv
<1>6. uploads[u].status # "open" /\ acked[u] = NoParts
  BY <1>3, UploadTypes DEF UploadsInv
<1>7. \A d \in Clients : RequestKnows(d)'
  <2> TAKE d \in Clients
  <2>1. mp[d].pc # "idle" => mp[d].upload # u
    BY <1>6 DEF UploadsInv, RequestKnows
  <2>2. mp[d].pc # "idle" => uploads'[mp[d].upload] = uploads[mp[d].upload]
    BY <1>4, <2>1 DEF UploadsInv, RequestKnows
  <2> QED
    BY <1>3, <2>2 DEF UploadsInv, RequestKnows, Held
<1>8. RequestsApart'
  BY <1>3 DEF UploadsInv, RequestsApart
<1>9. AckedPartKept'
  BY <1>3, <1>4, <1>6 DEF UploadsInv, AckedPartKept, NoParts
<1>10. \A v \in Uploads : uploads'[v].status # "open" => acked'[v] = NoParts
  BY <1>1, <1>3, <1>4 DEF UploadsInv
<1>11. UploadsInv'
  BY <1>5, <1>7, <1>8, <1>9, <1>10 DEF UploadsInv
<1>12. \A v \in Uploads : uploads'[v].parts = uploads[v].parts
  BY <1>1, <1>3, <1>4, UploadTypes
<1> QED
  BY <1>11, <1>12

\* The steps of a request that leave the store alone (loadUpload, UploadPart).
LEMMA LoadSteps ==
  ASSUME UploadsInv, "parallel" \notin Mishaps, NEW c \in Clients, NEW u \in Uploads,
         \/ \E n \in Numbers : BeginPart(c, u, n)
         \/ \E list \in (SUBSET Numbers) \ {{}} : BeginComplete(c, u, list)
         \/ BeginAbort(c, u)
  PROVE  UploadsInv'
<1>1. IdlePart \in MultipartState /\ IdlePart.todo = {}
  BY UploadTypes DEF IdlePart
<1>2. ASSUME NEW n \in Numbers, BeginPart(c, u, n)  PROVE UploadsInv'
  <2> DEFINE m == [IdlePart EXCEPT !.pc = "loaded", !.number = n]
  <2>1. m \in MultipartState /\ m.pc = "loaded" /\ m.number = n
    BY <1>1 DEF MultipartState
  <2>2. Load(c, u, m) /\ UNCHANGED <<vars, uploads, acked>>
    BY <1>2, Zenon DEF BeginPart
  <2> HIDE DEF m
  <2> QED
    BY <2>1, <2>2, LoadKeeps
<1>3. ASSUME NEW list \in (SUBSET Numbers) \ {{}}, BeginComplete(c, u, list)  PROVE UploadsInv'
  <2> DEFINE m == [IdlePart EXCEPT !.pc = "listed", !.todo = list]
  <2>1. m \in MultipartState /\ m.pc = "listed" /\ m.todo = list
    BY <1>1 DEF MultipartState
  <2>2. Load(c, u, m) /\ UNCHANGED <<vars, uploads, acked>>
    BY <1>3, Zenon DEF BeginComplete
  <2>3. list \subseteq Held(uploads[u].parts) /\ list # {}
    <3>1. list \subseteq Numbers /\ list # {}
      OBVIOUS
    <3>2. \A n \in list : uploads[u].parts[n] # None
      BY <1>3, Zenon DEF BeginComplete
    <3> QED
      BY <3>1, <3>2 DEF Held
  <2> HIDE DEF m
  <2> QED
    BY <2>1, <2>2, <2>3, LoadKeeps
<1>4. ASSUME BeginAbort(c, u)  PROVE UploadsInv'
  <2> DEFINE m == [IdlePart EXCEPT !.pc = "discarding", !.todo = Held(uploads[u].parts)]
  <2>1. m \in MultipartState /\ m.pc = "discarding" /\ m.todo = Held(uploads[u].parts)
    BY <1>1 DEF MultipartState, Held
  <2>2. Load(c, u, m) /\ UNCHANGED <<vars, uploads, acked>>
    BY <1>4, Zenon DEF BeginAbort
  <2> HIDE DEF m
  <2> QED
    BY <2>1, <2>2, LoadKeeps
<1> QED
  BY <1>2, <1>3, <1>4

\* A part's blob is stored, referenced, and the replaced one released; a request
\* may fail or be refused on the way (UploadPart).
LEMMA PartSteps ==
  ASSUME UploadsInv, NEW c \in Clients,
         \/ \E h \in Hashes \ {Whole} : PutPart(c, h)
         \/ RefusePart(c) \/ FailDiscard(c) \/ HoldPart(c) \/ ReleaseReplaced(c)
  PROVE  UploadsInv'
<1>0. MultipartTypeOK /\ TypeOK /\ RequestKnows(c)
      /\ mp \in [Clients -> MultipartState] /\ mp[c] \in MultipartState
  BY DEF UploadsInv, MultipartTypeOK
<1>1. ASSUME NEW h \in Hashes, PutPart(c, h)  PROVE UploadsInv'
  <2> DEFINE m == [mp[c] EXCEPT !.pc = "stored", !.hash = h]
  <2>1. mp' = [mp EXCEPT ![c] = m]
    BY <1>0, <1>1 DEF PutPart
  <2>2. /\ m \in MultipartState /\ m.pc = "stored" /\ m.hash = h /\ m.upload = mp[c].upload
        /\ m.parts = mp[c].parts /\ m.number = mp[c].number
    BY <1>0 DEF MultipartState
  <2> HIDE DEF m
  <2>3. /\ mp' \in [Clients -> MultipartState] /\ mp'[c] = m
        /\ \A d \in Clients \ {c} : mp'[d] = mp[d]
    BY <1>0, <2>1, <2>2
  <2>4. /\ mp[c].pc = "loaded" /\ uploads' = uploads /\ acked' = acked
        /\ stored' \subseteq Hashes /\ mtime' \in [Hashes -> Nat] /\ sent' \subseteq Hashes
        /\ UNCHANGED <<journal, index, mode, work, cursor, handler, gc, clock>>
    BY <1>0, <1>1 DEF PutPart, PutBlob, replay, TypeOK
  <2>5. TypeOK'
    BY <1>0, <2>4 DEF TypeOK
  <2>6. MultipartTypeOK'
    BY <1>0, <2>3, <2>4, <2>5 DEF MultipartTypeOK
  <2>7. RequestKnows(c)'
    BY <1>0, <2>2, <2>3, <2>4 DEF RequestKnows, Storing
  <2> QED
    BY <2>2, <2>3, <2>4, <2>6, <2>7, GoesOn
<1>2. CASE RefusePart(c) \/ FailDiscard(c)
  <2>1. /\ mp' \in [Clients -> MultipartState] /\ mp'[c] = IdlePart
        /\ \A d \in Clients \ {c} : mp'[d] = mp[d]
    BY <1>0, <1>2, RequestRecord DEF RefusePart, FailDiscard
  <2>2. uploads' = uploads /\ acked' = acked /\ vars' = vars
    BY <1>2 DEF RefusePart, FailDiscard
  <2>4. TypeOK'
    BY <1>0, <2>2 DEF TypeOK, vars, disk, replay
  <2>5. MultipartTypeOK'
    BY <1>0, <2>1, <2>2, <2>4 DEF MultipartTypeOK
  <2>6. RequestKnows(c)' /\ mp'[c].pc = "idle"
    BY <2>1, OverKnows DEF IdlePart
  <2> QED
    BY <2>1, <2>2, <2>5, <2>6, GoesOn
<1>3. ASSUME NEW pc \in {"held", "released"}, Moves(c, pc), TypeOK',
             mp[c].pc \in {"stored", "held"}, pc = "released" => Replaced(c) # None,
             uploads' = uploads, acked' = acked
      PROVE  UploadsInv'
  <2>1. /\ mp' \in [Clients -> MultipartState] /\ mp'[c] = [mp[c] EXCEPT !.pc = pc]
        /\ \A d \in Clients \ {c} : mp'[d] = mp[d]
    BY <1>0, <1>3, RequestRecord
  <2>2. /\ mp'[c].pc = pc /\ mp'[c].upload = mp[c].upload /\ mp'[c].parts = mp[c].parts
        /\ mp'[c].number = mp[c].number /\ mp'[c].hash = mp[c].hash
    BY <1>0, <2>1 DEF MultipartState
  <2>3. MultipartTypeOK'
    BY <1>0, <1>3, <2>1 DEF MultipartTypeOK
  <2>4. RequestKnows(c)'
    BY <1>0, <1>3, <2>2 DEF RequestKnows, Storing, Replaced
  <2> QED
    BY <1>3, <2>1, <2>2, <2>3, <2>4, GoesOn
<1>4. CASE HoldPart(c)
  <2>1. mp[c].hash \in Hashes /\ mp[c].pc = "stored"
    BY <1>0, <1>4 DEF HoldPart, RequestKnows, Storing
  <2>2. TypeOK'
    BY <1>0, <1>4, <2>1, MoveRefType DEF HoldPart
  <2> QED
    BY <1>3, <1>4, <2>1, <2>2 DEF HoldPart
<1>5. CASE ReleaseReplaced(c)
  <2>1. Replaced(c) \in Hashes /\ mp[c].pc = "held" /\ Replaced(c) # None /\ -1 \in Int
    BY <1>5, RequestFields DEF ReleaseReplaced, Storing
  <2>2. TypeOK'
    BY <1>0, <1>5, <2>1, MoveRefType DEF ReleaseReplaced
  <2> QED
    BY <1>3, <1>5, <2>1, <2>2 DEF ReleaseReplaced
<1> QED
  BY <1>1, <1>2, <1>4, <1>5

\* The first part of a completion that lists one part is that part (CompleteUpload).
LEMMA AssembledType ==
  ASSUME UploadsInv, NEW c \in Clients, mp[c].pc = "listed"
  PROVE  /\ Assembled(mp[c]) \in Hashes
         /\ uploads[mp[c].upload].key \in Keys
<1>1. /\ mp[c].todo # {} /\ \A n \in mp[c].todo : mp[c].parts[n] \in Hashes
      /\ uploads[mp[c].upload] \in OpenUpload
  BY RequestFields DEF Storing
<1> QED
  BY <1>1, WholeAssumption DEF Assembled, OpenUpload

\* A completion puts its object and then gives its parts back, and an upload
\* that is discarded gives them back one by one (CompleteUpload, discardUpload).
LEMMA CompletionSteps ==
  ASSUME UploadsInv, NEW c \in Clients,
         \/ PutAssembled(c) \/ CommitObject(c) \/ RefuseObject(c)
         \/ \E n \in Numbers : ReleasePart(c, n)
  PROVE  UploadsInv'
<1>0. MultipartTypeOK /\ TypeOK /\ RequestKnows(c)
      /\ mp \in [Clients -> MultipartState] /\ mp[c] \in MultipartState
  BY DEF UploadsInv, MultipartTypeOK
<1>1. CASE PutAssembled(c)
  <2> DEFINE k == uploads[mp[c].upload].key
  <2>1. mp[c].pc = "listed" /\ k \in Keys /\ Assembled(mp[c]) \in Hashes
    BY <1>1, AssembledType DEF PutAssembled
  <2>2. /\ mp' \in [Clients -> MultipartState] /\ mp'[c] = [mp[c] EXCEPT !.pc = "putting"]
        /\ \A d \in Clients \ {c} : mp'[d] = mp[d]
    BY <1>0, <1>1, RequestRecord DEF PutAssembled
  <2>3. /\ mp'[c].pc = "putting" /\ mp'[c].upload = mp[c].upload
        /\ mp'[c].parts = mp[c].parts /\ mp'[c].todo = mp[c].todo
    BY <1>0, <2>2 DEF MultipartState
  <2>4. handler' \in [Clients -> HandlerState]
    <3>1. Becomes(c, "stored", k, Assembled(mp[c]), 0)
      BY <1>1 DEF PutAssembled
    <3> QED
      BY <1>0, <2>1, <3>1, HandlerType
  <2>5. /\ uploads' = uploads /\ acked' = acked
        /\ stored' \subseteq Hashes /\ mtime' \in [Hashes -> Nat] /\ sent' \subseteq Hashes
        /\ UNCHANGED <<journal, index, mode, work, cursor, gc, clock>>
    <3> HIDE DEF k
    <3> DEFINE h == Assembled(mp[c])
    <3>1. PutBlob(h)
      BY <1>1 DEF PutAssembled
    <3> HIDE DEF h
    <3> QED
      BY <1>0, <1>1, <2>1, <3>1 DEF PutAssembled, PutBlob, replay, TypeOK, h
  <2>6. TypeOK'
    BY <1>0, <2>4, <2>5 DEF TypeOK
  <2>7. MultipartTypeOK'
    BY <1>0, <2>2, <2>5, <2>6 DEF MultipartTypeOK
  <2>8. RequestKnows(c)'
    BY <1>0, <2>1, <2>3, <2>5 DEF RequestKnows, Storing, Held
  <2> QED
    BY <2>1, <2>2, <2>3, <2>5, <2>7, <2>8, GoesOn
<1>2. CASE CommitObject(c)
  <2>1. TypeOK'
    BY <1>0, <1>2, RequestType DEF CommitObject, Continue
  <2>2. uploads' = uploads /\ acked' = acked
    BY <1>2 DEF CommitObject
  <2>3. CASE mp[c].pc # "putting"
    <3>1. mp' = mp
      BY <1>2, <2>3 DEF CommitObject
    <3>2. MultipartTypeOK' /\ RequestKnows(c)'
      BY <1>0, <2>1, <2>2, <3>1 DEF MultipartTypeOK, RequestKnows, Held
    <3> QED
      BY <2>2, <3>1, <3>2, GoesOn
  <2>4. CASE mp[c].pc = "putting"
    <3> DEFINE m == [mp[c] EXCEPT !.pc = "discarding", !.todo = Held(mp[c].parts)]
    <3>1. mp' = [mp EXCEPT ![c] = m]
      BY <1>0, <1>2, <2>4 DEF CommitObject, Discard
    <3>2. /\ m \in MultipartState /\ m.pc = "discarding" /\ m.upload = mp[c].upload
          /\ m.parts = mp[c].parts /\ m.todo = Held(mp[c].parts)
      BY <1>0 DEF MultipartState, Held
    <3> HIDE DEF m
    <3>3. /\ mp' \in [Clients -> MultipartState] /\ mp'[c] = m
          /\ \A d \in Clients \ {c} : mp'[d] = mp[d]
      BY <1>0, <3>1, <3>2
    <3>4. MultipartTypeOK'
      BY <1>0, <2>1, <2>2, <3>3 DEF MultipartTypeOK
    <3>5. RequestKnows(c)'
      BY <1>0, <2>2, <2>4, <3>2, <3>3 DEF RequestKnows, Storing, Held
    <3> QED
      BY <2>2, <2>4, <3>2, <3>3, <3>4, <3>5, GoesOn
  <2> QED
    BY <2>3, <2>4
<1>3. CASE RefuseObject(c)
  <2>1. TypeOK'
    BY <1>0, <1>3, RequestType DEF RefuseObject, Continue
  <2>2. uploads' = uploads /\ acked' = acked
    BY <1>3 DEF RefuseObject
  <2>3. CASE mp[c].pc # "putting"
    <3>1. mp' = mp
      BY <1>3, <2>3 DEF RefuseObject
    <3>2. MultipartTypeOK' /\ RequestKnows(c)'
      BY <1>0, <2>1, <2>2, <3>1 DEF MultipartTypeOK, RequestKnows, Held
    <3> QED
      BY <2>2, <3>1, <3>2, GoesOn
  <2>4. CASE mp[c].pc = "putting"
    <3>1. /\ mp' \in [Clients -> MultipartState] /\ mp'[c] = IdlePart
          /\ \A d \in Clients \ {c} : mp'[d] = mp[d]
      BY <1>0, <1>3, <2>4, RequestRecord DEF RefuseObject
    <3>2. MultipartTypeOK'
      BY <1>0, <2>1, <2>2, <3>1 DEF MultipartTypeOK
    <3>3. RequestKnows(c)' /\ mp'[c].pc = "idle"
      BY <3>1, OverKnows DEF IdlePart
    <3> QED
      BY <2>2, <3>1, <3>2, <3>3, GoesOn
  <2> QED
    BY <2>3, <2>4
<1>4. ASSUME NEW n \in Numbers, ReleasePart(c, n)  PROVE UploadsInv'
  <2>1. /\ mp[c].pc = "discarding" /\ n \in mp[c].todo /\ mp[c].parts[n] \in Hashes
        /\ mp[c].todo \subseteq Held(mp[c].parts) /\ -1 \in Int
    BY <1>4, RequestFields DEF ReleasePart, Storing
  <2>2. TypeOK'
    BY <1>0, <1>4, <2>1, MoveRefType DEF ReleasePart
  <2> DEFINE m == [mp[c] EXCEPT !.todo = @ \ {n}]
  <2>3. mp' = [mp EXCEPT ![c] = m]
    BY <1>0, <1>4 DEF ReleasePart
  <2>4. /\ m \in MultipartState /\ m.pc = "discarding" /\ m.upload = mp[c].upload
        /\ m.parts = mp[c].parts /\ m.todo = mp[c].todo \ {n}
    BY <1>0, <2>1 DEF MultipartState
  <2> HIDE DEF m
  <2>5. /\ mp' \in [Clients -> MultipartState] /\ mp'[c] = m
        /\ \A d \in Clients \ {c} : mp'[d] = mp[d]
    BY <1>0, <2>3, <2>4
  <2>6. uploads' = uploads /\ acked' = acked
    BY <1>4 DEF ReleasePart
  <2>7. MultipartTypeOK'
    BY <1>0, <2>2, <2>5, <2>6 DEF MultipartTypeOK
  <2>8. RequestKnows(c)'
    BY <1>0, <2>1, <2>4, <2>5, <2>6 DEF RequestKnows, Storing, Held
  <2> QED
    BY <2>1, <2>4, <2>5, <2>6, <2>7, <2>8, GoesOn
<1> QED
  BY <1>1, <1>2, <1>3, <1>4

\* What a crash forgets and a rebuild drops is not what was acknowledged; the
\* store's own steps touch no upload (Recover, rebuildIndex).
LEMMA UnderneathSteps ==
  ASSUME UploadsInv, StoreStep \/ CrashAll \/ RebuildAll \/ TickAll
  PROVE  UploadsInv'
<1>1. MultipartTypeOK'
  BY StoreStepTypes, ProcessStepTypes DEF UploadsInv
<1>2. uploads' = uploads /\ acked' = acked
  BY DEF StoreStep, CrashAll, RebuildAll, TickAll, multi
<1>3. \A c \in Clients : mp'[c] = mp[c] \/ mp'[c] = IdlePart
  BY DEF StoreStep, CrashAll, RebuildAll, TickAll, multi
<1>4. \A c \in Clients : RequestKnows(c)'
  BY <1>2, <1>3, OverKnows DEF UploadsInv, RequestKnows, Held
<1>5. RequestsApart'
  BY <1>3 DEF UploadsInv, RequestsApart, IdlePart
<1>6. AckedPartKept' /\ \A u \in Uploads : uploads'[u].status # "open" => acked'[u] = NoParts
  BY <1>2 DEF UploadsInv, AckedPartKept
<1> QED
  BY <1>1, <1>4, <1>5, <1>6 DEF UploadsInv

\* So a part that was acknowledged is lost only with its upload.
LEMMA UploadsStep ==
  ASSUME "parallel" \notin Mishaps, UploadsInv, [MultipartNext]_mpVars
  PROVE  UploadsInv'
<1>1. CASE UNCHANGED mpVars
  <2>1. UNCHANGED <<vars, uploads, mp, acked>>
    BY <1>1 DEF mpVars, multi
  <2>2. TypeOK'
    BY <2>1 DEF UploadsInv, MultipartTypeOK, TypeOK, vars, disk, replay
  <2> QED
    BY <2>1, <2>2 DEF UploadsInv, MultipartTypeOK, RequestKnows, RequestsApart, AckedPartKept, Held
<1>2. ASSUME NEW c \in Clients, NEW u \in Uploads, NEW k \in Keys, CreateUpload(c, u, k)
      PROVE  UploadsInv'
  BY <1>2, CreateKeeps
<1>3. ASSUME NEW c \in Clients, SavePart(c) \/ DeleteUpload(c)  PROVE UploadsInv'
  BY <1>3, SaveKeeps, DeleteKeeps
<1> QED
  BY <1>1, <1>2, <1>3, LoadSteps, PartSteps, CompletionSteps, UnderneathSteps, Zenon
     DEF MultipartNext

\* A part the server acknowledged is the one the record of its upload names
\* until the upload is completed or aborted, for any number of clients, uploads
\* and parts, whatever fails, crashes or is rebuilt, as long as no two requests
\* work on one upload at the same time (UploadPart saves the record it loaded).
THEOREM AcknowledgedPartsStay ==
  ASSUME "parallel" \notin Mishaps
  PROVE  MultipartSpec => []AckedPartKept
<1>1. MultipartInit => UploadsInv
  BY UploadsInit
<1>2. UploadsInv /\ [MultipartNext]_mpVars => UploadsInv'
  BY UploadsStep
<1>3. UploadsInv => AckedPartKept
  BY DEF UploadsInv
<1> QED
  BY <1>1, <1>2, <1>3, PTL DEF MultipartSpec

-----------------------------------------------------------------------------
(***************************************************************************)
(* Counting what uploads hold.  The count of a blob drifts from the keys   *)
(* bound to it by the parts that requests hold and that records name.      *)
(***************************************************************************)
Holding(h) == {c \in Clients : mp[c].pc \in {"held", "released"} /\ mp[c].hash = h}

\* Request c gave back the reference of part n of upload u already.
Given(c, u, n) ==
  /\ mp[c].upload = u
  /\ \/ mp[c].pc = "discarding" /\ n \notin mp[c].todo
     \/ mp[c].pc = "released" /\ n = mp[c].number

Extra(h) == InFlight(h) + Cardinality(Owed(h))

Balanced(ix) == \A h \in Hashes : ix.refs[h].count = Cardinality(Bound(ix, h)) + Extra(h)

\* The requests that hold a reference to a blob, and the parts that do, are
\* finitely many (UploadPart).
LEMMA ExtraType ==
  ASSUME MultipartTypeOK, NEW h \in Hashes
  PROVE  /\ IsFiniteSet(Holding(h)) /\ InFlight(h) = Cardinality(Holding(h))
         /\ IsFiniteSet(Owed(h)) /\ Owed(h) \subseteq Uploads \X Numbers
         /\ InFlight(h) \in Nat /\ Cardinality(Owed(h)) \in Nat
         /\ Extra(h) \in Nat
<1>1. IsFiniteSet(Holding(h))
  <2>1. Holding(h) \subseteq Clients
    BY DEF Holding
  <2> QED
    BY <2>1, MultipartFinite, FS_Subset
<1>2. InFlight(h) = Cardinality(Holding(h))
  BY DEF InFlight, Holding
<1>3. Owed(h) \subseteq Uploads \X Numbers
  BY DEF Owed
<1>4. IsFiniteSet(Owed(h))
  BY <1>3, MultipartFinite, FS_Product, FS_Subset
<1>6. InFlight(h) \in Nat /\ Cardinality(Owed(h)) \in Nat
  BY <1>1, <1>2, <1>4, FS_CardinalityType
<1> QED
  BY <1>1, <1>2, <1>3, <1>4, <1>6 DEF Extra

\* A part of the record owes its reference until its request gave it back.
LEMMA OwedIs ==
  ASSUME NEW h, NEW u \in Uploads, NEW n \in Numbers
  PROVE  /\ <<u, n>> \in Owed(h) <=> /\ uploads[u].parts[n] = h
                                     /\ \A c \in Clients : ~Given(c, u, n)
         /\ <<u, n>> \in Owed(h)' <=> /\ uploads'[u].parts[n] = h
                                      /\ \A c \in Clients : ~Given(c, u, n)'
<1>1. /\ <<u, n>>[1] = u /\ <<u, n>>[2] = n
      /\ <<u, n>> \in Uploads \X Numbers
  OBVIOUS
<1>2. /\ <<u, n>> \in Owed(h) <=> n \in Owing(u, h)
      /\ <<u, n>> \in Owed(h)' <=> n \in Owing(u, h)'
  BY <1>1 DEF Owed
<1>3. n \in Owing(u, h) <=> /\ uploads[u].parts[n] = h
                            /\ \A c \in Clients : ~Given(c, u, n)
  BY DEF Owing, Given
<1>4. n \in Owing(u, h)' <=> /\ uploads'[u].parts[n] = h
                             /\ \A c \in Clients : ~Given(c, u, n)'
  BY DEF Owing, Given
<1> QED
  BY <1>2, <1>3, <1>4

\* Two states owe the same parts of a blob when they agree on each of them.
LEMMA OwedSame ==
  ASSUME NEW h,
         \A u \in Uploads, n \in Numbers :
           (/\ uploads[u].parts[n] = h
            /\ \A c \in Clients : ~Given(c, u, n)) <=>
           (/\ uploads'[u].parts[n] = h
            /\ \A c \in Clients : ~Given(c, u, n)')
  PROVE  Owed(h)' = Owed(h)
<1>1. \A p \in Uploads \X Numbers : p \in Owed(h) <=> p \in Owed(h)'
  <2> TAKE p \in Uploads \X Numbers
  <2>1. PICK u \in Uploads, n \in Numbers : p = <<u, n>>
    OBVIOUS
  <2> QED
    BY <2>1, OwedIs
<1>2. Owed(h) \subseteq Uploads \X Numbers /\ Owed(h)' \subseteq Uploads \X Numbers
  BY DEF Owed
<1> QED
  BY <1>1, <1>2

\* A step that changes the record of one request moves the number of requests
\* that hold a blob by what that request does.
LEMMA InFlightMoves ==
  ASSUME MultipartTypeOK, MultipartTypeOK', NEW c \in Clients, NEW h \in Hashes,
         \A d \in Clients \ {c} : mp'[d] = mp[d]
  PROVE  InFlight(h)' = InFlight(h)
           + (IF c \in Holding(h)' THEN 1 ELSE 0) - (IF c \in Holding(h) THEN 1 ELSE 0)
<1> DEFINE H == Holding(h)
           N == Holding(h)'
<1>1. /\ IsFiniteSet(H) /\ InFlight(h) = Cardinality(H)
      /\ InFlight(h)' = Cardinality(N) /\ Cardinality(H) \in Nat
  <2>1. IsFiniteSet(H) /\ InFlight(h) = Cardinality(H)
    BY ExtraType
  <2>2. InFlight(h)' = Cardinality(N)
    BY DEF InFlight, Holding
  <2> QED
    BY <2>1, <2>2, FS_CardinalityType
<1>2. \A d \in Clients \ {c} : d \in N <=> d \in H
  BY DEF Holding
<1>3. H \subseteq Clients /\ N \subseteq Clients
  BY DEF Holding
<1> HIDE DEF H, N
<1>4. CASE c \in H <=> c \in N
  <2>1. H = N
    BY <1>2, <1>3, <1>4
  <2> QED
    BY <1>1, <1>4, <2>1 DEF H, N
<1>5. CASE c \in H /\ c \notin N
  <2>1. N = H \ {c}
    BY <1>2, <1>3, <1>5
  <2>2. Cardinality(N) = Cardinality(H) - 1
    BY <1>1, <1>5, <2>1, FS_RemoveElement
  <2> QED
    BY <1>1, <1>5, <2>2 DEF H, N
<1>6. CASE c \notin H /\ c \in N
  <2>1. N = H \cup {c}
    BY <1>2, <1>3, <1>6
  <2>2. Cardinality(N) = Cardinality(H) + 1
    BY <1>1, <1>6, <2>1, FS_AddElement
  <2> QED
    BY <1>1, <1>6, <2>2 DEF H, N
<1> QED
  BY <1>4, <1>5, <1>6

\* One part more, or one less, is owed.
LEMMA OwedMoves ==
  ASSUME MultipartTypeOK, NEW h \in Hashes, NEW p
  PROVE  /\ Owed(h)' = Owed(h) \cup {p} /\ p \notin Owed(h) =>
              Cardinality(Owed(h)') = Cardinality(Owed(h)) + 1
         /\ Owed(h)' = Owed(h) \ {p} /\ p \in Owed(h) =>
              Cardinality(Owed(h)') = Cardinality(Owed(h)) - 1
<1>1. IsFiniteSet(Owed(h))
  BY ExtraType
<1> QED
  BY <1>1, FS_AddElement, FS_RemoveElement

\* A step that leaves the records of uploads alone, and after which no request
\* gave back a part it did not give back before, owes the same.
LEMMA OwedStays ==
  ASSUME NEW h, NEW c \in Clients,
         \A d \in Clients \ {c} : mp'[d] = mp[d],
         \A u \in Uploads : uploads'[u].parts = uploads[u].parts,
         \A u \in Uploads, n \in Numbers :
           uploads[u].parts[n] = h => (Given(c, u, n)' <=> Given(c, u, n))
  PROVE  Owed(h)' = Owed(h)
<1>1. \A d \in Clients \ {c}, u \in Uploads, n \in Numbers :
        Given(d, u, n)' <=> Given(d, u, n)
  BY DEF Given
<1>2. \A u \in Uploads, n \in Numbers :
        (/\ uploads[u].parts[n] = h
         /\ \A d \in Clients : ~Given(d, u, n)) <=>
        (/\ uploads'[u].parts[n] = h
         /\ \A d \in Clients : ~Given(d, u, n)')
  BY <1>1
<1> QED
  BY <1>2, OwedSame

\* An index that drifts as before is as balanced as before, while uploads hold
\* what they held.
LEMMA BalanceStays ==
  ASSUME NEW ix \in Index, NEW jx \in Index, Balanced(ix),
         MultipartTypeOK, \A h \in Hashes : Drift(jx, h) = Drift(ix, h),
         \A h \in Hashes : Extra(h)' = Extra(h)
  PROVE  \A h \in Hashes : jx.refs[h].count = Cardinality(Bound(jx, h)) + Extra(h)'
<1> TAKE h \in Hashes
<1>1. /\ Cardinality(Bound(ix, h)) \in Nat /\ Cardinality(Bound(jx, h)) \in Nat
      /\ ix.refs[h].count \in Int /\ jx.refs[h].count \in Int /\ Extra(h) \in Nat
  BY BoundFinite, ExtraType DEF Index, Ref
<1>2. Drift(jx, h) = Drift(ix, h) /\ Extra(h)' = Extra(h)
      /\ ix.refs[h].count = Cardinality(Bound(ix, h)) + Extra(h)
  BY DEF Balanced
<1> QED
  BY <1>1, <1>2 DEF Drift

\* A transaction that moves one reference balances what uploads gained or lost.
LEMMA BalanceMoves ==
  ASSUME MultipartTypeOK, Balanced(index), NEW g \in Hashes, NEW d \in Int, MoveRef(g, d),
         \A h \in Hashes : Extra(h)' = Extra(h) + (IF h = g THEN d ELSE 0)
  PROVE  Balanced(index)'
<1>1. index \in Index /\ index.refs \in [Hashes -> Ref] /\ clock \in Int
  BY DEF MultipartTypeOK, TypeOK, Index
<1>2. AdjustRef(index.refs, g, d, clock) \in [Hashes -> Ref]
  BY <1>1, AdjustRefType
<1>3. /\ index'.keys = index.keys
      /\ index'.refs = AdjustRef(index.refs, g, d, clock)
  BY <1>1, <1>2 DEF MoveRef, Index
<1> SUFFICES ASSUME NEW h \in Hashes
             PROVE  index'.refs[h].count = Cardinality(Bound(index', h)) + Extra(h)'
  BY DEF Balanced
<1>4. index'.refs[h].count = IF h = g THEN index.refs[h].count + d ELSE index.refs[h].count
  <2>1. AdjustRef(index.refs, g, d, clock)[h].count =
          IF h = g THEN index.refs[h].count + d ELSE index.refs[h].count
    BY <1>1 DEF AdjustRef
  <2> QED
    BY <1>3, <2>1, Zenon
<1>5. Bound(index', h) = Bound(index, h)
  BY <1>3 DEF Bound
<1>6. /\ index.refs[h].count = Cardinality(Bound(index, h)) + Extra(h)
      /\ Cardinality(Bound(index, h)) \in Nat /\ Extra(h) \in Nat
  BY BoundFinite, ExtraType DEF Balanced
<1>7. Extra(h)' = Extra(h) + (IF h = g THEN d ELSE 0)
  OBVIOUS
<1> QED
  BY <1>4, <1>5, <1>6, <1>7

\* A step of one request that holds no part before and after it, and gives none
\* back, changes nothing that uploads hold.
LEMMA ExtraStays ==
  ASSUME UploadsInv, UploadsInv', NEW c \in Clients,
         \A d \in Clients \ {c} : mp'[d] = mp[d],
         \A u \in Uploads : uploads'[u].parts = uploads[u].parts,
         mp[c].pc \notin {"held", "released", "discarding"},
         mp'[c].pc \notin {"held", "released"},
         mp'[c].pc = "discarding" => mp'[c].todo = Held(mp'[c].parts)
  PROVE  \A h \in Hashes : Extra(h)' = Extra(h)
<1> TAKE h \in Hashes
<1>0. MultipartTypeOK /\ MultipartTypeOK'
  BY DEF UploadsInv
<1>1. InFlight(h)' = InFlight(h)
  <2>1. c \notin Holding(h) /\ c \notin Holding(h)'
    BY DEF Holding
  <2>2. InFlight(h) \in Nat
    BY <1>0, ExtraType
  <2> QED
    BY <1>0, <2>1, <2>2, InFlightMoves
<1>2. \A u \in Uploads, n \in Numbers :
        uploads[u].parts[n] = h => (Given(c, u, n)' <=> Given(c, u, n))
  <2> TAKE u \in Uploads, n \in Numbers
  <2> HAVE uploads[u].parts[n] = h
  <2>1. ~Given(c, u, n)
    BY DEF Given
  <2>2. ~Given(c, u, n)'
    <3> SUFFICES ASSUME Given(c, u, n)'  PROVE FALSE
      OBVIOUS
    <3>1. mp'[c].pc = "discarding" /\ mp'[c].upload = u /\ n \notin mp'[c].todo
      BY DEF Given
    <3>2. mp'[c].parts = uploads'[u].parts
      BY <3>1 DEF UploadsInv, RequestKnows
    <3>3. mp'[c].parts[n] = h /\ h # None
      BY <3>2, NoneAssumption
    <3> QED
      BY <3>1, <3>3 DEF Held
  <2> QED
    BY <2>1, <2>2
<1>3. Owed(h)' = Owed(h)
  BY <1>2, OwedStays
<1> QED
  BY <1>1, <1>3 DEF Extra

\* Taking a reference and giving back the one of a replaced part (UploadPart).
LEMMA ExtraOfParts ==
  ASSUME UploadsInv, UploadsInv', NEW c \in Clients, NEW h \in Hashes
  PROVE  /\ HoldPart(c) => Extra(h)' = Extra(h) + (IF h = mp[c].hash THEN 1 ELSE 0)
         /\ ReleaseReplaced(c) => Extra(h)' = Extra(h) + (IF h = Replaced(c) THEN -1 ELSE 0)
<1>0. MultipartTypeOK /\ MultipartTypeOK'
  BY DEF UploadsInv
<1>T. /\ InFlight(h) \in Nat /\ Cardinality(Owed(h)) \in Nat
      /\ Extra(h) = InFlight(h) + Cardinality(Owed(h))
      /\ Extra(h)' = InFlight(h)' + Cardinality(Owed(h)')
  BY <1>0, ExtraType DEF Extra
<1>1. ASSUME HoldPart(c)
      PROVE  Extra(h)' = Extra(h) + (IF h = mp[c].hash THEN 1 ELSE 0)
  <2>1. /\ mp'[c] = [mp[c] EXCEPT !.pc = "held"] /\ mp[c] \in MultipartState
        /\ \A d \in Clients \ {c} : mp'[d] = mp[d]
        /\ mp[c].pc = "stored" /\ uploads' = uploads
    BY <1>0, <1>1, RequestRecord DEF HoldPart
  <2>2. mp'[c].pc = "held" /\ mp'[c].hash = mp[c].hash
    BY <2>1 DEF MultipartState
  <2>3. (c \in Holding(h)' <=> h = mp[c].hash) /\ c \notin Holding(h)
    BY <2>1, <2>2 DEF Holding
  <2>4. InFlight(h)' = InFlight(h) + (IF h = mp[c].hash THEN 1 ELSE 0)
    BY <1>0, <1>T, <2>1, <2>3, InFlightMoves
  <2>5. Owed(h)' = Owed(h)
    <3>1. \A u \in Uploads, n \in Numbers : ~Given(c, u, n) /\ ~Given(c, u, n)'
      BY <2>1, <2>2 DEF Given
    <3> QED
      BY <2>1, <3>1, OwedStays
  <2> QED
    BY <1>T, <2>1, <2>4, <2>5
<1>2. ASSUME ReleaseReplaced(c)
      PROVE  Extra(h)' = Extra(h) + (IF h = Replaced(c) THEN -1 ELSE 0)
  <2> DEFINE u == mp[c].upload
             n == mp[c].number
  <2>1. /\ mp'[c] = [mp[c] EXCEPT !.pc = "released"] /\ mp[c] \in MultipartState
        /\ \A d \in Clients \ {c} : mp'[d] = mp[d]
        /\ mp[c].pc = "held" /\ uploads' = uploads
    BY <1>0, <1>2, RequestRecord DEF ReleaseReplaced
  <2>2. /\ mp'[c].pc = "released" /\ mp'[c].hash = mp[c].hash
        /\ mp'[c].upload = u /\ mp'[c].number = n
    BY <2>1 DEF MultipartState
  <2>3. c \in Holding(h)' <=> c \in Holding(h)
    BY <2>1, <2>2 DEF Holding
  <2>4. InFlight(h)' = InFlight(h)
    BY <1>0, <1>T, <2>1, <2>3, InFlightMoves
  <2>5. u \in Uploads /\ n \in Numbers /\ uploads[u].parts[n] = Replaced(c)
    BY <2>1, RequestFields DEF Storing, Replaced
  <2>6. \A d \in Clients \ {c} : mp[d].pc # "idle" => mp[d].upload # u
    BY <2>1 DEF UploadsInv, RequestsApart
  <2>7. /\ \A d \in Clients : ~Given(d, u, n)
        /\ \A v \in Uploads : v = u => Given(c, v, n)'
        /\ \A v \in Uploads, i \in Numbers : <<v, i>> # <<u, n>> =>
             ~Given(c, v, i) /\ ~Given(c, v, i)'
    BY <2>1, <2>2, <2>6 DEF Given
  <2>8. CASE h # Replaced(c)
    <3>1. \A v \in Uploads, i \in Numbers : uploads[v].parts[i] = h =>
            (Given(c, v, i)' <=> Given(c, v, i))
      BY <2>5, <2>7, <2>8
    <3>2. Owed(h)' = Owed(h)
      BY <2>1, <3>1, OwedStays
    <3> QED
      BY <1>T, <2>1, <2>4, <2>8, <3>2
  <2>9. CASE h = Replaced(c)
    <3>1. <<u, n>> \in Owed(h)
      BY <2>5, <2>7, <2>9, OwedIs
    <3>2. \A v \in Uploads, i \in Numbers :
            <<v, i>> \in Owed(h)' <=> <<v, i>> \in Owed(h) /\ <<v, i>> # <<u, n>>
      <4> TAKE v \in Uploads, i \in Numbers
      <4>1. \A d \in Clients \ {c} : Given(d, v, i)' <=> Given(d, v, i)
        BY <2>1 DEF Given
      <4>2. <<v, i>> \in Owed(h)' <=> /\ uploads'[v].parts[i] = h
                                      /\ \A d \in Clients : ~Given(d, v, i)'
        BY OwedIs
      <4>3. <<v, i>> \in Owed(h) <=> /\ uploads[v].parts[i] = h
                                     /\ \A d \in Clients : ~Given(d, v, i)
        BY OwedIs
      <4> QED
        BY <2>1, <2>7, <4>1, <4>2, <4>3
    <3>3. Owed(h) \subseteq Uploads \X Numbers /\ Owed(h)' \subseteq Uploads \X Numbers
      BY DEF Owed
    <3>4. Owed(h)' = Owed(h) \ {<<u, n>>}
      BY <2>5, <3>2, <3>3
    <3>5. Cardinality(Owed(h)') = Cardinality(Owed(h)) - 1
      BY <1>0, <3>1, <3>4, OwedMoves
    <3> QED
      BY <1>T, <2>1, <2>4, <2>9, <3>5
  <2> QED
    BY <2>8, <2>9
<1> QED
  BY <1>1, <1>2

\* Saving the record passes the reference from the request to the upload, and
\* discarding an upload gives its references back one by one (UploadPart,
\* discardUpload).
LEMMA ExtraOfRecords ==
  ASSUME UploadsInv, UploadsInv', NEW c \in Clients, NEW h \in Hashes
  PROVE  /\ SavePart(c) => Extra(h)' = Extra(h)
         /\ \A n \in Numbers : ReleasePart(c, n) =>
              Extra(h)' = Extra(h) + (IF h = mp[c].parts[n] THEN -1 ELSE 0)
         /\ DeleteUpload(c) => Extra(h)' = Extra(h)
<1>0. MultipartTypeOK /\ MultipartTypeOK'
  BY DEF UploadsInv
<1>T. /\ InFlight(h) \in Nat /\ Cardinality(Owed(h)) \in Nat
      /\ Extra(h) = InFlight(h) + Cardinality(Owed(h))
      /\ Extra(h)' = InFlight(h)' + Cardinality(Owed(h)')
  BY <1>0, ExtraType DEF Extra
<1> DEFINE u == mp[c].upload
<1>O. \A d \in Clients \ {c} : mp[c].pc # "idle" /\ mp[d].pc # "idle" => mp[d].upload # u
  BY DEF UploadsInv, RequestsApart
<1>S. Owed(h) \subseteq Uploads \X Numbers /\ Owed(h)' \subseteq Uploads \X Numbers
  BY DEF Owed
<1>1. ASSUME SavePart(c)  PROVE Extra(h)' = Extra(h)
  <2> DEFINE n == mp[c].number
  <2>1. /\ mp'[c] = IdlePart
        /\ \A d \in Clients \ {c} : mp'[d] = mp[d]
        /\ mp[c].pc \in {"held", "released"}
        /\ mp[c].pc = "held" => Replaced(c) = None
    BY <1>0, <1>1, RequestRecord DEF SavePart
  <2>2. /\ u \in Uploads /\ n \in Numbers /\ mp[c].hash \in Hashes
        /\ mp[c].parts = uploads[u].parts /\ uploads[u].parts[n] = Replaced(c)
        /\ mp[c].parts \in [Numbers -> Hashes \cup {None}]
    BY <2>1, RequestFields DEF Storing, Replaced
  <2>3. /\ uploads'[u].parts = [mp[c].parts EXCEPT ![n] = mp[c].hash]
        /\ \A v \in Uploads \ {u} : uploads'[v] = uploads[v]
    BY <1>1, SaveKeeps
  <2>4. (c \in Holding(h) <=> h = mp[c].hash) /\ c \notin Holding(h)'
    BY <2>1 DEF Holding, IdlePart
  <2>5. InFlight(h)' = InFlight(h) - (IF h = mp[c].hash THEN 1 ELSE 0)
    BY <1>0, <1>T, <2>1, <2>4, InFlightMoves
  <2>6. /\ \A d \in Clients \ {c}, v \in Uploads, i \in Numbers :
             Given(d, v, i)' <=> Given(d, v, i)
        /\ \A d \in Clients \ {c}, i \in Numbers : ~Given(d, u, i)
        /\ \A v \in Uploads, i \in Numbers : ~Given(c, v, i)'
        /\ \A v \in Uploads, i \in Numbers : <<v, i>> # <<u, n>> => ~Given(c, v, i)
        /\ mp[c].pc = "released" => Given(c, u, n)
    BY <1>O, <2>1 DEF Given, IdlePart
  <2>7. <<u, n>> \notin Owed(h)
    BY <2>1, <2>2, <2>6, OwedIs, NoneAssumption
  <2>8. <<u, n>> \in Owed(h)' <=> h = mp[c].hash
    <3>1. uploads'[u].parts[n] = mp[c].hash
      BY <2>2, <2>3
    <3> QED
      BY <2>2, <2>6, <3>1, OwedIs
  <2>9. \A v \in Uploads, i \in Numbers :
          <<v, i>> # <<u, n>> => (<<v, i>> \in Owed(h)' <=> <<v, i>> \in Owed(h))
    <3> TAKE v \in Uploads, i \in Numbers
    <3> HAVE <<v, i>> # <<u, n>>
    <3>1. uploads'[v].parts[i] = uploads[v].parts[i]
      BY <2>2, <2>3
    <3>2. \A d \in Clients : Given(d, v, i)' <=> Given(d, v, i)
      BY <2>6
    <3> QED
      BY <3>1, <3>2, OwedIs
  <2>10. CASE h = mp[c].hash
    <3>1. Owed(h)' = Owed(h) \cup {<<u, n>>}
      BY <1>S, <2>2, <2>8, <2>9, <2>10
    <3>2. Cardinality(Owed(h)') = Cardinality(Owed(h)) + 1
      BY <1>0, <2>7, <3>1, OwedMoves
    <3> QED
      BY <1>T, <2>1, <2>5, <2>10, <3>2
  <2>11. CASE h # mp[c].hash
    <3>1. Owed(h)' = Owed(h)
      <4>1. \A v \in Uploads, i \in Numbers : <<v, i>> \in Owed(h)' <=> <<v, i>> \in Owed(h)
        BY <2>7, <2>8, <2>9, <2>11
      <4> QED
        BY <1>S, <4>1
    <3> QED
      BY <1>T, <2>1, <2>5, <2>11, <3>1
  <2> QED
    BY <2>10, <2>11
<1>2. ASSUME NEW n \in Numbers, ReleasePart(c, n)
      PROVE  Extra(h)' = Extra(h) + (IF h = mp[c].parts[n] THEN -1 ELSE 0)
  <2>1. /\ mp[c] \in MultipartState
        /\ \A d \in Clients \ {c} : mp'[d] = mp[d]
        /\ mp[c].pc = "discarding" /\ n \in mp[c].todo /\ uploads' = uploads
    BY <1>0, <1>2 DEF ReleasePart, MultipartTypeOK
  <2>2. /\ mp'[c].pc = "discarding" /\ mp'[c].upload = u /\ mp'[c].todo = mp[c].todo \ {n}
    BY <1>0, <1>2, <2>1 DEF ReleasePart, MultipartTypeOK, MultipartState
  <2>3. u \in Uploads /\ mp[c].parts = uploads[u].parts
    BY <2>1, RequestFields
  <2>4. InFlight(h)' = InFlight(h)
    <3>1. c \notin Holding(h) /\ c \notin Holding(h)'
      BY <2>1, <2>2 DEF Holding
    <3> QED
      BY <1>0, <1>T, <2>1, <3>1, InFlightMoves
  <2>5. /\ \A d \in Clients \ {c}, v \in Uploads, i \in Numbers :
             Given(d, v, i)' <=> Given(d, v, i)
        /\ \A d \in Clients \ {c}, i \in Numbers : ~Given(d, u, i)
        /\ \A v \in Uploads : v = u => ~Given(c, v, n) /\ Given(c, v, n)'
        /\ \A v \in Uploads, i \in Numbers :
             <<v, i>> # <<u, n>> => (Given(c, v, i)' <=> Given(c, v, i))
    BY <1>O, <2>1, <2>2 DEF Given
  <2>6. \A v \in Uploads, i \in Numbers :
          <<v, i>> # <<u, n>> => (<<v, i>> \in Owed(h)' <=> <<v, i>> \in Owed(h))
    <3> TAKE v \in Uploads, i \in Numbers
    <3> HAVE <<v, i>> # <<u, n>>
    <3>1. \A d \in Clients : Given(d, v, i)' <=> Given(d, v, i)
      BY <2>5
    <3> QED
      BY <2>1, <3>1, OwedIs
  <2>7. <<u, n>> \in Owed(h) <=> h = mp[c].parts[n]
    BY <2>3, <2>5, OwedIs
  <2>8. <<u, n>> \notin Owed(h)'
    <3> SUFFICES ASSUME NEW v \in Uploads, v = u  PROVE <<v, n>> \notin Owed(h)'
      BY <2>3
    <3>1. ~\A d \in Clients : ~Given(d, v, n)'
      BY <2>5
    <3> QED
      BY <3>1, OwedIs
  <2>9. CASE h = mp[c].parts[n]
    <3>1. Owed(h)' = Owed(h) \ {<<u, n>>}
      BY <1>S, <2>3, <2>6, <2>8
    <3>2. Cardinality(Owed(h)') = Cardinality(Owed(h)) - 1
      BY <1>0, <2>7, <2>9, <3>1, OwedMoves
    <3> QED
      BY <1>T, <2>1, <2>4, <2>9, <3>2
  <2>10. CASE h # mp[c].parts[n]
    <3>1. Owed(h)' = Owed(h)
      BY <1>S, <2>3, <2>6, <2>7, <2>8, <2>10
    <3> QED
      BY <1>T, <2>1, <2>4, <2>10, <3>1
  <2> QED
    BY <2>9, <2>10
<1>3. ASSUME DeleteUpload(c)  PROVE Extra(h)' = Extra(h)
  <2>1. /\ mp'[c] = IdlePart
        /\ \A d \in Clients \ {c} : mp'[d] = mp[d]
        /\ mp[c].pc = "discarding" /\ mp[c].todo = {}
    BY <1>0, <1>3, RequestRecord DEF DeleteUpload
  <2>2. u \in Uploads /\ uploads'[u] = Gone /\ \A v \in Uploads \ {u} : uploads'[v] = uploads[v]
    BY <1>3, <2>1, DeleteKeeps, RequestFields
  <2>3. InFlight(h)' = InFlight(h)
    <3>1. c \notin Holding(h) /\ c \notin Holding(h)'
      BY <2>1 DEF Holding, IdlePart
    <3> QED
      BY <1>0, <1>T, <2>1, <3>1, InFlightMoves
  <2>4. \A i \in Numbers : <<u, i>> \notin Owed(h) /\ <<u, i>> \notin Owed(h)'
    <3> TAKE i \in Numbers
    <3>1. Given(c, u, i)
      BY <2>1 DEF Given
    <3>2. uploads'[u].parts[i] = None
      BY <2>2, UploadTypes DEF NoParts
    <3> QED
      BY <2>2, <3>1, <3>2, OwedIs, NoneAssumption
  <2>5. \A v \in Uploads \ {u}, i \in Numbers : <<v, i>> \in Owed(h)' <=> <<v, i>> \in Owed(h)
    <3> TAKE v \in Uploads \ {u}, i \in Numbers
    <3>1. \A d \in Clients : Given(d, v, i)' <=> Given(d, v, i)
      BY <2>1 DEF Given, IdlePart
    <3> QED
      BY <2>2, <3>1, OwedIs
  <2>6. Owed(h)' = Owed(h)
    BY <1>S, <2>4, <2>5
  <2> QED
    BY <1>T, <2>1, <2>3, <2>6
<1> QED
  BY <1>1, <1>2, <1>3

\* A request that released nothing yet gave back no part of its record
\* (discardUpload).
LEMMA GivenNothing ==
  ASSUME UploadsInv, NEW c \in Clients, NEW u \in Uploads, NEW n \in Numbers,
         NEW h \in Hashes, uploads[u].parts[n] = h,
         mp[c].pc = "discarding" => mp[c].todo = Held(mp[c].parts),
         mp[c].pc # "released"
  PROVE  ~Given(c, u, n)
<1> SUFFICES ASSUME Given(c, u, n)  PROVE FALSE
  OBVIOUS
<1>1. mp[c].pc = "discarding" /\ mp[c].upload = u /\ n \notin Held(mp[c].parts)
  BY DEF Given
<1>2. mp[c].parts = uploads[u].parts /\ h # None
  BY <1>1, NoneAssumption DEF UploadsInv, RequestKnows
<1> QED
  BY <1>1, <1>2 DEF Held

\* A discard that ends before anything was released leaves what is held
\* (discardUpload).
LEMMA ExtraOfDiscard ==
  ASSUME UploadsInv, UploadsInv', NEW c \in Clients, FailDiscard(c),
         mp[c].todo = Held(mp[c].parts), NEW h \in Hashes
  PROVE  Extra(h)' = Extra(h)
<1>0. MultipartTypeOK /\ MultipartTypeOK'
  BY DEF UploadsInv
<1>1. /\ mp'[c] = IdlePart /\ uploads' = uploads
      /\ \A d \in Clients \ {c} : mp'[d] = mp[d]
      /\ mp[c].pc = "discarding"
  BY <1>0, RequestRecord DEF FailDiscard
<1>2. InFlight(h)' = InFlight(h)
  <2>1. c \notin Holding(h) /\ c \notin Holding(h)'
    BY <1>1 DEF Holding, IdlePart
  <2>2. InFlight(h) \in Nat
    BY <1>0, ExtraType
  <2> QED
    BY <1>0, <1>1, <2>1, <2>2, InFlightMoves
<1>3. \A u \in Uploads, n \in Numbers :
        uploads[u].parts[n] = h => (Given(c, u, n)' <=> Given(c, u, n))
  <2>1. \A u \in Uploads, n \in Numbers : ~Given(c, u, n)'
    BY <1>1 DEF Given, IdlePart
  <2> QED
    BY <1>1, <2>1, GivenNothing
<1>4. Owed(h)' = Owed(h)
  BY <1>1, <1>3, OwedStays
<1> QED
  BY <1>2, <1>4 DEF Extra

-----------------------------------------------------------------------------
(***************************************************************************)
(* A replay must not meet a collection: its record drops the reference     *)
(* record of a blob, which a part may have taken again by then.  It meets  *)
(* none without a collector, and none when the process never dies, because *)
(* then it replays nothing but the empty journal it started with.          *)
(***************************************************************************)
ReplaysNoCollection ==
  /\ Interval = 0 => NoCollection
  /\ "crash" \notin Environment /\ mode # "serving" => journal = <<>> /\ gc.pc = "asleep"

\* Requests live and die with the serving process (runDaemon).
Attended ==
  mode # "serving" => \A c \in Clients : mp[c].pc = "idle" /\ handler[c].pc = "idle"

CountInv ==
  /\ UploadsInv
  /\ ReplaysNoCollection
  /\ Attended
  /\ mode = "dropped" => /\ \A k \in Keys : index.keys[k] = None
                         /\ \A u \in Uploads : uploads[u].status # "open"
  /\ mode # "dropped" => Balanced(index)
  /\ mode \in {"recovering", "rebuilding"} => Balanced(work)

\* What the step of a multipart request leaves alone of the process; it is made
\* while the process serves (UploadPart, CompleteUpload, discardUpload).
PartStep(c) ==
  \/ \E u \in Uploads :
       \/ \E k \in Keys : CreateUpload(c, u, k)
       \/ \E n \in Numbers : BeginPart(c, u, n)
       \/ \E list \in (SUBSET Numbers) \ {{}} : BeginComplete(c, u, list)
       \/ BeginAbort(c, u)
  \/ \E h \in Hashes \ {Whole} : PutPart(c, h)
  \/ RefusePart(c) \/ HoldPart(c) \/ ReleaseReplaced(c) \/ SavePart(c)
  \/ PutAssembled(c)
  \/ \E n \in Numbers : ReleasePart(c, n)
  \/ FailDiscard(c) \/ DeleteUpload(c)

\* Only a serving process answers requests (Server.createUpload, runDaemon).
LEMMA PartStepServes ==
  ASSUME Attended, NEW c \in Clients, PartStep(c)
  PROVE  mode = "serving" /\ UNCHANGED <<mode, journal, gc, work, clock>>
<1>1. mode = "serving"
  BY ZenonT(30) DEF PartStep, Attended, CreateUpload, BeginPart, BeginComplete, BeginAbort, Load, Free,
     PutPart, RefusePart, HoldPart, ReleaseReplaced, SavePart, PutAssembled,
     ReleasePart, FailDiscard, DeleteUpload
<1>2. UNCHANGED <<mode, journal, gc, work, clock>>
  <2>1. ASSUME NEW u \in Uploads,
               \/ \E k \in Keys : CreateUpload(c, u, k)
               \/ \E n \in Numbers : BeginPart(c, u, n)
               \/ \E list \in (SUBSET Numbers) \ {{}} : BeginComplete(c, u, list)
               \/ BeginAbort(c, u)
        PROVE  UNCHANGED <<mode, journal, gc, work, clock>>
    BY <2>1, ZenonT(30) DEF CreateUpload, BeginPart, BeginComplete, BeginAbort, vars, replay
  <2>2. CASE \/ \E h \in Hashes \ {Whole} : PutPart(c, h)
             \/ RefusePart(c) \/ FailDiscard(c) \/ HoldPart(c) \/ PutAssembled(c)
    BY <2>2, ZenonT(30) DEF PutPart, RefusePart, FailDiscard, HoldPart, PutAssembled, vars, replay
  <2>3. CASE \/ ReleaseReplaced(c) \/ SavePart(c) \/ DeleteUpload(c)
             \/ \E n \in Numbers : ReleasePart(c, n)
    BY <2>3, ZenonT(30) DEF ReleaseReplaced, SavePart, ReleasePart, DeleteUpload, vars, replay
  <2> QED
    BY <2>1, <2>2, <2>3, ZenonT(30) DEF PartStep
<1> QED
  BY <1>1, <1>2

\* The object of a completion is committed or refused while the process serves.
LEMMA ObjectStepServes ==
  ASSUME Attended, NEW c \in Clients, CommitObject(c) \/ RefuseObject(c)
  PROVE  mode = "serving" /\ UNCHANGED <<mode, journal, gc, work, clock>>
BY DEF Attended, CommitObject, RefuseObject, CommitPut, Refuse, replay

\* The parts of MultipartNext.
LEMMA MultipartSteps ==
  ASSUME MultipartNext
  PROVE  \/ StoreStep \/ CrashAll \/ RebuildAll \/ TickAll
         \/ \E c \in Clients : PartStep(c) \/ CommitObject(c) \/ RefuseObject(c)
BY Zenon DEF MultipartNext, PartStep

\* Only a crash ends a serving process (runDaemon).
LEMMA StoreStepModes ==
  ASSUME TypeOK, StoreStep
  PROVE  /\ mode = "serving" => mode' = "serving"
         /\ mode' = "dropped" <=> mode = "dropped"
<1>1. ASSUME NEW c \in Clients,
             Request(c) \/ JournalPut(c) \/ JournalDelete(c) \/ CommitDelete(c) \/ OpenBlob(c)
      PROVE  mode' = mode
  BY <1>1 DEF Request, StoreBlob, FindKey, ResolveKey, JournalPut, JournalDelete,
     CommitDelete, OpenBlob
<1>2. CASE Collect
  BY <1>2 DEF Collect, StartPass, RemoveExpired, JournalCollected, FindOrphans, EndPass,
     DropExpired, SkipReferenced, RemoveOrphan
<1>3. CASE Recovery
  BY <1>3 DEF Recovery, Start, ReplayRecord, CommitReplay
<1> QED
  BY <1>1, <1>2, <1>3 DEF StoreStep

\* A crash, a rebuild and the clock are steps of the store (Recover, rebuildIndex).
LEMMA UnderneathIsNext ==
  /\ StoreStep \/ CrashAll \/ RebuildAll \/ TickAll => Next
  /\ \A c \in Clients : CommitObject(c) \/ RefuseObject(c) => Next
<1>1. StoreStep => Next
  BY Zenon DEF StoreStep, Next, Continue
<1>2. CrashAll \/ RebuildAll \/ TickAll => Next
  BY Zenon DEF CrashAll, RebuildAll, TickAll, Next, Rebuild
<1>3. \A c \in Clients : CommitObject(c) \/ RefuseObject(c) => Next
  BY Zenon DEF CommitObject, RefuseObject, Next, Continue
<1> QED
  BY <1>1, <1>2, <1>3

\* Outside a serving process nothing appends to the journal (Recover, rebuildIndex).
LEMMA JournalRests ==
  ASSUME TypeOK, gc.pc = "asleep", \A c \in Clients : handler[c].pc = "idle",
         mode # "serving", StoreStep \/ CrashAll \/ RebuildAll \/ TickAll
  PROVE  journal' = journal /\ gc'.pc = "asleep"
<1>1. ASSUME NEW c \in Clients,
             Request(c) \/ JournalPut(c) \/ JournalDelete(c) \/ CommitDelete(c) \/ OpenBlob(c)
      PROVE  journal' = journal /\ gc'.pc = "asleep"
  BY <1>1 DEF Request, StoreBlob, FindKey, ResolveKey, JournalPut, JournalDelete,
     CommitDelete, OpenBlob
<1>2. CASE Collect
  BY <1>2 DEF Collect, StartPass, RemoveExpired, JournalCollected, FindOrphans, EndPass,
     DropExpired, SkipReferenced, RemoveOrphan
<1>3. CASE Recovery \/ RebuildAll \/ TickAll
  BY <1>3 DEF Recovery, Start, ReplayRecord, CommitReplay, RebuildAll, DropNamespaces,
     ResetIndex, TickAll, Tick
<1>4. CASE CrashAll
  BY <1>4 DEF CrashAll, Crash, Halt, Sleeping
<1> QED
  BY <1>1, <1>2, <1>3, <1>4 DEF StoreStep

\* So no step brings a collection into a replay, or a request into a halted
\* process (StartGC, runDaemon).
LEMMA AttendedStep ==
  ASSUME TypeOK, Attended, ReplaysNoCollection, MultipartNext
  PROVE  Attended' /\ ReplaysNoCollection'
<1>1. ASSUME NEW c \in Clients, PartStep(c) \/ CommitObject(c) \/ RefuseObject(c)
      PROVE  Attended' /\ ReplaysNoCollection'
  <2>1. mode' = "serving" /\ journal' = journal /\ gc' = gc
    BY <1>1, PartStepServes, ObjectStepServes
  <2> QED
    BY <2>1 DEF Attended, ReplaysNoCollection, NoCollection
<1>2. CASE StoreStep \/ CrashAll \/ RebuildAll \/ TickAll
  <2>1. Next /\ NoRequest
    BY <1>2, UnderneathIsNext DEF Attended, NoRequest
  <2>2. NoRequest'
    BY <2>1, NoRequestStep
  <2>3. Interval = 0 => NoCollection'
    BY <2>1, NoCollectionStep DEF ReplaysNoCollection
  <2>4. mode' # "serving" => \A c \in Clients : mp'[c].pc = "idle"
    <3>1. CASE StoreStep
      BY <3>1, StoreStepModes DEF Attended, StoreStep, multi
    <3>2. CASE CrashAll
      BY <3>2 DEF CrashAll, IdlePart
    <3>3. CASE RebuildAll
      BY <3>3 DEF RebuildAll, DropNamespaces, ResetIndex, Attended, multi
    <3>4. CASE TickAll
      BY <3>4 DEF TickAll, Tick, Attended, multi
    <3> QED
      BY <1>2, <3>1, <3>2, <3>3, <3>4
  <2>5. ASSUME "crash" \notin Environment, mode' # "serving"
        PROVE  journal' = <<>> /\ gc'.pc = "asleep"
    <3>1. mode # "serving"
      <4>1. CASE StoreStep
        BY <2>5, <4>1, StoreStepModes
      <4>2. CASE CrashAll
        BY <2>5, <4>2 DEF CrashAll, Crash
      <4>3. CASE RebuildAll \/ TickAll
        BY <2>5, <4>3 DEF RebuildAll, DropNamespaces, ResetIndex, TickAll, Tick
      <4> QED
        BY <1>2, <4>1, <4>2, <4>3
    <3>2. journal = <<>> /\ gc.pc = "asleep" /\ \A c \in Clients : handler[c].pc = "idle"
      BY <2>5, <3>1 DEF ReplaysNoCollection, Attended
    <3>3. journal' = journal /\ gc'.pc = "asleep"
      BY <1>2, <3>1, <3>2, JournalRests
    <3> QED
      BY <3>2, <3>3
  <2> QED
    BY <2>2, <2>3, <2>4, <2>5 DEF Attended, NoRequest, ReplaysNoCollection
<1> QED
  BY <1>1, <1>2, MultipartSteps

\* While nothing that uploads hold changes and the index stays, it stays balanced.
LEMMA BalanceRests ==
  ASSUME MultipartTypeOK, Balanced(index), index' = index,
         \A h \in Hashes : Extra(h)' = Extra(h)
  PROVE  Balanced(index)'
BY DEF Balanced

\* The steps of multipart requests keep the count of every blob what holds it
\* (UploadPart, CompleteUpload, discardUpload).
LEMMA PartStepBalanced ==
  ASSUME UploadsInv, UploadsInv', Balanced(index), Mishaps = {}, NEW c \in Clients, PartStep(c)
  PROVE  Balanced(index)'
<1>0. MultipartTypeOK /\ mp[c] \in MultipartState
  BY DEF UploadsInv, MultipartTypeOK
<1>1. ASSUME NEW u \in Uploads, NEW k \in Keys, CreateUpload(c, u, k)  PROVE Balanced(index)'
  <2>1. mp' = mp /\ mp[c].pc = "idle" /\ index' = index
    BY <1>1 DEF CreateUpload, Free, vars
  <2>2. \A v \in Uploads : uploads'[v].parts = uploads[v].parts
    BY <1>1, CreateKeeps
  <2>3. \A h \in Hashes : Extra(h)' = Extra(h)
    BY <2>1, <2>2, ExtraStays
  <2> QED
    BY <1>0, <2>1, <2>3, BalanceRests
<1>2. ASSUME NEW u \in Uploads, NEW m \in MultipartState, Load(c, u, m),
             m.pc \in {"loaded", "listed", "discarding"},
             m.pc = "discarding" => m.todo = Held(uploads[u].parts),
             UNCHANGED <<vars, uploads, acked>>
      PROVE  Balanced(index)'
  <2>1. /\ mp[c].pc = "idle" /\ \A d \in Clients \ {c} : mp'[d] = mp[d]
        /\ mp'[c] = LoadedRecord(m, u)
    BY <1>2, LoadRecord
  <2>2. mp'[c].pc = m.pc /\ mp'[c].todo = m.todo /\ mp'[c].parts = uploads[u].parts
    BY <2>1 DEF MultipartState, LoadedRecord
  <2>3. uploads' = uploads /\ index' = index
    BY <1>2 DEF vars
  <2>4. \A h \in Hashes : Extra(h)' = Extra(h)
    BY <1>2, <2>1, <2>2, <2>3, ExtraStays
  <2> QED
    BY <1>0, <2>3, <2>4, BalanceRests
<1>3. IdlePart \in MultipartState
  BY UploadTypes
<1>4. ASSUME NEW u \in Uploads, NEW n \in Numbers, BeginPart(c, u, n)  PROVE Balanced(index)'
  <2> DEFINE m == [IdlePart EXCEPT !.pc = "loaded", !.number = n]
  <2>1. m \in MultipartState /\ m.pc = "loaded"
    BY <1>3 DEF MultipartState
  <2>2. Load(c, u, m) /\ UNCHANGED <<vars, uploads, acked>>
    BY <1>4, Zenon DEF BeginPart
  <2> HIDE DEF m
  <2> QED
    BY <1>2, <2>1, <2>2
<1>5. ASSUME NEW u \in Uploads, NEW list \in (SUBSET Numbers) \ {{}}, BeginComplete(c, u, list)
      PROVE  Balanced(index)'
  <2> DEFINE m == [IdlePart EXCEPT !.pc = "listed", !.todo = list]
  <2>1. m \in MultipartState /\ m.pc = "listed"
    BY <1>3 DEF MultipartState
  <2>2. Load(c, u, m) /\ UNCHANGED <<vars, uploads, acked>>
    BY <1>5, Zenon DEF BeginComplete
  <2> HIDE DEF m
  <2> QED
    BY <1>2, <2>1, <2>2
<1>6. ASSUME NEW u \in Uploads, BeginAbort(c, u)  PROVE Balanced(index)'
  <2> DEFINE m == [IdlePart EXCEPT !.pc = "discarding", !.todo = Held(uploads[u].parts)]
  <2>1. m \in MultipartState /\ m.pc = "discarding" /\ m.todo = Held(uploads[u].parts)
    BY <1>3 DEF MultipartState, Held
  <2>2. Load(c, u, m) /\ UNCHANGED <<vars, uploads, acked>>
    BY <1>6, Zenon DEF BeginAbort
  <2> HIDE DEF m
  <2> QED
    BY <1>2, <2>1, <2>2
<1>7. ASSUME NEW h \in Hashes, PutPart(c, h)  PROVE Balanced(index)'
  <2>1. /\ mp[c].pc = "loaded" /\ \A d \in Clients \ {c} : mp'[d] = mp[d]
        /\ mp'[c].pc = "stored" /\ uploads' = uploads /\ index' = index
    BY <1>0, <1>7 DEF PutPart, MultipartTypeOK, MultipartState
  <2>2. \A g \in Hashes : Extra(g)' = Extra(g)
    BY <2>1, ExtraStays
  <2> QED
    BY <1>0, <2>1, <2>2, BalanceRests
<1>8. CASE RefusePart(c)
  <2>1. /\ mp[c].pc \in {"loaded", "stored", "listed"}
        /\ \A d \in Clients \ {c} : mp'[d] = mp[d]
        /\ mp'[c] = IdlePart /\ uploads' = uploads /\ index' = index
    BY <1>0, <1>8, RequestRecord DEF RefusePart, vars
  <2>2. \A h \in Hashes : Extra(h)' = Extra(h)
    BY <2>1, ExtraStays DEF IdlePart
  <2> QED
    BY <1>0, <2>1, <2>2, BalanceRests
<1>9. CASE FailDiscard(c) \/ SavePart(c) \/ DeleteUpload(c)
  <2>1. index' = index
    BY <1>9 DEF FailDiscard, SavePart, DeleteUpload, vars
  <2>2. FailDiscard(c) => mp[c].todo = Held(mp[c].parts)
    BY DEF FailDiscard
  <2>3. \A h \in Hashes : Extra(h)' = Extra(h)
    BY <1>9, <2>2, ExtraOfDiscard, ExtraOfRecords
  <2> QED
    BY <1>0, <2>1, <2>3, BalanceRests
<1>10. CASE HoldPart(c)
  <2>1. mp[c].hash \in Hashes /\ MoveRef(mp[c].hash, 1) /\ 1 \in Int
    BY <1>10, RequestFields DEF HoldPart, Storing
  <2>2. \A h \in Hashes : Extra(h)' = Extra(h) + (IF h = mp[c].hash THEN 1 ELSE 0)
    BY <1>10, ExtraOfParts
  <2> QED
    BY <1>0, <2>1, <2>2, BalanceMoves
<1>11. CASE ReleaseReplaced(c)
  <2>1. Replaced(c) \in Hashes /\ MoveRef(Replaced(c), -1) /\ -1 \in Int
    BY <1>11, RequestFields DEF ReleaseReplaced, Storing
  <2>2. \A h \in Hashes : Extra(h)' = Extra(h) + (IF h = Replaced(c) THEN -1 ELSE 0)
    BY <1>11, ExtraOfParts
  <2> QED
    BY <1>0, <2>1, <2>2, BalanceMoves
<1>12. CASE PutAssembled(c)
  <2>1. /\ mp[c].pc = "listed" /\ \A d \in Clients \ {c} : mp'[d] = mp[d]
        /\ mp'[c] = [mp[c] EXCEPT !.pc = "putting"]
        /\ uploads' = uploads /\ index' = index
    BY <1>0, <1>12, RequestRecord DEF PutAssembled
  <2>2. mp'[c].pc = "putting"
    BY <1>0, <2>1 DEF MultipartState
  <2>3. \A h \in Hashes : Extra(h)' = Extra(h)
    BY <2>1, <2>2, ExtraStays
  <2> QED
    BY <1>0, <2>1, <2>3, BalanceRests
<1>13. ASSUME NEW n \in Numbers, ReleasePart(c, n)  PROVE Balanced(index)'
  <2> DEFINE g == mp[c].parts[n]
  <2>1. g \in Hashes /\ MoveRef(g, -1) /\ -1 \in Int
    BY <1>13, RequestFields DEF ReleasePart, Storing
  <2>2. \A h \in Hashes : Extra(h)' = Extra(h) + (IF h = g THEN -1 ELSE 0)
    BY <1>13, ExtraOfRecords
  <2> HIDE DEF g
  <2> QED
    BY <1>0, <2>1, <2>2, BalanceMoves
<1> QED
  BY <1>1, <1>4, <1>5, <1>6, <1>7, <1>8, <1>9, <1>10, <1>11, <1>12, <1>13, Zenon DEF PartStep

\* Committing the object of a completion moves keys and counts together
\* (CompleteUpload through PutWith).
LEMMA ObjectStepBalanced ==
  ASSUME UploadsInv, UploadsInv', Balanced(index), NEW c \in Clients,
         CommitObject(c) \/ RefuseObject(c)
  PROVE  Balanced(index)'
<1>0. MultipartTypeOK /\ TypeOK /\ mp \in [Clients -> MultipartState] /\ mp[c] \in MultipartState
      /\ index \in Index /\ clock \in Int
  BY DEF UploadsInv, MultipartTypeOK, TypeOK
<1>1. uploads' = uploads
  BY DEF CommitObject, RefuseObject
<1>2. /\ \A d \in Clients \ {c} : mp'[d] = mp[d]
      /\ \/ mp' = mp
         \/ mp[c].pc = "putting" /\ mp'[c] = IdlePart
         \/ /\ mp[c].pc = "putting" /\ mp'[c].pc = "discarding"
            /\ mp'[c].todo = Held(mp'[c].parts)
  <2>1. CASE mp' = mp
    BY <2>1
  <2>2. CASE mp[c].pc = "putting" /\ EndRequest(c)
    BY <1>0, <2>2, RequestRecord
  <2>3. CASE mp[c].pc = "putting" /\ Discard(c)
    <3> DEFINE m == [mp[c] EXCEPT !.pc = "discarding", !.todo = Held(mp[c].parts)]
    <3>1. mp' = [mp EXCEPT ![c] = m]
      BY <1>0, <2>3 DEF Discard
    <3>2. m.pc = "discarding" /\ m.parts = mp[c].parts /\ m.todo = Held(mp[c].parts)
      BY <1>0 DEF MultipartState
    <3> HIDE DEF m
    <3>3. mp'[c] = m /\ \A d \in Clients \ {c} : mp'[d] = mp[d]
      BY <1>0, <3>1
    <3> QED
      BY <2>3, <3>2, <3>3 DEF Held
  <2> QED
    BY <2>1, <2>2, <2>3 DEF CommitObject, RefuseObject
<1>3. \A h \in Hashes : Extra(h)' = Extra(h)
  <2>1. CASE mp' = mp
    BY <1>1, <2>1 DEF Extra, InFlight, Owed, Owing
  <2>2. CASE mp[c].pc = "putting" /\ mp'[c] = IdlePart
    BY <1>1, <1>2, <2>2, ExtraStays DEF IdlePart
  <2>3. CASE /\ mp[c].pc = "putting" /\ mp'[c].pc = "discarding"
             /\ mp'[c].todo = Held(mp'[c].parts)
    BY <1>1, <1>2, <2>3, ExtraStays
  <2> QED
    BY <1>2, <2>1, <2>2, <2>3
<1>4. CASE RefuseObject(c)
  <2>1. index' = index
    BY <1>4 DEF RefuseObject, Refuse
  <2> QED
    BY <1>0, <1>3, <2>1, BalanceRests
<1>5. CASE CommitObject(c)
  <2>1. /\ handler[c].key \in Keys /\ handler[c].hash \in Hashes /\ handler[c].seq \in Nat
        /\ index' = AppliedTo(Bind(index, handler[c].key, handler[c].hash, clock), handler[c].seq)
    BY <1>0, <1>5, HandlerFields DEF CommitObject, CommitPut
  <2> DEFINE jx == Bind(index, handler[c].key, handler[c].hash, clock)
  <2>2. jx \in Index /\ \A h \in Hashes : Drift(jx, h) = Drift(index, h)
    BY <1>0, <2>1, BindType, BindDrift
  <2> HIDE DEF jx
  <2>3. index' \in Index /\ index'.keys = jx.keys /\ index'.refs = jx.refs
    BY <2>1, <2>2, AppliedToType DEF jx
  <2>4. \A h \in Hashes : Drift(index', h) = Drift(index, h)
    BY <2>2, <2>3 DEF Drift, Bound
  <2>5. \A h \in Hashes : index'.refs[h].count = Cardinality(Bound(index', h)) + Extra(h)'
    BY <1>0, <1>3, <2>3, <2>4, BalanceStays
  <2> QED
    BY <2>5 DEF Balanced
<1> QED
  BY <1>4, <1>5

\* A replayed put or delete moves keys and counts together (apply).
LEMMA ReplayedDrift ==
  ASSUME NEW ix \in Index, NEW rec \in Record, NEW seq \in Nat, rec.op # "gc"
  PROVE  /\ Apply(ix, rec, seq) \in Index
         /\ \A h \in Hashes : Drift(Apply(ix, rec, seq), h) = Drift(ix, h)
<1>1. \A jx \in Index : /\ AppliedTo(jx, seq) \in Index
                         /\ \A h \in Hashes : Drift(AppliedTo(jx, seq), h) = Drift(jx, h)
  BY AppliedToType DEF Drift, Bound
<1>2. rec.key \in Keys /\ rec.time \in Int /\ (rec.op = "put" => rec.hash \in Hashes)
  BY DEF Record
<1>3. CASE rec.op = "put"
  <2>1. Apply(ix, rec, seq) = AppliedTo(Bind(ix, rec.key, rec.hash, rec.time), seq)
    BY <1>3 DEF Apply
  <2>2. /\ Bind(ix, rec.key, rec.hash, rec.time) \in Index
        /\ \A h \in Hashes : Drift(Bind(ix, rec.key, rec.hash, rec.time), h) = Drift(ix, h)
    <3> DEFINE k == rec.key
               g == rec.hash
               t == rec.time
    <3>1. k \in Keys /\ g \in Hashes /\ t \in Int
      BY <1>2, <1>3
    <3> HIDE DEF k, g, t
    <3>2. Bind(ix, k, g, t) \in Index
      BY <3>1, BindType
    <3>3. \A h \in Hashes : Drift(Bind(ix, k, g, t), h) = Drift(ix, h)
      BY <3>1, BindDrift
    <3> QED
      BY <3>2, <3>3 DEF k, g, t
  <2> QED
    BY <1>1, <2>1, <2>2
<1>4. CASE rec.op = "delete"
  <2>1. Apply(ix, rec, seq) = AppliedTo(Unbind(ix, rec.key, rec.time), seq)
    BY <1>4 DEF Apply
  <2>2. /\ Unbind(ix, rec.key, rec.time) \in Index
        /\ \A h \in Hashes : Drift(Unbind(ix, rec.key, rec.time), h) = Drift(ix, h)
    BY <1>2, UnbindType, UnbindDrift
  <2> QED
    BY <1>1, <2>1, <2>2
<1> QED
  BY <1>3, <1>4 DEF Record

\* The collector drops the reference record of a blob that nothing holds, which
\* was what its count said (collectExpired).
LEMMA DropBalanced ==
  ASSUME MultipartTypeOK, Balanced(index), NEW g \in Hashes, DropExpired(g),
         \A h \in Hashes : Extra(h)' = Extra(h)
  PROVE  Balanced(index)'
<1>1. /\ index \in Index /\ index.refs[g].count \in Int
      /\ index' = DropRef(index, g) /\ index.refs[g].count <= 0
  BY DEF DropExpired, Collectable, MultipartTypeOK, TypeOK, Index, Ref
<1>2. index'.keys = index.keys /\ index'.refs = [index.refs EXCEPT ![g] = NoRef]
  BY <1>1, DropRefType
<1>3. Cardinality(Bound(index, g)) \in Nat /\ Extra(g) \in Nat
  BY BoundFinite, ExtraType
<1>4. Cardinality(Bound(index, g)) = 0 /\ Extra(g) = 0
  BY <1>1, <1>3 DEF Balanced
<1>5. \A h \in Hashes : Bound(index', h) = Bound(index, h)
  BY <1>2 DEF Bound
<1>6. \A h \in Hashes : index'.refs[h] = IF h = g THEN NoRef ELSE index.refs[h]
  BY <1>1, <1>2 DEF Index
<1>7. \A h \in Hashes : index'.refs[h].count = Cardinality(Bound(index', h)) + Extra(h)'
  BY <1>4, <1>5, <1>6 DEF Balanced, NoRef
<1> QED
  BY <1>7 DEF Balanced

\* What is left of CountInv once the process and the uploads are what they are.
BalancedWhenRead ==
  /\ mode = "dropped" => /\ \A k \in Keys : index.keys[k] = None
                         /\ \A u \in Uploads : uploads[u].status # "open"
  /\ mode # "dropped" => Balanced(index)
  /\ mode \in {"recovering", "rebuilding"} => Balanced(work)

\* The store's own requests, its collector and its recovery keep every count
\* what holds the blob (PutWith, Delete, collectExpired, Recover).
LEMMA StoreStepBalanced ==
  ASSUME CountInv, StoreStep, Interval = 0 \/ "crash" \notin Environment
  PROVE  BalancedWhenRead'
<1>0. /\ MultipartTypeOK /\ TypeOK /\ index \in Index /\ work \in Index /\ clock \in Int
      /\ BalancedWhenRead
  BY DEF CountInv, UploadsInv, MultipartTypeOK, TypeOK, BalancedWhenRead
<1>1. /\ UNCHANGED <<uploads, mp, acked>>
      /\ \A h \in Hashes : Extra(h)' = Extra(h)
  <2>1. UNCHANGED <<uploads, mp, acked>>
    BY DEF StoreStep, multi
  <2> QED
    BY <2>1 DEF Extra, InFlight, Owed, Owing
<1>2. ASSUME UNCHANGED <<mode, index, work>>  PROVE BalancedWhenRead'
  BY <1>0, <1>1, <1>2 DEF BalancedWhenRead, Balanced
<1>3. ASSUME NEW c \in Clients,
             Request(c) \/ JournalPut(c) \/ JournalDelete(c) \/ OpenBlob(c)
      PROVE  BalancedWhenRead'
  <2>1. UNCHANGED <<mode, index, work>>
    BY <1>3 DEF Request, StoreBlob, FindKey, ResolveKey, JournalPut, JournalDelete,
       OpenBlob, replay
  <2> QED
    BY <1>2, <2>1
<1>4. ASSUME NEW c \in Clients, CommitDelete(c)  PROVE BalancedWhenRead'
  <2>1. /\ handler[c].key \in Keys /\ handler[c].seq \in Nat
        /\ index' = AppliedTo(Unbind(index, handler[c].key, clock), handler[c].seq)
        /\ mode' = mode /\ work' = work /\ handler[c].pc # "idle"
    BY <1>0, <1>4, HandlerFields DEF CommitDelete, replay
  <2>2. mode = "serving"
    BY <2>1 DEF CountInv, Attended
  <2> DEFINE jx == Unbind(index, handler[c].key, clock)
  <2>3. jx \in Index /\ \A h \in Hashes : Drift(jx, h) = Drift(index, h)
    BY <1>0, <2>1, UnbindType, UnbindDrift
  <2> HIDE DEF jx
  <2>4. index' \in Index /\ index'.keys = jx.keys /\ index'.refs = jx.refs
    BY <2>1, <2>3, AppliedToType DEF jx
  <2>5. \A h \in Hashes : Drift(index', h) = Drift(index, h)
    BY <2>3, <2>4 DEF Drift, Bound
  <2>6. \A h \in Hashes : index'.refs[h].count = Cardinality(Bound(index', h)) + Extra(h)'
    BY <1>0, <1>1, <2>2, <2>4, <2>5, BalanceStays DEF BalancedWhenRead
  <2> QED
    BY <2>1, <2>2, <2>6 DEF BalancedWhenRead, Balanced
<1>5. ASSUME NEW h \in Hashes, DropExpired(h)  PROVE BalancedWhenRead'
  <2>1. mode' = mode /\ work' = work /\ gc.pc # "asleep"
    BY <1>5 DEF DropExpired, replay
  <2>2. mode = "serving"
    BY <2>1 DEF CountInv, ReplaysNoCollection, NoCollection
  <2>3. Balanced(index)'
    BY <1>0, <1>1, <1>5, <2>2, DropBalanced DEF BalancedWhenRead
  <2> QED
    BY <2>1, <2>2, <2>3 DEF BalancedWhenRead
<1>6. ASSUME \/ StartPass \/ RemoveExpired \/ JournalCollected \/ FindOrphans \/ EndPass
             \/ \E h \in Hashes : SkipReferenced(h) \/ RemoveOrphan(h)
      PROVE  BalancedWhenRead'
  <2>1. UNCHANGED <<mode, index, work>>
    BY <1>6 DEF StartPass, RemoveExpired, JournalCollected, FindOrphans, EndPass,
       SkipReferenced, RemoveOrphan, replay
  <2> QED
    BY <1>2, <2>1
<1>7. CASE Start
  BY <1>0, <1>1, <1>7 DEF Start, BalancedWhenRead, Balanced
<1>8. CASE ReplayRecord
  <2>1. /\ mode \in {"recovering", "rebuilding"} /\ mode' = mode /\ index' = index
        /\ cursor <= Len(journal) /\ cursor \in Nat \ {0} /\ journal[cursor] \in Record
        /\ work' = Apply(work, journal[cursor], cursor)
    BY <1>0, <1>8 DEF ReplayRecord, TypeOK
  <2>2. journal[cursor].op # "gc"
    <3>1. journal # <<>>
      BY <2>1
    <3>2. Interval = 0
      BY <2>1, <3>1 DEF CountInv, ReplaysNoCollection
    <3>3. cursor \in DOMAIN journal
      BY <1>0, <2>1 DEF TypeOK
    <3> QED
      BY <3>2, <3>3 DEF CountInv, ReplaysNoCollection, NoCollection
  <2> DEFINE jx == Apply(work, journal[cursor], cursor)
  <2>3. jx \in Index /\ \A h \in Hashes : Drift(jx, h) = Drift(work, h)
    BY <1>0, <2>1, <2>2, ReplayedDrift
  <2> HIDE DEF jx
  <2>4. \A h \in Hashes : jx.refs[h].count = Cardinality(Bound(jx, h)) + Extra(h)'
    BY <1>0, <1>1, <2>1, <2>3, BalanceStays DEF BalancedWhenRead
  <2>5. Balanced(work)'
    BY <2>1, <2>4 DEF Balanced, jx
  <2> QED
    BY <1>0, <1>1, <2>1, <2>5 DEF BalancedWhenRead, Balanced
<1>9. CASE CommitReplay
  BY <1>0, <1>1, <1>9 DEF CommitReplay, BalancedWhenRead, Balanced
<1> QED
  BY <1>3, <1>4, <1>5, <1>6, <1>7, <1>8, <1>9, Zenon DEF StoreStep, Collect, Recovery

\* A crash finds no request that holds or gave back a reference by itself, and a
\* rebuild drops every reference when no upload is open (Recover, rebuildIndex).
LEMMA ProcessStepBalanced ==
  ASSUME CountInv, MultipartTypeOK', CrashAll \/ RebuildAll \/ TickAll,
         Mishaps = {}
  PROVE  BalancedWhenRead'
<1>0. /\ MultipartTypeOK /\ TypeOK /\ index \in Index /\ clock \in Int
      /\ BalancedWhenRead
  BY DEF CountInv, UploadsInv, MultipartTypeOK, TypeOK, BalancedWhenRead
<1>1. CASE TickAll
  <2>1. UNCHANGED <<uploads, mp, acked, mode, index, work>>
    BY <1>1 DEF TickAll, Tick, multi, replay
  <2>2. \A h \in Hashes : Extra(h)' = Extra(h)
    BY <2>1 DEF Extra, InFlight, Owed, Owing
  <2> QED
    BY <1>0, <2>1, <2>2 DEF BalancedWhenRead, Balanced
<1>2. CASE CrashAll
  <2>1. /\ mode # "dropped" /\ mode' = "stopped" /\ index' = index /\ uploads' = uploads
        /\ mp' = [c \in Clients |-> IdlePart]
        /\ \A c \in Clients : /\ mp[c].pc \notin {"held", "released"}
                              /\ mp[c].pc = "discarding" => mp[c].todo = Held(mp[c].parts)
    BY <1>2 DEF CrashAll, Crash, Halt
  <2>2. ASSUME NEW h \in Hashes  PROVE Extra(h)' = Extra(h)
    <3>1. Owed(h)' = Owed(h)
      <4>1. \A c \in Clients, u \in Uploads, n \in Numbers :
              ~Given(c, u, n)' /\ (uploads[u].parts[n] = h => ~Given(c, u, n))
        BY <2>1, GivenNothing DEF Given, IdlePart, CountInv
      <4> QED
        BY <2>1, <4>1, OwedSame
    <3>2. InFlight(h)' = InFlight(h)
      <4>1. Holding(h)' = {} /\ Holding(h) = {}
        BY <2>1 DEF Holding, IdlePart
      <4> QED
        BY <4>1 DEF InFlight, Holding
    <3> QED
      BY <3>1, <3>2 DEF Extra
  <2> QED
    BY <1>0, <2>1, <2>2 DEF BalancedWhenRead, Balanced
<1>3. CASE RebuildAll
  <2>1. \A u \in Uploads : uploads[u].status # "open"
    BY <1>3 DEF RebuildAll
  <2>2. CASE DropNamespaces
    <3>1. mode' = "dropped" /\ uploads' = uploads /\ index'.keys = EmptyIndex.keys
      BY <1>0, <1>3, <2>2 DEF RebuildAll, DropNamespaces, Index, multi
    <3> QED
      BY <2>1, <3>1 DEF BalancedWhenRead, EmptyIndex
  <2>3. CASE ResetIndex
    <3>1. /\ mode' = "rebuilding" /\ uploads' = uploads /\ mp' = mp /\ work' = index'
          /\ index'.keys = index.keys /\ index'.refs = EmptyIndex.refs
          /\ mode = "dropped"
      BY <1>0, <1>3, <2>3, EmptyIndexType DEF RebuildAll, ResetIndex, Index, multi
    <3>2. ASSUME NEW h \in Hashes
          PROVE  index'.refs[h].count = Cardinality(Bound(index', h)) + Extra(h)'
      <4>1. Owed(h)' = {}
        <5>1. \A u \in Uploads, n \in Numbers : uploads[u].parts[n] # h
          BY <1>0, <2>1, UploadTypes, NoneAssumption DEF MultipartTypeOK, NoParts
        <5>2. \A u \in Uploads, n \in Numbers : <<u, n>> \notin Owed(h)'
          BY <3>1, <5>1, OwedIs, ZenonT(30)
        <5>3. Owed(h)' \subseteq Uploads \X Numbers
          BY DEF Owed
        <5> QED
          BY <5>2, <5>3
      <4>2. InFlight(h)' = 0
        <5>1. Holding(h)' = {}
          BY <3>1 DEF CountInv, Attended, Holding
        <5>2. InFlight(h)' = Cardinality(Holding(h)')
          BY DEF InFlight, Holding
        <5> QED
          BY <5>1, <5>2, FS_EmptySet
      <4>4. Bound(index', h) = {}
        BY <1>0, <3>1, NoneAssumption DEF BalancedWhenRead, Bound
      <4>5. index'.refs[h].count = 0
        BY <3>1 DEF EmptyIndex, NoRef
      <4>6. Extra(h)' = 0
        BY <4>1, <4>2, FS_EmptySet DEF Extra
      <4> QED
        BY <4>4, <4>5, <4>6, FS_EmptySet
    <3> QED
      BY <3>1, <3>2 DEF BalancedWhenRead, Balanced
  <2> QED
    BY <1>3, <2>2, <2>3 DEF RebuildAll
<1> QED
  BY <1>1, <1>2, <1>3

\* So every count is what objects, uploads and requests hold, step by step.
LEMMA CountStep ==
  ASSUME Mishaps = {}, Interval = 0 \/ "crash" \notin Environment,
         CountInv, [MultipartNext]_mpVars
  PROVE  CountInv'
<1>0. /\ "parallel" \notin Mishaps
      /\ UploadsInv /\ TypeOK /\ BalancedWhenRead /\ Attended /\ ReplaysNoCollection
  BY DEF CountInv, UploadsInv, MultipartTypeOK, BalancedWhenRead
<1>1. UploadsInv' /\ MultipartTypeOK'
  <2>1. UploadsInv'
    BY <1>0, UploadsStep
  <2> QED
    BY <2>1 DEF UploadsInv
<1>2. CASE UNCHANGED mpVars
  <2>1. UNCHANGED <<uploads, mp, mode, index, work, journal, gc, handler>>
    BY <1>2 DEF mpVars, vars, multi, replay
  <2>2. \A h \in Hashes : Extra(h)' = Extra(h)
    BY <2>1 DEF Extra, InFlight, Owed, Owing
  <2>3. BalancedWhenRead'
    BY <1>0, <2>1, <2>2 DEF BalancedWhenRead, Balanced
  <2>4. Attended' /\ ReplaysNoCollection'
    BY <1>0, <2>1 DEF Attended, ReplaysNoCollection, NoCollection
  <2> QED
    BY <1>1, <2>3, <2>4 DEF CountInv, BalancedWhenRead
<1>3. CASE MultipartNext
  <2>1. Attended' /\ ReplaysNoCollection'
    BY <1>0, <1>3, AttendedStep
  <2>2. ASSUME NEW c \in Clients, PartStep(c) \/ CommitObject(c) \/ RefuseObject(c)
        PROVE  BalancedWhenRead'
    <3>1. mode = "serving" /\ mode' = "serving"
      BY <1>0, <2>2, PartStepServes, ObjectStepServes
    <3>2. Balanced(index)
      BY <1>0, <3>1 DEF BalancedWhenRead
    <3>3. Balanced(index)'
      BY <1>0, <1>1, <2>2, <3>2, PartStepBalanced, ObjectStepBalanced
    <3> QED
      BY <3>1, <3>3 DEF BalancedWhenRead
  <2>3. BalancedWhenRead'
    BY <1>1, <1>3, <2>2, MultipartSteps, StoreStepBalanced, ProcessStepBalanced
  <2> QED
    BY <1>1, <2>1, <2>3 DEF CountInv, BalancedWhenRead
<1> QED
  BY <1>2, <1>3

\* The counts start at nothing (New, loadUpload before CreateUpload).
LEMMA CountInit == MultipartInit => CountInv
<1> SUFFICES ASSUME MultipartInit PROVE CountInv
  OBVIOUS
<1>1. UploadsInv /\ MultipartTypeOK
  BY UploadsInit DEF UploadsInv
<1>2. /\ mode = "stopped" /\ index = EmptyIndex /\ journal = <<>> /\ gc = Sleeping
      /\ handler = [c \in Clients |-> Idle] /\ mp = [c \in Clients |-> IdlePart]
      /\ uploads = [u \in Uploads |-> Absent]
  BY DEF MultipartInit, Init
<1>3. Attended /\ ReplaysNoCollection
  BY <1>2 DEF Attended, ReplaysNoCollection, NoCollection, IdlePart, Idle, Sleeping
<1>4. ASSUME NEW h \in Hashes
      PROVE  index.refs[h].count = Cardinality(Bound(index, h)) + Extra(h)
  <2>1. Owed(h) = {}
    <3>1. \A u \in Uploads, n \in Numbers : uploads[u].parts[n] # h
      BY <1>2, UploadTypes, NoneAssumption DEF NoParts
    <3>2. \A u \in Uploads, n \in Numbers : <<u, n>> \notin Owed(h)
      BY <3>1, OwedIs
    <3>3. Owed(h) \subseteq Uploads \X Numbers
      BY DEF Owed
    <3> QED
      BY <3>2, <3>3
  <2>2. InFlight(h) = 0
    <3>1. Holding(h) = {}
      BY <1>2 DEF Holding, IdlePart
    <3> QED
      BY <1>1, <3>1, ExtraType, FS_EmptySet
  <2>3. Bound(index, h) = {} /\ index.refs[h].count = 0
    BY <1>2, NoneAssumption DEF Bound, EmptyIndex, NoRef
  <2>4. Extra(h) = 0
    BY <1>2, <2>1, <2>2, FS_EmptySet DEF Extra
  <2> QED
    BY <2>3, <2>4, FS_EmptySet
<1> QED
  BY <1>1, <1>2, <1>3, <1>4 DEF CountInv, Balanced

\* The count of every blob is exactly what objects, the records of open uploads
\* and parts under way hold of it, for any number of clients, uploads and parts:
\* nothing that is held can look unreferenced to the collector, and nothing that
\* is not held is kept for ever (multipart.go).  No two requests work on one
\* upload; no crash or failing transaction comes between the reference of a part
\* and its record, or between the first released part of a discarded upload and
\* the last; no rebuild meets an open upload, and no replay a collection.
THEOREM PartsAreCounted ==
  ASSUME Mishaps = {}, Interval = 0 \/ "crash" \notin Environment
  PROVE  MultipartSpec => []PartsCounted
<1>1. MultipartInit => CountInv
  BY CountInit
<1>2. CountInv /\ [MultipartNext]_mpVars => CountInv'
  BY CountStep
<1>3. CountInv => PartsCounted
  <2> SUFFICES ASSUME CountInv PROVE PartsCounted
    OBVIOUS
  <2>1. MultipartTypeOK
    BY DEF CountInv, UploadsInv
  <2>2. ASSUME mode # "dropped", NEW h \in Hashes
        PROVE  index.refs[h].count = Cardinality(Bound(index, h)) + InFlight(h)
                                       + Cardinality(Owed(h))
    <3>1. index.refs[h].count = Cardinality(Bound(index, h)) + Extra(h)
      BY <2>2 DEF CountInv, Balanced
    <3>2. /\ Cardinality(Bound(index, h)) \in Nat /\ InFlight(h) \in Nat
          /\ Cardinality(Owed(h)) \in Nat
      BY <2>1, BoundFinite, ExtraType
    <3> QED
      BY <3>1, <3>2 DEF Extra
  <2> QED
    BY <2>1, <2>2 DEF PartsCounted
<1> QED
  BY <1>1, <1>2, <1>3, PTL DEF MultipartSpec

-----------------------------------------------------------------------------
(***************************************************************************)
(* Parts are kept.  Between the write of a blob and the transaction that   *)
(* references it nothing but time protects the blob: its request is        *)
(* younger than the grace period, and its file or its last reference is    *)
(* younger than the request.                                               *)
(***************************************************************************)
\* Request c is on its way to reference content h, since time t: its blob is on
\* disk, and no count includes it yet.
Carries(c, h, t) ==
  \/ handler[c].pc \in {"stored", "putLogged"} /\ handler[c].hash = h /\ handler[c].since = t
  \/ mp[c].pc = "stored" /\ mp[c].hash = h /\ mp[c].since = t

Busy(c, t) ==
  \/ handler[c].pc # "idle" /\ handler[c].since = t
  \/ mp[c].pc # "idle" /\ mp[c].since = t

\* Content that was referenced, or written, or last released at t or later.
Fresh(h, t) ==
  /\ h \in stored
  /\ \/ index.refs[h].count > 0
     \/ index.refs[h].live /\ index.refs[h].unref >= t
     \/ ~index.refs[h].live /\ mtime[h] >= t

\* Nobody holds content h and nobody is on the way to reference it.
Unwanted(h) ==
  /\ h \in sent /\ index.refs[h].count <= 0
  /\ \A c \in Clients, t \in Nat : ~Carries(c, h, t)

RefsTold ==
  \A h \in Hashes :
    /\ index.refs[h].count > 0 => /\ index.refs[h].live /\ index.refs[h].unref = NoTime
                                  /\ h \in stored
    /\ index.refs[h].live => h \in sent

Kept ==
  /\ stored \subseteq sent
  /\ RefsTold
  /\ \A c \in Clients, h \in Hashes, t \in Nat : Carries(c, h, t) => Fresh(h, t)
  /\ \A c \in Clients, t \in Nat : Busy(c, t) => t <= clock /\ clock - t < Grace
  /\ gc.now <= clock
  /\ gc.pc \in {"remove", "append"} => Unwanted(gc.cur)
  /\ gc.pc = "orphans" => \A h \in gc.todo : Unwanted(h)

\* A process that never died starts from nothing.
Unstarted ==
  mode # "serving" =>
    /\ index.refs = EmptyIndex.refs
    /\ mode \in {"recovering", "rebuilding"} => work.refs = EmptyIndex.refs

KeepInv == CountInv /\ Kept /\ Unstarted

\* What a transaction of a request does to a reference record: it lowers it,
\* which stamps the time when nothing is left, or raises it.
Lowered(r, q, now) ==
  /\ r.count > 0 /\ q.live
  /\ \/ q.count > 0 /\ q.unref = NoTime
     \/ q.count <= 0 /\ q.unref = now

Raised(q) == q.count > 0 /\ q.live /\ q.unref = NoTime

\* A step that at most lowers references, or raises what a request is on its
\* way to reference, keeps what is kept (Tx.Ref).
LEMMA KeepRests ==
  ASSUME Kept, TypeOK, TypeOK', Grace # 0,
         UNCHANGED <<stored, mtime, sent, gc, clock>>,
         \A h \in Hashes : \/ index'.refs[h] = index.refs[h]
                           \/ Lowered(index.refs[h], index'.refs[h], clock)
                           \/ /\ Raised(index'.refs[h])
                              /\ \E c \in Clients, t \in Nat : Carries(c, h, t),
         \A c \in Clients, h \in Hashes, t \in Nat : Carries(c, h, t)' => Carries(c, h, t),
         \A c \in Clients, t \in Nat : Busy(c, t)' => Busy(c, t) \/ t = clock
  PROVE  Kept'
<1>0. /\ clock \in Nat /\ Grace \in Nat /\ gc \in CollectorState
      /\ \A h \in Hashes : index.refs[h].count \in Int /\ index.refs[h].unref \in Int
      /\ \A h \in Hashes : index'.refs[h].count \in Int
      /\ stored \subseteq Hashes /\ sent \subseteq Hashes
  BY GraceAssumption DEF TypeOK, Index, Ref
<1>1. \A c \in Clients, h \in Hashes, t \in Nat : Carries(c, h, t) => Busy(c, t)
  BY DEF Carries, Busy
<1>2. \A c \in Clients, h \in Hashes, t \in Nat : Carries(c, h, t) => h \in stored /\ t <= clock
  BY <1>1 DEF Kept, Fresh
<1>3. RefsTold'
  <2> SUFFICES ASSUME NEW h \in Hashes
               PROVE  /\ index'.refs[h].count > 0 =>
                           /\ index'.refs[h].live /\ index'.refs[h].unref = NoTime
                           /\ h \in stored
                      /\ index'.refs[h].live => h \in sent
    BY DEF RefsTold
  <2>1. CASE index'.refs[h] = index.refs[h]
    BY <2>1 DEF Kept, RefsTold
  <2>2. CASE Lowered(index.refs[h], index'.refs[h], clock)
    <3>1. /\ index.refs[h].count > 0 /\ index'.refs[h].live
          /\ index'.refs[h].count > 0 => index'.refs[h].unref = NoTime
      BY <1>0, <2>2 DEF Lowered
    <3>2. index.refs[h].live /\ h \in stored /\ h \in sent
      BY <3>1 DEF Kept, RefsTold
    <3> QED
      BY <3>1, <3>2
  <2>3. CASE Raised(index'.refs[h]) /\ \E c \in Clients, t \in Nat : Carries(c, h, t)
    <3>1. h \in stored /\ h \in sent
      BY <1>2, <2>3 DEF Kept
    <3> QED
      BY <2>3, <3>1 DEF Raised
  <2> QED
    BY <2>1, <2>2, <2>3
<1>4. ASSUME NEW c \in Clients, NEW h \in Hashes, NEW t \in Nat, Carries(c, h, t)'
      PROVE  Fresh(h, t)'
  <2>1. Fresh(h, t) /\ t <= clock
    BY <1>2, <1>4 DEF Kept
  <2>2. CASE index'.refs[h] = index.refs[h]
    BY <2>1, <2>2 DEF Fresh
  <2>3. CASE Lowered(index.refs[h], index'.refs[h], clock)
    BY <1>0, <2>1, <2>3 DEF Fresh, Lowered
  <2>4. CASE Raised(index'.refs[h])
    BY <2>1, <2>4 DEF Fresh, Raised
  <2> QED
    BY <2>2, <2>3, <2>4
<1>5. ASSUME NEW h \in Hashes, Unwanted(h)  PROVE Unwanted(h)'
  <2>1. index'.refs[h] = index.refs[h]
    BY <1>0, <1>5 DEF Unwanted, Lowered
  <2> QED
    BY <1>5, <2>1 DEF Unwanted
<1>6. ASSUME NEW c \in Clients, NEW t \in Nat, Busy(c, t)'
      PROVE  t <= clock /\ clock - t < Grace
  BY <1>0, <1>6 DEF Kept
<1>7. /\ gc.pc \in {"remove", "append"} => gc.cur \in Hashes
      /\ gc.pc = "orphans" => gc.todo \subseteq Hashes
  BY <1>0 DEF CollectorState
<1>8. gc.pc \in {"remove", "append"} => Unwanted(gc.cur)'
  <2> SUFFICES ASSUME gc.pc \in {"remove", "append"}  PROVE Unwanted(gc.cur)'
    OBVIOUS
  <2>1. PICK h \in Hashes : h = gc.cur
    BY <1>7
  <2>2. Unwanted(h)
    BY <2>1 DEF Kept
  <2>3. Unwanted(h)' /\ gc'.cur = h
    BY <1>5, <2>1, <2>2
  <2> QED
    BY <2>3 DEF Unwanted
<1>9. gc.pc = "orphans" => \A h \in gc.todo : Unwanted(h)'
  BY <1>5, <1>7 DEF Kept
<1>10. stored' \subseteq sent'
  BY DEF Kept
<1>11. gc'.now <= clock'
  BY DEF Kept
<1>12. /\ gc'.pc \in {"remove", "append"} => Unwanted(gc.cur)'
       /\ gc'.pc = "orphans" => \A h \in gc'.todo : Unwanted(h)'
  BY <1>8, <1>9
<1>13. \A c \in Clients, t \in Nat : Busy(c, t)' => t <= clock' /\ clock' - t < Grace
  BY <1>6
<1> QED
  BY <1>3, <1>4, <1>10, <1>11, <1>12, <1>13 DEF Kept

\* A blob that is written is fresh for the request that writes it, and what the
\* collector is about to remove is not written again (blob.Put).
LEMMA KeepPuts ==
  ASSUME Kept, TypeOK, Grace # 0, NEW h \in Hashes, NEW s \in Nat, s <= clock,
         h \in sent => index.refs[h].count > 0,
         stored' = stored \cup {h},
         mtime' = IF h \in stored THEN mtime ELSE [mtime EXCEPT ![h] = clock],
         sent' = sent \cup {h},
         UNCHANGED <<index, gc, clock>>,
         \A c \in Clients, g \in Hashes, t \in Nat :
           Carries(c, g, t)' => Carries(c, g, t) \/ (g = h /\ t = s),
         \A c \in Clients, t \in Nat : Busy(c, t)' => Busy(c, t) \/ t = clock
  PROVE  Kept'
<1>0. /\ clock \in Nat /\ Grace \in Nat /\ gc \in CollectorState
      /\ mtime \in [Hashes -> Nat]
      /\ \A g \in Hashes : index.refs[g].count \in Int /\ index.refs[g].unref \in Int
  BY GraceAssumption DEF TypeOK, Index, Ref
<1>1. RefsTold'
  BY DEF Kept, RefsTold
<1>2. ASSUME NEW g \in Hashes, NEW t \in Nat, Fresh(g, t)  PROVE Fresh(g, t)'
  <2>1. mtime'[g] = mtime[g]
    BY <1>0, <1>2 DEF Fresh
  <2> QED
    BY <1>2, <2>1 DEF Fresh
<1>3. Fresh(h, s)'
  <2>1. CASE h \in sent
    BY <2>1 DEF Fresh
  <2>2. CASE h \notin sent
    <3>1. h \notin stored /\ ~index.refs[h].live
      BY <2>2 DEF Kept, RefsTold
    <3>2. mtime'[h] = clock
      BY <1>0, <3>1
    <3> QED
      BY <1>0, <3>1, <3>2 DEF Fresh
  <2> QED
    BY <2>1, <2>2
<1>4. ASSUME NEW g \in Hashes, Unwanted(g)  PROVE Unwanted(g)'
  <2>1. g # h
    BY <1>0, <1>4 DEF Unwanted
  <2> QED
    BY <1>4, <2>1 DEF Unwanted
<1>5. /\ gc.pc \in {"remove", "append"} => gc.cur \in Hashes
      /\ gc.pc = "orphans" => gc.todo \subseteq Hashes
  BY <1>0 DEF CollectorState
<1>6. gc'.pc \in {"remove", "append"} => Unwanted(gc.cur)'
  <2> SUFFICES ASSUME gc.pc \in {"remove", "append"}  PROVE Unwanted(gc.cur)'
    OBVIOUS
  <2>1. PICK g \in Hashes : g = gc.cur
    BY <1>5
  <2>2. Unwanted(g)
    BY <2>1 DEF Kept
  <2>3. Unwanted(g)' /\ gc'.cur = g
    BY <1>4, <2>1, <2>2
  <2> QED
    BY <2>3 DEF Unwanted
<1>7. gc'.pc = "orphans" => \A g \in gc'.todo : Unwanted(g)'
  BY <1>4, <1>5 DEF Kept
<1>8. \A c \in Clients, g \in Hashes, t \in Nat : Carries(c, g, t)' => Fresh(g, t)'
  BY <1>2, <1>3 DEF Kept
<1>9. \A c \in Clients, t \in Nat : Busy(c, t)' => t <= clock' /\ clock' - t < Grace
  BY <1>0 DEF Kept
<1>10. stored' \subseteq sent' /\ gc'.now <= clock'
  BY DEF Kept
<1> QED
  BY <1>1, <1>6, <1>7, <1>8, <1>9, <1>10 DEF Kept

\* What one adjustment does to a reference record (Tx.Ref).
LEMMA AdjustedRef ==
  ASSUME NEW refs \in [Hashes -> Ref], NEW g \in Hashes, NEW now \in Nat
  PROVE  /\ \A d \in {1, -1}, h \in Hashes \ {g} : AdjustRef(refs, g, d, now)[h] = refs[h]
         /\ refs[g].count >= 0 => Raised(AdjustRef(refs, g, 1, now)[g])
         /\ refs[g].count > 0 /\ refs[g].unref = NoTime =>
              Lowered(refs[g], AdjustRef(refs, g, -1, now)[g], now)
<1>1. \A d \in {1, -1}, h \in Hashes \ {g} : AdjustRef(refs, g, d, now)[h] = refs[h]
  BY DEF AdjustRef
<1>2. refs[g].count \in Int /\ refs[g].unref \in Int
  BY DEF Ref
<1>3. \A d \in {1, -1} : AdjustRef(refs, g, d, now)[g] =
        [live |-> TRUE, count |-> refs[g].count + d,
         unref |-> IF refs[g].count + d > 0 THEN NoTime
                   ELSE IF refs[g].unref = NoTime THEN now ELSE refs[g].unref]
  BY DEF AdjustRef
<1>4. refs[g].count >= 0 => Raised(AdjustRef(refs, g, 1, now)[g])
  BY <1>2, <1>3 DEF Raised
<1>5. refs[g].count > 0 /\ refs[g].unref = NoTime =>
        Lowered(refs[g], AdjustRef(refs, g, -1, now)[g], now)
  BY <1>2, <1>3 DEF Lowered
<1> QED
  BY <1>1, <1>4, <1>5

\* The transactions of requests raise the record of the content they bring and
\* lower that of the content they give up (bind, unbind, releaseBlob).
LEMMA TransactionRefs ==
  ASSUME TypeOK, RefsTold, \A h \in Hashes : index.refs[h].count >= 0,
         \A h \in Hashes : index'.refs[h].count >= 0
  PROVE  /\ \A g \in Hashes, d \in {1, -1} : MoveRef(g, d) =>
              \A h \in Hashes : \/ index'.refs[h] = index.refs[h]
                                \/ Lowered(index.refs[h], index'.refs[h], clock)
                                \/ d = 1 /\ h = g /\ Raised(index'.refs[h])
         /\ \A k \in Keys, g \in Hashes, seq \in Nat :
              index' = AppliedTo(Bind(index, k, g, clock), seq) =>
              \A h \in Hashes : \/ index'.refs[h] = index.refs[h]
                                \/ Lowered(index.refs[h], index'.refs[h], clock)
                                \/ h = g /\ Raised(index'.refs[h])
         /\ \A k \in Keys, seq \in Nat :
              index' = AppliedTo(Unbind(index, k, clock), seq) =>
              \A h \in Hashes : \/ index'.refs[h] = index.refs[h]
                                \/ Lowered(index.refs[h], index'.refs[h], clock)
<1>0. /\ index \in Index /\ index.refs \in [Hashes -> Ref] /\ clock \in Nat /\ clock \in Int
      /\ \A k \in Keys : index.keys[k] \in Hashes \cup {None}
      /\ \A h \in Hashes : index.refs[h].count \in Int
  BY DEF TypeOK, Index, Ref
<1>1. \A h \in Hashes : index.refs[h].count > 0 => index.refs[h].unref = NoTime
  BY DEF RefsTold
<1>L. ASSUME NEW g \in Hashes, index.refs[g].count > 0
      PROVE  Lowered(index.refs[g], AdjustRef(index.refs, g, -1, clock)[g], clock)
  BY <1>0, <1>1, <1>L, AdjustedRef
<1>2. ASSUME NEW g \in Hashes, NEW d \in {1, -1}, MoveRef(g, d), NEW h \in Hashes
      PROVE  \/ index'.refs[h] = index.refs[h]
             \/ Lowered(index.refs[h], index'.refs[h], clock)
             \/ d = 1 /\ h = g /\ Raised(index'.refs[h])
  <2>1. index'.refs = AdjustRef(index.refs, g, d, clock)
    BY <1>0, <1>2 DEF MoveRef, Index
  <2>2. CASE h # g
    BY <1>0, <2>1, <2>2, AdjustedRef
  <2>3. CASE h = g /\ d = 1
    BY <1>0, <2>1, <2>3, AdjustedRef
  <2>4. CASE h = g /\ d = -1
    <3>1. index'.refs[g].count = index.refs[g].count + d
      BY <1>0, <2>1, AdjustRefCount
    <3>2. index.refs[g].count > 0
      BY <1>0, <2>4, <3>1
    <3> QED
      BY <1>L, <2>1, <2>4, <3>2
  <2> QED
    BY <2>2, <2>3, <2>4
<1>3. ASSUME NEW k \in Keys, NEW seq \in Nat, NEW h \in Hashes,
             index' = AppliedTo(Unbind(index, k, clock), seq)
      PROVE  \/ index'.refs[h] = index.refs[h]
             \/ Lowered(index.refs[h], index'.refs[h], clock)
  <2>1. /\ Unbind(index, k, clock) \in Index
        /\ Unbind(index, k, clock).refs = Release(index, index.keys[k], clock)
    BY <1>0, UnbindType, Zenon
  <2>2. index'.refs = Release(index, index.keys[k], clock)
    BY <1>3, <2>1, AppliedToType
  <2>3. CASE index.keys[k] = None
    BY <2>2, <2>3 DEF Release
  <2>4. CASE index.keys[k] # None
    <3>1. PICK g \in Hashes : g = index.keys[k]
      BY <1>0, <2>4 DEF Index
    <3>2. index'.refs = AdjustRef(index.refs, g, -1, clock)
      BY <2>2, <2>4, <3>1 DEF Release
    <3>3. CASE h # g
      BY <1>0, <3>2, <3>3, AdjustedRef
    <3>4. CASE h = g
      <4>1. index'.refs[g].count = index.refs[g].count + (-1)
        BY <1>0, <3>2, AdjustRefCount
      <4>2. index.refs[g].count > 0
        BY <1>0, <4>1
      <4> QED
        BY <1>L, <3>2, <3>4, <4>2
    <3> QED
      BY <3>3, <3>4
  <2> QED
    BY <2>3, <2>4
<1>4. ASSUME NEW k \in Keys, NEW g \in Hashes, NEW seq \in Nat, NEW h \in Hashes,
             index' = AppliedTo(Bind(index, k, g, clock), seq)
      PROVE  \/ index'.refs[h] = index.refs[h]
             \/ Lowered(index.refs[h], index'.refs[h], clock)
             \/ h = g /\ Raised(index'.refs[h])
  <2>1. Bind(index, k, g, clock) \in Index
    BY <1>0, BindType, Zenon
  <2>2. index'.refs = Bind(index, k, g, clock).refs
    BY <1>4, <2>1, AppliedToType
  <2>3. CASE index.keys[k] = g
    BY <2>2, <2>3 DEF Bind
  <2>4. CASE index.keys[k] # g
    <3> DEFINE released == Release(index, index.keys[k], clock)
    <3>1. released \in [Hashes -> Ref]
      BY <1>0, ReleaseType
    <3>2. Bind(index, k, g, clock) =
            [index EXCEPT !.keys[k] = g, !.refs = AdjustRef(released, g, 1, clock)]
      BY <2>4 DEF Bind
    <3>3. \A x \in Hashes : x # index.keys[k] => released[x] = index.refs[x]
      <4> SUFFICES ASSUME NEW x \in Hashes, x # index.keys[k]
                   PROVE  released[x] = index.refs[x]
        OBVIOUS
      <4>1. CASE index.keys[k] = None
        BY <4>1 DEF Release
      <4>2. CASE index.keys[k] # None
        <5>1. PICK old \in Hashes : old = index.keys[k]
          BY <1>0, <4>2 DEF Index
        <5>2. released = AdjustRef(index.refs, old, -1, clock)
          BY <4>2, <5>1 DEF Release
        <5> QED
          BY <1>0, <5>1, <5>2, AdjustedRef
      <4> QED
        BY <4>1, <4>2
    <3>4. ASSUME h = index.keys[k]  PROVE released[h] = AdjustRef(index.refs, h, -1, clock)[h]
      BY <3>4, NoneAssumption DEF Release
    <3> HIDE DEF released
    <3>5. index'.refs = AdjustRef(released, g, 1, clock)
      BY <1>0, <2>2, <3>2 DEF Index
    <3>6. CASE h = g
      <4>1. released[g].count >= 0
        BY <2>4, <3>3
      <4> QED
        BY <1>0, <3>1, <3>5, <3>6, <4>1, AdjustedRef
    <3>7. CASE h # g /\ h # index.keys[k]
      <4>1. index'.refs[h] = released[h]
        BY <1>0, <3>1, <3>5, <3>7, AdjustedRef
      <4> QED
        BY <3>3, <3>7, <4>1
    <3>8. CASE h # g /\ h = index.keys[k]
      <4>1. index'.refs[h] = AdjustRef(index.refs, h, -1, clock)[h]
        BY <1>0, <3>1, <3>4, <3>5, <3>8, AdjustedRef
      <4>2. index'.refs[h].count = index.refs[h].count + (-1)
        BY <1>0, <4>1, AdjustRefCount
      <4>3. index.refs[h].count > 0
        BY <1>0, <4>2
      <4> QED
        BY <1>L, <4>1, <4>3
    <3> QED
      BY <3>6, <3>7, <3>8
  <2> QED
    BY <2>3, <2>4
<1> QED
  BY <1>2, <1>3, <1>4

\* The collector takes only what is unwanted: a record that expired, or a file
\* that no record names, is older than any request that could still reference
\* it (collectExpired, collectOrphans).
LEMMA CollectorKeeps ==
  ASSUME Kept, TypeOK, Collect, UNCHANGED mp
  PROVE  Kept'
<1>0. /\ clock \in Nat /\ Grace \in Nat /\ gc \in CollectorState /\ gc.now \in Nat
      /\ index \in Index /\ mtime \in [Hashes -> Nat] /\ stored \subseteq Hashes
      /\ \A h \in Hashes : index.refs[h].count \in Int /\ index.refs[h].unref \in Int
  BY GraceAssumption DEF TypeOK, Index, Ref, CollectorState
<1>1. UNCHANGED <<handler, mp, clock, sent, mtime>>
  BY DEF Collect, StartPass, RemoveExpired, JournalCollected, FindOrphans, EndPass,
     DropExpired, SkipReferenced, RemoveOrphan, disk
<1>2. /\ \A c \in Clients, h \in Hashes, t \in Nat : Carries(c, h, t)' <=> Carries(c, h, t)
      /\ \A c \in Clients, t \in Nat : Busy(c, t)' <=> Busy(c, t)
  BY <1>1 DEF Carries, Busy
<1>3. \A c \in Clients, h \in Hashes, t \in Nat : Carries(c, h, t) =>
        Fresh(h, t) /\ t <= clock /\ clock - t < Grace
  <2>1. \A c \in Clients, h \in Hashes, t \in Nat : Carries(c, h, t) => Busy(c, t)
    BY DEF Carries, Busy
  <2> QED
    BY <2>1 DEF Kept
<1>4. \A c \in Clients, t \in Nat : Busy(c, t)' => t <= clock' /\ clock' - t < Grace
  BY <1>1, <1>2 DEF Kept
<1>5. ASSUME UNCHANGED <<index, stored>>
      PROVE  /\ stored' \subseteq sent' /\ RefsTold'
             /\ \A c \in Clients, h \in Hashes, t \in Nat : Carries(c, h, t)' => Fresh(h, t)'
             /\ \A h \in Hashes : Unwanted(h) => Unwanted(h)'
  <2>1. \A c \in Clients, h \in Hashes, t \in Nat : Carries(c, h, t)' => Fresh(h, t)'
    BY <1>1, <1>2, <1>3, <1>5 DEF Fresh
  <2>2. \A h \in Hashes : Unwanted(h) => Unwanted(h)'
    BY <1>1, <1>2, <1>5 DEF Unwanted
  <2> QED
    BY <1>1, <1>5, <2>1, <2>2 DEF Kept, RefsTold
<1>6. CASE StartPass
  <2>1. /\ UNCHANGED <<index, stored>> /\ gc'.pc = "expire" /\ gc'.now = clock
    BY <1>0, <1>6 DEF StartPass, disk, CollectorState
  <2> QED
    BY <1>0, <1>1, <1>4, <1>5, <2>1 DEF Kept
<1>7. ASSUME NEW h \in Hashes, SkipReferenced(h)  PROVE Kept'
  <2>1. /\ UNCHANGED <<index, stored>> /\ gc'.pc = "expire" /\ gc'.now = gc.now
    BY <1>0, <1>7 DEF SkipReferenced, disk, CollectorState
  <2> QED
    BY <1>0, <1>1, <1>4, <1>5, <2>1 DEF Kept
<1>8. CASE JournalCollected
  <2>1. /\ UNCHANGED <<index, stored>> /\ gc'.pc = "expire" /\ gc'.now = gc.now
    BY <1>0, <1>8 DEF JournalCollected, disk, CollectorState
  <2> QED
    BY <1>0, <1>1, <1>4, <1>5, <2>1 DEF Kept
<1>9. CASE EndPass
  <2>1. /\ UNCHANGED <<index, stored>> /\ gc'.pc = "asleep" /\ gc'.now = 0
    BY <1>9 DEF EndPass, disk, Sleeping
  <2> QED
    BY <1>0, <1>1, <1>4, <1>5, <2>1 DEF Kept
<1>10. CASE FindOrphans
  <2>1. /\ UNCHANGED <<index, stored>> /\ gc'.pc = "orphans" /\ gc'.now = gc.now
        /\ gc'.todo = {h \in stored : gc.now - mtime[h] >= Grace /\ ~index.refs[h].live}
    BY <1>0, <1>10 DEF FindOrphans, disk, CollectorState
  <2>2. ASSUME NEW h \in gc'.todo  PROVE Unwanted(h)'
    <3>1. h \in Hashes /\ h \in stored /\ gc.now - mtime[h] >= Grace /\ ~index.refs[h].live
      BY <1>0, <2>1, <2>2
    <3>2. h \in sent /\ index.refs[h].count <= 0
      BY <1>0, <3>1 DEF Kept, RefsTold
    <3>3. ASSUME NEW c \in Clients, NEW t \in Nat, Carries(c, h, t)  PROVE FALSE
      <4>1. mtime[h] >= t /\ clock - t < Grace
        BY <1>0, <1>3, <3>1, <3>2, <3>3 DEF Fresh
      <4>2. gc.now <= clock /\ mtime[h] \in Nat
        BY <1>0, <3>1 DEF Kept
      <4> QED
        BY <1>0, <3>1, <4>1, <4>2
    <3>4. Unwanted(h)
      BY <3>2, <3>3 DEF Unwanted
    <3> QED
      BY <1>5, <2>1, <3>1, <3>4
  <2> QED
    BY <1>0, <1>1, <1>4, <1>5, <2>1, <2>2 DEF Kept
<1>11. ASSUME NEW h \in Hashes, DropExpired(h)  PROVE Kept'
  <2>1. /\ stored' = stored /\ gc'.pc = "remove" /\ gc'.now = gc.now /\ gc'.cur = h
        /\ index' = DropRef(index, h) /\ Collectable(index.refs[h], gc.now)
    BY <1>0, <1>11 DEF DropExpired, disk, CollectorState
  <2>2. \A g \in Hashes : index'.refs[g] = IF g = h THEN NoRef ELSE index.refs[g]
    <3>1. index'.refs = [index.refs EXCEPT ![h] = NoRef]
      BY <1>0, <2>1, DropRefType
    <3> QED
      BY <1>0, <3>1 DEF Index
  <2>3. /\ index.refs[h].live /\ index.refs[h].count <= 0 /\ index.refs[h].unref # NoTime
        /\ gc.now - index.refs[h].unref >= Grace
    BY <2>1 DEF Collectable
  <2>4. ASSUME NEW c \in Clients, NEW t \in Nat, Carries(c, h, t)  PROVE FALSE
    <3>1. index.refs[h].unref >= t /\ clock - t < Grace /\ gc.now <= clock
      BY <1>0, <1>3, <2>3, <2>4 DEF Fresh, Kept
    <3> QED
      BY <1>0, <2>3, <3>1
  <2>5. Unwanted(h)'
    BY <1>1, <1>2, <2>2, <2>3, <2>4 DEF Unwanted, Kept, RefsTold, NoRef
  <2>6. \A c \in Clients, g \in Hashes, t \in Nat : Carries(c, g, t)' => Fresh(g, t)'
    BY <1>1, <1>2, <1>3, <2>1, <2>2, <2>4 DEF Fresh
  <2>7. RefsTold' /\ stored' \subseteq sent'
    BY <1>1, <2>1, <2>2 DEF Kept, RefsTold, NoRef
  <2>8. Unwanted(gc.cur)'
    BY <2>1, <2>5 DEF Unwanted
  <2> QED
    BY <1>0, <1>1, <1>4, <2>1, <2>6, <2>7, <2>8 DEF Kept
<1>12. ASSUME NEW h \in Hashes, Unwanted(h), index' = index, stored' = stored \ {h}
       PROVE  /\ stored' \subseteq sent' /\ RefsTold'
              /\ \A c \in Clients, g \in Hashes, t \in Nat : Carries(c, g, t)' => Fresh(g, t)'
              /\ \A g \in Hashes : Unwanted(g) => Unwanted(g)'
  <2>1. \A c \in Clients, g \in Hashes, t \in Nat : Carries(c, g, t)' => Fresh(g, t)'
    BY <1>1, <1>2, <1>3, <1>12 DEF Fresh, Unwanted
  <2>2. \A g \in Hashes : Unwanted(g) => Unwanted(g)'
    BY <1>1, <1>2, <1>12 DEF Unwanted
  <2>3. RefsTold'
    BY <1>0, <1>1, <1>12 DEF Kept, RefsTold, Unwanted
  <2> QED
    BY <1>1, <1>12, <2>1, <2>2, <2>3 DEF Kept
<1>13. CASE RemoveExpired
  <2>1. /\ gc.pc = "remove" /\ gc.cur \in Hashes /\ index' = index /\ stored' = stored \ {gc.cur}
        /\ gc'.pc = "append" /\ gc'.now = gc.now /\ gc'.cur = gc.cur
    BY <1>0, <1>13 DEF RemoveExpired, CollectorState
  <2>2. PICK h \in Hashes : h = gc.cur
    BY <2>1
  <2>3. Unwanted(h)
    BY <2>1, <2>2 DEF Kept
  <2>4. /\ stored' \subseteq sent' /\ RefsTold'
        /\ \A c \in Clients, g \in Hashes, t \in Nat : Carries(c, g, t)' => Fresh(g, t)'
        /\ Unwanted(h)'
    BY <1>12, <2>1, <2>2, <2>3
  <2>5. Unwanted(gc.cur)'
    BY <2>1, <2>2, <2>4 DEF Unwanted
  <2> QED
    BY <1>0, <1>1, <1>4, <2>1, <2>4, <2>5 DEF Kept
<1>14. ASSUME NEW h \in Hashes, RemoveOrphan(h)  PROVE Kept'
  <2>1. /\ gc.pc = "orphans" /\ h \in gc.todo /\ index' = index /\ stored' = stored \ {h}
        /\ gc'.pc = "orphans" /\ gc'.now = gc.now /\ gc'.todo = gc.todo \ {h}
        /\ gc.todo \subseteq Hashes
    BY <1>0, <1>14 DEF RemoveOrphan, CollectorState
  <2>2. Unwanted(h) /\ \A g \in gc'.todo : Unwanted(g)
    BY <2>1 DEF Kept
  <2>3. /\ stored' \subseteq sent' /\ RefsTold'
        /\ \A c \in Clients, g \in Hashes, t \in Nat : Carries(c, g, t)' => Fresh(g, t)'
        /\ \A g \in gc'.todo : Unwanted(g)'
    BY <1>12, <2>1, <2>2
  <2> QED
    BY <1>0, <1>1, <1>4, <2>1, <2>3 DEF Kept
<1> QED
  BY <1>6, <1>7, <1>8, <1>9, <1>10, <1>11, <1>13, <1>14 DEF Collect

\* No count is below zero while the index has its namespace.
Counted == mode # "dropped" => \A h \in Hashes : index.refs[h].count >= 0

\* What objects, uploads and requests hold of a blob is never less than nothing
\* (bind, unbind, releaseBlob).
LEMMA CountsAreCounts == CountInv => Counted
<1> SUFFICES ASSUME CountInv, mode # "dropped", NEW h \in Hashes
             PROVE  index.refs[h].count >= 0
  BY DEF Counted
<1>1. index.refs[h].count = Cardinality(Bound(index, h)) + Extra(h)
  BY DEF CountInv, Balanced
<1>2. Cardinality(Bound(index, h)) \in Nat /\ Extra(h) \in Nat
  BY BoundFinite, ExtraType DEF CountInv, UploadsInv
<1> QED
  BY <1>1, <1>2

\* The requests of the store keep what is kept (PutWith, Delete, Get).
LEMMA RequestKeeps ==
  ASSUME KeepInv, Counted, Counted', TypeOK', Grace # 0, "reupload" \notin Environment,
         mode = "serving", NEW c \in Clients,
         \A d \in Clients :
           \/ mp'[d] = mp[d] \/ mp'[d].pc = "idle"
           \/ mp'[d].pc # "stored" /\ mp[d].pc # "idle" /\ mp'[d].since = mp[d].since,
         \/ Request(c) \/ JournalPut(c) \/ JournalDelete(c) \/ CommitDelete(c) \/ OpenBlob(c)
         \/ CommitPut(c) \/ Refuse(c)
  PROVE  Kept'
<1>0. /\ TypeOK /\ Kept /\ RefsTold /\ clock \in Nat /\ clock <= clock
      /\ handler \in [Clients -> HandlerState] /\ handler[c] \in HandlerState
      /\ \A h \in Hashes : index.refs[h].count >= 0
  BY DEF KeepInv, CountInv, UploadsInv, MultipartTypeOK, Kept, TypeOK, Counted
<1>1. ASSUME handler' = [handler EXCEPT ![c] = Idle],
             UNCHANGED <<stored, mtime, sent, gc, clock, mode>>,
             \A h \in Hashes : \/ index'.refs[h] = index.refs[h]
                               \/ Lowered(index.refs[h], index'.refs[h], clock)
                               \/ /\ Raised(index'.refs[h])
                                  /\ \E t \in Nat : Carries(c, h, t)
      PROVE  Kept'
  <2>1. handler'[c] = Idle /\ \A d \in Clients \ {c} : handler'[d] = handler[d]
    BY <1>0, <1>1
  <2>2. /\ \A d \in Clients, t \in Nat : Busy(d, t)' => Busy(d, t) \/ t = clock
        /\ \A d \in Clients, h \in Hashes, t \in Nat : Carries(d, h, t)' => Carries(d, h, t)
    BY <2>1 DEF Busy, Carries, Idle
  <2> QED
    BY <1>0, <1>1, <2>2, KeepRests
<1>2. ASSUME NEW r, handler' = [handler EXCEPT ![c] = r],
             UNCHANGED <<index, stored, mtime, sent, gc, clock>>,
             r.pc \in {"stored", "putLogged"} =>
               /\ handler[c].pc = "stored" /\ r.hash = handler[c].hash
               /\ r.since = handler[c].since,
             \/ r.since = clock
             \/ handler[c].pc # "idle" /\ r.since = handler[c].since
      PROVE  Kept'
  <2>1. handler'[c] = r /\ \A d \in Clients \ {c} : handler'[d] = handler[d]
    BY <1>0, <1>2
  <2>2. /\ \A d \in Clients, t \in Nat : Busy(d, t)' => Busy(d, t) \/ t = clock
        /\ \A d \in Clients, h \in Hashes, t \in Nat : Carries(d, h, t)' => Carries(d, h, t)
    BY <1>2, <2>1 DEF Busy, Carries
  <2> QED
    BY <1>0, <1>2, <2>2, KeepRests
<1>3. ASSUME NEW k \in Keys, NEW h \in Hashes, StoreBlob(c, k, h)  PROVE Kept'
  <2> DEFINE r == [pc |-> "stored", key |-> k, hash |-> h, seq |-> 0, since |-> clock]
  <2>1. /\ handler[c].pc = "idle" /\ handler' = [handler EXCEPT ![c] = r]
        /\ h \in sent => index.refs[h].count > 0
        /\ stored' = stored \cup {h} /\ sent' = sent \cup {h}
        /\ mtime' = IF h \in stored THEN mtime ELSE [mtime EXCEPT ![h] = clock]
        /\ UNCHANGED <<index, gc, clock>>
    BY <1>0, <1>3 DEF StoreBlob, Becomes
  <2>2. r.pc = "stored" /\ r.hash = h /\ r.since = clock
    OBVIOUS
  <2> HIDE DEF r
  <2>3. handler'[c] = r /\ \A d \in Clients \ {c} : handler'[d] = handler[d]
    BY <1>0, <2>1
  <2>4. \A d \in Clients, t \in Nat : Busy(d, t)' => Busy(d, t) \/ t = clock
    BY <2>2, <2>3 DEF Busy
  <2>5. PICK s \in Nat : s = clock
    BY <1>0
  <2>6. \A d \in Clients, g \in Hashes, t \in Nat :
          Carries(d, g, t)' => Carries(d, g, t) \/ (g = h /\ t = s)
    BY <2>2, <2>3, <2>5 DEF Carries
  <2>7. s <= clock
    BY <1>0, <2>5
  <2> QED
    BY <1>0, <2>1, <2>4, <2>6, <2>7, KeepPuts
<1>4. ASSUME NEW k \in Keys, FindKey(c, k)  PROVE Kept'
  <2> DEFINE r == [pc |-> "found", key |-> k, hash |-> None, seq |-> 0, since |-> clock]
  <2>1. /\ handler' = [handler EXCEPT ![c] = r]
        /\ UNCHANGED <<index, stored, mtime, sent, gc, clock>>
    BY <1>0, <1>4 DEF FindKey, Becomes, disk
  <2>2. r.pc = "found" /\ r.since = clock
    OBVIOUS
  <2> HIDE DEF r
  <2> QED
    BY <1>2, <2>1, <2>2
<1>5. ASSUME NEW k \in Keys, ResolveKey(c, k)  PROVE Kept'
  <2> DEFINE r == [pc |-> "reading", key |-> k, hash |-> index.keys[k], seq |-> 0,
                   since |-> clock]
  <2>1. /\ handler' = [handler EXCEPT ![c] = r]
        /\ UNCHANGED <<index, stored, mtime, sent, gc, clock>>
    BY <1>0, <1>5 DEF ResolveKey, Becomes, disk
  <2>2. r.pc = "reading" /\ r.since = clock
    OBVIOUS
  <2> HIDE DEF r
  <2> QED
    BY <1>2, <2>1, <2>2
<1>6. CASE JournalPut(c)
  <2> DEFINE r == [pc |-> "putLogged", key |-> handler[c].key, hash |-> handler[c].hash,
                   seq |-> Len(journal) + 1, since |-> handler[c].since]
  <2>1. /\ handler' = [handler EXCEPT ![c] = r] /\ handler[c].pc = "stored"
        /\ UNCHANGED <<index, stored, mtime, sent, gc, clock>>
    BY <1>0, <1>6 DEF JournalPut, Becomes, disk
  <2>2. r.hash = handler[c].hash /\ r.since = handler[c].since
    OBVIOUS
  <2> HIDE DEF r
  <2> QED
    BY <1>2, <2>1, <2>2
<1>7. CASE JournalDelete(c)
  <2> DEFINE r == [pc |-> "deleteLogged", key |-> handler[c].key, hash |-> None,
                   seq |-> Len(journal) + 1, since |-> handler[c].since]
  <2>1. /\ handler' = [handler EXCEPT ![c] = r] /\ handler[c].pc = "found"
        /\ UNCHANGED <<index, stored, mtime, sent, gc, clock>>
    BY <1>0, <1>7 DEF JournalDelete, Becomes, disk
  <2>2. r.pc = "deleteLogged" /\ r.since = handler[c].since
    OBVIOUS
  <2> HIDE DEF r
  <2> QED
    BY <1>2, <2>1, <2>2
<1>8. CASE OpenBlob(c) \/ Refuse(c)
  <2>1. UNCHANGED <<index, stored, mtime, sent, gc, clock, mode>> /\ Answer(c)
    BY <1>8 DEF OpenBlob, Refuse, disk
  <2> QED
    BY <1>1, <2>1 DEF Answer
<1>9. CASE CommitDelete(c)
  <2>1. /\ UNCHANGED <<stored, mtime, sent, gc, clock, mode>> /\ Answer(c)
        /\ handler[c].key \in Keys /\ handler[c].seq \in Nat
        /\ index' = AppliedTo(Unbind(index, handler[c].key, clock), handler[c].seq)
    BY <1>0, <1>9, HandlerFields DEF CommitDelete, disk
  <2>2. \A h \in Hashes : index'.refs[h].count >= 0
    BY <2>1 DEF Counted
  <2>3. \A h \in Hashes : \/ index'.refs[h] = index.refs[h]
                          \/ Lowered(index.refs[h], index'.refs[h], clock)
    BY <1>0, <2>1, <2>2, TransactionRefs
  <2> QED
    BY <1>1, <2>1, <2>3 DEF Answer
<1>10. CASE CommitPut(c)
  <2>1. /\ UNCHANGED <<stored, mtime, sent, gc, clock, mode>> /\ Answer(c)
        /\ handler[c].key \in Keys /\ handler[c].seq \in Nat /\ handler[c].hash \in Hashes
        /\ handler[c].pc = "putLogged"
        /\ index' = AppliedTo(Bind(index, handler[c].key, handler[c].hash, clock), handler[c].seq)
    BY <1>0, <1>10, HandlerFields DEF CommitPut, disk
  <2>2. \A h \in Hashes : index'.refs[h].count >= 0
    BY <2>1 DEF Counted
  <2>3. \A h \in Hashes : \/ index'.refs[h] = index.refs[h]
                          \/ Lowered(index.refs[h], index'.refs[h], clock)
                          \/ h = handler[c].hash /\ Raised(index'.refs[h])
    BY <1>0, <2>1, <2>2, TransactionRefs
  <2>4. handler[c].since \in Nat
    BY <1>0, <2>1 DEF HandlerState, Idle
  <2>5. Carries(c, handler[c].hash, handler[c].since)
    BY <2>1 DEF Carries
  <2> QED
    BY <1>1, <2>1, <2>3, <2>4, <2>5 DEF Answer
<1> QED
  BY <1>3, <1>4, <1>5, <1>6, <1>7, <1>8, <1>9, <1>10 DEF Request

\* The requests of uploads keep what is kept: a part's blob is fresh when it is
\* written and its request references it before it is as old as the grace
\* period (UploadPart, CompleteUpload, discardUpload).
LEMMA PartKeeps ==
  ASSUME KeepInv, Counted, Counted', TypeOK', Grace # 0, mode = "serving",
         "parallel" \notin Mishaps, "reupload" \notin Environment,
         NEW c \in Clients, PartStep(c)
  PROVE  Kept'
<1>0. /\ TypeOK /\ Kept /\ RefsTold /\ clock \in Nat /\ UploadsInv /\ MultipartTypeOK
      /\ handler \in [Clients -> HandlerState] /\ mp \in [Clients -> MultipartState]
      /\ mp[c] \in MultipartState /\ IdlePart \in MultipartState
      /\ \A h \in Hashes : index.refs[h].count >= 0
  BY UploadTypes DEF KeepInv, CountInv, UploadsInv, MultipartTypeOK, Kept, TypeOK, Counted
<1>1. ASSUME NEW m, mp'[c] = m, \A d \in Clients \ {c} : mp'[d] = mp[d], handler' = handler,
             UNCHANGED <<stored, mtime, sent, gc, clock>>,
             m.pc # "stored",
             \/ m.pc = "idle" \/ m.since = clock
             \/ mp[c].pc # "idle" /\ m.since = mp[c].since,
             \A h \in Hashes : \/ index'.refs[h] = index.refs[h]
                               \/ Lowered(index.refs[h], index'.refs[h], clock)
                               \/ /\ Raised(index'.refs[h])
                                  /\ \E t \in Nat : Carries(c, h, t)
      PROVE  Kept'
  <2>1. \A d \in Clients, t \in Nat : Busy(d, t)' => Busy(d, t) \/ t = clock
    BY <1>1 DEF Busy
  <2>2. \A d \in Clients, h \in Hashes, t \in Nat : Carries(d, h, t)' => Carries(d, h, t)
    BY <1>1 DEF Carries
  <2> QED
    BY <1>0, <1>1, <2>1, <2>2, KeepRests
<1>2. ASSUME NEW u \in Uploads, NEW m \in MultipartState, Load(c, u, m),
             m.pc \in {"loaded", "listed", "discarding"},
             UNCHANGED <<vars, uploads, acked>>
      PROVE  Kept'
  <2>1. mp'[c] = LoadedRecord(m, u) /\ \A d \in Clients \ {c} : mp'[d] = mp[d]
    BY <1>0, <1>2, LoadRecord
  <2>2. LoadedRecord(m, u).pc = m.pc /\ LoadedRecord(m, u).since = clock
    BY DEF LoadedRecord, MultipartState
  <2>3. UNCHANGED <<index, handler, stored, mtime, sent, gc, clock>>
    BY <1>2 DEF vars, disk
  <2> QED
    BY <1>1, <1>2, <2>1, <2>2, <2>3
<1>3. ASSUME NEW u \in Uploads, NEW n \in Numbers, BeginPart(c, u, n)  PROVE Kept'
  <2> DEFINE m == [IdlePart EXCEPT !.pc = "loaded", !.number = n]
  <2>1. m \in MultipartState /\ m.pc = "loaded"
    BY <1>0 DEF MultipartState
  <2>2. Load(c, u, m) /\ UNCHANGED <<vars, uploads, acked>>
    BY <1>3, Zenon DEF BeginPart
  <2> HIDE DEF m
  <2> QED
    BY <1>2, <2>1, <2>2
<1>4. ASSUME NEW u \in Uploads, NEW list \in (SUBSET Numbers) \ {{}}, BeginComplete(c, u, list)
      PROVE  Kept'
  <2> DEFINE m == [IdlePart EXCEPT !.pc = "listed", !.todo = list]
  <2>1. m \in MultipartState /\ m.pc = "listed"
    BY <1>0 DEF MultipartState
  <2>2. Load(c, u, m) /\ UNCHANGED <<vars, uploads, acked>>
    BY <1>4, Zenon DEF BeginComplete
  <2> HIDE DEF m
  <2> QED
    BY <1>2, <2>1, <2>2
<1>5. ASSUME NEW u \in Uploads, BeginAbort(c, u)  PROVE Kept'
  <2> DEFINE m == [IdlePart EXCEPT !.pc = "discarding", !.todo = Held(uploads[u].parts)]
  <2>1. m \in MultipartState /\ m.pc = "discarding"
    BY <1>0 DEF MultipartState, Held
  <2>2. Load(c, u, m) /\ UNCHANGED <<vars, uploads, acked>>
    BY <1>5, Zenon DEF BeginAbort
  <2> HIDE DEF m
  <2> QED
    BY <1>2, <2>1, <2>2
<1>6. ASSUME NEW u \in Uploads, NEW k \in Keys, CreateUpload(c, u, k)  PROVE Kept'
  <2>1. /\ mp' = mp /\ mp[c].pc = "idle"
        /\ UNCHANGED <<index, handler, stored, mtime, sent, gc, clock>>
    BY <1>6 DEF CreateUpload, Free, vars, disk
  <2> QED
    BY <1>1, <2>1
<1>7. CASE RefusePart(c) \/ FailDiscard(c) \/ SavePart(c) \/ DeleteUpload(c)
  <2>1. EndRequest(c) /\ UNCHANGED <<index, handler, stored, mtime, sent, gc, clock>>
    BY <1>7 DEF RefusePart, FailDiscard, SavePart, DeleteUpload, vars, disk
  <2>2. mp'[c] = IdlePart /\ IdlePart.pc = "idle" /\ \A d \in Clients \ {c} : mp'[d] = mp[d]
    BY <1>0, <2>1, RequestRecord DEF IdlePart
  <2> QED
    BY <1>1, <2>1, <2>2
<1>8. CASE HoldPart(c)
  <2>1. /\ mp[c].pc = "stored" /\ mp[c].hash \in Hashes /\ mp[c].since \in Nat
        /\ MoveRef(mp[c].hash, 1) /\ Moves(c, "held")
        /\ UNCHANGED <<handler, stored, mtime, sent, gc, clock, mode>>
    BY <1>0, <1>8, RequestFields DEF HoldPart, Storing, disk
  <2>2. mp'[c] = [mp[c] EXCEPT !.pc = "held"] /\ \A d \in Clients \ {c} : mp'[d] = mp[d]
    BY <1>0, <2>1, RequestRecord
  <2>3. mp'[c].pc = "held" /\ mp'[c].since = mp[c].since
    BY <1>0, <2>2 DEF MultipartState
  <2>4. \A h \in Hashes : index'.refs[h].count >= 0
    BY <2>1 DEF Counted
  <2>5. \A h \in Hashes : \/ index'.refs[h] = index.refs[h]
                          \/ Lowered(index.refs[h], index'.refs[h], clock)
                          \/ h = mp[c].hash /\ Raised(index'.refs[h])
    BY <1>0, <2>1, <2>4, TransactionRefs
  <2>6. Carries(c, mp[c].hash, mp[c].since)
    BY <2>1 DEF Carries
  <2> QED
    BY <1>1, <2>1, <2>2, <2>3, <2>5, <2>6
<1>9. CASE ReleaseReplaced(c)
  <2>1. /\ mp[c].pc = "held" /\ Replaced(c) \in Hashes
        /\ MoveRef(Replaced(c), -1) /\ Moves(c, "released")
        /\ UNCHANGED <<handler, stored, mtime, sent, gc, clock, mode>>
    BY <1>0, <1>9, RequestFields DEF ReleaseReplaced, Storing, disk
  <2>2. mp'[c] = [mp[c] EXCEPT !.pc = "released"] /\ \A d \in Clients \ {c} : mp'[d] = mp[d]
    BY <1>0, <2>1, RequestRecord
  <2>3. mp'[c].pc = "released" /\ mp'[c].since = mp[c].since
    BY <1>0, <2>2 DEF MultipartState
  <2>4. \A h \in Hashes : index'.refs[h].count >= 0
    BY <2>1 DEF Counted
  <2>5. \A h \in Hashes : \/ index'.refs[h] = index.refs[h]
                          \/ Lowered(index.refs[h], index'.refs[h], clock)
    BY <1>0, <2>1, <2>4, TransactionRefs
  <2> QED
    BY <1>1, <2>1, <2>2, <2>3, <2>5
<1>10. ASSUME NEW n \in Numbers, ReleasePart(c, n)  PROVE Kept'
  <2> DEFINE g == mp[c].parts[n]
             m == [mp[c] EXCEPT !.todo = @ \ {n}]
  <2>1. /\ mp[c].pc = "discarding" /\ g \in Hashes
        /\ MoveRef(g, -1) /\ mp' = [mp EXCEPT ![c] = m]
        /\ UNCHANGED <<handler, stored, mtime, sent, gc, clock, mode>>
    BY <1>0, <1>10, RequestFields DEF ReleasePart, Storing, disk
  <2>2. m.pc = "discarding" /\ m.since = mp[c].since
    BY <1>0, <2>1 DEF MultipartState
  <2> HIDE DEF g, m
  <2>3. mp'[c] = m /\ \A d \in Clients \ {c} : mp'[d] = mp[d]
    BY <1>0, <2>1
  <2>4. \A h \in Hashes : index'.refs[h].count >= 0
    BY <2>1 DEF Counted
  <2>5. \A h \in Hashes : \/ index'.refs[h] = index.refs[h]
                          \/ Lowered(index.refs[h], index'.refs[h], clock)
    BY <1>0, <2>1, <2>4, TransactionRefs
  <2> QED
    BY <1>1, <2>1, <2>2, <2>3, <2>5
<1>11. ASSUME NEW h \in Hashes \ {Whole}, PutPart(c, h)  PROVE Kept'
  <2> DEFINE m == [mp[c] EXCEPT !.pc = "stored", !.hash = h]
  <2>1. /\ mp[c].pc = "loaded" /\ mp' = [mp EXCEPT ![c] = m]
        /\ h \in sent => index.refs[h].count > 0
        /\ stored' = stored \cup {h} /\ sent' = sent \cup {h}
        /\ mtime' = IF h \in stored THEN mtime ELSE [mtime EXCEPT ![h] = clock]
        /\ UNCHANGED <<index, handler, gc, clock>>
    BY <1>0, <1>11 DEF PutPart, PutBlob
  <2>2. m.pc = "stored" /\ m.hash = h /\ m.since = mp[c].since
    BY <1>0 DEF MultipartState
  <2> HIDE DEF m
  <2>3. mp'[c] = m /\ \A d \in Clients \ {c} : mp'[d] = mp[d]
    BY <1>0, <2>1
  <2>4. PICK s \in Nat : s = mp[c].since
    BY <1>0 DEF MultipartState
  <2>5. s <= clock
    <3>1. Busy(c, s)
      BY <2>1, <2>4 DEF Busy
    <3> QED
      BY <1>0, <3>1 DEF Kept
  <2>6. \A d \in Clients, t \in Nat : Busy(d, t)' => Busy(d, t) \/ t = clock
    BY <2>1, <2>2, <2>3 DEF Busy
  <2>7. \A d \in Clients, g \in Hashes, t \in Nat :
          Carries(d, g, t)' => Carries(d, g, t) \/ (g = h /\ t = s)
    BY <2>1, <2>2, <2>3, <2>4 DEF Carries
  <2> QED
    BY <1>0, <2>1, <2>5, <2>6, <2>7, KeepPuts
<1>12. CASE PutAssembled(c)
  <2> DEFINE h == Assembled(mp[c])
             k == uploads[mp[c].upload].key
             since == IF handler[c].pc = "idle" THEN clock ELSE handler[c].since
             r == [pc |-> "stored", key |-> k, hash |-> h, seq |-> 0, since |-> since]
  <2>1. mp[c].pc = "listed" /\ h \in Hashes
    BY <1>0, <1>12, AssembledType DEF PutAssembled
  <2>2. mp'[c] = [mp[c] EXCEPT !.pc = "putting"] /\ \A d \in Clients \ {c} : mp'[d] = mp[d]
    BY <1>0, <1>12, RequestRecord DEF PutAssembled
  <2>3. mp'[c].pc = "putting" /\ mp'[c].since = mp[c].since
    BY <1>0, <2>2 DEF MultipartState
  <2>4. PutBlob(h) /\ Becomes(c, "stored", k, h, 0) /\ UNCHANGED <<index, gc, clock>>
    BY <1>12 DEF PutAssembled
  <2>5. handler' = [handler EXCEPT ![c] = r]
    BY <1>0, <2>4 DEF Becomes
  <2>6. r.pc = "stored" /\ r.hash = h /\ r.since = since
    OBVIOUS
  <2>7. since \in Nat /\ (since = clock \/ (handler[c].pc # "idle" /\ handler[c].since = since))
    BY <1>0 DEF HandlerState, Idle
  <2> HIDE DEF r, since, h, k
  <2>8. handler'[c] = r /\ \A d \in Clients \ {c} : handler'[d] = handler[d]
    BY <1>0, <2>5
  <2>9. since <= clock
    <3>1. CASE since = clock
      BY <1>0, <3>1
    <3>2. CASE handler[c].pc # "idle" /\ handler[c].since = since
      <4>1. Busy(c, since)
        BY <3>2 DEF Busy
      <4> QED
        BY <1>0, <2>7, <4>1 DEF Kept
    <3> QED
      BY <2>7, <3>1, <3>2
  <2>10. \A d \in Clients, t \in Nat : Busy(d, t)' => Busy(d, t) \/ t = clock
    BY <2>1, <2>2, <2>3, <2>6, <2>7, <2>8 DEF Busy
  <2>11. \A d \in Clients, g \in Hashes, t \in Nat :
           Carries(d, g, t)' => Carries(d, g, t) \/ (g = h /\ t = since)
    BY <2>2, <2>3, <2>6, <2>8 DEF Carries
  <2>12. /\ h \in sent => index.refs[h].count > 0
         /\ stored' = stored \cup {h} /\ sent' = sent \cup {h}
         /\ mtime' = IF h \in stored THEN mtime ELSE [mtime EXCEPT ![h] = clock]
    BY <2>4 DEF PutBlob
  <2> QED
    BY <1>0, <2>1, <2>4, <2>7, <2>9, <2>10, <2>11, <2>12, KeepPuts
<1> QED
  BY <1>3, <1>4, <1>5, <1>6, <1>7, <1>8, <1>9, <1>10, <1>11, <1>12, Zenon DEF PartStep

\* So does the object of a completion (CompleteUpload through PutWith).
LEMMA ObjectKeeps ==
  ASSUME KeepInv, Counted, Counted', TypeOK', Grace # 0, "reupload" \notin Environment,
         mode = "serving", NEW c \in Clients, CommitObject(c) \/ RefuseObject(c)
  PROVE  Kept'
<1>0. mp \in [Clients -> MultipartState] /\ mp[c] \in MultipartState
  BY DEF KeepInv, CountInv, UploadsInv, MultipartTypeOK
<1>1. \A d \in Clients :
        \/ mp'[d] = mp[d] \/ mp'[d].pc = "idle"
        \/ mp'[d].pc # "stored" /\ mp[d].pc # "idle" /\ mp'[d].since = mp[d].since
  <2>1. CASE mp' = mp
    BY <2>1
  <2>2. CASE mp[c].pc = "putting" /\ EndRequest(c)
    <3>1. \A d \in Clients : mp'[d] = IF d = c THEN IdlePart ELSE mp[d]
      BY <1>0, <2>2 DEF EndRequest
    <3> QED
      BY <3>1 DEF IdlePart
  <2>3. CASE mp[c].pc = "putting" /\ Discard(c)
    <3> DEFINE m == [mp[c] EXCEPT !.pc = "discarding", !.todo = Held(mp[c].parts)]
    <3>1. mp' = [mp EXCEPT ![c] = m]
      BY <1>0, <2>3 DEF Discard
    <3>2. m.pc = "discarding" /\ m.since = mp[c].since
      BY <1>0 DEF MultipartState
    <3> HIDE DEF m
    <3> QED
      BY <1>0, <2>3, <3>1, <3>2
  <2> QED
    BY <2>1, <2>2, <2>3 DEF CommitObject, RefuseObject
<1>2. CommitPut(c) \/ Refuse(c)
  BY DEF CommitObject, RefuseObject
<1> QED
  BY <1>1, <1>2, RequestKeeps

\* Time passes only while no request is about to outlive the grace period, which
\* is what the code takes for granted (gc.go).
LEMMA TickKeeps ==
  ASSUME KeepInv, TickAll
  PROVE  Kept'
<1>0. /\ clock \in Nat /\ Grace \in Nat /\ gc \in CollectorState /\ gc.now \in Nat /\ Kept
      /\ handler \in [Clients -> HandlerState] /\ mp \in [Clients -> MultipartState]
  BY GraceAssumption
     DEF KeepInv, CountInv, UploadsInv, MultipartTypeOK, TypeOK, CollectorState
<1>1. /\ clock' = clock + 1
      /\ \A c \in Clients : handler[c].pc # "idle" => clock + 1 - handler[c].since < Grace
      /\ \A c \in Clients : mp[c].pc # "idle" => clock + 1 - mp[c].since < Grace
      /\ UNCHANGED <<index, stored, mtime, handler, gc, sent, mp>>
  BY DEF TickAll, Tick, multi, disk
<1>2. /\ \A c \in Clients, h \in Hashes, t \in Nat : Carries(c, h, t)' <=> Carries(c, h, t)
      /\ \A c \in Clients, t \in Nat : Busy(c, t)' <=> Busy(c, t)
  BY <1>1 DEF Carries, Busy
<1>3. ASSUME NEW c \in Clients, NEW t \in Nat, Busy(c, t)'
      PROVE  t <= clock' /\ clock' - t < Grace
  <2>1. t <= clock
    BY <1>0, <1>2, <1>3 DEF Kept
  <2>2. clock + 1 - t < Grace
    BY <1>1, <1>2, <1>3 DEF Busy
  <2> QED
    BY <1>0, <1>1, <2>1, <2>2
<1>4. \A c \in Clients, h \in Hashes, t \in Nat : Carries(c, h, t)' => Fresh(h, t)'
  BY <1>0, <1>1, <1>2 DEF Kept, Fresh
<1>5. RefsTold' /\ stored' \subseteq sent'
  BY <1>0, <1>1 DEF Kept, RefsTold
<1>6. \A h \in Hashes : Unwanted(h) => Unwanted(h)'
  BY <1>1, <1>2 DEF Unwanted
<1>7. /\ gc.pc \in {"remove", "append"} => gc.cur \in Hashes
      /\ gc.pc = "orphans" => gc.todo \subseteq Hashes
  BY <1>0 DEF CollectorState
<1>8. gc'.pc \in {"remove", "append"} => Unwanted(gc.cur)'
  <2> SUFFICES ASSUME gc.pc \in {"remove", "append"}  PROVE Unwanted(gc.cur)'
    BY <1>1
  <2>1. PICK h \in Hashes : h = gc.cur
    BY <1>7
  <2>2. Unwanted(h)' /\ gc'.cur = h
    BY <1>0, <1>1, <1>6, <2>1 DEF Kept
  <2> QED
    BY <2>2 DEF Unwanted
<1>9. gc'.pc = "orphans" => \A h \in gc'.todo : Unwanted(h)'
  BY <1>0, <1>1, <1>6, <1>7 DEF Kept
<1>10. gc'.now <= clock'
  BY <1>0, <1>1 DEF Kept
<1> QED
  BY <1>3, <1>4, <1>5, <1>8, <1>9, <1>10 DEF Kept

\* A process that never died recovers and rebuilds an empty index: nothing was
\* journalled before it first served (Recover, rebuildIndex).
LEMMA ProcessKeeps ==
  ASSUME KeepInv, TypeOK', Grace # 0, "crash" \notin Environment,
         Recovery \/ RebuildAll, UNCHANGED mp
  PROVE  Kept' /\ Unstarted'
<1>0. TypeOK /\ Kept /\ index \in Index /\ work \in Index
  BY DEF KeepInv, CountInv, UploadsInv, MultipartTypeOK, TypeOK
<1>1. mode # "serving"
  BY DEF Recovery, RebuildAll, Start, ReplayRecord, CommitReplay, DropNamespaces, ResetIndex
<1>2. /\ journal = <<>> /\ index.refs = EmptyIndex.refs
      /\ mode \in {"recovering", "rebuilding"} => work.refs = EmptyIndex.refs
  BY <1>1 DEF KeepInv, CountInv, ReplaysNoCollection, Unstarted
<1>3. ~ReplayRecord
  BY <1>0, <1>2 DEF ReplayRecord, TypeOK
<1>4. index'.refs = EmptyIndex.refs
  <2>1. CASE Start
    BY <1>2, <2>1 DEF Start
  <2>2. CASE CommitReplay
    BY <1>2, <2>2 DEF CommitReplay
  <2>3. CASE DropNamespaces
    BY <1>0, <1>2, <2>3 DEF DropNamespaces, Index
  <2>4. CASE ResetIndex
    BY <1>0, <2>4 DEF ResetIndex, Index
  <2> QED
    BY <1>3, <2>1, <2>2, <2>3, <2>4 DEF Recovery, RebuildAll
<1>5. mode' \in {"recovering", "rebuilding"} => work'.refs = EmptyIndex.refs
  <2>1. CASE Start
    BY <1>2, <2>1 DEF Start
  <2>2. CASE CommitReplay
    BY <2>2 DEF CommitReplay
  <2>3. CASE DropNamespaces
    BY <2>3 DEF DropNamespaces
  <2>4. CASE ResetIndex
    BY <1>4, <2>4 DEF ResetIndex
  <2> QED
    BY <1>3, <2>1, <2>2, <2>3, <2>4 DEF Recovery, RebuildAll
<1>6. UNCHANGED <<stored, mtime, sent, gc, clock, handler>>
  BY DEF Recovery, RebuildAll, Start, ReplayRecord, CommitReplay, DropNamespaces, ResetIndex, disk
<1>7. /\ \A c \in Clients, h \in Hashes, t \in Nat : Carries(c, h, t)' => Carries(c, h, t)
      /\ \A c \in Clients, t \in Nat : Busy(c, t)' => Busy(c, t) \/ t = clock
  BY <1>6 DEF Carries, Busy
<1>8. Kept'
  BY <1>0, <1>2, <1>4, <1>6, <1>7, KeepRests
<1> QED
  BY <1>4, <1>5, <1>8 DEF Unstarted

\* Nothing is held, written or on its way at first (New).
LEMMA KeepInit == MultipartInit => Kept /\ Unstarted
<1> SUFFICES ASSUME MultipartInit PROVE Kept /\ Unstarted
  OBVIOUS
<1>1. /\ mode = "stopped" /\ index = EmptyIndex /\ stored = {} /\ sent = {} /\ clock = 0
      /\ gc = Sleeping
      /\ handler = [c \in Clients |-> Idle] /\ mp = [c \in Clients |-> IdlePart]
  BY DEF MultipartInit, Init
<1>2. /\ \A c \in Clients, h \in Hashes, t \in Nat : ~Carries(c, h, t)
      /\ \A c \in Clients, t \in Nat : ~Busy(c, t)
  BY <1>1 DEF Carries, Busy, Idle, IdlePart
<1>3. RefsTold
  BY <1>1 DEF RefsTold, EmptyIndex, NoRef
<1> QED
  BY <1>1, <1>2, <1>3 DEF Kept, Unstarted, Sleeping

\* So what requests, uploads and objects hold stays on disk, step by step.
LEMMA KeepStep ==
  ASSUME Mishaps = {}, Environment \cap {"crash", "reupload"} = {},
         Grace # 0, KeepInv, Counted, Counted', CountInv', [MultipartNext]_mpVars
  PROVE  Kept' /\ Unstarted'
<1>0. /\ "parallel" \notin Mishaps /\ "crash" \notin Environment /\ "reupload" \notin Environment
      /\ TypeOK /\ TypeOK' /\ CountInv /\ Kept /\ Unstarted /\ Attended /\ ReplaysNoCollection
  BY DEF KeepInv, CountInv, UploadsInv, MultipartTypeOK
<1>1. CASE UNCHANGED mpVars
  <2>1. UNCHANGED <<index, stored, mtime, mode, work, handler, gc, sent, clock, mp>>
    BY <1>1 DEF mpVars, vars, multi, disk, replay
  <2>2. /\ \A c \in Clients, h \in Hashes, t \in Nat : Carries(c, h, t)' => Carries(c, h, t)
        /\ \A c \in Clients, t \in Nat : Busy(c, t)' => Busy(c, t) \/ t = clock
    BY <2>1 DEF Carries, Busy
  <2>3. Kept'
    BY <1>0, <2>1, <2>2, KeepRests
  <2> QED
    BY <1>0, <2>1, <2>3 DEF Unstarted
<1>2. ASSUME NEW c \in Clients, PartStep(c) \/ CommitObject(c) \/ RefuseObject(c)
      PROVE  Kept' /\ Unstarted'
  <2>1. mode = "serving" /\ mode' = "serving"
    BY <1>0, <1>2, PartStepServes, ObjectStepServes
  <2>2. Kept'
    BY <1>0, <1>2, <2>1, PartKeeps, ObjectKeeps
  <2> QED
    BY <2>1, <2>2 DEF Unstarted
<1>3. CASE TickAll
  <2>1. UNCHANGED <<index, mode, work>>
    BY <1>3 DEF TickAll, Tick, replay
  <2> QED
    BY <1>0, <1>3, <2>1, TickKeeps DEF Unstarted
<1>4. CASE CrashAll
  BY <1>0, <1>4 DEF CrashAll, Crash
<1>5. CASE RebuildAll
  <2>1. UNCHANGED mp
    BY <1>5 DEF RebuildAll, multi
  <2> QED
    BY <1>0, <1>5, <2>1, ProcessKeeps
<1>6. CASE StoreStep
  <2>1. UNCHANGED mp
    BY <1>6 DEF StoreStep, multi
  <2>2. CASE mode # "serving"
    <3>1. gc.pc = "asleep" /\ \A c \in Clients : handler[c].pc = "idle"
      BY <1>0, <2>2 DEF Attended, ReplaysNoCollection
    <3>2. \A c \in Clients :
            ~(Request(c) \/ JournalPut(c) \/ JournalDelete(c) \/ CommitDelete(c) \/ OpenBlob(c))
      BY <2>2, <3>1 DEF Request, StoreBlob, FindKey, ResolveKey, JournalPut, JournalDelete,
         CommitDelete, OpenBlob
    <3>3. ~Collect
      BY <2>2, <3>1 DEF Collect, StartPass, RemoveExpired, JournalCollected, FindOrphans, EndPass,
         DropExpired, SkipReferenced, RemoveOrphan
    <3>4. Recovery
      BY <1>6, <3>2, <3>3 DEF StoreStep
    <3> QED
      BY <1>0, <2>1, <3>4, ProcessKeeps
  <2>3. CASE mode = "serving"
    <3>1. mode' = "serving"
      BY <1>0, <1>6, <2>3, StoreStepModes
    <3>2. CASE Collect
      BY <1>0, <2>1, <3>1, <3>2, CollectorKeeps DEF Unstarted
    <3>3. ~Recovery
      BY <2>3 DEF Recovery, Start, ReplayRecord, CommitReplay
    <3>4. ASSUME NEW c \in Clients,
                 Request(c) \/ JournalPut(c) \/ JournalDelete(c) \/ CommitDelete(c) \/ OpenBlob(c)
          PROVE  Kept'
      BY <1>0, <2>1, <2>3, <3>4, RequestKeeps
    <3>5. \/ Collect
          \/ \E c \in Clients : Request(c) \/ JournalPut(c) \/ JournalDelete(c)
                                \/ CommitDelete(c) \/ OpenBlob(c)
      BY <1>6, <3>3, Zenon DEF StoreStep
    <3> QED
      BY <3>1, <3>2, <3>4, <3>5 DEF Unstarted
  <2> QED
    BY <2>2, <2>3
<1> QED
  BY <1>1, <1>2, <1>3, <1>4, <1>5, <1>6, MultipartSteps

\* What an open upload owns is on disk (UploadPart, CompleteUpload).
LEMMA OwedIsKept == KeepInv => PartsKept
<1> SUFFICES ASSUME KeepInv, NEW u \in Uploads, uploads[u].status = "open",
                    NEW h \in Hashes, Owing(u, h) # {}
             PROVE  h \in stored
  BY DEF PartsKept
<1>1. MultipartTypeOK /\ CountInv /\ RefsTold /\ mode # "dropped"
  BY DEF KeepInv, CountInv, UploadsInv, Kept
<1>2. PICK n \in Numbers : n \in Owing(u, h)
  BY DEF Owing
<1>3. <<u, n>> \in Owed(h)
  BY <1>2 DEF Owed
<1>4. /\ IsFiniteSet(Owed(h)) /\ Cardinality(Owed(h)) \in Nat
      /\ InFlight(h) \in Nat
  BY <1>1, ExtraType
<1>5. Cardinality(Owed(h)) # 0
  BY <1>3, <1>4, FS_EmptySet
<1>6. index.refs[h].count = Cardinality(Bound(index, h)) + Extra(h)
  BY <1>1 DEF CountInv, Balanced
<1>7. Cardinality(Bound(index, h)) \in Nat
  BY BoundFinite
<1>8. index.refs[h].count > 0
  BY <1>4, <1>5, <1>6, <1>7 DEF Extra
<1> QED
  BY <1>1, <1>8 DEF RefsTold

\* However long an upload stays open, the collector leaves the parts it was sent
\* alone, for any number of clients, uploads, parts and contents: a part's blob
\* is referenced before it is as old as the grace period, and stays counted from
\* then on (gc.go, multipart.go).  The grace period is not zero, and in addition
\* to what PartsAreCounted asks, no content is uploaded again and the process
\* does not die.
THEOREM PartsAreKept ==
  ASSUME Mishaps = {}, Environment \cap {"crash", "reupload"} = {},
         Grace # 0
  PROVE  MultipartSpec => []PartsKept
<1>0. "crash" \notin Environment
  OBVIOUS
<1>1. MultipartInit => CountInv
  BY CountInit
<1>2. CountInv /\ [MultipartNext]_mpVars => CountInv'
  BY <1>0, CountStep
<1>3. CountInv => Counted
  BY CountsAreCounts
<1>4. MultipartInit => KeepInv
  BY CountInit, KeepInit DEF KeepInv
<1>5. KeepInv /\ Counted /\ Counted' /\ CountInv' /\ [MultipartNext]_mpVars => KeepInv'
  BY KeepStep DEF KeepInv
<1>6. KeepInv => PartsKept
  BY OwedIsKept
<1> QED
  BY <1>1, <1>2, <1>3, <1>4, <1>5, <1>6, PTL DEF MultipartSpec

=============================================================================
