------------------------------ MODULE TanaReplica ------------------------------
(***************************************************************************)
(* Replication (internal/store/replica.go).  A secondary is a store of its *)
(* own, with its journal, index, blobs, recovery and collector: all of     *)
(* TanaStore.  It asks its primary for the records after the last one it   *)
(* applied, and for each of them fetches the blob it lacks, appends the    *)
(* record under the primary's number and applies it.                       *)
(*                                                                         *)
(* Left out: clients of the secondary.  runDaemon serves the whole S3 API  *)
(* there, and a client's write would take a number the primary gives to    *)
(* another record; agents are pointed at a secondary once it is promoted.  *)
(*                                                                         *)
(* Of the primary the secondary sees two things, its journal and its       *)
(* blobs.  They are modelled in the order in which the primary's handlers  *)
(* and its collector change them (TanaStore): a blob is there before the   *)
(* record that names it, and gone before the record of its collection.     *)
(***************************************************************************)
EXTENDS TanaStore

CONSTANTS
  Batch,     \* records in a page (replicaBatch)
  Hardships  \* what the secondary has to live with

\* "offline": requests to the primary fail; "behind": the primary collects
\* blobs whose record the secondary has not copied yet.
ASSUME ReplicaAssumption == Batch \in Nat \ {0} /\ Hardships \subseteq {"offline", "behind"}

VARIABLES
  upstream,   \* the primary's journal
  blobs,      \* the primary's blobs
  collected,  \* the blob its collector has removed and not journalled yet
  puller      \* the secondary's pull: the rest of its page, and what comes next

primary == <<upstream, blobs, collected>>
allVars == <<vars, primary, puller>>

Numbered == [seq : Nat \ {0}, rec : Record]
Waiting == [pc |-> "idle", page |-> <<>>]
Next1 == Head(puller.page)

ReplicaTypeOK ==
  /\ TypeOK
  /\ upstream \in Seq(Record)
  /\ blobs \subseteq Hashes
  /\ collected \in Hashes \cup {None}
  /\ puller \in [pc : {"idle"}, page : {<<>>}]
                \cup [pc : {"record", "fetch", "append", "apply"}, page : Seq(Numbered) \ {<<>>}]

ReplicaInit ==
  /\ Init
  /\ upstream = <<>> /\ blobs = {} /\ collected = None
  /\ puller = Waiting

-----------------------------------------------------------------------------
(***************************************************************************)
(* The primary.                                                            *)
(***************************************************************************)
PrimaryIndex == Replayed(upstream)

Grows(rec) == Len(upstream) < MaxSeq /\ upstream' = Append(upstream, rec)

\* An upload, as the feed sees it: the blob precedes its record.
PrimaryPut(k, h) ==
  /\ h \in sent => "reupload" \in Environment
  /\ Grows(PutRecord(k, h, clock))
  /\ blobs' = blobs \cup {h}
  /\ sent' = sent \cup {h}
  /\ UNCHANGED <<journal, index, disk, mode, replay, handler, gc, clock, collected, puller>>

PrimaryDelete(k) ==
  /\ PrimaryIndex.keys[k] # None
  /\ Grows(DeleteRecord(k, clock))
  /\ UNCHANGED <<vars, blobs, collected, puller>>

\* The collector takes a blob that nothing references; that the grace period
\* has passed is that the secondary has copied the records which name it.
PrimaryCollect(h) ==
  /\ collected = None
  /\ PrimaryIndex.refs[h].live /\ PrimaryIndex.refs[h].count = 0
  /\ \/ "behind" \in Hardships
     \/ \A i \in DOMAIN upstream : upstream[i].hash = h => i <= index.applied
  /\ blobs' = blobs \ {h}
  /\ collected' = h
  /\ UNCHANGED <<vars, upstream, puller>>

PrimaryJournalCollected ==
  /\ collected # None
  /\ upstream' = Append(upstream, GCRecord(collected, clock))
  /\ collected' = None
  /\ UNCHANGED <<vars, blobs, puller>>

-----------------------------------------------------------------------------
(***************************************************************************)
(* A pull.  It starts at the applied position of the index, and any error  *)
(* ends it where it is.                                                    *)
(***************************************************************************)
Go(pc) == puller' = [puller EXCEPT !.pc = pc]
EndPull == puller' = Waiting

Page(first) ==
  LET left == Len(upstream) - first + 1
  IN  [i \in 1..(IF left < Batch THEN left ELSE Batch) |->
         [seq |-> first + i - 1, rec |-> upstream[first + i - 1]]]

\* Faulty: the page starts with the last record that was applied.
AskJournalAgain ==
  /\ mode = "serving" /\ puller.pc = "idle"
  /\ index.applied < Len(upstream)
  /\ puller' = [pc |-> "record", page |-> Page(IF index.applied = 0 THEN 1 ELSE index.applied)]
  /\ UNCHANGED <<vars, primary>>

\* One request: the feed replays its journal from the number asked for.
AskJournal ==
  /\ mode = "serving" /\ puller.pc = "idle"
  /\ index.applied < Len(upstream)
  /\ puller' = [pc |-> "record", page |-> Page(index.applied + 1)]
  /\ UNCHANGED <<vars, primary>>

StatBlob ==
  /\ puller.pc = "record"
  /\ Go(IF Next1.rec.op = "put" /\ Next1.rec.hash \notin stored THEN "fetch" ELSE "append")
  /\ UNCHANGED <<vars, primary>>

\* A blob the primary does not have is "not found", an error.
FetchBlob ==
  /\ puller.pc = "fetch"
  /\ IF Next1.rec.hash \in blobs
     THEN /\ stored' = stored \cup {Next1.rec.hash}
          /\ mtime' = [mtime EXCEPT ![Next1.rec.hash] = clock]
          /\ Go("append")
     ELSE EndPull /\ UNCHANGED disk
  /\ UNCHANGED <<journal, index, mode, replay, handler, gc, sent, clock, primary>>

\* Faulty: the failure is logged and the record is taken all the same.
LoseRequestGoingOn ==
  /\ "offline" \in Hardships
  /\ puller.pc = "fetch"
  /\ Go("append")
  /\ UNCHANGED <<vars, primary>>

LoseRequest ==
  /\ "offline" \in Hardships
  /\ puller.pc = "fetch"
  /\ EndPull
  /\ UNCHANGED <<vars, primary>>

\* Faulty: the record is appended under the next local number, whatever its own.
AppendAnywhere ==
  /\ puller.pc = "append"
  /\ journal' = Append(journal, Next1.rec)
  /\ Go("apply")
  /\ UNCHANGED <<index, disk, mode, replay, handler, gc, sent, clock, primary>>

\* A record that is not exactly the next one of the local journal is refused.
AppendAt ==
  /\ puller.pc = "append"
  /\ IF Next1.seq = Len(journal) + 1
     THEN journal' = Append(journal, Next1.rec) /\ Go("apply")
     ELSE EndPull /\ UNCHANGED journal
  /\ UNCHANGED <<index, disk, mode, replay, handler, gc, sent, clock, primary>>

\* Faulty: the record is applied under the number of the page's last one.
ApplyPulledAhead ==
  /\ puller.pc = "apply"
  /\ index' = Apply(index, Next1.rec, puller.page[Len(puller.page)].seq)
  /\ puller' = IF Len(puller.page) = 1 THEN Waiting
               ELSE [pc |-> "record", page |-> Tail(puller.page)]
  /\ UNCHANGED <<journal, disk, mode, replay, handler, gc, sent, clock, primary>>

\* Faulty: the page is not recognised as finished.
ApplyPulledOverrun ==
  /\ puller.pc = "apply"
  /\ index' = Apply(index, Next1.rec, Next1.seq)
  /\ puller' = [pc |-> "record", page |-> Tail(puller.page)]
  /\ UNCHANGED <<journal, disk, mode, replay, handler, gc, sent, clock, primary>>

ApplyPulled ==
  /\ puller.pc = "apply"
  /\ index' = Apply(index, Next1.rec, Next1.seq)
  /\ puller' = IF Len(puller.page) = 1 THEN Waiting
               ELSE [pc |-> "record", page |-> Tail(puller.page)]
  /\ UNCHANGED <<journal, disk, mode, replay, handler, gc, sent, clock, primary>>

\* The transaction fails and the record stays in the local journal.  From then
\* on it is pulled again and refused by AppendAt, until a restart recovers it.
FailApply ==
  /\ "commitFails" \in Environment
  /\ puller.pc = "apply"
  /\ EndPull
  /\ UNCHANGED <<vars, primary>>

-----------------------------------------------------------------------------
(***************************************************************************)
(* The rest of the secondary is a store whose clients are elsewhere.  A    *)
(* pull dies with its process.                                             *)
(***************************************************************************)
ReplicaCrash == Crash /\ EndPull /\ UNCHANGED primary

ReplicaStore ==
  /\ Collect \/ Recovery \/ Rebuild \/ FailPass \/ KillRebuild \/ Tick
  /\ UNCHANGED <<primary, puller>>

PrimaryNext ==
  \/ \E k \in Keys, h \in Hashes : PrimaryPut(k, h)
  \/ \E k \in Keys : PrimaryDelete(k)
  \/ \E h \in Hashes : PrimaryCollect(h)
  \/ PrimaryJournalCollected

Pull == AskJournal \/ StatBlob \/ FetchBlob \/ AppendAt \/ ApplyPulled

ReplicaNext ==
  PrimaryNext \/ Pull \/ LoseRequest \/ FailApply \/ ReplicaCrash \/ ReplicaStore

ReplicaSpec == ReplicaInit /\ [][ReplicaNext]_allVars

\* The secondary's ticker pulls again and again and what it asks for arrives
\* now and then; a process that was started recovers.
FairReplicaSpec ==
  /\ ReplicaSpec
  /\ WF_allVars(Pull) /\ SF_allVars(FetchBlob)
  /\ WF_allVars(Recovery /\ UNCHANGED <<primary, puller>>)

-----------------------------------------------------------------------------
(***************************************************************************)
(* Properties.                                                             *)
(***************************************************************************)

\* The secondary's journal is a prefix of its primary's, across any number of
\* crashes, repeated pages and failed pulls: "replication that could skip a
\* record would be replication that silently diverges" (AppendAt).
JournalIsPrefix ==
  Len(journal) <= Len(upstream) /\ \A i \in DOMAIN journal : journal[i] = upstream[i]

\* What the secondary serves is what the primary's journal says up to the
\* applied position, references included, so that it can be promoted.
MirrorsPrimary ==
  mode = "serving" => /\ index.applied <= Len(upstream)
                      /\ index = Replayed(SubSeq(upstream, 1, index.applied))

\* An object that can be listed on the secondary can be read there, however
\* far behind it is (every prefix of "blob, then journal, then index" is recoverable).
ReplicaHealthy == Healthy

\* No pull is under way, and yet the local journal is ahead of the index.
AwaitsRestart == mode = "serving" /\ puller.pc = "idle" /\ Len(journal) > index.applied

\* The secondary catches up with all the primary ever journalled, unless its
\* process stops or a transaction of its index failed.
CatchesUp ==
  \A n \in 1..(2 * MaxSeq) :
    (mode = "serving" /\ Len(upstream) >= n)
      ~> (index.applied >= n \/ mode # "serving" \/ AwaitsRestart)

=============================================================================
