------------------------------ MODULE TanaStore ------------------------------
(***************************************************************************)
(* The object store of internal/store: request handlers that write a blob, *)
(* journal the mutation, commit it to the index and only then answer; the  *)
(* garbage collector that removes what nothing references; the recovery    *)
(* that folds the rest of the journal into the index at every start; and   *)
(* the offline rebuild of the index.                                       *)
(*                                                                         *)
(* Handlers, the collector and the process itself interleave at the points *)
(* where the code leaves one durable artifact for the next: a file system  *)
(* call, an fsynced journal append and a bbolt transaction are each one    *)
(* step.  Recovery runs its replay inside one transaction, so the records  *)
(* it folds go to a working copy that only the commit makes durable.       *)
(***************************************************************************)
EXTENDS TanaIndex

CONSTANTS
  Clients,      \* request handlers that may be in flight at once
  Interval,     \* store.gc.interval; the collector runs only if it is positive
  Environment,  \* what else may happen
  MaxSeq,       \* bound: client records in the journal
  MaxClock      \* bound: clock ticks

\* "crash": the process dies; "kill": it dies inside --fsck --rebuild;
\* "commitFails": the index transaction of a request fails; "passFails": a
\* step of a collection fails; "rebuild": the operator runs --fsck --rebuild;
\* "reupload": content that was uploaded before is uploaded again; "sameKey":
\* two requests change one key at the same time (the upload queue of an agent
\* holds a key once, agent.go Enqueue; other clients promise nothing).
ASSUME EnvironmentAssumption ==
  Environment \subseteq {"crash", "kill", "commitFails", "passFails", "rebuild",
                   "reupload", "sameKey"}
ASSUME BoundsAssumption == Interval \in Nat /\ MaxSeq \in Nat /\ MaxClock \in Nat

VARIABLES
  journal,  \* sequence of records, all of them fsynced
  index,    \* the committed index
  stored,   \* hashes with a blob file on disk
  mtime,    \* modification time of those files
  mode,     \* what the process is doing
  work,     \* the uncommitted index of a running replay
  cursor,   \* the next sequence number that replay reads
  handler,  \* one record per client
  gc,       \* the collector's pass
  sent,     \* history: content clients have ever uploaded
  clock

vars == <<journal, index, stored, mtime, mode, work, cursor, handler, gc, sent, clock>>
disk == <<stored, mtime>>
replay == <<work, cursor>>

Modes == {"stopped", "recovering", "serving", "dropped", "rebuilding"}

Idle == [pc |-> "idle", key |-> None, hash |-> None, seq |-> 0, since |-> 0]
Sleeping == [pc |-> "asleep", now |-> 0, todo |-> {}, cur |-> None]

HandlerState ==
  {Idle}
  \cup [pc : {"stored", "putLogged", "reading"}, key : Keys, hash : Hashes,
        seq : Nat, since : Nat]
  \cup [pc : {"found", "deleteLogged"}, key : Keys, hash : {None},
        seq : Nat, since : Nat]

CollectorState ==
  [pc : {"asleep", "expire", "orphans"}, now : Nat, todo : SUBSET Hashes, cur : {None}]
  \cup [pc : {"remove", "append"}, now : Nat, todo : SUBSET Hashes, cur : Hashes]

TypeOK ==
  /\ journal \in Seq(Record)
  /\ index \in Index
  /\ work \in Index
  /\ stored \subseteq Hashes
  /\ mtime \in [Hashes -> Nat]
  /\ mode \in Modes
  /\ cursor \in Nat \ {0}
  /\ handler \in [Clients -> HandlerState]
  /\ gc \in CollectorState
  /\ sent \subseteq Hashes
  /\ clock \in Nat

Init ==
  /\ journal = <<>>
  /\ index = EmptyIndex
  /\ work = EmptyIndex
  /\ stored = {}
  /\ mtime = [h \in Hashes |-> 0]
  /\ mode = "stopped"
  /\ cursor = 1
  /\ handler = [c \in Clients |-> Idle]
  /\ gc = Sleeping
  /\ sent = {}
  /\ clock = 0

-----------------------------------------------------------------------------
(***************************************************************************)
(* PUT: blob durable -> journal durable -> index committed -> ack.         *)
(***************************************************************************)
Becomes(c, pc, k, h, seq) ==
  handler' = [handler EXCEPT ![c] = [pc |-> pc, key |-> k, hash |-> h, seq |-> seq,
                                     since |-> IF @.pc = "idle" THEN clock ELSE @.since]]

MayChange(k) ==
  \/ "sameKey" \in Environment
  \/ \A c \in Clients : handler[c].pc = "reading" \/ handler[c].key # k

Answer(c) == handler' = [handler EXCEPT ![c] = Idle]

\* blob.Put: content already on disk is not written again, and its file
\* keeps the modification time it has.
StoreBlob(c, k, h) ==
  /\ mode = "serving" /\ handler[c].pc = "idle" /\ MayChange(k)
  /\ h \in sent => "reupload" \in Environment
  /\ stored' = stored \cup {h}
  /\ mtime' = IF h \in stored THEN mtime ELSE [mtime EXCEPT ![h] = clock]
  /\ sent' = sent \cup {h}
  /\ Becomes(c, "stored", k, h, 0)
  /\ UNCHANGED <<journal, index, mode, replay, gc, clock>>

\* The declared digest does not match, or the append fails: the request is
\* refused, and a blob it stored stays for the collector.
Refuse(c) ==
  /\ handler[c].pc \in {"stored", "found"}
  /\ Answer(c)
  /\ UNCHANGED <<journal, index, disk, mode, replay, gc, sent, clock>>

JournalPut(c) ==
  /\ handler[c].pc = "stored"
  /\ Len(journal) < MaxSeq
  /\ journal' = Append(journal, PutRecord(handler[c].key, handler[c].hash, clock))
  /\ Becomes(c, "putLogged", handler[c].key, handler[c].hash, Len(journal) + 1)
  /\ UNCHANGED <<index, disk, mode, replay, gc, sent, clock>>

\* Faulty: the commit leaves the applied position to a later transaction.
CommitPutUnpositioned(c) ==
  LET h == handler[c] IN
  /\ h.pc = "putLogged"
  /\ index' = Bind(index, h.key, h.hash, clock)
  /\ Answer(c)
  /\ UNCHANGED <<journal, disk, mode, replay, gc, sent, clock>>

CommitPut(c) ==
  LET h == handler[c] IN
  /\ h.pc = "putLogged"
  /\ index' = AppliedTo(Bind(index, h.key, h.hash, clock), h.seq)
  /\ Answer(c)
  /\ UNCHANGED <<journal, disk, mode, replay, gc, sent, clock>>

-----------------------------------------------------------------------------
(***************************************************************************)
(* DELETE.  Deleting an unbound key answers at once and changes nothing.   *)
(***************************************************************************)
FindKey(c, k) ==
  /\ mode = "serving" /\ handler[c].pc = "idle" /\ MayChange(k)
  /\ index.keys[k] # None
  /\ Becomes(c, "found", k, None, 0)
  /\ UNCHANGED <<journal, index, disk, mode, replay, gc, sent, clock>>

JournalDelete(c) ==
  /\ handler[c].pc = "found"
  /\ Len(journal) < MaxSeq
  /\ journal' = Append(journal, DeleteRecord(handler[c].key, clock))
  /\ Becomes(c, "deleteLogged", handler[c].key, None, Len(journal) + 1)
  /\ UNCHANGED <<index, disk, mode, replay, gc, sent, clock>>

CommitDelete(c) ==
  LET h == handler[c] IN
  /\ h.pc = "deleteLogged"
  /\ index' = AppliedTo(Unbind(index, h.key, clock), h.seq)
  /\ Answer(c)
  /\ UNCHANGED <<journal, disk, mode, replay, gc, sent, clock>>

\* The index transaction of a PUT or DELETE fails after its append: the
\* client is told the request failed and the record stays journalled.
FailCommit(c) ==
  /\ "commitFails" \in Environment
  /\ handler[c].pc \in {"putLogged", "deleteLogged"}
  /\ Answer(c)
  /\ UNCHANGED <<journal, index, disk, mode, replay, gc, sent, clock>>

-----------------------------------------------------------------------------
(***************************************************************************)
(* GET: the index answers first and the blob is opened afterwards.         *)
(***************************************************************************)
ResolveKey(c, k) ==
  /\ mode = "serving" /\ handler[c].pc = "idle"
  /\ index.keys[k] # None
  /\ Becomes(c, "reading", k, index.keys[k], 0)
  /\ UNCHANGED <<journal, index, disk, mode, replay, gc, sent, clock>>

OpenBlob(c) ==
  /\ handler[c].pc = "reading"
  /\ Answer(c)
  /\ UNCHANGED <<journal, index, disk, mode, replay, gc, sent, clock>>

-----------------------------------------------------------------------------
(***************************************************************************)
(* The collector.  One pass works with one reading of the clock.  Blobs    *)
(* are visited in an order of their hashes, which the model leaves open.   *)
(***************************************************************************)
StartPass ==
  /\ Interval > 0
  /\ mode = "serving" /\ gc.pc = "asleep"
  /\ gc' = [gc EXCEPT !.pc = "expire", !.now = clock,
                      !.todo = {h \in Hashes : Collectable(index.refs[h], clock)}]
  /\ UNCHANGED <<journal, index, disk, mode, replay, handler, sent, clock>>

\* The second look at the record, and its removal, in one transaction.
DropExpired(h) ==
  /\ gc.pc = "expire" /\ h \in gc.todo
  /\ Collectable(index.refs[h], gc.now)
  /\ index' = DropRef(index, h)
  /\ gc' = [gc EXCEPT !.pc = "remove", !.cur = h, !.todo = @ \ {h}]
  /\ UNCHANGED <<journal, disk, mode, replay, handler, sent, clock>>

SkipReferenced(h) ==
  /\ gc.pc = "expire" /\ h \in gc.todo
  /\ ~Collectable(index.refs[h], gc.now)
  /\ gc' = [gc EXCEPT !.todo = @ \ {h}]
  /\ UNCHANGED <<journal, index, disk, mode, replay, handler, sent, clock>>

RemoveExpired ==
  /\ gc.pc = "remove"
  /\ stored' = stored \ {gc.cur}
  /\ gc' = [gc EXCEPT !.pc = "append"]
  /\ UNCHANGED <<journal, index, mtime, mode, replay, handler, sent, clock>>

\* The record of a collection does not advance the applied position.
JournalCollected ==
  /\ gc.pc = "append"
  /\ journal' = Append(journal, GCRecord(gc.cur, clock))
  /\ gc' = [gc EXCEPT !.pc = "expire", !.cur = None]
  /\ UNCHANGED <<index, disk, mode, replay, handler, sent, clock>>

\* Faulty: every unreferenced file is a victim, however young.
FindOrphansUnaged ==
  /\ gc.pc = "expire" /\ gc.todo = {}
  /\ gc' = [gc EXCEPT !.pc = "orphans", !.todo = {h \in stored : ~index.refs[h].live}]
  /\ UNCHANGED <<journal, index, disk, mode, replay, handler, sent, clock>>

\* The walk over blobs/ runs inside one read transaction.  A file old enough
\* to be a victim was there when that transaction began, so taking the walk
\* and its snapshot in one step leaves nothing out.
FindOrphans ==
  /\ gc.pc = "expire" /\ gc.todo = {}
  /\ gc' = [gc EXCEPT !.pc = "orphans",
                      !.todo = {h \in stored : /\ gc.now - mtime[h] >= Grace
                                               /\ ~index.refs[h].live}]
  /\ UNCHANGED <<journal, index, disk, mode, replay, handler, sent, clock>>

RemoveOrphan(h) ==
  /\ gc.pc = "orphans" /\ h \in gc.todo
  /\ stored' = stored \ {h}
  /\ gc' = [gc EXCEPT !.todo = @ \ {h}]
  /\ UNCHANGED <<journal, index, mtime, mode, replay, handler, sent, clock>>

EndPass ==
  /\ gc.pc = "orphans" /\ gc.todo = {}
  /\ gc' = Sleeping
  /\ UNCHANGED <<journal, index, disk, mode, replay, handler, sent, clock>>

\* A failing step ends the pass where it is; the next one starts afresh.
FailPass ==
  /\ "passFails" \in Environment
  /\ gc.pc # "asleep"
  /\ gc' = Sleeping
  /\ UNCHANGED <<journal, index, disk, mode, replay, handler, sent, clock>>

-----------------------------------------------------------------------------
(***************************************************************************)
(* Stopping, starting, rebuilding.                                         *)
(***************************************************************************)
Halt ==
  /\ mode' = "stopped"
  /\ handler' = [c \in Clients |-> Idle]
  /\ gc' = Sleeping
  /\ work' = EmptyIndex /\ cursor' = 1
  /\ UNCHANGED <<journal, index, disk, sent, clock>>

Crash ==
  /\ "crash" \in Environment
  /\ mode \in {"recovering", "serving", "rebuilding"}
  /\ Halt

\* The rebuild dies after dropping the namespace and before the transaction
\* that resets the applied position.
KillRebuild ==
  /\ "kill" \in Environment
  /\ mode = "dropped"
  /\ Halt

\* Faulty: the replay starts one record late.
StartLate ==
  /\ mode = "stopped"
  /\ mode' = "recovering"
  /\ work' = index
  /\ cursor' = index.applied + 2
  /\ UNCHANGED <<journal, index, disk, handler, gc, sent, clock>>

Start ==
  /\ mode = "stopped"
  /\ mode' = "recovering"
  /\ work' = index
  /\ cursor' = index.applied + 1
  /\ UNCHANGED <<journal, index, disk, handler, gc, sent, clock>>

ReplayRecord ==
  /\ mode \in {"recovering", "rebuilding"}
  /\ cursor <= Len(journal)
  /\ work' = Apply(work, journal[cursor], cursor)
  /\ cursor' = cursor + 1
  /\ UNCHANGED <<journal, index, disk, mode, handler, gc, sent, clock>>

\* With nothing to replay this commits what is already there, which is the
\* early return of Recover.
CommitReplay ==
  /\ mode \in {"recovering", "rebuilding"}
  /\ cursor > Len(journal)
  /\ index' = work
  /\ mode' = IF mode = "recovering" THEN "serving" ELSE "stopped"
  /\ work' = EmptyIndex /\ cursor' = 1
  /\ UNCHANGED <<journal, disk, handler, gc, sent, clock>>

DropNamespaces ==
  /\ "rebuild" \in Environment
  /\ mode = "stopped"
  /\ mode' = "dropped"
  /\ index' = [index EXCEPT !.keys = EmptyIndex.keys]
  /\ UNCHANGED <<journal, disk, replay, handler, gc, sent, clock>>

\* Faulty: a rebuild keeps the reference records it found.
ResetIndexKeepingRefs ==
  /\ mode = "dropped"
  /\ mode' = "rebuilding"
  /\ index' = [index EXCEPT !.applied = 0]
  /\ work' = index'
  /\ cursor' = 1
  /\ UNCHANGED <<journal, disk, handler, gc, sent, clock>>

ResetIndex ==
  /\ mode = "dropped"
  /\ mode' = "rebuilding"
  /\ index' = [index EXCEPT !.refs = EmptyIndex.refs, !.applied = 0]
  /\ work' = index'
  /\ cursor' = 1
  /\ UNCHANGED <<journal, disk, handler, gc, sent, clock>>

\* No request outlives the grace period: "a blob written seconds ago may
\* simply not be referenced YET, and the grace period is far longer than
\* that window" (gc.go).
Tick ==
  /\ clock < MaxClock
  /\ \A c \in Clients : handler[c].pc # "idle" => clock + 1 - handler[c].since < Grace
  /\ clock' = clock + 1
  /\ UNCHANGED <<journal, index, disk, mode, replay, handler, gc, sent>>

-----------------------------------------------------------------------------
Request(c) ==
  \/ \E k \in Keys, h \in Hashes : StoreBlob(c, k, h)
  \/ \E k \in Keys : FindKey(c, k) \/ ResolveKey(c, k)

Continue(c) ==
  \/ Refuse(c) \/ JournalPut(c) \/ CommitPut(c)
  \/ JournalDelete(c) \/ CommitDelete(c) \/ FailCommit(c)
  \/ OpenBlob(c)

Collect ==
  \/ StartPass \/ RemoveExpired \/ JournalCollected \/ FindOrphans \/ EndPass
  \/ \E h \in Hashes : DropExpired(h) \/ SkipReferenced(h) \/ RemoveOrphan(h)

Recovery == Start \/ ReplayRecord \/ CommitReplay

Rebuild == DropNamespaces \/ ResetIndex

Next ==
  \/ \E c \in Clients : Request(c) \/ Continue(c)
  \/ Collect \/ Recovery \/ Rebuild
  \/ FailPass \/ Crash \/ KillRebuild \/ Tick

Spec == Init /\ [][Next]_vars

\* The handlers run to their end, the ticker of StartGC fires again and again,
\* a started process recovers, and time passes however busy the clients are
\* (Tick waits for a request, and there may always be a next one).  Nobody
\* promises a request, a rebuild, a crash or a failure.
FairSpec ==
  /\ Spec
  /\ \A c \in Clients : WF_vars(Continue(c))
  /\ WF_vars(Collect) /\ WF_vars(Recovery) /\ SF_vars(Tick)

-----------------------------------------------------------------------------
(***************************************************************************)
(* Safety.                                                                 *)
(***************************************************************************)

\* Whenever no mutation is between its journal record and its commit, the
\* serving index binds every key exactly as a replay of the whole journal
\* would (the index is derived from the journal: store.go, fsck.go).
IndexIsReplay ==
  mode = "serving" /\ (\A c \in Clients : handler[c].pc \notin {"putLogged", "deleteLogged"})
    => index.keys = Replayed(journal).keys

\* What a recovery or a rebuild is about to commit is what the whole journal
\* says: no record was skipped because a later one was applied first
\* (Recover replays "forward" from the applied position).
RecoveryReachesJournal ==
  mode \in {"recovering", "rebuilding"} /\ cursor > Len(journal)
    => work.keys = Replayed(journal).keys

\* What a rebuild is about to commit is the whole index, references and all,
\* of the journal, whatever an earlier rebuild left when it was killed.
RebuildIsReplay ==
  mode = "rebuilding" /\ cursor > Len(journal) => work = Replayed(journal)

\* No interleaving of commits, collections, crashes and overlapping replays
\* counts more references to a blob than there are keys bound to it; a blob
\* with an inflated count "becomes uncollectable forever" (bind).
NeverInflated == mode # "dropped" => CountBounded(index)

\* While no content is uploaded again, the count is exact: no blob that a key
\* names ever has a record the collector may take.
RefsExact == mode # "dropped" => CountExact(index)

\* FsckReport.Healthy: no object without its blob, no positive reference to a
\* blob that is gone.
Healthy ==
  /\ \A k \in Keys : index.keys[k] # None => index.keys[k] \in stored
  /\ \A h \in Hashes : index.refs[h].count > 0 => h \in stored

\* A GET that resolved its key finds the blob it resolved, whatever was
\* deleted and collected in between.
ReadFindsBlob ==
  \A c \in Clients : handler[c].pc = "reading" => handler[c].hash \in stored

-----------------------------------------------------------------------------
(***************************************************************************)
(* Liveness.                                                               *)
(***************************************************************************)
Wanted(h) ==
  \/ Bound(index, h) # {}
  \/ \E c \in Clients : handler[c].pc # "reading" /\ handler[c].hash = h

\* Disk space comes back: a blob nobody wants is removed once it has aged,
\* whether its last key was deleted or overwritten or its request died before
\* the journal, unless it is wanted again or the process stops.
GarbageIsReclaimed ==
  \A h \in Hashes :
    (/\ mode = "serving" /\ h \in stored /\ ~Wanted(h)
     /\ clock + Grace <= MaxClock)
      ~> (h \notin stored \/ Wanted(h) \/ mode # "serving")

-----------------------------------------------------------------------------
(***************************************************************************)
(* What a store with one writer implements: a map of objects whose         *)
(* mutations are durable from the append on and take effect once, in       *)
(* order, across any number of crashes.                                    *)
(***************************************************************************)
OwedRecords ==
  {[seq |-> i, key |-> journal[i].key, hash |-> journal[i].hash] :
     i \in {j \in DOMAIN journal : j > index.applied /\ journal[j].op # "gc"}}

Objects == INSTANCE TanaObjects WITH objects <- index.keys, owed <- OwedRecords

\* Every step of the store is a step of that map.
ImplementsObjects == Objects!Spec

=============================================================================
