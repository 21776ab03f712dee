# Formal specification of tana

tana keeps WordPress uploads in a self-hosted object store and uses the local
disk of the web server as a cache of it.  One binary plays two roles, which may
share a machine: the *store* (an S3-compatible server over content-addressed
blobs, a journal and a bbolt index) and the *agent* (one per site: it uploads
what WordPress writes, evicts cold files and brings them back on demand, behind
a FUSE mount).  This directory holds TLA+ models of that code, TLC
configurations that check them, and TLAPS proofs.

Paths below are relative to the repository (`internal/store/store.go` is
`src/internal/store/store.go`).

## 1. Inventory

| Component | State it keeps | Operations | Model |
|---|---|---|---|
| blob store, `internal/blob` | one file per content hash, its modification time; temporary files | Put (dedupes), Open, Stat, Remove, Walk, verify | part of `TanaStore` |
| journal, `internal/journal` | numbered segments of JSON lines, the last sequence number | Open (repairs the tail), Append, AppendAt, Replay, Prune | `TanaJournal`; one durable append in `TanaStore` |
| index, `internal/index` | entries per namespace, reference records, the applied position, upload records, counters, pending access times | transactions | `TanaIndex` (references, bindings, applied position), `TanaCache` (entries, counters, access times) |
| object store, `internal/store/store.go` | nothing of its own: it orders the three above | PutWith, Delete, Get, Head, List, Recover | `TanaStore` |
| collector, `internal/store/gc.go` | nothing; reads the clock | collectExpired, collectOrphans, StartGC | `TanaStore` |
| offline tools, `internal/store/fsck.go` | nothing | Fsck, rebuildIndex, Scrub | rebuild in `TanaStore` |
| multipart, `internal/store/multipart.go` | an upload record with its parts, one reference per part | Create, UploadPart, Complete, Abort | `TanaMultipart` |
| replication, `internal/store/replica.go` | the secondary's own journal and index | Pull, applyOne, fetchBlob; the primary's feed | `TanaReplica` |
| agent, `internal/agent` | the backing directory, one index entry per object, an in-memory queue, recalls in flight | Scan, watch, Enqueue, workers, sweep, Recall, Evict, EvictToFit, Touch, Pin | `TanaAgent`, `TanaWatch` (nested directories), `TanaCache` (eviction passes) |
| mount, `internal/mount` | none | Lookup, Getattr, Readdir, Open, Read | `TanaCache`; `Open` with its recall in `TanaAgent` |
| S3 API, `internal/s3` | none | requests to store calls; listing pages, ranges, signatures | `TanaFront` (listing pages, GET with ranges) |
| S3 client, `internal/s3client` | none | PutFile, Get, GetRange, Delete, List | `TanaFront` (List), `TanaAgent` (the others with their failures) |
| configuration, `internal/config` | the file, the configuration that runs, the error of the last reload | Load, Watch, Reload; `Store.Configure` behind it | `TanaConfig` |
| daemon, status socket, logging, service, bootstrap, PHP plugin | files and sockets | wiring, output | start-up order only |

How they interact.  An S3 handler calls the store, which calls blob store,
journal and index in that order; each leaves a durable artifact behind before
the next is touched.  The collector runs in the same process and shares only
those artifacts with the handlers.  A restart folds into the index what the
journal has beyond the index's applied position.  A secondary pulls the
journal of its primary over HTTP, fetches the blobs it lacks and appends the
same records to its own journal.  The agent talks to the store by HTTP only;
inside it, file events, workers, the sweeper, the eviction pass and FUSE calls
share the backing directory, the index and the queue, and no lock spans a file
system call and the index transaction that describes it.

What is hard:

* **interleaving**: handlers, the collector, workers, the watcher, evictions and
  recalls interleave between a file system call, a journal append and an index
  transaction;
* **crashes**: the process may die between any two of these, and the next
  start has only the artifacts to go by;
* **failure**: an index transaction may fail after its record was journalled; a
  collection may stop half way; the network may fail with an upload half sent;
* **overlap**: replays repeat what is already applied, uploads repeat content
  that is already stored, sweeps repeat what is already queued;
* **time**: the collector is safe because of the grace period, and useful
  because it ends.

What makes each correct.  *Object store*: an acknowledged mutation survives any
crash, is applied once and in journal order, and the serving index is the
replay of the journal.  *Index*: a reference count is the number of keys bound
to the blob.  *Collector*: never takes a blob a key names or a reader is
about to open, and does take every blob nobody wants.  *Rebuild*: yields
the index the journal describes.  *Agent*: the last version of every
file is on disk or on the store at any time, "safe" means the store has it,
pending work is not lost, deleted objects stay deleted, temporary files do not
become objects.  *Replication*: the secondary's journal is a prefix of the
primary's and the index follows it.  *Journal*: numbers are dense and increasing
across crashes, and what an append acknowledged is read by every later replay.
*Multipart*: a part is not collected while its upload is open, is released
exactly once, and is in the record once acknowledged.  *Cache*: the counters
are the sums over the entries, a pass evicts the coldest objects, as many as it
needs and no protected one; the mount answers for every file, wherever
its bytes are.  *Front end*: a listing misses nothing and ends, a reply
sends what its headers promise.  *Configuration*: what runs is the last good
file, whose tenants and sites do not collide.

`PROJECT.json` lists every component and, under `hazards`, each place where the
code is exposed to one of the above, with the properties that watch it.

A constant with a set of hardships (`Environment`, `Hardships`, `Mishaps`) in nearly every module
says what else may happen, so that a run states what it assumes.  Where the
code does not keep a promise under some hardship, that hardship is left out
of the passing run, and the section on the module says which property breaks
with it (*limits*): putting it into the set, or the constants given there into
the `.cfg`, shows the counterexample.  One such disagreement with what the repository says
has a run of its own, `StoreDedupRace`.

## 2. The store

### 2.1 `TanaIndex`: what a transaction does

Pure operators on an index value `[keys, refs, applied]`: `keys` maps an object
key to the content hash it is bound to, `refs` maps a hash to its reference
record (`live` says the record exists, `count`, and `unref`, the time it last
reached zero), `applied` is the meta key `applied_seq`.

| Definition | Code |
|---|---|
| `AdjustRef` | `Tx.Ref`: absent record, clamp at zero, `UnrefAt` set at zero and cleared above it |
| `DropRef`, `Collectable` | `Tx.DropRef`, `Ref.Collectable` |
| `Bind` | `Store.bind`, with the early case of the same hash |
| `Unbind`, `Release` | `Store.unbind` |
| `Apply`, `AppliedTo` | `Store.apply`, `Tx.SetMeta(applied_seq)` |
| `Replayed` | what folding a whole journal into an empty index gives |

Buckets (namespaces) are left out: a key is a bucket and a key together.  Sizes,
tags and dates ride along with an entry and are not kept.  A content hash stands
for the content.

### 2.2 `TanaStore`: handlers, collector, process

| Variables | Code |
|---|---|
| `journal` | the fsynced records, sequence number = position |
| `index` | what bbolt has committed |
| `stored`, `mtime` | files under `blobs/` and their modification times |
| `mode`, `work`, `cursor` | start-up: the replay transaction and where it is |
| `handler` | one in-flight request per client |
| `gc` | the collector's pass |
| `clock` | time in units the grace period is measured in |
| `sent` | history: content ever uploaded |

A PUT is `StoreBlob`, `JournalPut`, `CommitPut`; a DELETE `FindKey`,
`JournalDelete`, `CommitDelete`; a GET `ResolveKey`, `OpenBlob`.  `Refuse` is the
error path before the append (a digest that does not match, a failed append) and
`FailCommit` the one after it.  A collection is `StartPass` (one read
transaction), then per candidate `DropExpired` or `SkipReferenced` (one write
transaction), `RemoveExpired`, `JournalCollected`, and then `FindOrphans`,
`RemoveOrphan`, `EndPass`; `FailPass` is every early return.  A start is
`Start`, `ReplayRecord`..., `CommitReplay`; `--fsck --rebuild` is
`DropNamespaces`, `ResetIndex`, the same replay, and a stop.  `Crash` may come
at any point, `KillRebuild` between the transactions of a rebuild.

One step is one durable effect, because nothing in the code makes two of them
atomic.  A bbolt transaction is one step: bbolt runs one writer at a time.

The constant `Environment` says what else may happen, so that each run can
state exactly what it assumes: `crash`, `kill`, `commitFails`, `passFails`,
`rebuild`, `reupload` (content uploaded before comes again), `sameKey` (two
requests change one key at once; the agent's queue never does that, other S3
clients may).

### 2.3 `TanaObjects`: what the store promises

A map from keys to content, and a set of accepted mutations that are still
owed.  A mutation is accepted at its journal record, takes effect exactly once,
in order, and neither is lost.  `ImplementsObjects` is the refinement under the
mapping `objects <- index.keys`, `owed <- the records above the applied position`.

## 3. Runs of the store

| Run | Instance | Shows |
|---|---|---|
| `StoreSerial` | 1 client, 2 keys, 2 contents, crashes, re-uploads, the collector; fairness | `TypeOK`, `IndexIsReplay`, `RecoveryReachesJournal`, `NeverInflated`, `ImplementsObjects`, `GarbageIsReclaimed` |
| `StoreWriteOnce` | 2 clients, 2 keys, 3 contents each uploaded once, crashes, failed passes, the collector | `Healthy`, `ReadFindsBlob`, `RefsExact` |
| `StoreUncollected` | 2 clients on the same 2 keys, no collector, failed commits, crashes, re-uploads, rebuilds and rebuilds killed half way | `RebuildIsReplay` |
| `StoreDedupRace` | 1 client, a re-upload | `Healthy` is violated |

`Interval = 0` stands for a `gc.interval` that is not positive, with which `StartGC`
returns at once (an interval left out gets a default of six hours).

Bounds.  `MaxSeq` bounds the client records in the journal: three are
enough to bind a key, bind it again and delete it, or to let one commit
overtake another with one more to follow.  The collector's own records are not
bounded by it; they cannot outnumber what was referenced.  `MaxClock` bounds the clock; with a
grace period of one or two ticks a blob can age, be re-referenced and age again.
Clients and keys are interchangeable, so are contents, hence the symmetry; the
liveness run has none.  A request lasts less than the grace period (`Tick`): the
default is days (`config.go`) and the code's own argument for the collector
rests on it.

Fairness (`FairSpec`).  A handler that was started runs to its end: nothing in
it waits for another one except the journal's mutex and bbolt's writer lock,
both released on every path.  The ticker of `StartGC` fires for ever.  A
started daemon goes on to recover and a stopped one is started again by systemd
(`Restart=`).  Time
passes, strongly fair because `Tick` waits for the requests in flight and there may always
be another.  No fairness is assumed for clients, rebuilds,
crashes or failures.  `GarbageIsReclaimed` therefore excuses a stop of the process:
nothing bounds how often it may crash.

What the violated run shows:

* `StoreDedupRace`.  Content is deleted, ages past the grace period and is
  uploaded again.  `blob.Put` finds the file and returns; before the index
  transaction creates the reference, the collector drops the expired record,
  or finds an orphan that is old enough, and removes the file.  The PUT is
  acknowledged and the object has no blob.  This is why `Healthy` and
  `ReadFindsBlob` are checked with content that is written once.

Limits of the code met while modelling, each kept out of the passing runs:

* Two PUTs append records *n* and *n+1*, the second commits first, and a crash
  comes before the first commit (`StoreSerial` with two clients and
  `Environment = {"crash"}` breaks `RecoveryReachesJournal`).  `applied_seq` is
  *n+1*; `Recover` starts at *n+2* and the journalled record *n* is never applied,
  although `store.go:14-15` says the replay repairs an index that is behind.  The client of
  *n* was not answered, so no acknowledged write is lost; but the index is
  behind its journal for ever, and a rebuild would disagree with it.  Even
  without a crash two requests on *one* key may leave the index with the
  content the journal says was replaced, which is why `IndexIsReplay` is
  checked with one client.
* The collector appends its `gc` record after the transaction it records, so the
  record can follow that of an upload which referenced the content again, and a
  replay that overlaps both drops the new reference.  `RefsExact` is
  checked, and proved, for content written once and for stores without a collector;
  `NeverInflated` holds for all.
* `rebuildIndex` drops the namespaces in transactions of their own before it
  resets `applied_seq` (`fsck.go:152-173`).  Killed in between, the next start finds
  nothing to replay and serves an empty bucket; a second rebuild repairs it.
  `IndexIsReplay` is therefore checked without rebuilds.
* A record that a recovery skipped leaves its blob without a reference; the collector
  takes the orphan, and a rebuild, which does read the record, binds its key to a blob that is
  gone.  `Healthy` with a collector is therefore checked without rebuilds.

The definitions marked `Faulty` in the modules are variants of the
one that follows them, with a plausible mistake in them.  Each property of each passing run has
one that it catches.

## 4. Proofs

The first part of `TanaStoreProofs` proves what `AdjustRef`, `Bind`, `Unbind`, `Release`, `DropRef`
and `Apply` do to an index: they stay within `Index`, how each moves the
count of a hash and the set of keys bound to it, and what `Replayed`, the fold over a
journal, is made of: its first record taken off, or its last.  The second proves, for all keys, contents, clients, grace periods and bounds:

| Theorem | Assumes | Says |
|---|---|---|
| `StoreTypeOK` | nothing | `TypeOK` is invariant |
| `StoreNeverInflated` | no killed rebuild | no count exceeds the number of bound keys |
| `StoreRefsExact` | no collector, no killed rebuild | counts are exact |
| `StoreHealthy` | no collector | no key and no counted reference lacks its blob |
| `StoreReadFindsBlob` | no collector | a resolved GET finds its blob |
| `StoreCollectsSafely` | content written once, one request at a time on a key, no failed commit, no rebuild, a grace period above zero | with the collector running, no key and no counted reference lacks its blob |
| `StoreReadSurvivesCollection` | the same | a resolved GET finds its blob, whatever was deleted and collected since |
| `StoreCollectsExactly` | the same | counts are exact |
| `StoreRebuildIsReplay` | nothing | what a rebuild commits is the index of the whole journal |
| `StoreIndexIsReplay` | one writer, no failed commit, no killed rebuild | the index binds every key as the journal says |
| `StoreRecoveryReachesJournal` | the same | a recovery that starts at the applied position misses nothing |
| `StoreImplementsObjects` | the same, no rebuild | the store implements the map of objects of `TanaObjects` |

The arguments.  `TypeOK` is inductive.  `NeverInflated` speaks of the committed
index; it is not inductive, because a start copies the index to a working copy
that a later step commits, and because a rebuild empties the keys before it
empties the references.  The invariant `BoundedInv` adds the same bound for the working copy while
a replay runs and leaves out the moment between those two transactions, where it is
false.  `ExactInv` is its counterpart with equality.  The step cases reduce to
lemmas about `Bind` and `Unbind`: both move a count together with the set of
bound keys, and a second `Bind` of the same content moves neither.
`StoreHealthy` needs `BackedInv`: not only what the index names, but every hash a
journal record names, every hash a handler is about to journal or read and every
hash of the working copy is on disk; a replay can then bind nothing that is
missing.

With the collector running, what matters is not what is on disk but what can still be
bound.  `OnceInv` says of every hash whose blob is gone, or that the collector is about to
remove, or that a `gc` record names, that it is `Forgotten`: no key is bound to it, no handler
carries it, and every record that put it is either behind all replays to come (not after the applied
position, nor after the number of a commit still under way) or followed by a later record of its key.
Every replay that reads such a record therefore reads the one that takes the key away as
well (`ReplayUnbinds`, by induction over the journal), which is why a replayed `gc`
record takes a count that is zero.  What makes it inductive: between its upload and its commit, content
is in one handler and has a file younger than the grace period (`CarriedOnce`, `InTime`);
a count above zero has no time (`Timeless`), and a reader that still holds content no key is bound to
started before that time (`ReadersServed`), so both keep the collector away; records of one key
are in the order of its requests (`LoggedInOrder`, `KeysApart`); and the working copy of a
recovery binds every key as the last record before its cursor says (`Ordered`), whichever
records an overlapping commit makes it read twice.  `StoreDedupRace` is what becomes of
`CarriedOnce` when content is uploaded again.

What a fold computes.  `Replayed` is a fold of the community modules, that is
a recursive function on sets.  The library's induction theorems
take a predicate as a parameter, which no installed prover can instantiate;
`TanaInduction` proves induction for a *set* of numbers instead (`Induction`, from the
least element of its complement, found by the pigeonhole argument on a finite interval),
and the lemmas on folds name the set they need by comprehension.
The folds over sets (`MapThenFoldSet`, `MapThenSumSet`) and the community modules' sums are handled there
too: `SetRecursion` unfolds a function that recurs over subsets, and `TallyChange` says how a sum
over a set moves when one summand does.
`RebuildInv` says that the working copy of a rebuild is the replay of the
records before its cursor.  `SerialInv` says that the committed index binds the keys as a replay of the
journal up to its applied position does, that what lies beyond that position is either
the collector's, or the one mutation its client has not committed yet, and that the working copy of a
recovery is the replay up to its cursor; two writers break its second part, a failed commit leaves a
record without an owner.  The refinement maps `pending` to the uncommitted record and `objects`
to the bound keys: an append is the abstract acceptance, the commit (of the handler or of the
recovery) the abstract effect, everything else stutters.

Model-checked only: `GarbageIsReclaimed` (liveness).

## 5. The agent

### 5.1 `TanaAgent`: directory, index, bucket and who touches them

| Variables | Code |
|---|---|
| `file` | the backing directory, temporary files of recalls included (`Names` = an object's file and `dst + tempSuffix`); a body and a modification time |
| `entry` | the agent's index: state (`dirty`, `synced`, `evicted`) and recorded modification time |
| `store` | the bucket as the client sees it |
| `queue` | the channel `Agent.queue`; `Pending` is the map `Agent.pending` |
| `worker` | one upload per worker goroutine, with the number of tries |
| `events`, `watcher` | file events not read yet, and the one `handleEvent` is working on |
| `scan` | `Agent.Scan`, at start or from `handleEvent` |
| `evictor` | `Agent.Evict` between its steps |
| `reader` | an `Open` of the mount that found an evicted entry, through `Recall` and `fetch` |
| `mode` | stopped, start-up scan, serving |
| `latest`, `wrote` | history: what WordPress last wrote, and how often it wrote |

No lock in `internal/agent` spans a file system call and the index transaction
that describes it, so each is an action:

* *WordPress*: `WriteFile`, `DeleteFile`, `MakeDirectory`, `OpenEvicted`.  A write
  needs an entry that is not evicted, since `node.Open` recalls first.
* *watcher*: `StatChanged`, `IndexChanged`, `OfferChanged` are the stat, the
  transaction and the `Enqueue` of one event; `OfferRemoved` and `ScanDirectory` are the
  other two branches.
* *worker*: `TakeKey`, `HashFile`, `SendFile`, `LandUpload`, `MarkUploaded`,
  `ReleaseKey`; `LoseUpload` is every way the request or its answer fails, followed by a
  retry or by giving up.  `Sweep` queues what is still dirty.
* *scan*: `VisitFile` per file, `FindGone`, then per missing file `DeleteRemote`
  (or `FailDelete`) and `Forget`; `AbortScan` is the early return for a file that vanished.
* *eviction*: `CheckEvictable`, `RemoveFile`, `MarkEvicted`.
* *recall*: `ReadEntry`, `JoinRecall`, `GetObject`, `FillTemp`, `RenameTemp`,
  `MarkRecalled`; waiting for another recall is `StopWaiting`, the error paths are `FailGet` and
  `DropTemp`.
* *process*: `Start` (the scan precedes watcher, eviction and mount) and `Crash`.

A body is the number of the write that produced it and stands for content, size and
hash.  A temporary file carries the object's recorded time.  Every rename,
removal and write produces the event the watcher would see, for temporary files too:
`handleEvent` does not tell them apart, and the models let it index and upload them.

### 5.2 What each run assumes

The code is not safe against every interleaving of WordPress with itself
(5.4), so a run says what it assumes.  `Settled(n)` holds when no key, event, watcher
step, eviction or recall concerns the object and no scan under way is about to
delete it.  In the passing runs WordPress changes or deletes settled objects only,
and eviction hits settled objects only.  Uploads are over long before either in normal use:
an eviction pass takes the coldest objects first.  Three flags of `Environment` drop
these assumptions: `rewrite` (files changed at any time), `warm` (evictions of
unsettled objects), `crashEvicting` (the process dies between removing the bytes and marking
the entry).

| Run | Instance | Shows |
|---|---|---|
| `AgentMirror` | 2 objects, 2 workers, no cache ceiling, queue of 1, 2 tries; deletions, new directories, an unreliable store, crashes | `NoZombies`, `UnchangedMeansStored`, `OneUpload` |
| `AgentCache` | 1 object, 1 worker, 2 readers, queue of 1, evictions and recalls, an unreliable store, crashes, fairness | `NothingLost`, `ReadersSeeLatest`, `OneRecall`, `UploadsHappen` |

Bounds.  A queue of one with two objects makes it overflow, so that only the sweep
brings the dropped key back; two workers can race for keys; two tries tell a retry from
giving up.  Two versions of an object are enough for old and new content to
compete (a third write would only repeat the second), two readers for one to join the other's recall.  `MaxEvents`
bounds events that are not read yet: a rename makes two at once, a third can wait behind them.
One object suffices in `AgentCache`: objects meet only in the queue and the workers, which `AgentMirror` covers,
and the object's temporary name is the second key that makes the queue of one overflow.
Objects, workers and readers are interchangeable, hence the symmetry; the liveness run has none.

Fairness.  The service manager starts the process, its goroutines (watcher, workers, scan) run,
and the sweeper's ticker fires again and again.  Strong fairness of `LandUpload`
says that a store that is sent a file for ever takes it in the end.  With one
attempt, failures and a queue of one the key must come back through `Sweep` every
time, which is what `UploadsHappen` is about: the temporary name of a recall is a key like
any other, stays dirty for good once its file is gone (only a scan drops its entry), and is swept into the one place
of the queue when the object's own key is neither queued nor uploaded.  Strong fairness of
the sweep says that this does not happen *every* time the sweep comes to the object.
It is an assumption about sizes: a sweep queues the dirty keys in key order
(`agent.go:336-351`), the queue holds 4096, and workers empty it meanwhile, so a key finds room as
long as fewer keys than that come before it which no upload can ever help.  With weak fairness only, TLC shows the
starvation beyond that limit: the same dead key is queued first in every sweep, and the object's is
dropped every time.  `UploadsHappen` excuses a crash, a further write and a deletion;
nothing is assumed of WordPress, evictions and recalls.

### 5.3 What is proved

`TanaAgentProofs`, for all objects, workers, readers, capacities and bounds:

| Theorem | Assumes | Says |
|---|---|---|
| `AgentTypeOK` | nothing | `TypeOK` is invariant: the queue stays within its capacity, a retry within its attempts |
| `AgentOneUpload` | nothing | `OneUpload`: a key is queued or uploaded once at a time |
| `AgentOneRecall` | nothing | `OneRecall`: recalls of an object never overlap |
| `AgentNoZombies` | `NotedAssumption` | `NoZombies`: what is stored has a file or an entry |
| `AgentNothingLost` | `CalmAssumption` | `NothingLost`: the last version is on disk or on the store |
| `AgentUnchangedMeansStored` | `CalmAssumption` | `UnchangedMeansStored`: what no upload would send is on the store |
| `AgentReadersSeeLatest` | `CalmAssumption`; no deletion or no ceiling | `ReadersSeeLatest`: the mount answers what was last written |

"Nothing" includes the unsafe flags.  `CalmAssumption` is the absence of `rewrite`, `warm` and `crashEvicting`, and of
`newdir` where there is a ceiling; `NotedAssumption` allows `rewrite` where no directory
appears, and asks for no ceiling where one does.  Both are about `Environment`, 5.2 says
what the flags stand for and 5.4 what breaks with each; deletions, lost requests and answers,
and crashes are allowed by both.

`TypeOK` is inductive.  `OneUpload` is inductive with `TypeOK`: it speaks of queue and workers
together because a key passes from one to the other (`OneUploadTake`), and `Enqueue`
looks at both (`OneUploadEnqueue`).  `OneRecall` is inductive with `TypeOK`
since only `JoinRecall` begins a recall.

`NoZombies` is the end of `DirectoryInv`: nothing runs in a stopped agent, and at the start only
the workers and the scan do (`ModeInv`); without a ceiling nothing is evicted or recalled
(`UncachedInv`); a file is either visited by the running scan, still to be visited, or too new for it, and
what the scan calls gone is really gone (`ScanInv`); and the keys of uploads under way are
in the index (`KnownInv`).

The three others follow from `CacheInv`, which says of every object where its
last version can be, by the position of each actor: what is kept in file, entry and
bucket while no one touches it (`Kept`), what a worker has hashed or sent (`Sending`), what a reader
has fetched or put in the temporary file (`Fetching`), what the watcher has seen and not indexed (`Noting`), what is being
evicted (`Evicting`), and that an object never written leaves no trace (`Unwritten`).  The lemmas
`FileOf`, `EntryOf`, `StoreOf`, ... say who may change each variable, and how, so that each
conjunct is proved against the few writers of what it mentions (`Writers`).
TLC checked both invariants on the runs' instances before they were proved.

`UploadsHappen` (liveness) is model-checked only.

### 5.4 Limits

* A deletion leaves its entry `synced` until the next scan.
  `Evict` does not mind that the file is missing and marks the entry evicted:
  the deleted object is visible again, and no scan removes it since `FindGone` skips
  evicted entries (`AgentCache` with `Environment = {"delete"}` breaks
  `ReadersSeeLatest`).
* `Evict` reads the entry, removes the file, marks the entry; a write
  in between, or one whose event has not been read, is lost (`rewritten` in 9.3 shows it step by step).  An upload marks
  the object synced whatever has become of the file, and `Enqueue` drops a
  pending key (`rewrite` breaks `NothingLost`).
* a crash between `RemoveFile` and `MarkEvicted` leaves a synced entry without a
  file, which the start-up scan takes for a deletion and propagates (`crashEvicting`);
* a file event read before an eviction turns the evicted entry dirty with no file
  behind it, and the next scan deletes the store's copy (`warm`);
* an object deleted and created again while a scan is about to delete it loses its
  new upload and is marked synced;
* an upload under way when its object is deleted may land after the scan's
  deletion and stay on the store for ever;
* temporary files of recalls are indexed, and once renamed their entries stay dirty and
  are swept until the next scan; a queue full of such keys starves the keys that come after them (5.2);
* an index transaction that fails under an event or a scan loses the change until the next scan: `FailPut`
  of `TanaWatch` has it, `TanaAgent` does not.

### 5.5 `TanaWatch`: a tree of directories

`TanaAgent` has one directory, whose events all arrive.  `TanaWatch` has a tree and the
kernel's queue, and asks whether a file comes to the agent's notice at all; what becomes of
it then, and eviction, are left to `TanaAgent`.

| Variables | Code |
|---|---|
| `dirs`, `file` | the backing store: its directories, with at most one file in each |
| `recorded` | size and time the index has for that file |
| `watched` | the directories given to `w.Add` |
| `events` | `w.Events`: the kernel's queue, which merges equal neighbours |
| `watcher` | the goroutine of `watch`: between `Stat` and `Put` of an event, or inside a scan |
| `failed` | history: an error was logged, and no scan has been complete since |

WordPress makes a directory, writes or deletes a file (`MakeDirectory`, `WriteFile`,
`DeleteFile`); only what happens in a watched directory is an event.  `handleEvent` is
`PassOver`, `StatFile` and `PutEntry`, or `WatchDirectory` and the scan it
runs; `FailPut` is an index transaction that fails, under an event or in a scan: `ListDirectory`, `LookAtFile`, `PutScanned`, `AbortScan`, `FindGone`, `RemoveEntry`,
`EndScan`.  A directory is read when the walk reaches it and its files are looked at
later, so WordPress is always in between.  `Restart` is one step, since there is no mount, and no
WordPress writing through it, before `Start` has scanned and watched.

| Run | Instance | Shows |
|---|---|---|
| `Watch` | a root, a year, two months in it, 3 writes, a queue of 3; transactions and scans that fail, restarts | `NothingUnnoticed` |

Two months make a scan meet a directory that is made while it walks; three writes are
one per directory, or a file rewritten between its event, its listing and its entry.  The queue of
three holds a new directory, a file next to it, and a change of either.  `MaxEvents` bounds the
events that wait: while the queue is full WordPress does nothing that would be reported.
`NothingUnnoticed` excuses files after an error that was logged: a file that vanishes
between listing and look ends the whole scan, as does a transaction that fails, and files written to a
new directory before its watch then wait for the next scan or restart; so does a file whose event the
index did not take (`agent.go:440`).

Limits.  `agent.go:366` says "Watch every directory: fsnotify is not recursive, and WordPress
creates a new one every month".  With `nested`, a directory may be made in one that has no watch
yet, as the first upload of a year does with year and month: the scan
records the files that are there, but `w.Add` is only called for the directory of
the event, so the month has no watch, and what is written to it later is found by the next scan or start.
With `overflow` an event is dropped; the error is logged and nothing scans.  With `addFails` `w.Add`
fails (the kernel's limit of watches, a directory gone again): `agent.go:424` ignores its
error, and the directory stays without a watch until the next start.  All three break
`NothingUnnoticed`.

What is proved.  `NothingGoesUnnoticed` (`TanaWatchProofs`): under `Hardships = {}`, `NothingUnnoticed` is
invariant for every tree of directories, every size of the queue and any number of writes.
`NoticeInv` is its inductive form.  `TreeInv` says that every directory hangs from the root by
existing parents, so that a walk reaches it, and is watched or has its own event waiting.  For every
file there is an event that waits (`Queued`), or what the index has is up to
date, or someone will still see to it: the watcher between its stat and its entry, the scan
that has not reached the directory or has the file on its list, or a scan that ended with an
error (`Noticed`).  A write to a watched directory queues an event even when the queue merges it with its
neighbour, and a write to an unwatched one is covered by the event of that directory, whose scan
comes after the watch.

## 6. Replication

### 6.1 `TanaReplica`: a store that follows another

A secondary is modelled as a store whose clients stay away (6.4): `TanaReplica` extends `TanaStore` and
uses its journal, index, blobs, recovery, rebuild and collector as they are.  It
adds:

| Variables | Code |
|---|---|
| `upstream`, `blobs` | the primary's journal and blob files, which is all its two endpoints serve |
| `collected` | the blob the primary's collector has removed and not journalled yet |
| `puller` | `Secondary.Pull`: the rest of the page, and the step of `applyOne` that comes next |

A pull is `AskJournal` (one page after the applied position), and then for each
record `StatBlob`, `FetchBlob` if the blob is missing, `AppendAt` and
`ApplyPulled`.  `LoseRequest`, a 404 in `FetchBlob`, a refusal in `AppendAt` and
`FailApply` end the pull where it is; the next one starts from the applied position.
A crash ends it too, and the start that follows is that of `TanaStore`.

The primary is modelled coarser than in `TanaStore`: an upload adds blob and record
in one step, since the secondary learns of a blob only from a record, and the record
comes second; a collection is two steps, blob then record, since a secondary
can be between them.  What else the primary does is not visible through
its journal and its blobs.

`Hardships` says what the secondary must live with: `offline`, requests
for blobs fail; `behind`, the primary collects blobs whose records the
secondary has not copied yet.  Without `behind` the secondary is never further behind than the grace
period.

### 6.2 Runs

| Run | Instance | Shows |
|---|---|---|
| `ReplicaFollows` | 2 keys, 2 contents, pages of 2, `offline`; crashes, rebuilds, failed index transactions; no collector on the secondary; fairness | `ReplicaTypeOK`, `JournalIsPrefix`, `MirrorsPrimary`, `ReplicaHealthy`, `CatchesUp` |

Bounds.  Four records of the primary's clients and pages of two give a second and a
third page, a page that is cut short by a failure and asked for again, and a collection
followed by a new upload of the same content.  The primary's `gc` records are not bounded
but follow its deletions.

Fairness.  The ticker of `Start` pulls for ever, whatever the last pull
returned.  Strong fairness of `FetchBlob` says that of infinitely many
requests one is answered.  A process that was started recovers; that a crashed one
is started again is not needed, since `CatchesUp` excuses a stop.

`CatchesUp` also excuses `AwaitsRestart`: after a failed index transaction
(`FailApply`) the record is in the local journal but not in the index, every later pull asks for
it again, and `AppendAt` refuses it because its number is taken.  Only a restart,
whose recovery applies it, goes on from there.

### 6.3 What is proved

`TanaExtensionsProofs`, which holds the proofs of both modules that extend `TanaStore`, for all keys,
contents, page sizes, bounds and hardships:

| Theorem | Assumes | Says |
|---|---|---|
| `ReplicaTypes` | nothing | `ReplicaTypeOK` is invariant |
| `ReplicaCopies` | no collector on the secondary | `JournalIsPrefix` is invariant |
| `ReplicaStaysHealthy` | no collector on the secondary | `ReplicaHealthy` is invariant |
| `ReplicaMirrors` | the same, no killed rebuild | `MirrorsPrimary` is invariant |

`JournalIsPrefix` is not inductive: what `AppendAt` appends comes from a page that
was asked for earlier.  `CopyInv` adds that every record of the page carries its
number in the primary's journal, which only grows, and that the collector
sleeps.  `ReplicaHealthy` needs `FollowInv`: the record about to be appended or
applied has its blob (`CarriedBacked`), and so has every record of the
journal, the index and the working copy of a replay.  The lemmas about `Apply`
are those of the store.  `MirrorsPrimary` compares the secondary's index, times included, with the
replay of the primary's journal up to the applied position.  `MirrorInv` says the same of the
working copy of a recovery or rebuild up to its cursor, and that a pull between its append and
its commit is one record ahead; `AppendKeepsReplay` carries it over whatever the primary appends.
A rebuild killed between its two transactions leaves an empty index under the old applied position (3)
and is left out.  `CatchesUp` (liveness) is model-checked only.

### 6.4 Limits

* Clients of a secondary are left out.  `runDaemon` serves the whole S3 API on a
  secondary too (`cmd/tana/main.go:263-297`), and nothing there refuses a write: a client's `PUT` or `DELETE`
  would be journalled under the next number, as the collector's record below is, and break
  `JournalIsPrefix`.  All three theorems and the run are about a secondary that nobody writes to before it is
  promoted, which is when the documentation points agents at it (`src/README.md:704-706`).
* `runDaemon` starts the collector on a secondary as on any other
  store.  A blob that is free on both sides is collected by both; the secondary's
  own `gc` record takes the next number, which the primary has given, or will
  give, to another record.  `AppendAt` refuses that one for ever, and once a
  restart has applied the local record the primary's is skipped (`Interval = 1`,
  `MaxClock = 1` and no hardship break `JournalIsPrefix`).
* The primary's journal keeps the record of an upload whose
  blob was collected.  A secondary that missed it gets a 404 for the blob on
  every pull and never moves again, a fresh secondary of an old primary included
  (`behind` breaks `CatchesUp`).

## 7. The journal

### 7.1 `TanaJournal`: segment files

| Variables | Code |
|---|---|
| `files` | the segments by base number: their lines, how many are synced, and whether a fragment follows |
| `pc`, `adding` | the append that holds the mutex and its record |
| `last`, `cur`, `size` | `Journal.last`; `cur` with `curBase`; `curSize` |
| `disk` | whether writes work at the moment |
| `reader` | a `Replay`, which takes no lock: the segments it listed and has not read yet (`todo`, read in the order of their names), and what it delivered |
| `told`, `kept` | history: records whose append returned or that a start found; the highest `keepFrom` |

An append is `MakeRoom` (the three ways of `ensureSegment`), `SyncDir` for a file
that is still empty, `Write`, `Sync`; `FailAppend` is a failure of any of the last three and
leaves a fragment, a line or nothing.  `Open` is `repairTail` on the newest segment.
`Prune` is one step, since a prune that stops half way removed a prefix of what it
would have.  A replay lists once (`ListSegments`) and reads file after file
(`ReadSegment`; `Delivered` is the loop of `replayFile` over the records of one), while the appends go on.  `Kill` keeps what was written; `PowerCut`
keeps what was synced and any part of the rest, and may lose a file whose directory
entry was not synced.  A line counts one unit of `maxSegment`.

`TanaLog` is what the journal promises: a set of numbered records that grows by the next
number only, loses only what nobody was told of, and is pruned at its head.
`ImplementsLog` maps it to all lines of all files.

### 7.2 Run, bounds, proof

| Run | Instance | Shows |
|---|---|---|
| `JournalDurable` | segments of 2, 5 numbers, 2 records; kills, power cuts, failing disks | `AckedIsDurable`, `ReplayIsExact`, `ImplementsLog` |

Five numbers and segments of two make three segments: one to prune, one in the
middle of a replay, one being written.  Two records tell which of two lines took a number twice.  `AckedIsDurable`
has the type invariant as its first conjunct, as have `PartsCounted` and `StatsExact` below.

`TanaJournalProofs`, for all segment sizes, records and bounds, with any number of kills,
power cuts and failing disks (`OrderlyAssumption`; the other three flags break the
properties, see 7.3):

| Theorem | Says |
|---|---|
| `JournalIsDurable` | `AckedIsDurable`: what an append returned or a restart went on from is among the synced lines of a file until it may be pruned |
| `JournalImplementsLog` | `ImplementsLog`: the segments implement the log of `TanaLog` |
| `ReplaysAreExact` | `ReplayIsExact`: a replay that ends without an error delivered all it was promised when it began, once, in order and as written |

`JournalInv` says what the files look like at every point of an append, a rotation, a pruning, a
crash and a restart: bases order the segments and their numbers follow on each
other; only the newest may have lines that are not synced, or a torn one; the open file and
its counters agree with what is on disk; and what `told` remembers is in a synced line, or
below what a pruning kept.  The newest segment and the sets of numbers are finite sets of numbers, for which
`TanaInduction` provides least and greatest elements.  Each step of `TanaJournal` then maps to a step of `TanaLog` (an
append, a promise, a loss of what was not promised, a pruning) or a stutter.

`LogIsDense`: a log that behaves as `TanaLog` says never holds two records under one number, nor a
gap.  `NumbersAreDense` is the same of the lines of the segments, through `JournalImplementsLog`.

`ReplaysAreExact` needs more than `JournalInv`, for a reader holds no lock while segments come,
grow and go.  `Gapless` says that a segment ends no earlier than the next one begins: a rotation names the
new one after the next number, and a crash shortens none but the last.  `ReplayInv` adds what a
replay under way relies on, in three parts.  `TodoInv`: what is still to read is among the files, unless a pruning took it
with everything before it, and no file the replay does not know comes between.  `GotInv`: what was
delivered is consecutive, and its next number is the name of the next segment to read (or that segment is the
empty one created after a failed write, `Lost`, which is the newest and adds nothing).  `OwedInv`: a record
promised when the replay began, and not pruned since, was delivered or is a line of a segment still to read.
An append keeps these because lines are only added, and what it promises lies beyond the replay's floor
(`Proceeds`, `Creates`); a pruning because it takes only segments whose successor starts at or below `keepFrom`
(`PruneReplays`); a crash ends the replay.  `DeliverTurns` takes the fold of `replayFile` apart into its turns, by the
recursion over finite sets of `TanaInduction`; `DeliveredIs` concludes that it passes over a
beginning of the segment and appends the rest, and `HandedRuns` that the list stays consecutive.

### 7.3 Limits

* `emptySegment`: a crash between creating a segment and its first record leaves an
  empty newest file, and `Open` takes its last number, zero, for that of the journal; the
  same after a prune whose survivor was not there yet.  `ImplementsLog` breaks.
* `diskRecovers`: a failed write leaves a fragment, and the next write makes one
  line of both, which `Open` will refuse; a failed sync leaves a line whose number
  is given again.  `ImplementsLog` breaks.
* `lateWriteback`: lines of a killed process still in the page cache when its
  successor appends and the power fails.  Only the newest segment is
  repaired, and only a repair syncs it.  `AckedIsDurable` breaks.
* Not modelled: an error of `Close` on a full segment, which leaves `cur` set to
  a closed file.

## 8. Multipart uploads

### 8.1 `TanaMultipart`

It extends `TanaStore` with `uploads` (the records in the index), `mp` (one upload request
per client), and one history: `acked`, the part a client was last told of.  A part is
`BeginPart` (the record is read),
`PutPart` (the blob), `HoldPart` (its reference), `ReleaseReplaced`, `SavePart`; each is a
transaction of its own and there is no lock.  `BeginComplete` and `PutAssembled` lead
into the PUT of `TanaStore`, and `CommitObject` on to `ReleasePart`... and `DeleteUpload`;
`BeginAbort` goes there directly.  `RefusePart`, `RefuseObject` and `FailDiscard` are the failures; the last leaves the record
open, and the next completion or abort releases every part of it.
The content of an assembled object is `Whole` unless it is one part alone.  The collector,
recovery and the rebuild are those of the store and run meanwhile.

### 8.2 Run and bounds

| Run | Instance | Shows |
|---|---|---|
| `Multipart` | 2 clients, 1 upload, 2 part numbers, the collector, crashes, failing transactions, rebuilds between uploads | `PartsCounted`, `PartsKept`, `AckedPartKept` |

Two numbers are enough to replace a part, to list one of two and to mix them up; one upload, since
uploads meet only in the counts of the blobs, where the object and a second part of
the same content take the place of a second upload.  The run sets no mishap: it crashes and fails wherever
no reference is held or given back on the side (8.3).

### 8.3 Limits

* `parallel`: two parts of one upload stored at the same time, as clients that
  switch to multipart do, each read the upload record before the other saves it
  (`multipart.go:102-128`).  The one saved last does not have the other part: completion is refused
  with `InvalidPart`, and the reference of the lost part is never given back.
  `AckedPartKept` and `PartsCounted` break; the passing run has one part request of an
  upload at a time.
* `tornPart`: a crash or a failing transaction after `HoldPart` and before `SavePart`
  (`multipart.go:113-130`) leaves a reference that nothing names.  The blob is not the "orphan blob the
  collector removes" of `multipart.go:95-97`: it is counted, and is kept until a rebuild drops every reference.
  After `ReleaseReplaced` the record still names the replaced part, and the next attempt gives its reference
  back again: the count is one too low, and the blob of a live object can be collected.
  `PartsCounted` and `PartsKept` break.
* `tornDiscard`: `discardUpload` releases part by part and returns at the first transaction that
  fails (`multipart.go:247-254`), the removal of the record included, or the process dies on the way.  The record stays
  open with every part in it, and the next abort or completion releases them all again.
  `PartsCounted` and `PartsKept` break.  The passing run has the failure and the crash before
  the first part is released (`FailDiscard`, `CrashAll`).
* `rebuildOpen`: a rebuild drops the references of open uploads, which the journal does
  not know.  `PartsCounted` breaks, and with a collector `PartsKept`.
* `reupload` (of `Environment`): `UploadPart` calls `blobs.Put` whatever the content is (`multipart.go:107`), and `Put`
  keeps a file that is there.  When nothing references it any more, the collector may remove it between
  `PutPart` and `HoldPart`, or drop the reference record after, as for a `PUT` in `StoreDedupRace`.
  Without the flag a part's content is new or referenced.  `PartsCounted` and `PartsKept` break with it.

The flags are members of `Mishaps`, next to the `Environment` of the store.

### 8.4 What is proved

`TanaExtensionsProofs`, for all clients, uploads, part numbers, contents, grace periods and bounds:

| Theorem | Assumes | Says |
|---|---|---|
| `AcknowledgedPartsStay` | no `parallel` | `AckedPartKept`: a part a client was told of is the one in the record |
| `PartsAreCounted` | no mishap; no collector or no crash | `PartsCounted`: every count is the bound keys, the held parts and the requests in flight |
| `PartsAreKept` | no mishap; no crash, no re-upload, a grace period above zero | `PartsKept`: the collector takes no part of an open upload |

`UploadsInv` says what each request knows of the record it loaded, and that two requests never
work on one upload (`RequestsApart`, which `parallel` breaks): so the record a `SavePart` writes is the one
that was read.  `CountInv` balances counts: `Extra(h)` is what parts and requests hold, and every
step moves a count and one of the summands together, or none.  `Owed(h)` are the parts whose reference
has yet to be released, finitely many because uploads and numbers are (`MultipartFinite`).
A replay computes counts from the journal, which knows nothing of parts: it gets them right since
it leaves alone what it does not bind, except for a `gc` record it repeats, which drops a reference
record that a part may have taken again meanwhile.  `ReplaysNoCollection` says that this does
not happen, and is why `PartsAreCounted` asks for no collector or no crash.  The run has both, and content that is not
uploaded again, so that what a replay repeats was collected for good.

`KeepInv` adds time.  A request that carries content it has stored and not referenced yet (`Carries`) started less than a
grace period ago (`Tick`), and the content is `Fresh` since: counted, or released or
written after the request began.  What the collector is about to take is `Unwanted`: nobody holds it, nobody
carries it, and, since content is not uploaded again, nobody will.

Model-checked only: `PartsCounted` and `PartsKept` where the process crashes with the collector running.  The journal
and the working copy of a recovery would have to be followed as in `OnceInv` (4), with parts besides.

## 9. The cache

### 9.1 `TanaCache`: entries, counters, access times, passes, the mount

| Variables | Code |
|---|---|
| `entry`, `stats` | the entries of one namespace and its `Stats` |
| `pending`, `flushing` | `DB.pending`, and what `flushATimes` has swapped out of it |
| `file`, `unread` | objects with a file in the backing directory; those whose file has changed since the watcher last looked |
| `landing` | recalls that have renamed and not yet marked |
| `pass` | `EvictToFit` between its steps |
| `call` | a call of the mount between its two looks |
| `read` | history: when an object was last written or read |

`Store` is `Tx.Put`, `SetState` and `Delete` with the difference they make to the
counters.  A pass is `Measure` (counters and free space), `Walk` (candidates, sorted;
what compares equal may come in any order), and per candidate the three steps of `Evict`: `CheckEntry`,
`EvictFile` and `MarkEvicted`, or `SkipUnsafe` where it refuses.  A write is two steps: `WriteFile`
changes the file, and until `RecordFile` has handled the event the entry says what it said.  The flusher is `TakePending` and `Flush`, or `FailFlush`.
A call of the mount looks at the directory and at the index in two steps; one call asks for all
objects at once, because calls for different objects have nothing in common.  Writes, uploads, deletions
and recalls are as many steps as a pass or a call can tell apart; their own races are
`TanaAgent`'s.

`PassFits`, `ColdestGo` and `MountAnswers` are promises to whom nothing interferes: `pass.calm`, `pass.settled`
and `call.calm` record what else has changed since the pass or the call began.
`StatsExact` holds whatever interleaves.  `KeepersKeep` does not: `recall.go:157` says "It refuses anything
not known to be on the store: evicting a dirty object would be deleting the only copy", and the code
refuses by an entry that may be out of date.  The flag `rewritten` allows what it takes, a file that is unread when
`Evict` looks at its entry or that changes between the look and the removal, and with it TLC finds
`KeepersKeep` violated.  The run and `KeepersStay` are for every other interleaving.

### 9.2 Run and bounds

| Run | Instance | Shows |
|---|---|---|
| `Cache` | 3 objects of size 1 or 2, one of them protected, 2 at a time; a ceiling of 2, `keep_below` 2; `short`, `flushFails` | `StatsExact`, `PassFits`, `ColdestGo`, `KeepersKeep`, `MountAnswers` |

Two objects over a ceiling of one are the least for a choice and for a pass that stops in
time; two names may be evicted and the third is matched by `never_evict`, so that what exists (`MaxFiles`) is
two of one kind or one of each.  A clock of two values orders reads.  `Apart` bounds calls of the mount to
moments without pending access times and unread files, and nothing is written, read or ticks during a call: a
call does not look at the times, and a write leaves the bytes where they are.

### 9.3 Limits

* `rewritten`: above.  Nothing in the code keeps a write away from an eviction: the entry is read
  (`recall.go:159-172`), the file removed (173), and the event of a write may come later than both, and then finds
  no file.  No file is written between its removal and its mark: the model has no file there to change.
* `stale`: `Evict` does not look at size and patterns again, so an object rewritten small between
  walk and eviction is evicted (`KeepersKeep` breaks).  The flag `Pinned`, which has no caller yet,
  has the same gap, and a rewrite (`agent.go:433`) clears it.
* Eviction orders by what the index file says: `ColdestGo` speaks of passes that began with no access
  time in memory.  A failed flush loses the times it took.  `index.go:211` says Get sees pending times;
  between swap and commit it does not.
* Between the removal of a file and its mark, and between the rename of a recall and
  its mark, Lookup, Readdir and Open may miss an object; `MountAnswers` excepts just those.
* Unlink is the loopback's: an evicted object, which has no file, cannot be removed through the mount.

### 9.4 What is proved

`TanaCacheProofs`, for all objects, sizes, ceilings and bounds:

| Theorem | Assumes | Says |
|---|---|---|
| `CountersExact` | nothing | `StatsExact` |
| `KeepersStay` | no `stale`, no `rewritten` | `KeepersKeep`, an action property |
| `ProtectedStay` | nothing | an object that a pattern protects keeps its bytes as long as it is in the index |
| `CallsAnswer` | nothing | `MountAnswers` |
| `PassesFit` | nothing | `PassFits` |
| `ColdestFirstGoes` | nothing | `ColdestGo` |

"Nothing" includes every hardship.  `TypeInv` has the counters as sums over the entries; a transaction changes one
summand and the counter by the same amount (`TallyChange`), and a counter is no negative number because a
sum of weights is none.  `PoolInv` says that a candidate stays unprotected and large enough: entries
are rewritten while a pass runs, and only `stale` rewrites a candidate small.  `TurnInv` carries the look of
`Evict` to the removal: the entry stays synced or goes, because only `RecordFile` makes an entry dirty and it
needs a file that has changed.  `CallInv`: an object that nothing
has touched since the call began is where the first half of the call has looked for it, or where the second will
look.  `FitInv` follows an undisturbed pass: what it has freed, what the counters show and what it set out to free
add up, and its pool is exactly what may still be evicted.  `ColdInv` says that the pool is in the order of the times
it was walked with, that no entry is older than that, and that what has gone is no later than what is
left; `TimesInv` ties an entry's time and the two maps in memory to when the object was last read.

## 10. Configuration and front end

### 10.1 `TanaConfig`

`Load` folds the loops of `validateStore` and `validateAgent` over the declared
buckets and sites (`KeepBucket`, `KeepSite`): an entry that is unusable, repeats a
name or touches a path is dropped, a role without entries refuses the file.  The
daemon loads, then watches (`StartWatch`); `Edit` replaces the file, which is one
event for any number of writes not yet read; a reload is `ReadDocument`, `SwapRunning`
or `KeepRunning`, and `Configure`, the store's tenant table.  `LoseEvent` is an
overflow of the kernel's queue.

`KeptApart` is about what the folds yield, `SettledRuns` about the watcher: once it
rests, and unless a change was lost, the file is what runs or the error says
why not.

### 10.2 `TanaFront`

It extends `TanaConfig` with the objects of a bucket and one client's request.  A listing is the
client's loop over pages (`ListPage`: one read transaction, and the token it returns); a
GET is `BeginGet`, `HeadObject`, `GetObject`, because the server asks the store twice.
Other clients put and delete, and reloads may take the bucket away, between any
two steps; each call of the store looks the bucket up again (`Served`, `Refuse`).

### 10.3 Run, bounds, fairness

| Run | Instance | Shows |
|---|---|---|
| `Front` | 4 keys in 2 groups and one alone, pages of 2, sizes 1 and 2; 5 files, 2 changes or edits | `KeptApart`, `SettledRuns`, `ListedOnce`, `NothingMissed`, `ReplyMatches`, `ListingEnds` |

Four keys and pages of two make a page end in a group, before one and after one.
The files are one good configuration, one with every kind of collision, one in which the bucket is
unusable, one that is refused and one that is not YAML.  `MaxChanges` bounds changes and edits together;
two are enough to delete a key and create another around the token, or to remove the bucket and bring it
back.  The ranges are all there are up to one past the largest object.

Fairness: the client asks for the next page, and the server answers or refuses.  The token
grows with every page, which is why `ListingEnds` needs nothing from the other clients.

### 10.4 Limits

* A group that a full page ends in is listed again on the next (`request.split`);
  `max-keys=0` answers "truncated" with an empty token (`PageSize` is positive).
* A PUT between the two lookups of a GET mixes the headers of one content with the bytes
  of the other; `ReplyMatches` promises nothing then.
* A suffix range of an empty object is answered 206 with `bytes 0--1/0`: a size of 0 in
  `Versions` breaks `ReplyMatches`.
* `checkSite` compares paths of different sites for equality only; nesting is refused
  within a site.  Two buckets may share an access key, which then resolves to either.
* A file that drops the role `store` hands its buckets to `Configure` unchecked;
  the files of the instance that load have the role.
* A change between loading and watching is missed (`watch.lost`).
* `Content-MD5` is compared after the object was replaced: a mismatch is an error for the client and a
  new object on the store.

### 10.5 What is proved

`TanaFrontProofs`, for all files, buckets, sites, keys, groups, page sizes and contents:

| Theorem | Says |
|---|---|
| `RunsApart` | `KeptApart`: what runs is made of entries that do not clash, and no usable entry was dropped without one |
| `RestsSettled` | `SettledRuns`: once the watcher rests, the file is what runs, or the error says why not |
| `ListsOnce` | `ListedOnce`: no key is listed twice, no group but one a full page ended in, and no page is too long |
| `ListsAll` | `NothingMissed`: a finished listing has every key that was there throughout |
| `RepliesMatch` | `~SuffixOfNothing => ReplyMatches`: a reply sends the bytes its headers promise |

`KeptApart` is about two folds.  `BucketsKept` and `SitesKept` are the invariants of their turns, proved by
induction on how many declarations were folded: the entries kept so far do not clash, and
whatever was dropped clashes with one of them.  `RunsLoaded` says that what runs, and what is about to, came out of
these folds; `ReloadInv` what each step of a reload owes to the file it read.  `ListInv` follows the
token: the pages so far hold every steady key up to it and none beyond, and what the token ends in is
a key or a group that a later page may repeat (`request.split`).  `PageTaken` says what one page takes from
the keys above a token, in their order; the lemmas around it need groups that do not interleave (`GroupsApart`) and
finitely many keys (`FrontBounds`).  `GetInv` keeps the size the headers were made from; `RangeExact` says that
`parseRange` yields bytes that exist, as many as it says.  `SuffixOfNothing` is the suffix range of an
empty object, the one reply that breaks the promise (10.4); the run has no empty object, so that it checks `ReplyMatches` itself.

Model-checked only: `ListingEnds` (liveness).

## 11. Not modelled, and why

* Signatures and chunked bodies: string processing that unit tests pin better.
* Logging, status, service management, bootstrap, the PHP plugin: input and output without
  a state of their own.
* Disk corruption and `--scrub`: the models assume that what was synced stays.
* Replication: its status and its secret, and a blob answered under a wrong name.
* Server-side copies, batch deletion and the listings of buckets and uploads.
* Glob patterns: what they match is a constant.
* `Agent.Pin`: no caller outside the tests.
* Streaming reads of evicted objects that do not fill the cache.
* Removal of directories, whose watches the kernel takes away by itself, and `Agent.Drain`,
  which only the tests call.

`PROJECT.json` calls a component *partly* modelled when one of its operations is in this list.

## 12. What is left

1. Liveness stays with TLC: `GarbageIsReclaimed`, `UploadsHappen`, `CatchesUp`, `ListingEnds`.
2. Every invariant and action property of a passing run is stated by a theorem.
   Under weaker hypotheses than the theorems' some are checked on small instances only: `PartsCounted` with crashes
   next to a collector, `PartsKept` with crashes (8.4).
3. `TanaJournal` under the store in place of its one-step append.

The constants' assumptions, each checked by TLC in the runs, say no more than the code has: finitely many clients,
keys, uploads and part numbers (`MultipartFinite`, `FrontBounds`), bounds that are natural numbers, `None` apart from the values it stands
beside (`NoneAssumption`, `CacheNone`), flags from the sets listed above, documents with lists of buckets and sites
(`ConfigFiles`), and groups that are intervals of the keys (`GroupsApart`), as common prefixes are.
