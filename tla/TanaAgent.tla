------------------------------- MODULE TanaAgent -------------------------------
(***************************************************************************)
(* One site's agent (internal/agent): it uploads what WordPress writes,    *)
(* evicts files to make room, fetches them back on demand, and at every    *)
(* start reconciles the backing directory with its index.                  *)
(*                                                                         *)
(* The watcher, the workers, the sweeper, the eviction pass and the        *)
(* requests of the FUSE mount share the directory, the index, the queue    *)
(* and the store.  No lock spans two of these, so each file system call,   *)
(* index transaction and request to the store is a step of its own.        *)
(***************************************************************************)
EXTENDS Naturals, Sequences, FiniteSets

CONSTANTS
  Objects,      \* the files WordPress knows
  Workers,      \* upload workers (agent.go: workers)
  Readers,      \* opens of evicted objects through the mount at once
  None,
  Caching,      \* a cache ceiling is configured (EvictToFit)
  Depth,        \* capacity of the upload queue (queueDepth)
  MaxAttempts,  \* tries of one upload (maxAttempts)
  Environment,  \* what else may happen
  MaxVersion,   \* bound: writes of one file
  MaxEvents     \* bound: file events the watcher has not read

\* "delete": WordPress deletes files; "newdir": it creates a directory;
\* "rewrite": it changes files that are not settled, as it does when it writes
\* one in several steps; "warm": evictions hit objects that are not settled;
\* "offline": requests to the store fail; "crash": the process dies;
\* "crashEvicting": it dies between the two steps of an eviction, too.
ASSUME EnvironmentAssumption ==
  Environment \subseteq {"delete", "newdir", "rewrite", "warm", "offline", "crash",
                            "crashEvicting"}
ASSUME BoundsAssumption ==
  /\ Caching \in BOOLEAN /\ Depth \in Nat /\ MaxAttempts \in Nat \ {0}
  /\ MaxVersion \in Nat /\ MaxEvents \in Nat

VARIABLES
  file,     \* the backing directory: body and modification time, or None
  entry,    \* the index: state and recorded modification time, or None
  store,    \* the bucket: body, or None
  queue,    \* the upload queue
  worker,   \* one upload per worker
  events,   \* file events on their way to the watcher
  watcher,  \* the event it is handling
  scan,     \* the reconciliation, at start or for a new directory
  evictor,  \* the eviction under way
  reader,   \* one open per reader
  mode,     \* what the process is doing
  latest,   \* history: what WordPress last wrote to an object, None if deleted
  wrote     \* history: number of writes of an object

vars == <<file, entry, store, queue, worker, events, watcher, scan, evictor,
          reader, mode, latest, wrote>>
users == <<latest, wrote>>

\* A recall fills dst + tempSuffix, which is a file of the directory too.
File(o) == <<o, "file">>
Temp(o) == <<o, "recall">>
Names == Objects \X {"file", "recall"}

Content == [body : Nat, mtime : Nat]
Entry == [state : {"dirty", "synced", "evicted"}, mtime : Nat]

ASSUME NoneAssumption == None \notin Nat \cup Objects \cup Names \cup Content \cup Entry

Event == [op : {"change", "remove"}, name : Names] \cup {[op |-> "dir", name |-> None]}

Idle == [pc |-> "idle", name |-> None, body |-> 0, attempt |-> 0]
Watching == [pc |-> "idle", name |-> None, mtime |-> 0]
Unscanned == [pc |-> "idle", todo |-> {}, seen |-> {}, cur |-> None]
Resting == [pc |-> "idle", name |-> None]
Away == [pc |-> "idle", object |-> None, body |-> 0, mtime |-> 0]

TypeOK ==
  /\ file \in [Names -> Content \cup {None}]
  /\ entry \in [Names -> Entry \cup {None}]
  /\ store \in [Names -> Nat \cup {None}]
  /\ queue \in Seq(Names) /\ Len(queue) <= Depth
  /\ worker \in [Workers -> {Idle} \cup
       [pc : {"hash", "send", "sent", "landed", "done"}, name : Names, body : Nat,
        attempt : 1..MaxAttempts]]
  /\ events \in Seq(Event)
  /\ watcher \in {Watching, [Watching EXCEPT !.pc = "scanning"]}
                 \cup [pc : {"seen", "indexed"}, name : Names, mtime : Nat]
  /\ scan \in [pc : {"idle", "walk", "gone"}, todo : SUBSET Names, seen : SUBSET Names,
               cur : {None}]
              \cup [pc : {"forget"}, todo : SUBSET Names, seen : SUBSET Names, cur : Names]
  /\ evictor \in {Resting} \cup [pc : {"checked", "removed"}, name : Names]
  /\ reader \in [Readers -> {Away} \cup
       [pc : {"open", "join", "wait", "get", "temp", "rename", "mark"}, object : Objects,
        body : Nat, mtime : Nat]]
  /\ mode \in {"stopped", "starting", "serving"}
  /\ latest \in [Objects -> Nat \cup {None}]
  /\ wrote \in [Objects -> Nat]

Init ==
  /\ file = [n \in Names |-> None]
  /\ entry = [n \in Names |-> None]
  /\ store = [n \in Names |-> None]
  /\ queue = <<>>
  /\ worker = [w \in Workers |-> Idle]
  /\ events = <<>>
  /\ watcher = Watching
  /\ scan = Unscanned
  /\ evictor = Resting
  /\ reader = [r \in Readers |-> Away]
  /\ mode = "stopped"
  /\ latest = [o \in Objects |-> None]
  /\ wrote = [o \in Objects |-> 0]

-----------------------------------------------------------------------------
InState(n, s) == entry[n] # None /\ entry[n].state = s

SetState(n, s) ==
  entry' = IF entry[n] = None THEN entry ELSE [entry EXCEPT ![n].state = s]

MarkDirty(n, mtime) ==
  entry' = [entry EXCEPT ![n] = [state |-> "dirty", mtime |-> mtime]]

\* Agent.pending: a key is pending from Enqueue to the end of its upload.
Queued == {queue[i] : i \in DOMAIN queue}
Pending == Queued \cup {worker[w].name : w \in Workers}

\* Faulty: a key leaves pending when it is received, not when it is uploaded.
EnqueueInFlight(n) ==
  queue' = IF n \in Queued \/ Len(queue) >= Depth THEN queue ELSE Append(queue, n)

\* A key that is pending is not queued again, and a full queue drops it.
Enqueue(n) ==
  queue' = IF n \in Pending \/ Len(queue) >= Depth THEN queue ELSE Append(queue, n)

Recalling(r, o) == reader[r].pc \in {"get", "temp", "rename", "mark"} /\ reader[r].object = o

\* Nothing in the agent is dealing with the object or about to: what holds of
\* objects that are changed, deleted or evicted long after they last were.
Settled(n) ==
  /\ n \notin Pending \cup {watcher.name, evictor.name}
  /\ \A i \in DOMAIN events : events[i].name # n
  /\ \A r \in Readers : reader[r].object # n[1]
  /\ scan.pc = "idle" \/ entry[n] = None \/ n \in scan.seen
     \/ (scan.pc = "walk" /\ n \in scan.todo)

MayChange(o) == "rewrite" \in Environment \/ Settled(File(o))

Notice(evs) == Len(events) + Len(evs) <= MaxEvents /\ events' = events \o evs
Changed(n) == [op |-> "change", name |-> n]
Removed(n) == [op |-> "remove", name |-> n]

-----------------------------------------------------------------------------
(***************************************************************************)
(* WordPress, through the mount: writes go straight to the directory, but  *)
(* an evicted object is recalled before it is opened for writing.          *)
(***************************************************************************)
WriteFile(o) ==
  /\ mode = "serving" /\ MayChange(o)
  /\ wrote[o] < MaxVersion
  /\ ~InState(File(o), "evicted")
  /\ wrote' = [wrote EXCEPT ![o] = @ + 1]
  /\ latest' = [latest EXCEPT ![o] = wrote'[o]]
  /\ file' = [file EXCEPT ![File(o)] = [body |-> wrote'[o], mtime |-> wrote'[o]]]
  /\ Notice(<<Changed(File(o))>>)
  /\ UNCHANGED <<entry, store, queue, worker, watcher, scan, evictor, reader, mode>>

DeleteFile(o) ==
  /\ "delete" \in Environment
  /\ mode = "serving" /\ MayChange(o)
  /\ file[File(o)] # None
  /\ file' = [file EXCEPT ![File(o)] = None]
  /\ latest' = [latest EXCEPT ![o] = None]
  /\ Notice(<<Removed(File(o))>>)
  /\ UNCHANGED <<entry, store, queue, worker, watcher, scan, evictor, reader, mode, wrote>>

MakeDirectory ==
  /\ "newdir" \in Environment
  /\ mode = "serving"
  /\ Notice(<<[op |-> "dir", name |-> None]>>)
  /\ UNCHANGED <<file, entry, store, queue, worker, watcher, scan, evictor, reader, mode, users>>

-----------------------------------------------------------------------------
(***************************************************************************)
(* The watcher: one goroutine that handles events in order, and runs a     *)
(* whole scan when a directory appears.                                    *)
(***************************************************************************)
StatChanged ==
  /\ mode = "serving" /\ watcher.pc = "idle"
  /\ events # <<>> /\ Head(events).op = "change"
  /\ events' = Tail(events)
  /\ LET n == Head(events).name IN
     watcher' = IF file[n] = None THEN Watching
                ELSE [pc |-> "seen", name |-> n, mtime |-> file[n].mtime]
  /\ UNCHANGED <<file, entry, store, queue, worker, scan, evictor, reader, mode, users>>

\* Faulty: the entry keeps its state and only its metadata is updated.
IndexChangedKeepingState ==
  /\ watcher.pc = "seen"
  /\ entry' = [entry EXCEPT ![watcher.name] =
       [state |-> IF @ = None THEN "dirty" ELSE @.state, mtime |-> watcher.mtime]]
  /\ watcher' = [watcher EXCEPT !.pc = "indexed"]
  /\ UNCHANGED <<file, store, queue, worker, events, scan, evictor, reader, mode, users>>

IndexChanged ==
  /\ watcher.pc = "seen"
  /\ MarkDirty(watcher.name, watcher.mtime)
  /\ watcher' = [watcher EXCEPT !.pc = "indexed"]
  /\ UNCHANGED <<file, store, queue, worker, events, scan, evictor, reader, mode, users>>

OfferChanged ==
  /\ watcher.pc = "indexed"
  /\ Enqueue(watcher.name)
  /\ watcher' = Watching
  /\ UNCHANGED <<file, entry, store, worker, events, scan, evictor, reader, mode, users>>

\* "Removals are handled by the scan rather than here" (handleEvent).
OfferRemoved ==
  /\ mode = "serving" /\ watcher.pc = "idle"
  /\ events # <<>> /\ Head(events).op = "remove"
  /\ events' = Tail(events)
  /\ Enqueue(Head(events).name)
  /\ UNCHANGED <<file, entry, store, worker, watcher, scan, evictor, reader, mode, users>>

BeginScan == scan' = [Unscanned EXCEPT !.pc = "walk", !.todo = {n \in Names : file[n] # None}]

ScanDirectory ==
  /\ mode = "serving" /\ watcher.pc = "idle"
  /\ events # <<>> /\ Head(events).op = "dir"
  /\ events' = Tail(events)
  /\ watcher' = [watcher EXCEPT !.pc = "scanning"]
  /\ BeginScan
  /\ UNCHANGED <<file, entry, store, queue, worker, evictor, reader, mode, users>>

-----------------------------------------------------------------------------
(***************************************************************************)
(* Uploads.  A worker hashes the file, sends it with that hash, and marks  *)
(* the object synced when the store has answered.                          *)
(***************************************************************************)
At(w, pc) == worker[w].pc = pc
Goes(w, pc) == worker' = [worker EXCEPT ![w].pc = pc]

\* Receive a key and look it up: what is safe, or gone, needs no upload.
TakeKey(w) ==
  /\ At(w, "idle") /\ queue # <<>>
  /\ queue' = Tail(queue)
  /\ LET n == Head(queue) IN
     worker' = IF InState(n, "dirty")
               THEN [worker EXCEPT ![w] = [pc |-> "hash", name |-> n, body |-> 0, attempt |-> 1]]
               ELSE worker
  /\ UNCHANGED <<file, entry, store, events, watcher, scan, evictor, reader, mode, users>>

HashFile(w) ==
  /\ At(w, "hash")
  /\ LET n == worker[w].name IN
     worker' = IF file[n] = None THEN [worker EXCEPT ![w].pc = "done"]
               ELSE [worker EXCEPT ![w].pc = "send", ![w].body = file[n].body]
  /\ UNCHANGED <<file, entry, store, queue, events, watcher, scan, evictor, reader, mode, users>>

Retry(w) ==
  worker' = IF worker[w].attempt < MaxAttempts
            THEN [worker EXCEPT ![w].pc = "hash", ![w].attempt = @ + 1]
            ELSE [worker EXCEPT ![w].pc = "done"]

\* The file is opened again and sent.  A file that vanished ends the upload;
\* one that no longer is what was hashed is an error the client retries (its
\* length differs) or a refusal of the store, which ends it.
SendFile(w) ==
  /\ At(w, "send")
  /\ LET n == worker[w].name IN
     IF file[n] = None THEN Goes(w, "done")
     ELSE IF file[n].body = worker[w].body THEN Goes(w, "sent")
     ELSE Retry(w) \/ Goes(w, "done")
  /\ UNCHANGED <<file, entry, store, queue, events, watcher, scan, evictor, reader, mode, users>>

LandUpload(w) ==
  /\ At(w, "sent")
  /\ store' = [store EXCEPT ![worker[w].name] = worker[w].body]
  /\ Goes(w, "landed")
  /\ UNCHANGED <<file, entry, queue, events, watcher, scan, evictor, reader, mode, users>>

\* The request fails on its way to the store, or its answer on the way back:
\* that is tried again, and what the store refuses is not.
LoseUpload(w) ==
  /\ "offline" \in Environment
  /\ At(w, "sent") \/ At(w, "landed")
  /\ Retry(w) \/ Goes(w, "done")
  /\ UNCHANGED <<file, entry, store, queue, events, watcher, scan, evictor, reader, mode, users>>

MarkUploaded(w) ==
  /\ At(w, "landed")
  /\ SetState(worker[w].name, "synced")
  /\ Goes(w, "done")
  /\ UNCHANGED <<file, store, queue, events, watcher, scan, evictor, reader, mode, users>>

ReleaseKey(w) ==
  /\ At(w, "done")
  /\ worker' = [worker EXCEPT ![w] = Idle]
  /\ UNCHANGED <<file, entry, store, queue, events, watcher, scan, evictor, reader, mode, users>>

\* Faulty: the sweep looks for what is already safe.
SweepSafe(n) ==
  /\ mode = "serving"
  /\ InState(n, "synced")
  /\ Enqueue(n)
  /\ UNCHANGED <<file, entry, store, worker, events, watcher, scan, evictor, reader, mode, users>>

\* The sweep queues what its walk found dirty, key by key.  A key that was
\* uploaded in the meantime would be queued for nothing: TakeKey drops it.
Sweep(n) ==
  /\ mode = "serving"
  /\ InState(n, "dirty")
  /\ Enqueue(n)
  /\ UNCHANGED <<file, entry, store, worker, events, watcher, scan, evictor, reader, mode, users>>

-----------------------------------------------------------------------------
(***************************************************************************)
(* Scan: index every file, then propagate the deletion of what the index   *)
(* knows and the directory does not have.                                  *)
(***************************************************************************)
ScanEnds ==
  /\ scan' = Unscanned
  /\ mode' = "serving"
  /\ watcher' = Watching

\* A file the index does not know, or knows with another time, is dirty.
VisitFile(n) ==
  /\ scan.pc = "walk" /\ n \in scan.todo /\ file[n] # None
  /\ scan' = [scan EXCEPT !.todo = @ \ {n}, !.seen = @ \cup {n}]
  /\ IF entry[n] # None /\ entry[n].mtime = file[n].mtime
     THEN UNCHANGED <<entry, queue>>
     ELSE MarkDirty(n, file[n].mtime) /\ Enqueue(n)
  /\ UNCHANGED <<file, store, worker, events, watcher, evictor, reader, mode, users>>

\* A file that vanished after its directory was listed ends the scan.  (At
\* start nothing else touches the directory.)
AbortScan(n) ==
  /\ scan.pc = "walk" /\ n \in scan.todo /\ file[n] = None
  /\ mode = "serving"
  /\ ScanEnds
  /\ UNCHANGED <<file, entry, store, queue, worker, events, evictor, reader, users>>

FindGone ==
  /\ scan.pc = "walk" /\ scan.todo = {}
  /\ scan' = [scan EXCEPT !.pc = "gone",
                          !.todo = {n \in Names \ scan.seen :
                                      entry[n] # None /\ ~InState(n, "evicted")}]
  /\ UNCHANGED <<file, entry, store, queue, worker, events, watcher, evictor, reader, mode, users>>

DeleteRemote(n) ==
  /\ scan.pc = "gone" /\ n \in scan.todo
  /\ store' = [store EXCEPT ![n] = None]
  /\ scan' = [scan EXCEPT !.pc = "forget", !.todo = @ \ {n}, !.cur = n]
  /\ UNCHANGED <<file, entry, queue, worker, events, watcher, evictor, reader, mode, users>>

\* Faulty: the entry goes although the store did not answer.
FailDeleteForgetting(n) ==
  /\ "offline" \in Environment
  /\ scan.pc = "gone" /\ n \in scan.todo
  /\ scan' = [scan EXCEPT !.todo = @ \ {n}]
  /\ entry' = [entry EXCEPT ![n] = None]
  /\ UNCHANGED <<file, store, queue, worker, events, watcher, evictor, reader, mode, users>>

\* The request or its answer is lost: the deletion is logged as not
\* propagated, and the next scan finds it again.
FailDelete(n) ==
  /\ "offline" \in Environment
  /\ scan.pc = "gone" /\ n \in scan.todo
  /\ store' \in {store, [store EXCEPT ![n] = None]}
  /\ scan' = [scan EXCEPT !.todo = @ \ {n}]
  /\ UNCHANGED <<file, entry, queue, worker, events, watcher, evictor, reader, mode, users>>

Forget ==
  /\ scan.pc = "forget"
  /\ entry' = [entry EXCEPT ![scan.cur] = None]
  /\ scan' = [scan EXCEPT !.pc = "gone", !.cur = None]
  /\ UNCHANGED <<file, store, queue, worker, events, watcher, evictor, reader, mode, users>>

EndScan ==
  /\ scan.pc = "gone" /\ scan.todo = {}
  /\ ScanEnds
  /\ UNCHANGED <<file, entry, store, queue, worker, events, evictor, reader, users>>

-----------------------------------------------------------------------------
(***************************************************************************)
(* Eviction.  EvictToFit gathers synced objects, coldest first, and Evict  *)
(* looks at each again; only that second look matters here.                *)
(***************************************************************************)
\* Faulty: the second look is missing, and so is the first.
CheckEvictableUnsafe(n) ==
  /\ Caching
  /\ mode = "serving" /\ evictor.pc = "idle"
  /\ "warm" \in Environment \/ Settled(n)
  /\ entry[n] # None /\ ~InState(n, "evicted")
  /\ evictor' = [pc |-> "checked", name |-> n]
  /\ UNCHANGED <<file, entry, store, queue, worker, events, watcher, scan, reader, mode, users>>

CheckEvictable(n) ==
  /\ Caching
  /\ mode = "serving" /\ evictor.pc = "idle"
  /\ "warm" \in Environment \/ Settled(n)
  /\ InState(n, "synced")
  /\ evictor' = [pc |-> "checked", name |-> n]
  /\ UNCHANGED <<file, entry, store, queue, worker, events, watcher, scan, reader, mode, users>>

\* A file that is not there is as good as removed.
RemoveFile ==
  /\ evictor.pc = "checked"
  /\ file' = [file EXCEPT ![evictor.name] = None]
  /\ Notice(IF file[evictor.name] = None THEN <<>> ELSE <<Removed(evictor.name)>>)
  /\ evictor' = [evictor EXCEPT !.pc = "removed"]
  /\ UNCHANGED <<entry, store, queue, worker, watcher, scan, reader, mode, users>>

\* Faulty: the entry goes with the bytes.
MarkEvictedForgetting ==
  /\ evictor.pc = "removed"
  /\ entry' = [entry EXCEPT ![evictor.name] = None]
  /\ evictor' = Resting
  /\ UNCHANGED <<file, store, queue, worker, events, watcher, scan, reader, mode, users>>

MarkEvicted ==
  /\ evictor.pc = "removed"
  /\ SetState(evictor.name, "evicted")
  /\ evictor' = Resting
  /\ UNCHANGED <<file, store, queue, worker, events, watcher, scan, reader, mode, users>>

-----------------------------------------------------------------------------
(***************************************************************************)
(* Recall: the mount opens an object its entry calls evicted, for a writer *)
(* or for a reader whose reads populate the cache.  One recall of an       *)
(* object runs at a time; others wait for it.                              *)
(***************************************************************************)
Recall(r, pc) == reader' = [reader EXCEPT ![r].pc = pc]
Return(r) == reader' = [reader EXCEPT ![r] = Away]

OpenEvicted(r, o) ==
  /\ mode = "serving" /\ reader[r].pc = "idle"
  /\ InState(File(o), "evicted")
  /\ reader' = [reader EXCEPT ![r] = [Away EXCEPT !.pc = "open", !.object = o]]
  /\ UNCHANGED <<file, entry, store, queue, worker, events, watcher, scan, evictor, mode, users>>

ReadEntry(r) ==
  /\ reader[r].pc = "open"
  /\ LET n == File(reader[r].object) IN
     IF entry[n] = None \/ (~InState(n, "evicted") /\ file[n] # None) THEN Return(r)
     ELSE reader' = [reader EXCEPT ![r].pc = "join", ![r].mtime = entry[n].mtime]
  /\ UNCHANGED <<file, entry, store, queue, worker, events, watcher, scan, evictor, mode, users>>

\* Faulty: a recall does not look for one that is under way.
JoinNothing(r) ==
  /\ reader[r].pc = "join"
  /\ Recall(r, "get")
  /\ UNCHANGED <<file, entry, store, queue, worker, events, watcher, scan, evictor, mode, users>>

JoinRecall(r) ==
  /\ reader[r].pc = "join"
  /\ Recall(r, IF \E q \in Readers : Recalling(q, reader[r].object) THEN "wait" ELSE "get")
  /\ UNCHANGED <<file, entry, store, queue, worker, events, watcher, scan, evictor, mode, users>>

\* The recall that was waited for is over, one way or the other.
StopWaiting(r) ==
  /\ reader[r].pc = "wait"
  /\ \A q \in Readers : ~Recalling(q, reader[r].object)
  /\ Return(r)
  /\ UNCHANGED <<file, entry, store, queue, worker, events, watcher, scan, evictor, mode, users>>

GetObject(r) ==
  /\ reader[r].pc = "get"
  /\ LET body == store[File(reader[r].object)] IN
     IF body = None THEN Return(r)
     ELSE reader' = [reader EXCEPT ![r].pc = "temp", ![r].body = body]
  /\ UNCHANGED <<file, entry, store, queue, worker, events, watcher, scan, evictor, mode, users>>

FailGet(r) ==
  /\ "offline" \in Environment
  /\ reader[r].pc = "get"
  /\ Return(r)
  /\ UNCHANGED <<file, entry, store, queue, worker, events, watcher, scan, evictor, mode, users>>

FillTemp(r) ==
  /\ reader[r].pc = "temp"
  /\ LET n == Temp(reader[r].object) IN
     /\ file' = [file EXCEPT ![n] = [body |-> reader[r].body, mtime |-> reader[r].mtime]]
     /\ Notice(<<Changed(n)>>)
  /\ Recall(r, "rename")
  /\ UNCHANGED <<entry, store, queue, worker, watcher, scan, evictor, mode, users>>

\* The connection breaks while the temporary file is being filled.
DropTemp(r) ==
  /\ "offline" \in Environment
  /\ reader[r].pc = "rename"
  /\ LET n == Temp(reader[r].object) IN
     /\ file' = [file EXCEPT ![n] = None]
     /\ Notice(<<Removed(n)>>)
  /\ Return(r)
  /\ UNCHANGED <<entry, store, queue, worker, watcher, scan, evictor, mode, users>>

RenameTemp(r) ==
  /\ reader[r].pc = "rename"
  /\ LET o == reader[r].object IN
     IF file[Temp(o)] = None THEN Return(r) /\ UNCHANGED <<file, events>>
     ELSE /\ file' = [file EXCEPT ![File(o)] = file[Temp(o)], ![Temp(o)] = None]
          /\ Notice(<<Removed(Temp(o)), Changed(File(o))>>)
          /\ Recall(r, "mark")
  /\ UNCHANGED <<entry, store, queue, worker, watcher, scan, evictor, mode, users>>

MarkRecalled(r) ==
  /\ reader[r].pc = "mark"
  /\ SetState(File(reader[r].object), "synced")
  /\ Return(r)
  /\ UNCHANGED <<file, store, queue, worker, events, watcher, scan, evictor, mode, users>>

-----------------------------------------------------------------------------
(***************************************************************************)
(* The process.  Directory, index and bucket survive it.  At start the     *)
(* workers run and the scan precedes the watcher, the evictions and the    *)
(* mount.                                                                  *)
(***************************************************************************)
Start ==
  /\ mode = "stopped"
  /\ mode' = "starting"
  /\ BeginScan
  /\ UNCHANGED <<file, entry, store, queue, worker, events, watcher, evictor, reader, users>>

Crash ==
  /\ "crash" \in Environment
  /\ mode # "stopped"
  /\ evictor.pc = "removed" => "crashEvicting" \in Environment
  /\ mode' = "stopped"
  /\ queue' = <<>>
  /\ worker' = [w \in Workers |-> Idle]
  /\ events' = <<>>
  /\ watcher' = Watching
  /\ scan' = Unscanned
  /\ evictor' = Resting
  /\ reader' = [r \in Readers |-> Away]
  /\ UNCHANGED <<file, entry, store, users>>

-----------------------------------------------------------------------------
WordPress ==
  \/ \E o \in Objects : WriteFile(o) \/ DeleteFile(o)
  \/ MakeDirectory
  \/ \E r \in Readers, o \in Objects : OpenEvicted(r, o)

Watch == StatChanged \/ IndexChanged \/ OfferChanged \/ OfferRemoved \/ ScanDirectory

Upload(w) ==
  \/ TakeKey(w) \/ HashFile(w) \/ SendFile(w) \/ LandUpload(w) \/ MarkUploaded(w)
  \/ ReleaseKey(w)

Scan ==
  \/ FindGone \/ Forget \/ EndScan
  \/ \E n \in Names : VisitFile(n) \/ AbortScan(n) \/ DeleteRemote(n)

Evict == RemoveFile \/ MarkEvicted \/ \E n \in Names : CheckEvictable(n)

Fetch(r) ==
  \/ ReadEntry(r) \/ JoinRecall(r) \/ StopWaiting(r) \/ GetObject(r) \/ FillTemp(r)
  \/ RenameTemp(r) \/ MarkRecalled(r)

Next ==
  \/ WordPress \/ Watch \/ Scan \/ Evict \/ Start \/ Crash
  \/ \E w \in Workers : Upload(w) \/ LoseUpload(w)
  \/ \E n \in Names : Sweep(n) \/ FailDelete(n)
  \/ \E r \in Readers : Fetch(r) \/ FailGet(r) \/ DropTemp(r)

Spec == Init /\ [][Next]_vars

\* The process is started and its goroutines run.  The sweeper's ticker fires
\* again and again, and a sweep does not for ever come to the same dirty key
\* when the queue is full: it may be dropped any number of times in between.
\* A store that is sent a file again and again takes it, now and then.
\* Nothing is promised of WordPress, evictions, failures or crashes.
FairSpec ==
  /\ Spec
  /\ WF_vars(Start) /\ WF_vars(Scan) /\ WF_vars(Watch)
  /\ \A w \in Workers : WF_vars(Upload(w))
  /\ \A n \in Names : /\ SF_vars(Sweep(n) /\ queue' # queue)
                      /\ SF_vars(\E w \in Workers : worker[w].name = n /\ LandUpload(w))

-----------------------------------------------------------------------------
(***************************************************************************)
(* Safety.                                                                 *)
(***************************************************************************)

\* The last version WordPress wrote is on disk or on the store at any time,
\* whatever was uploaded, evicted, recalled or interrupted ("evicting a dirty
\* object would be deleting the only copy": Evict).
NothingLost ==
  \A o \in Objects : latest[o] # None =>
    \/ file[File(o)] # None /\ file[File(o)].body = latest[o]
    \/ store[File(o)] = latest[o]

\* What the mount answers for an object: the file, or what an evicted entry
\* stands for.
Visible(o) ==
  IF file[File(o)] # None THEN file[File(o)].body
  ELSE IF InState(File(o), "evicted") THEN store[File(o)]
  ELSE None

\* WordPress always sees what it last wrote, and does not see what it deleted,
\* except between the removal of an evicted file and the entry that says so.
ReadersSeeLatest ==
  mode = "serving" =>
    \A o \in Objects : \/ Visible(o) = latest[o]
                       \/ evictor = [pc |-> "removed", name |-> File(o)]

\* A file the next scan would take for unchanged, of an object that is not
\* dirty, is what the store has: nothing would ever upload it otherwise.
UnchangedMeansStored ==
  \A o \in Objects :
    LET n == File(o) IN
    (/\ entry[n] # None /\ entry[n].state # "dirty"
     /\ file[n] # None /\ file[n].mtime = entry[n].mtime)
      => store[n] = file[n].body

\* Whatever the store holds, temporary files included, has its file or its
\* entry: no scan could ever delete it otherwise.
NoZombies == \A n \in Names : store[n] # None => file[n] # None \/ entry[n] # None

\* A key is queued or uploaded once at a time: two uploads of one file could
\* land in either order, and the older one would be marked synced.
OneUpload ==
  /\ \A i, j \in DOMAIN queue : i # j => queue[i] # queue[j]
  /\ \A w \in Workers : worker[w].name \notin Queued
  /\ \A v, w \in Workers : v # w /\ worker[v].name = worker[w].name => worker[v] = Idle

\* Recalls of one object share a temporary file, so one runs at a time
\* ("concurrent recalls of the same key collapse into one download": Recall).
OneRecall ==
  \A q, r \in Readers, o \in Objects : Recalling(q, o) /\ Recalling(r, o) => q = r

-----------------------------------------------------------------------------
(***************************************************************************)
(* Liveness.                                                               *)
(***************************************************************************)

\* A file that was written is on the store in the end, however often its key was
\* dropped because another one filled the queue, the store did not answer or the
\* attempts ran out, unless it is written again or deleted, or the process dies.
UploadsHappen ==
  \A o \in Objects, v \in 1..MaxVersion :
    (mode = "serving" /\ latest[o] = v)
      ~> (store[File(o)] = v \/ latest[o] # v \/ mode # "serving")

=============================================================================
