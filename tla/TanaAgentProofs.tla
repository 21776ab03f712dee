---------------------------- MODULE TanaAgentProofs ----------------------------
(***************************************************************************)
(* Theorems of TanaAgent, for every set of objects, workers and readers,   *)
(* every capacity of the queue, every environment and every bound.         *)
(***************************************************************************)
EXTENDS TanaAgent, TLAPS

-----------------------------------------------------------------------------
(***************************************************************************)
(* Types.                                                                  *)
(***************************************************************************)
WorkerType == {Idle} \cup
  [pc : {"hash", "send", "sent", "landed", "done"}, name : Names, body : Nat,
   attempt : 1..MaxAttempts]
ReaderType == {Away} \cup
  [pc : {"open", "join", "wait", "get", "temp", "rename", "mark"}, object : Objects,
   body : Nat, mtime : Nat]

\* An object's file and the temporary file of its recall are names (Agent.keyOf).
LEMMA NamesOf == \A o \in Objects : File(o) \in Names /\ Temp(o) \in Names
BY DEF Names, File, Temp

\* Queueing a key keeps the queue a queue within its capacity (Agent.Enqueue).
LEMMA EnqueueType ==
  ASSUME TypeOK, NEW n \in Names, Enqueue(n)
  PROVE  queue' \in Seq(Names) /\ Len(queue') <= Depth
<1>1. queue \in Seq(Names) /\ Len(queue) <= Depth /\ Depth \in Nat
  BY BoundsAssumption DEF TypeOK
<1>2. CASE n \in Pending \/ Len(queue) >= Depth
  BY <1>1, <1>2 DEF Enqueue
<1>3. CASE ~(n \in Pending \/ Len(queue) >= Depth)
  <2>1. queue' = Append(queue, n)
    BY <1>3 DEF Enqueue
  <2> QED
    BY <1>1, <1>3, <2>1
<1> QED
  BY <1>2, <1>3

\* Writing a state or a new dirty entry keeps the index typed.
LEMMA EntryType ==
  ASSUME TypeOK, NEW n \in Names
  PROVE  /\ \A s \in {"dirty", "synced", "evicted"} : SetState(n, s) =>
              entry' \in [Names -> Entry \cup {None}]
         /\ \A t \in Nat : MarkDirty(n, t) => entry' \in [Names -> Entry \cup {None}]
<1>1. entry \in [Names -> Entry \cup {None}]
  BY DEF TypeOK
<1>2. ASSUME NEW s \in {"dirty", "synced", "evicted"}, SetState(n, s)
      PROVE  entry' \in [Names -> Entry \cup {None}]
  <2>1. CASE entry[n] = None
    BY <1>1, <1>2, <2>1 DEF SetState
  <2>2. CASE entry[n] # None
    <3>1. entry[n] \in Entry
      BY <1>1, <2>2
    <3>2. [entry[n] EXCEPT !.state = s] \in Entry
      BY <3>1 DEF Entry
    <3>3. entry' = [entry EXCEPT ![n] = [entry[n] EXCEPT !.state = s]]
      BY <1>1, <1>2, <2>2 DEF SetState
    <3> QED
      BY <1>1, <3>2, <3>3
  <2> QED
    BY <2>1, <2>2
<1>3. ASSUME NEW t \in Nat, MarkDirty(n, t)
      PROVE  entry' \in [Names -> Entry \cup {None}]
  <2>1. [state |-> "dirty", mtime |-> t] \in Entry
    BY DEF Entry
  <2> QED
    BY <1>1, <1>3, <2>1 DEF MarkDirty
<1> QED
  BY <1>2, <1>3

\* Another try, or the end of the upload (Agent.upload).
LEMMA RetryType ==
  ASSUME TypeOK, NEW w \in Workers, worker[w] # Idle, Retry(w) \/ Goes(w, "done")
  PROVE  worker' \in [Workers -> WorkerType]
<1>1. /\ worker \in [Workers -> WorkerType]
      /\ worker[w] \in [pc : {"hash", "send", "sent", "landed", "done"}, name : Names,
                        body : Nat, attempt : 1..MaxAttempts]
      /\ MaxAttempts \in Nat \ {0}
  BY BoundsAssumption DEF TypeOK, WorkerType
<1>2. [worker[w] EXCEPT !.pc = "done"] \in WorkerType
  BY <1>1 DEF WorkerType
<1>3. worker[w].attempt < MaxAttempts =>
        [worker[w] EXCEPT !.pc = "hash", !.attempt = @ + 1] \in WorkerType
  <2>1. SUFFICES ASSUME worker[w].attempt < MaxAttempts
                 PROVE  [worker[w] EXCEPT !.pc = "hash", !.attempt = @ + 1] \in WorkerType
    OBVIOUS
  <2>2. worker[w].attempt + 1 \in 1..MaxAttempts
    BY <1>1, <2>1
  <2> QED
    BY <1>1, <2>2 DEF WorkerType
<1>4. CASE Goes(w, "done")
  BY <1>1, <1>2, <1>4 DEF Goes
<1>5. CASE Retry(w)
  BY <1>1, <1>2, <1>3, <1>5 DEF Retry
<1> QED
  BY <1>4, <1>5

\* A busy worker moves on within its upload (Agent.upload).
LEMMA WorkerStep ==
  ASSUME TypeOK, NEW w \in Workers, ~At(w, "idle"),
         NEW pc \in {"hash", "send", "sent", "landed", "done"}
  PROVE  /\ worker[w] \in [pc : {"hash", "send", "sent", "landed", "done"}, name : Names,
                           body : Nat, attempt : 1..MaxAttempts]
         /\ worker[w].name \in Names /\ worker[w].body \in Nat
         /\ Goes(w, pc) => worker' \in [Workers -> WorkerType]
         /\ \A b \in Nat :
              [worker EXCEPT ![w].pc = pc, ![w].body = b] \in [Workers -> WorkerType]
<1>1. /\ worker \in [Workers -> WorkerType]
      /\ worker[w] \in [pc : {"hash", "send", "sent", "landed", "done"}, name : Names,
                        body : Nat, attempt : 1..MaxAttempts]
  BY DEF TypeOK, WorkerType, At, Idle
<1>2. [worker[w] EXCEPT !.pc = pc] \in WorkerType
  BY <1>1 DEF WorkerType
<1>3. \A b \in Nat : [worker[w] EXCEPT !.pc = pc, !.body = b] \in WorkerType
  BY <1>1 DEF WorkerType
<1>4. Goes(w, pc) => worker' \in [Workers -> WorkerType]
  BY <1>1, <1>2 DEF Goes
<1>5. \A b \in Nat :
        [worker EXCEPT ![w].pc = pc, ![w].body = b] \in [Workers -> WorkerType]
  BY <1>1, <1>3
<1> QED
  BY <1>1, <1>4, <1>5

\* An open that is under way moves on, or returns (Agent.Recall).
LEMMA ReaderStep ==
  ASSUME TypeOK, NEW r \in Readers
  PROVE  /\ Return(r) => reader' \in [Readers -> ReaderType]
         /\ reader[r].pc # "idle" =>
              /\ reader[r].object \in Objects
              /\ reader[r].body \in Nat /\ reader[r].mtime \in Nat
              /\ \A pc \in {"open", "join", "wait", "get", "temp", "rename", "mark"},
                    b \in Nat, t \in Nat :
                   /\ Recall(r, pc) => reader' \in [Readers -> ReaderType]
                   /\ [reader EXCEPT ![r].pc = pc, ![r].body = b] \in [Readers -> ReaderType]
                   /\ [reader EXCEPT ![r].pc = pc, ![r].mtime = t] \in [Readers -> ReaderType]
<1>1. reader \in [Readers -> ReaderType]
  BY DEF TypeOK, ReaderType
<1>2. Return(r) => reader' \in [Readers -> ReaderType]
  BY <1>1 DEF Return, ReaderType
<1>3. SUFFICES ASSUME reader[r].pc # "idle"
               PROVE  /\ reader[r].object \in Objects
                      /\ reader[r].body \in Nat /\ reader[r].mtime \in Nat
                      /\ \A pc \in {"open", "join", "wait", "get", "temp", "rename", "mark"},
                            b \in Nat, t \in Nat :
                           /\ Recall(r, pc) => reader' \in [Readers -> ReaderType]
                           /\ [reader EXCEPT ![r].pc = pc, ![r].body = b]
                                \in [Readers -> ReaderType]
                           /\ [reader EXCEPT ![r].pc = pc, ![r].mtime = t]
                                \in [Readers -> ReaderType]
  BY <1>2
<1>4. reader[r] \in [pc : {"open", "join", "wait", "get", "temp", "rename", "mark"},
                     object : Objects, body : Nat, mtime : Nat]
  BY <1>1, <1>3 DEF ReaderType, Away
<1>5. ASSUME NEW pc \in {"open", "join", "wait", "get", "temp", "rename", "mark"},
             NEW b \in Nat, NEW t \in Nat
      PROVE  /\ [reader[r] EXCEPT !.pc = pc] \in ReaderType
             /\ [reader[r] EXCEPT !.pc = pc, !.body = b] \in ReaderType
             /\ [reader[r] EXCEPT !.pc = pc, !.mtime = t] \in ReaderType
  BY <1>4 DEF ReaderType
<1>6. \A pc \in {"open", "join", "wait", "get", "temp", "rename", "mark"},
         b \in Nat, t \in Nat :
        /\ Recall(r, pc) => reader' \in [Readers -> ReaderType]
        /\ [reader EXCEPT ![r].pc = pc, ![r].body = b] \in [Readers -> ReaderType]
        /\ [reader EXCEPT ![r].pc = pc, ![r].mtime = t] \in [Readers -> ReaderType]
  BY <1>1, <1>5 DEF Recall
<1> QED
  BY <1>4, <1>6

\* The watcher's queue takes well-formed events only (Agent.watch).
LEMMA NoticeType ==
  ASSUME TypeOK, NEW evs \in Seq(Event), Notice(evs)
  PROVE  events' \in Seq(Event)
BY DEF TypeOK, Notice

\* Changes and removals of names are events (Agent.watch).
LEMMA EventsOf == \A n \in Names : Changed(n) \in Event /\ Removed(n) \in Event
BY DEF Changed, Removed, Event

\* WordPress writes, deletes, makes directories and opens.
LEMMA UsersType ==
  ASSUME TypeOK, WordPress
  PROVE  TypeOK'
<1> USE NamesOf, BoundsAssumption
<1>1. ASSUME NEW o \in Objects, WriteFile(o)
      PROVE  TypeOK'
  <2>1. File(o) \in Names /\ wrote[o] + 1 \in Nat
    BY DEF TypeOK
  <2>2. file' \in [Names -> Content \cup {None}]
    <3> DEFINE new == [body |-> wrote[o] + 1, mtime |-> wrote[o] + 1]
    <3>1. new \in Content
      BY <2>1 DEF Content
    <3>2. wrote'[o] = wrote[o] + 1
      BY <1>1 DEF TypeOK, WriteFile
    <3>3. file' = [file EXCEPT ![File(o)] = new]
      BY <1>1, <3>2 DEF WriteFile
    <3>4. file \in [Names -> Content \cup {None}]
      BY DEF TypeOK
    <3> HIDE DEF new
    <3> QED
      BY <3>1, <3>3, <3>4
  <2>3. events' \in Seq(Event)
    <3>1. <<Changed(File(o))>> \in Seq(Event)
      BY <2>1, EventsOf
    <3>2. Notice(<<Changed(File(o))>>)
      BY <1>1 DEF WriteFile
    <3> QED
      BY <3>1, <3>2, NoticeType
  <2> QED
    BY <1>1, <2>1, <2>2, <2>3 DEF TypeOK, WriteFile
<1>2. ASSUME NEW o \in Objects, DeleteFile(o)
      PROVE  TypeOK'
  BY <1>2 DEF TypeOK, users, DeleteFile, Notice, Removed, Event
<1>3. CASE MakeDirectory
  BY <1>3 DEF TypeOK, users, MakeDirectory, Notice, Event
<1>4. ASSUME NEW r \in Readers, NEW o \in Objects, OpenEvicted(r, o)
      PROVE  TypeOK'
  BY <1>4 DEF TypeOK, users, OpenEvicted, Away
<1> QED
  BY <1>1, <1>2, <1>3, <1>4 DEF WordPress

\* The watcher handles an event (Agent.handleEvent).
LEMMA WatchType ==
  ASSUME TypeOK, Watch
  PROVE  TypeOK'
<1> USE NamesOf, BoundsAssumption
<1>1. CASE StatChanged
  <2>1. Head(events) \in Event /\ Tail(events) \in Seq(Event) /\ Head(events).name \in Names
    BY <1>1 DEF TypeOK, StatChanged, Event
  <2>2. watcher' \in {Watching} \cup [pc : {"seen"}, name : Names, mtime : Nat]
    <3>1. file[Head(events).name] # None => file[Head(events).name].mtime \in Nat
      BY <2>1 DEF TypeOK, Content
    <3> QED
      BY <1>1, <2>1, <3>1 DEF StatChanged
  <2>3. watcher' \in {Watching, [Watching EXCEPT !.pc = "scanning"]}
                     \cup [pc : {"seen", "indexed"}, name : Names, mtime : Nat]
    BY <2>2
  <2>4. events' \in Seq(Event)
    BY <1>1, <2>1 DEF StatChanged
  <2> QED
    BY <1>1, <2>3, <2>4 DEF TypeOK, users, StatChanged
<1>2. CASE IndexChanged
  <2>1. watcher.name \in Names /\ watcher.mtime \in Nat
    BY <1>2 DEF TypeOK, IndexChanged, Watching
  <2>2. watcher' \in [pc : {"seen", "indexed"}, name : Names, mtime : Nat]
    <3>1. watcher \in [pc : {"seen", "indexed"}, name : Names, mtime : Nat]
      BY <1>2 DEF TypeOK, IndexChanged, Watching
    <3>2. watcher' = [watcher EXCEPT !.pc = "indexed"]
      BY <1>2 DEF IndexChanged
    <3> QED
      BY <3>1, <3>2
  <2> QED
    BY <1>2, <2>1, <2>2, EntryType DEF TypeOK, users, IndexChanged
<1>3. CASE OfferChanged
  <2>1. watcher.name \in Names
    BY <1>3 DEF TypeOK, OfferChanged, Watching
  <2>2. queue' \in Seq(Names) /\ Len(queue') <= Depth
    BY <1>3, <2>1, EnqueueType DEF OfferChanged
  <2> QED
    BY <1>3, <2>2 DEF TypeOK, users, OfferChanged
<1>4. CASE OfferRemoved
  <2>1. Head(events).name \in Names /\ Tail(events) \in Seq(Event)
    BY <1>4 DEF TypeOK, OfferRemoved, Event
  <2>2. queue' \in Seq(Names) /\ Len(queue') <= Depth
    BY <1>4, <2>1, EnqueueType DEF OfferRemoved
  <2> QED
    BY <1>4, <2>1, <2>2 DEF TypeOK, users, OfferRemoved
<1>5. CASE ScanDirectory
  <2>1. scan' \in [pc : {"walk"}, todo : SUBSET Names, seen : SUBSET Names, cur : {None}]
    BY <1>5 DEF ScanDirectory, BeginScan, Unscanned
  <2>2. events' \in Seq(Event)
    BY <1>5 DEF TypeOK, ScanDirectory
  <2>3. watcher' = [Watching EXCEPT !.pc = "scanning"]
    BY <1>5 DEF TypeOK, ScanDirectory, Watching
  <2> QED
    BY <1>5, <2>1, <2>2, <2>3 DEF TypeOK, users, ScanDirectory
<1> QED
  BY <1>1, <1>2, <1>3, <1>4, <1>5 DEF Watch

\* A worker uploads (Agent.upload).
LEMMA UploadType ==
  ASSUME TypeOK, NEW w \in Workers, Upload(w) \/ LoseUpload(w)
  PROVE  TypeOK'
<1> USE NamesOf, BoundsAssumption
<1>1. CASE TakeKey(w)
  <2>1. /\ Head(queue) \in Names /\ Tail(queue) \in Seq(Names)
        /\ Len(queue) \in Nat /\ Len(Tail(queue)) = Len(queue) - 1
    BY <1>1 DEF TypeOK, TakeKey
  <2>2. worker' \in [Workers -> WorkerType]
    BY <1>1, <2>1 DEF TypeOK, TakeKey, WorkerType
  <2> QED
    BY <1>1, <2>1, <2>2 DEF TypeOK, users, TakeKey, WorkerType
<1>2. CASE HashFile(w)
  <2>1. ~At(w, "idle")
    BY <1>2 DEF HashFile, At
  <2>2. worker' \in [Workers -> WorkerType]
    <3> worker[w].name \in Names
      BY <2>1, WorkerStep
    <3>1. CASE file[worker[w].name] = None
      BY <1>2, <2>1, <3>1, WorkerStep DEF HashFile, Goes
    <3>2. CASE file[worker[w].name] # None
      <4>1. file[worker[w].name].body \in Nat
        BY <3>2 DEF TypeOK, Content
      <4> QED
        BY <1>2, <2>1, <3>2, <4>1, WorkerStep DEF HashFile
    <3> QED
      BY <3>1, <3>2
  <2> QED
    BY <1>2, <2>2 DEF TypeOK, users, HashFile, WorkerType
<1>3. CASE SendFile(w)
  <2>1. ~At(w, "idle") /\ worker[w] # Idle
    BY <1>3 DEF SendFile, At, Idle
  <2>2. worker' \in [Workers -> WorkerType]
    BY <1>3, <2>1, WorkerStep, RetryType DEF SendFile
  <2> QED
    BY <1>3, <2>2 DEF TypeOK, users, SendFile, WorkerType
<1>4. CASE LandUpload(w)
  <2>1. ~At(w, "idle")
    BY <1>4 DEF LandUpload, At
  <2>2. worker' \in [Workers -> WorkerType] /\ worker[w].body \in Nat
    BY <1>4, <2>1, WorkerStep DEF LandUpload
  <2> QED
    BY <1>4, <2>2 DEF TypeOK, users, LandUpload, WorkerType
<1>5. CASE MarkUploaded(w)
  <2>1. ~At(w, "idle")
    BY <1>5 DEF MarkUploaded, At
  <2>2. worker' \in [Workers -> WorkerType] /\ worker[w].name \in Names
    BY <1>5, <2>1, WorkerStep DEF MarkUploaded
  <2> QED
    BY <1>5, <2>2, EntryType DEF TypeOK, users, MarkUploaded, WorkerType
<1>6. CASE ReleaseKey(w)
  BY <1>6 DEF TypeOK, users, ReleaseKey
<1>7. CASE LoseUpload(w)
  <2>1. ~At(w, "idle") /\ worker[w] # Idle
    BY <1>7 DEF LoseUpload, At, Idle
  <2>2. worker' \in [Workers -> WorkerType]
    BY <1>7, <2>1, WorkerStep, RetryType DEF LoseUpload
  <2> QED
    BY <1>7, <2>2 DEF TypeOK, users, LoseUpload, WorkerType
<1> QED
  BY <1>1, <1>2, <1>3, <1>4, <1>5, <1>6, <1>7 DEF Upload

\* A scan indexes, deletes and forgets (Agent.Scan).
LEMMA ScanType ==
  ASSUME TypeOK, Scan \/ \E n \in Names : FailDelete(n)
  PROVE  TypeOK'
<1> USE NamesOf, BoundsAssumption
<1>1. ASSUME NEW n \in Names, VisitFile(n)
      PROVE  TypeOK'
  <2>1. file[n].mtime \in Nat
    BY <1>1 DEF TypeOK, VisitFile, Content
  <2>2. entry' \in [Names -> Entry \cup {None}]
    BY <1>1, <2>1, EntryType DEF TypeOK, VisitFile
  <2>3. queue' \in Seq(Names) /\ Len(queue') <= Depth
    BY <1>1, EnqueueType DEF TypeOK, VisitFile
  <2>4. scan' \in [pc : {"walk"}, todo : SUBSET Names, seen : SUBSET Names, cur : {None}]
    BY <1>1 DEF TypeOK, VisitFile
  <2> QED
    BY <1>1, <2>2, <2>3, <2>4 DEF TypeOK, users, VisitFile
<1>2. ASSUME NEW n \in Names, AbortScan(n)
      PROVE  TypeOK'
  <2>1. /\ scan' \in [pc : {"idle"}, todo : SUBSET Names, seen : SUBSET Names, cur : {None}]
        /\ mode' = "serving" /\ watcher' = Watching
    BY <1>2 DEF AbortScan, ScanEnds, Unscanned
  <2> QED
    BY <1>2, <2>1 DEF TypeOK, users, AbortScan
<1>3. CASE FindGone
  BY <1>3 DEF TypeOK, users, FindGone
<1>4. ASSUME NEW n \in Names, DeleteRemote(n)
      PROVE  TypeOK'
  BY <1>4 DEF TypeOK, users, DeleteRemote
<1>5. ASSUME NEW n \in Names, FailDelete(n)
      PROVE  TypeOK'
  BY <1>5 DEF TypeOK, users, FailDelete
<1>6. CASE Forget
  BY <1>6 DEF TypeOK, users, Forget
<1>7. CASE EndScan
  BY <1>7 DEF TypeOK, users, EndScan, ScanEnds, Unscanned
<1> QED
  BY <1>1, <1>2, <1>3, <1>4, <1>5, <1>6, <1>7 DEF Scan

\* An eviction checks, removes and marks (Agent.Evict).
LEMMA EvictType ==
  ASSUME TypeOK, Evict
  PROVE  TypeOK'
<1> USE NamesOf, BoundsAssumption
<1>1. ASSUME NEW n \in Names, CheckEvictable(n)
      PROVE  TypeOK'
  BY <1>1 DEF TypeOK, users, CheckEvictable
<1>2. CASE RemoveFile
  <2>1. evictor.name \in Names
    BY <1>2 DEF TypeOK, RemoveFile, Resting
  <2>2. evictor' \in [pc : {"checked", "removed"}, name : Names]
    <3>1. evictor \in [pc : {"checked", "removed"}, name : Names]
      BY <1>2 DEF TypeOK, RemoveFile, Resting
    <3>2. evictor' = [evictor EXCEPT !.pc = "removed"]
      BY <1>2 DEF RemoveFile
    <3> QED
      BY <3>1, <3>2
  <2>3. events' \in Seq(Event)
    <3>1. CASE file[evictor.name] = None
      <4>1. Notice(<<>>)
        BY <1>2, <3>1 DEF RemoveFile
      <4>2. <<>> \in Seq(Event)
        OBVIOUS
      <4> QED
        BY <4>1, <4>2, NoticeType
    <3>2. CASE file[evictor.name] # None
      <4>1. <<Removed(evictor.name)>> \in Seq(Event)
        BY <2>1, EventsOf
      <4> QED
        BY <1>2, <3>2, <4>1, NoticeType DEF RemoveFile
    <3> QED
      BY <3>1, <3>2
  <2> QED
    BY <1>2, <2>1, <2>2, <2>3 DEF TypeOK, users, RemoveFile
<1>3. CASE MarkEvicted
  <2>1. evictor.name \in Names
    BY <1>3 DEF TypeOK, MarkEvicted, Resting
  <2>2. entry' \in [Names -> Entry \cup {None}]
    BY <1>3, <2>1, EntryType DEF MarkEvicted
  <2> QED
    BY <1>3, <2>2 DEF TypeOK, users, MarkEvicted
<1> QED
  BY <1>1, <1>2, <1>3 DEF Evict

\* A recall joins, downloads and marks (Agent.Recall).
LEMMA FetchType ==
  ASSUME TypeOK, NEW r \in Readers, Fetch(r) \/ FailGet(r) \/ DropTemp(r)
  PROVE  TypeOK'
<1> USE NamesOf, BoundsAssumption
<1>1. CASE ReadEntry(r)
  <2>1. reader' \in [Readers -> ReaderType]
    <3>1. CASE Return(r)
      BY <3>1, ReaderStep
    <3>2. CASE ~Return(r)
      <4>1. entry[File(reader[r].object)] # None
        BY <1>1, <3>2 DEF ReadEntry
      <4>2. reader[r].pc # "idle" /\ reader[r].object \in Objects /\ reader[r].body \in Nat
        BY <1>1, ReaderStep DEF ReadEntry
      <4>3. entry[File(reader[r].object)].mtime \in Nat
        BY <4>1, <4>2 DEF TypeOK, Entry
      <4>4. reader' = [reader EXCEPT ![r].pc = "join",
                                     ![r].mtime = entry[File(reader[r].object)].mtime]
        BY <1>1, <3>2 DEF ReadEntry
      <4> QED
        BY <4>2, <4>3, <4>4, ReaderStep
    <3> QED
      BY <3>1, <3>2
  <2> QED
    BY <1>1, <2>1 DEF TypeOK, users, ReadEntry, ReaderType
<1>2. CASE JoinRecall(r)
  <2>1. reader' \in [Readers -> ReaderType]
    BY <1>2, ReaderStep, Zenon DEF TypeOK, JoinRecall
  <2> QED
    BY <1>2, <2>1 DEF TypeOK, users, JoinRecall, ReaderType
<1>3. CASE StopWaiting(r)
  BY <1>3 DEF TypeOK, users, StopWaiting, Return
<1>4. CASE GetObject(r)
  <2>1. reader' \in [Readers -> ReaderType]
    <3>1. CASE store[File(reader[r].object)] = None
      BY <1>4, <3>1, ReaderStep DEF GetObject
    <3>2. CASE store[File(reader[r].object)] # None
      <4>1. reader[r].pc # "idle" /\ reader[r].object \in Objects /\ reader[r].mtime \in Nat
        BY <1>4, ReaderStep DEF GetObject
      <4>2. store[File(reader[r].object)] \in Nat
        BY <3>2, <4>1 DEF TypeOK
      <4>3. reader' = [reader EXCEPT ![r].pc = "temp",
                                     ![r].body = store[File(reader[r].object)]]
        BY <1>4, <3>2 DEF GetObject
      <4> QED
        BY <4>1, <4>2, <4>3, ReaderStep
    <3> QED
      BY <3>1, <3>2
  <2> QED
    BY <1>4, <2>1 DEF TypeOK, users, GetObject, ReaderType
<1>5. CASE FailGet(r)
  BY <1>5 DEF TypeOK, users, FailGet, Return
<1>6. CASE FillTemp(r)
  <2>1. /\ reader[r].object \in Objects
        /\ [body |-> reader[r].body, mtime |-> reader[r].mtime] \in Content
    BY <1>6, ReaderStep DEF FillTemp, Content
  <2>2. file' \in [Names -> Content \cup {None}]
    BY <1>6, <2>1 DEF TypeOK, FillTemp
  <2>3. <<Changed(Temp(reader[r].object))>> \in Seq(Event)
    BY <2>1, EventsOf
  <2>4. events' \in Seq(Event)
    BY <1>6, <2>3, NoticeType DEF FillTemp
  <2>5. reader' \in [Readers -> ReaderType]
    BY <1>6, ReaderStep DEF FillTemp
  <2> QED
    BY <1>6, <2>2, <2>4, <2>5 DEF TypeOK, users, FillTemp, ReaderType
<1>7. CASE DropTemp(r)
  BY <1>7 DEF TypeOK, users, DropTemp, Return, Notice, Removed, Event, Away
<1>8. CASE RenameTemp(r)
  <2>1. reader' \in [Readers -> ReaderType]
    BY <1>8, ReaderStep, Zenon DEF TypeOK, RenameTemp
  <2>2. file' \in [Names -> Content \cup {None}] /\ events' \in Seq(Event)
    <3>1. reader[r].object \in Objects
      BY <1>8, ReaderStep DEF RenameTemp
    <3>2. CASE file[Temp(reader[r].object)] = None
      BY <1>8, <3>2 DEF TypeOK, RenameTemp
    <3>3. CASE file[Temp(reader[r].object)] # None
      <4> DEFINE o == reader[r].object
                 evs == <<Removed(Temp(o)), Changed(File(o))>>
      <4>1. evs \in Seq(Event)
        BY <3>1, EventsOf
      <4>2. Notice(evs)
        BY <1>8, <3>3 DEF RenameTemp
      <4>3. file' = [file EXCEPT ![File(o)] = file[Temp(o)], ![Temp(o)] = None]
        BY <1>8, <3>3 DEF RenameTemp
      <4>4. file' \in [Names -> Content \cup {None}]
        BY <3>1, <4>3 DEF TypeOK
      <4>5. events' \in Seq(Event)
        BY <4>1, <4>2, NoticeType
      <4> QED
        BY <4>4, <4>5
    <3> QED
      BY <3>2, <3>3
  <2> QED
    BY <1>8, <2>1, <2>2 DEF TypeOK, users, RenameTemp, ReaderType
<1>9. CASE MarkRecalled(r)
  <2>1. reader[r].pc # "idle"
    BY <1>9 DEF MarkRecalled, Recalling
  <2>2. reader' \in [Readers -> ReaderType]
    BY <1>9, <2>1, ReaderStep DEF MarkRecalled
  <2>3. entry' \in [Names -> Entry \cup {None}]
    BY <1>9, <2>1, ReaderStep, EntryType DEF MarkRecalled, TypeOK
  <2> QED
    BY <1>9, <2>2, <2>3 DEF TypeOK, users, MarkRecalled, ReaderType
<1> QED
  BY <1>1, <1>2, <1>3, <1>4, <1>5, <1>6, <1>7, <1>8, <1>9 DEF Fetch

\* Every step keeps the state typed.
LEMMA TypeStep ==
  ASSUME TypeOK, [Next]_vars
  PROVE  TypeOK'
<1>1. CASE Start
  BY <1>1 DEF TypeOK, users, Start, BeginScan, Unscanned
<1>2. CASE Crash
  BY <1>2, BoundsAssumption DEF TypeOK, users, Crash, Unscanned
<1>3. ASSUME NEW n \in Names, Sweep(n)
      PROVE  TypeOK'
  BY <1>3, EnqueueType DEF TypeOK, users, Sweep
<1>4. CASE UNCHANGED vars
  BY <1>4 DEF TypeOK, vars
<1> QED
  BY <1>1, <1>2, <1>3, <1>4, UsersType, WatchType, UploadType, ScanType, EvictType, FetchType
  DEF Next

\* The agent's variables keep their types, whatever fails or dies; a retried
\* upload stays within its attempts, and the queue within its capacity.
THEOREM AgentTypeOK == Spec => []TypeOK
<1>1. Init => TypeOK
  BY BoundsAssumption DEF Init, TypeOK, Unscanned
<1>2. TypeOK /\ [Next]_vars => TypeOK'
  BY TypeStep
<1> QED
  BY <1>1, <1>2, PTL DEF Spec

-----------------------------------------------------------------------------
(***************************************************************************)
(* One upload of a key at a time.                                          *)
(***************************************************************************)

\* Only a worker that does nothing has no key.
LEMMA IdleWorker ==
  ASSUME TypeOK, NEW w \in Workers
  PROVE  /\ worker[w].name \in Names \cup {None}
         /\ worker[w].name = None => worker[w] = Idle
         /\ worker[w].pc = "idle" => worker[w] = Idle
<1>1. None \notin Names
  BY NoneAssumption DEF Names
<1>2. worker[w] = Idle \/ worker[w] \in
        [pc : {"hash", "send", "sent", "landed", "done"}, name : Names, body : Nat,
         attempt : 1..MaxAttempts]
  BY DEF TypeOK
<1>3. CASE worker[w] = Idle
  BY <1>3 DEF Idle
<1>4. CASE worker[w] # Idle
  BY <1>1, <1>2, <1>4
<1> QED
  BY <1>3, <1>4

\* Steps that leave queue and workers alone, or end an upload.
LEMMA OneUploadKept ==
  ASSUME TypeOK, OneUpload, NEW w \in Workers, queue' = queue,
         \/ worker' = [worker EXCEPT ![w] = Idle]
         \/ /\ worker[w] # Idle
            /\ \A v \in Workers : worker'[v].name = worker[v].name
            /\ \A v \in Workers \ {w} : worker'[v] = worker[v]
  PROVE  OneUpload'
<1>1. Queued' = Queued /\ None \notin Queued
  BY NoneAssumption DEF Queued, TypeOK, Names
<1>2. CASE worker' = [worker EXCEPT ![w] = Idle]
  <2>1. \A v \in Workers : worker'[v] = IF v = w THEN Idle ELSE worker[v]
    BY <1>2 DEF TypeOK
  <2>2. \A v \in Workers : worker'[v].name \notin Queued
    BY <1>1, <2>1 DEF OneUpload, Idle
  <2>3. ASSUME NEW u \in Workers, NEW v \in Workers, u # v,
               worker'[u].name = worker'[v].name
        PROVE  worker'[u] = Idle
    <3>1. CASE u = w
      BY <2>1, <3>1
    <3>2. CASE u # w /\ v = w
      BY <2>1, <2>3, <3>2, IdleWorker DEF Idle
    <3>3. CASE u # w /\ v # w
      BY <2>1, <2>3, <3>3 DEF OneUpload
    <3> QED
      BY <3>1, <3>2, <3>3
  <2> QED
    BY <1>1, <2>2, <2>3 DEF OneUpload
<1>3. CASE ~(worker' = [worker EXCEPT ![w] = Idle])
  <2>1. /\ worker[w] # Idle
        /\ \A v \in Workers : worker'[v].name = worker[v].name
        /\ \A v \in Workers \ {w} : worker'[v] = worker[v]
    BY <1>3
  <2>2. ASSUME NEW u \in Workers, NEW v \in Workers, u # v,
               worker'[u].name = worker'[v].name
        PROVE  worker'[u] = Idle
    <3>1. worker[u] = Idle /\ worker[v] = Idle
      BY <2>1, <2>2 DEF OneUpload
    <3> QED
      BY <2>1, <3>1
  <2> QED
    BY <1>1, <2>1, <2>2 DEF OneUpload
<1> QED
  BY <1>2, <1>3

\* A key that is pending is not queued again (Agent.Enqueue).
LEMMA OneUploadEnqueue ==
  ASSUME TypeOK, OneUpload, NEW n \in Names, Enqueue(n), worker' = worker
  PROVE  OneUpload'
<1>1. CASE queue' = queue
  BY <1>1 DEF OneUpload, Queued
<1>2. CASE queue' # queue
  <2>1. n \notin Pending /\ queue' = Append(queue, n)
    BY <1>2 DEF Enqueue
  <2>2. n \notin Queued /\ \A w \in Workers : worker[w].name # n
    BY <2>1 DEF Pending
  <2>3. /\ queue \in Seq(Names)
        /\ DOMAIN queue' = 1..(Len(queue) + 1)
        /\ DOMAIN queue = 1..Len(queue)
        /\ \A i \in 1..Len(queue) : queue'[i] = queue[i]
        /\ queue'[Len(queue) + 1] = n
    BY <2>1 DEF TypeOK
  <2>4. \A i \in DOMAIN queue : queue[i] # n
    BY <2>2 DEF Queued
  <2>5. Queued' = Queued \cup {n}
    BY <2>3 DEF Queued
  <2>6. \A i, j \in DOMAIN queue' : i # j => queue'[i] # queue'[j]
    BY <2>3, <2>4 DEF OneUpload
  <2> QED
    BY <2>2, <2>5, <2>6 DEF OneUpload
<1> QED
  BY <1>1, <1>2

\* What a worker receives is queued nowhere else (Agent.worker).
LEMMA OneUploadTake ==
  ASSUME TypeOK, OneUpload, NEW w \in Workers, TakeKey(w)
  PROVE  OneUpload'
<1> DEFINE n == Head(queue)
<1>1. /\ queue \in Seq(Names) /\ queue # <<>> /\ queue' = Tail(queue)
      /\ worker[w] = Idle
  BY IdleWorker DEF TypeOK, TakeKey, At
<1>2. /\ Len(queue) \in Nat /\ Len(queue) >= 1
      /\ DOMAIN queue = 1..Len(queue) /\ DOMAIN queue' = 1..(Len(queue) - 1)
      /\ \A i \in DOMAIN queue' : i + 1 \in DOMAIN queue /\ queue'[i] = queue[i + 1]
      /\ n = queue[1] /\ n \in Names
  BY <1>1
<1>3. \A i, j \in DOMAIN queue' : i # j => queue'[i] # queue'[j]
  BY <1>2 DEF OneUpload
<1>4. n \notin Queued' /\ Queued' \subseteq Queued /\ n \in Queued
  <2>1. \A i \in DOMAIN queue' : queue'[i] # n /\ queue'[i] \in Queued
    BY <1>2 DEF OneUpload, Queued
  <2> QED
    BY <1>2, <2>1 DEF Queued
<1>5. \A v \in Workers : worker[v].name # n
  BY <1>4 DEF OneUpload
<1>6. CASE worker' = worker
  BY <1>3, <1>4, <1>6 DEF OneUpload
<1>7. CASE worker' # worker
  <2>1. worker' = [worker EXCEPT ![w] =
          [pc |-> "hash", name |-> n, body |-> 0, attempt |-> 1]]
    BY <1>7 DEF TakeKey
  <2>2. /\ worker'[w].name = n
        /\ \A v \in Workers \ {w} : worker'[v] = worker[v]
    BY <2>1 DEF TypeOK
  <2>3. \A v \in Workers : worker'[v].name \notin Queued'
    BY <1>4, <2>2 DEF OneUpload
  <2>4. ASSUME NEW u \in Workers, NEW v \in Workers, u # v,
               worker'[u].name = worker'[v].name
        PROVE  worker'[u] = Idle
    BY <1>5, <2>2, <2>4 DEF OneUpload
  <2> QED
    BY <1>3, <2>3, <2>4 DEF OneUpload
<1> QED
  BY <1>6, <1>7

\* A worker that goes on with its upload keeps its key.
LEMMA KeepsKey ==
  ASSUME TypeOK, NEW w \in Workers, worker[w] # Idle,
         \/ HashFile(w) \/ SendFile(w) \/ LandUpload(w) \/ LoseUpload(w) \/ MarkUploaded(w)
  PROVE  /\ queue' = queue
         /\ \A v \in Workers : worker'[v].name = worker[v].name
         /\ \A v \in Workers \ {w} : worker'[v] = worker[v]
<1>1. /\ worker \in [Workers -> WorkerType]
      /\ worker[w] \in [pc : {"hash", "send", "sent", "landed", "done"}, name : Names,
                        body : Nat, attempt : 1..MaxAttempts]
  BY DEF TypeOK, WorkerType
<1>2. CASE HashFile(w)
  BY <1>1, <1>2 DEF HashFile
<1>3. CASE SendFile(w)
  BY <1>1, <1>3 DEF SendFile, Goes, Retry
<1>4. CASE LandUpload(w)
  BY <1>1, <1>4 DEF LandUpload, Goes
<1>5. CASE LoseUpload(w)
  BY <1>1, <1>5 DEF LoseUpload, Goes, Retry
<1>6. CASE MarkUploaded(w)
  BY <1>1, <1>6 DEF MarkUploaded, Goes
<1> QED
  BY <1>2, <1>3, <1>4, <1>5, <1>6

\* Every step keeps keys apart.
LEMMA OneUploadStep ==
  ASSUME TypeOK, OneUpload, [Next]_vars
  PROVE  OneUpload'
<1>1. ASSUME UNCHANGED <<queue, worker>>
      PROVE  OneUpload'
  BY <1>1 DEF OneUpload, Queued
<1>2. CASE WordPress
  BY <1>1, <1>2 DEF WordPress, WriteFile, DeleteFile, MakeDirectory, OpenEvicted
<1>3. CASE Watch
  <2>1. CASE OfferChanged
    <3>1. watcher.name \in Names
      BY <2>1 DEF TypeOK, OfferChanged, Watching
    <3> QED
      BY <2>1, <3>1, OneUploadEnqueue DEF OfferChanged
  <2>2. CASE OfferRemoved
    <3>1. Head(events) \in Event /\ Head(events).op = "remove"
      BY <2>2 DEF TypeOK, OfferRemoved
    <3>2. Head(events).name \in Names
      BY <3>1 DEF Event
    <3> QED
      BY <2>2, <3>2, OneUploadEnqueue DEF OfferRemoved
  <2>3. CASE StatChanged \/ IndexChanged \/ ScanDirectory
    BY <1>1, <2>3 DEF StatChanged, IndexChanged, ScanDirectory
  <2> QED
    BY <1>3, <2>1, <2>2, <2>3 DEF Watch
<1>4. ASSUME NEW w \in Workers, Upload(w) \/ LoseUpload(w)
      PROVE  OneUpload'
  <2>1. CASE TakeKey(w)
    BY <2>1, OneUploadTake
  <2>2. CASE ReleaseKey(w)
    BY <2>2, OneUploadKept DEF ReleaseKey
  <2>3. CASE \/ HashFile(w) \/ SendFile(w) \/ LandUpload(w) \/ LoseUpload(w)
             \/ MarkUploaded(w)
    <3>1. worker[w] # Idle
      BY <2>3 DEF HashFile, SendFile, LandUpload, LoseUpload, MarkUploaded, At, Idle
    <3> QED
      BY <2>3, <3>1, KeepsKey, OneUploadKept
  <2> QED
    BY <1>4, <2>1, <2>2, <2>3 DEF Upload
<1>5. CASE Scan
  <2>1. ASSUME NEW n \in Names, VisitFile(n)
        PROVE  OneUpload'
    BY <1>1, <2>1, OneUploadEnqueue DEF VisitFile
  <2>2. CASE ~ \E n \in Names : VisitFile(n)
    BY <1>1, <1>5, <2>2 DEF Scan, FindGone, Forget, EndScan, AbortScan, DeleteRemote
  <2> QED
    BY <2>1, <2>2
<1>6. ASSUME NEW n \in Names, Sweep(n) \/ FailDelete(n)
      PROVE  OneUpload'
  BY <1>1, <1>6, OneUploadEnqueue DEF Sweep, FailDelete
<1>7. CASE Evict
  BY <1>1, <1>7 DEF Evict, CheckEvictable, RemoveFile, MarkEvicted
<1>8. ASSUME NEW r \in Readers, Fetch(r) \/ FailGet(r) \/ DropTemp(r)
      PROVE  OneUpload'
  BY <1>1, <1>8 DEF Fetch, ReadEntry, JoinRecall, StopWaiting, GetObject, FailGet, FillTemp,
    DropTemp, RenameTemp, MarkRecalled
<1>9. CASE Start
  BY <1>1, <1>9 DEF Start
<1>10. CASE Crash
  BY <1>10 DEF Crash, OneUpload, Queued, Idle
<1>11. CASE UNCHANGED vars
  BY <1>1, <1>11 DEF vars
<1> QED
  BY <1>2, <1>3, <1>4, <1>5, <1>6, <1>7, <1>8, <1>9, <1>10, <1>11 DEF Next

\* No two workers hold one key and no key is queued twice, for any number of
\* workers, queue capacity and events: Agent.pending does its work although it
\* is checked at Enqueue and cleared after the upload.
THEOREM AgentOneUpload == Spec => []OneUpload
<1>1. Init => OneUpload
  BY DEF Init, OneUpload, Queued, Idle
<1>2. TypeOK /\ OneUpload /\ [Next]_vars => OneUpload'
  BY OneUploadStep
<1> QED
  BY <1>1, <1>2, AgentTypeOK, PTL DEF Spec

-----------------------------------------------------------------------------
(***************************************************************************)
(* One recall of an object at a time.                                      *)
(***************************************************************************)

\* Every step keeps recalls apart: only joining starts one, and only alone.
LEMMA OneRecallStep ==
  ASSUME TypeOK, OneRecall, [Next]_vars
  PROVE  OneRecall'
<1>1. reader \in [Readers -> ReaderType]
  BY DEF TypeOK, ReaderType
<1>2. CASE UNCHANGED reader
  BY <1>2 DEF OneRecall, Recalling
<1>3. ASSUME NEW r \in Readers, NEW o \in Objects, OpenEvicted(r, o)
      PROVE  OneRecall'
  BY <1>1, <1>3 DEF OpenEvicted, Away, OneRecall, Recalling
<1>4. ASSUME NEW r \in Readers, Fetch(r) \/ FailGet(r) \/ DropTemp(r)
      PROVE  OneRecall'
  <2>1. CASE Return(r)
    BY <1>1, <2>1 DEF Return, Away, OneRecall, Recalling
  <2>2. CASE JoinRecall(r)
    <3>1. CASE \E q \in Readers : Recalling(q, reader[r].object)
      BY <1>1, <2>2, <3>1 DEF JoinRecall, Recall, OneRecall, Recalling
    <3>2. CASE ~ \E q \in Readers : Recalling(q, reader[r].object)
      BY <1>1, <2>2, <3>2 DEF JoinRecall, Recall, OneRecall, Recalling
    <3> QED
      BY <3>1, <3>2
  <2>3. CASE ReadEntry(r) /\ ~Return(r)
    <3>1. reader' = [reader EXCEPT ![r].pc = "join",
                                   ![r].mtime = entry[File(reader[r].object)].mtime]
      BY <2>3 DEF ReadEntry
    <3>2. reader'[r].pc = "join" /\ \A q \in Readers \ {r} : reader'[q] = reader[q]
      BY <1>1, <3>1 DEF ReaderType, Away
    <3> QED
      BY <3>2 DEF OneRecall, Recalling
  <2>4. CASE GetObject(r) /\ ~Return(r)
    <3>1. /\ reader[r].pc = "get"
          /\ reader' = [reader EXCEPT ![r].pc = "temp",
                                     ![r].body = store[File(reader[r].object)]]
      BY <2>4 DEF GetObject
    <3>2. /\ reader'[r].pc = "temp" /\ reader'[r].object = reader[r].object
          /\ \A q \in Readers \ {r} : reader'[q] = reader[q]
      BY <1>1, <3>1 DEF ReaderType, Away
    <3>3. \A o \in Objects : Recalling(r, o)' => Recalling(r, o)
      BY <3>1, <3>2 DEF Recalling
    <3>4. \A q \in Readers, o \in Objects : Recalling(q, o)' => Recalling(q, o)
      BY <3>2, <3>3 DEF Recalling
    <3> QED
      BY <3>4 DEF OneRecall
  <2>5. CASE FillTemp(r)
    BY <1>1, <2>5 DEF FillTemp, Recall, OneRecall, Recalling
  <2>6. CASE RenameTemp(r) /\ ~Return(r)
    <3>1. reader[r].pc = "rename" /\ reader' = [reader EXCEPT ![r].pc = "mark"]
      BY <2>6 DEF RenameTemp, Recall
    <3> QED
      BY <1>1, <3>1 DEF OneRecall, Recalling
  <2> QED
    BY <1>4, <2>1, <2>2, <2>3, <2>4, <2>5, <2>6
    DEF Fetch, StopWaiting, FailGet, DropTemp, MarkRecalled
<1>5. CASE Crash
  BY <1>5 DEF Crash, Away, OneRecall, Recalling
<1>6. CASE \/ \E o \in Objects : WriteFile(o) \/ DeleteFile(o)
           \/ MakeDirectory \/ Watch \/ Scan \/ Evict \/ Start
           \/ \E w \in Workers : Upload(w) \/ LoseUpload(w)
           \/ \E n \in Names : Sweep(n) \/ FailDelete(n)
  <2>1. UNCHANGED reader
    BY <1>6, Zenon DEF WriteFile, DeleteFile, MakeDirectory, Watch, StatChanged, IndexChanged,
      OfferChanged, OfferRemoved, ScanDirectory, Scan, VisitFile, AbortScan, FindGone,
      DeleteRemote, FailDelete, Forget, EndScan, Evict, CheckEvictable, RemoveFile, MarkEvicted,
      Start, Upload, TakeKey, HashFile, SendFile, LandUpload, LoseUpload, MarkUploaded,
      ReleaseKey, Sweep
  <2> QED
    BY <1>2, <2>1
<1> QED
  BY <1>2, <1>3, <1>4, <1>5, <1>6 DEF Next, WordPress, vars

\* Recalls of one object never share the temporary file, for any number of
\* readers: whoever joins waits for the one that runs (Agent.Recall).
THEOREM AgentOneRecall == Spec => []OneRecall
<1>1. Init => OneRecall
  BY DEF Init, OneRecall, Recalling, Away
<1>2. TypeOK /\ OneRecall /\ [Next]_vars => OneRecall'
  BY OneRecallStep
<1> QED
  BY <1>1, <1>2, AgentTypeOK, PTL DEF Spec

-----------------------------------------------------------------------------
(***************************************************************************)
(* The directory and the store: a scan deletes what is gone, and nothing   *)
(* is stored that no scan could delete.                                    *)
(***************************************************************************)

\* Where directories appear and are scanned while WordPress writes, nothing is
\* evicted, and files are changed long after they last were.
NotedAssumption ==
  "newdir" \in Environment => Caching = FALSE /\ "rewrite" \notin Environment

Busy(w) == worker[w].pc \in {"send", "sent", "landed"}

\* An event the watcher has not read.
Told(e) == \E i \in DOMAIN events : events[i] = e

NewDirectory == [op |-> "dir", name |-> None]

\* Which parts run in which mode.
ModeInv ==
  /\ mode = "stopped" => scan.pc = "idle" /\ queue = <<>> /\ \A w \in Workers : worker[w] = Idle
  /\ mode = "starting" => scan.pc # "idle"
  /\ mode # "serving" => /\ events = <<>> /\ watcher.pc = "idle" /\ evictor = Resting
                         /\ \A r \in Readers : reader[r] = Away
  /\ mode = "serving" /\ scan.pc # "idle" => "newdir" \in Environment /\ watcher.pc = "scanning"
  /\ "newdir" \notin Environment =>
       watcher.pc # "scanning" /\ ~Told(NewDirectory)

\* Without a ceiling nothing is evicted.
UncachedInv ==
  ~Caching => /\ evictor = Resting
              /\ \A n \in Names : ~InState(n, "evicted")
              /\ \A r \in Readers : reader[r] = Away

\* What a scan is about to delete, or has just deleted.
Going == scan.todo \cup (IF scan.pc = "forget" THEN {scan.cur} ELSE {})

\* What the scan has not seen and will not see.
ScanInv ==
  /\ scan.pc = "walk" => \A n \in Names \ (scan.todo \cup scan.seen) :
       file[n] = None \/ (entry[n] = None /\ mode = "serving")
  /\ scan.pc \in {"gone", "forget"} =>
       /\ \A n \in Going :
            n \notin scan.seen /\ file[n] = None /\ entry[n] # None /\ ~InState(n, "evicted")
       /\ mode = "starting" => \A n \in Names \ scan.seen : file[n] = None
  /\ scan.pc = "forget" => store[scan.cur] = None /\ scan.cur \notin scan.todo

\* What is stored is known; what is being sent is known, and there while a
\* scan runs.
KnownInv ==
  /\ \A n \in Names : store[n] # None => entry[n] # None
  /\ \A w \in Workers :
       /\ Busy(w) => entry[worker[w].name] # None
       /\ worker[w].pc = "hash" =>
            \/ entry[worker[w].name] # None
            \/ "newdir" \in Environment /\ file[worker[w].name] = None
       /\ Busy(w) /\ "newdir" \in Environment => file[worker[w].name] # None
  /\ mode = "starting" => \A n \in Pending : n = None \/ file[n] # None

DirectoryInv == TypeOK /\ ModeInv /\ UncachedInv /\ ScanInv /\ KnownInv

\* A worker that has a key is in an upload; one that has none is idle.
LEMMA BusyWorker ==
  ASSUME TypeOK, NEW w \in Workers, worker[w].pc # "idle"
  PROVE  /\ worker[w].name \in Names /\ worker[w].body \in Nat
         /\ worker[w].pc \in {"hash", "send", "sent", "landed", "done"}
         /\ worker[w] # Idle
<1>1. worker[w] \in [pc : {"hash", "send", "sent", "landed", "done"}, name : Names,
                     body : Nat, attempt : 1..MaxAttempts]
  BY DEF TypeOK, Idle
<1> QED
  BY <1>1 DEF Idle

\* What the index says once a state was set: no entry appears or goes.
LEMMA SetStateIs ==
  ASSUME TypeOK, NEW n \in Names, NEW s \in {"dirty", "synced", "evicted"}, SetState(n, s)
  PROVE  /\ \A m \in Names : entry'[m] = None <=> entry[m] = None
         /\ \A m \in Names : m # n => entry'[m] = entry[m]
         /\ entry[n] # None => entry'[n].state = s /\ entry'[n].mtime = entry[n].mtime
<1>1. entry \in [Names -> Entry \cup {None}] /\ None \notin Entry
  BY NoneAssumption DEF TypeOK
<1>2. CASE entry[n] = None
  BY <1>1, <1>2 DEF SetState
<1>3. CASE entry[n] # None
  <2>1. entry' = [entry EXCEPT ![n].state = s]
    BY <1>3 DEF SetState
  <2>2. entry[n] \in Entry
    BY <1>1, <1>3
  <2>3. entry'[n] = [entry[n] EXCEPT !.state = s]
    BY <1>1, <2>1
  <2>4. entry'[n] \in Entry /\ entry'[n].state = s /\ entry'[n].mtime = entry[n].mtime
    BY <2>2, <2>3 DEF Entry
  <2>5. \A m \in Names : m # n => entry'[m] = entry[m]
    BY <1>1, <2>1
  <2> QED
    BY <1>1, <1>3, <2>4, <2>5
<1> QED
  BY <1>2, <1>3

\* What it says of a file that was found changed (handleEvent, Scan).
LEMMA MarkDirtyIs ==
  ASSUME TypeOK, NEW n \in Names, NEW t \in Nat, MarkDirty(n, t)
  PROVE  /\ entry'[n] # None /\ entry'[n].state = "dirty" /\ entry'[n].mtime = t
         /\ \A m \in Names : m # n => entry'[m] = entry[m]
<1>1. entry \in [Names -> Entry \cup {None}] /\ None \notin Entry
  BY NoneAssumption DEF TypeOK
<1>2. [state |-> "dirty", mtime |-> t] \in Entry
  BY DEF Entry
<1>3. entry' = [entry EXCEPT ![n] = [state |-> "dirty", mtime |-> t]]
  BY DEF MarkDirty
<1>4. entry'[n] = [state |-> "dirty", mtime |-> t]
  BY <1>1, <1>3
<1> QED
  BY <1>1, <1>2, <1>3, <1>4

\* An eviction or an event that is under way has a name.
LEMMA NamesUnderWay ==
  ASSUME TypeOK
  PROVE  /\ None \notin Names
         /\ evictor.pc # "idle" => evictor.name \in Names
         /\ watcher.pc \in {"seen", "indexed"} => watcher.name \in Names /\ watcher.mtime \in Nat
         /\ watcher.pc \in {"idle", "scanning"} => watcher.name = None
         /\ evictor.pc = "idle" => evictor = Resting
         /\ watcher.pc = "idle" => watcher = Watching
<1>1. None \notin Names
  BY NoneAssumption
<1>2. /\ evictor.pc # "idle" => evictor.name \in Names
      /\ evictor.pc = "idle" => evictor = Resting
  BY DEF TypeOK, Resting
<1>3. watcher \in {Watching, [Watching EXCEPT !.pc = "scanning"]}
                   \cup [pc : {"seen", "indexed"}, name : Names, mtime : Nat]
  BY DEF TypeOK
<1>4. /\ watcher.pc \in {"seen", "indexed"} => watcher.name \in Names /\ watcher.mtime \in Nat
      /\ watcher.pc \in {"idle", "scanning"} => watcher.name = None
      /\ watcher.pc = "idle" => watcher = Watching
  BY <1>3 DEF Watching
<1> QED
  BY <1>1, <1>2, <1>4

\* A scan has the directory and the index to itself, but for the workers and
\* WordPress.
LEMMA ScanAlone ==
  ASSUME NotedAssumption, TypeOK, ModeInv, UncachedInv, scan.pc # "idle"
  PROVE  /\ evictor = Resting /\ watcher.pc \notin {"seen", "indexed"}
         /\ \A r \in Readers : reader[r] = Away
         /\ mode \in {"starting", "serving"}
         /\ mode = "serving" => "newdir" \in Environment /\ Caching = FALSE
                                /\ "rewrite" \notin Environment /\ watcher.pc = "scanning"
BY DEF NotedAssumption, TypeOK, ModeInv, UncachedInv

\* What is queued once a key was offered.
LEMMA EnqueueIs ==
  ASSUME TypeOK, NEW n \in Names, Enqueue(n)
  PROVE  Queued' \subseteq Queued \cup {n}
<1>1. CASE queue' = queue
  BY <1>1 DEF Queued
<1>2. CASE queue' = Append(queue, n)
  <2>1. /\ queue \in Seq(Names)
        /\ DOMAIN queue' = 1..(Len(queue) + 1)
        /\ DOMAIN queue = 1..Len(queue)
        /\ \A i \in 1..Len(queue) : queue'[i] = queue[i]
        /\ queue'[Len(queue) + 1] = n
    BY <1>2 DEF TypeOK
  <2> QED
    BY <2>1 DEF Queued
<1> QED
  BY <1>1, <1>2 DEF Enqueue

\* Events are told in the order they happen; only the first is handled.
LEMMA EventsAfter ==
  ASSUME TypeOK
  PROVE  /\ Notice(<<>>) => events' = events
         /\ \A d \in Event : Notice(<<d>>) => \A e : Told(e)' <=> Told(e) \/ e = d
         /\ \A c, d \in Event : Notice(<<c, d>>) =>
              \A e : Told(e)' <=> Told(e) \/ e = c \/ e = d
         /\ events # <<>> =>
              /\ Head(events) \in Event /\ Told(Head(events))
              /\ events' = Tail(events) =>
                   \A e : Told(e) <=> e = Head(events) \/ Told(e)'
<1>1. events \in Seq(Event)
  BY DEF TypeOK
<1>2. Notice(<<>>) => events' = events
  BY <1>1 DEF Notice
<1>3. ASSUME NEW evs \in Seq(Event), Notice(evs), NEW e
      PROVE  Told(e)' <=> Told(e) \/ \E i \in DOMAIN evs : evs[i] = e
  <2>1. /\ events' = events \o evs
        /\ Len(events) \in Nat /\ Len(evs) \in Nat
        /\ DOMAIN events = 1..Len(events) /\ DOMAIN evs = 1..Len(evs)
        /\ DOMAIN events' = 1..(Len(events) + Len(evs))
        /\ \A i \in DOMAIN events' : events'[i] = IF i <= Len(events) THEN events[i]
                                                  ELSE evs[i - Len(events)]
    BY <1>1, <1>3 DEF Notice
  <2>2. ASSUME NEW i \in DOMAIN events' PROVE \/ \E j \in DOMAIN events : events[j] = events'[i]
                                              \/ \E j \in DOMAIN evs : evs[j] = events'[i]
    <3>1. CASE i <= Len(events)
      BY <2>1, <3>1
    <3>2. CASE ~(i <= Len(events))
      <4>1. i - Len(events) \in DOMAIN evs /\ events'[i] = evs[i - Len(events)]
        BY <2>1, <3>2
      <4> QED
        BY <4>1
    <3> QED
      BY <3>1, <3>2
  <2>3. ASSUME NEW i \in DOMAIN events PROVE i \in DOMAIN events' /\ events'[i] = events[i]
    BY <2>1
  <2>4. ASSUME NEW i \in DOMAIN evs
        PROVE  i + Len(events) \in DOMAIN events' /\ events'[i + Len(events)] = evs[i]
    BY <2>1
  <2> QED
    BY <2>2, <2>3, <2>4 DEF Told
<1>4. ASSUME NEW d \in Event, Notice(<<d>>), NEW e PROVE Told(e)' <=> Told(e) \/ e = d
  <2>1. <<d>> \in Seq(Event) /\ DOMAIN <<d>> = {1} /\ <<d>>[1] = d
    BY <1>4
  <2> QED
    BY <1>3, <1>4, <2>1
<1>5. ASSUME NEW c \in Event, NEW d \in Event, Notice(<<c, d>>), NEW e
      PROVE  Told(e)' <=> Told(e) \/ e = c \/ e = d
  <2>1. <<c, d>> \in Seq(Event) /\ DOMAIN <<c, d>> = {1, 2} /\ <<c, d>>[1] = c
        /\ <<c, d>>[2] = d
    BY <1>5
  <2>2. Told(e)' <=> Told(e) \/ \E i \in DOMAIN <<c, d>> : <<c, d>>[i] = e
    BY <1>3, <1>5, <2>1
  <2> QED
    BY <2>1, <2>2
<1>6. ASSUME events # <<>>
      PROVE  /\ Head(events) \in Event /\ Told(Head(events))
             /\ events' = Tail(events) => \A e : Told(e) <=> e = Head(events) \/ Told(e)'
  <2>1. /\ Len(events) \in Nat \ {0} /\ DOMAIN events = 1..Len(events)
        /\ Head(events) = events[1] /\ Head(events) \in Event
    BY <1>1, <1>6
  <2>2. ASSUME events' = Tail(events), NEW e
        PROVE  Told(e) <=> e = Head(events) \/ Told(e)'
    <3>1. DOMAIN events' = 1..(Len(events) - 1)
          /\ \A i \in DOMAIN events' : events'[i] = events[i + 1]
      BY <1>1, <1>6, <2>2
    <3>2. ASSUME NEW i \in DOMAIN events, i # 1
          PROVE  i - 1 \in DOMAIN events' /\ events'[i - 1] = events[i]
      BY <2>1, <3>1, <3>2
    <3>3. ASSUME NEW i \in DOMAIN events'
          PROVE  i + 1 \in DOMAIN events /\ events'[i] = events[i + 1]
      BY <2>1, <3>1
    <3> QED
      BY <2>1, <3>2, <3>3 DEF Told
  <2> QED
    BY <2>1, <2>2 DEF Told
<1> QED
  BY <1>2, <1>4, <1>5, <1>6

\* Changes and removals are told apart, and the names of objects' files.
LEMMA EventsApart ==
  /\ \A n \in Names : /\ Changed(n) \in Event /\ Removed(n) \in Event
                      /\ Changed(n) # NewDirectory /\ Removed(n) # NewDirectory
  /\ \A m, n \in Names : /\ Changed(n) # Removed(m)
                         /\ Changed(n) = Changed(m) => n = m
<1>1. \A n \in Names : Changed(n) \in Event /\ Removed(n) \in Event
  BY EventsOf
<1> QED
  BY <1>1 DEF Changed, Removed, NewDirectory

-----------------------------------------------------------------------------
(***************************************************************************)
(* Who writes what: the only steps that touch a variable.                  *)
(***************************************************************************)

\* Each part of the agent's state has its few writers: the directory WordPress,
\* the eviction and the recall; the index the watcher, the scan, an upload's
\* end, the eviction and the recall; the store an upload and the scan.
LEMMA Writers ==
  ASSUME [Next]_vars
  PROVE  /\ \/ file' = file \/ RemoveFile
            \/ mode = "serving" /\ \E o \in Objects : WriteFile(o) \/ DeleteFile(o)
            \/ \E r \in Readers : FillTemp(r) \/ DropTemp(r) \/ RenameTemp(r)
         /\ \/ entry' = entry \/ IndexChanged \/ Forget \/ MarkEvicted
            \/ (\E w \in Workers : MarkUploaded(w)) \/ (\E n \in Names : VisitFile(n))
            \/ \E r \in Readers : MarkRecalled(r)
         /\ \/ store' = store \/ \E w \in Workers : LandUpload(w)
            \/ \E n \in Names : DeleteRemote(n) \/ FailDelete(n)
         /\ \/ queue' = queue \/ OfferChanged \/ OfferRemoved \/ Crash
            \/ (\E w \in Workers : TakeKey(w)) \/ \E n \in Names : Sweep(n) \/ VisitFile(n)
         /\ worker' = worker \/ Crash \/ \E w \in Workers : Upload(w) \/ LoseUpload(w)
         /\ \/ events' = events \/ StatChanged \/ OfferRemoved \/ ScanDirectory \/ Crash
            \/ MakeDirectory \/ RemoveFile \/ (\E o \in Objects : WriteFile(o) \/ DeleteFile(o))
            \/ \E r \in Readers : FillTemp(r) \/ DropTemp(r) \/ RenameTemp(r)
         /\ \/ watcher' = watcher \/ StatChanged \/ IndexChanged \/ OfferChanged
            \/ ScanDirectory \/ EndScan \/ Crash \/ \E n \in Names : AbortScan(n)
         /\ \/ UNCHANGED <<mode, scan>> \/ Crash \/ Start \/ ScanDirectory \/ EndScan
            \/ FindGone \/ Forget
            \/ \E n \in Names : VisitFile(n) \/ AbortScan(n) \/ DeleteRemote(n) \/ FailDelete(n)
         /\ \/ evictor' = evictor \/ RemoveFile \/ MarkEvicted \/ Crash
            \/ \E n \in Names : CheckEvictable(n)
         /\ \/ reader' = reader \/ Crash
            \/ \E r \in Readers : Fetch(r) \/ FailGet(r) \/ DropTemp(r)
                                  \/ \E o \in Objects : OpenEvicted(r, o)
         /\ UNCHANGED users \/ \E o \in Objects : WriteFile(o) \/ DeleteFile(o)
<1>1. CASE WordPress
  <2>1. ASSUME NEW o \in Objects, WriteFile(o) \/ DeleteFile(o)
        PROVE  /\ UNCHANGED <<entry, store, queue, worker, watcher, scan, evictor, reader, mode>>
               /\ mode = "serving"
    BY <2>1 DEF WriteFile, DeleteFile
  <2>2. ASSUME NEW r \in Readers, NEW o \in Objects, OpenEvicted(r, o)
        PROVE  UNCHANGED <<file, entry, store, queue, worker, events, watcher, scan, evictor, mode, users>>
    BY <2>2 DEF OpenEvicted
  <2>3. CASE MakeDirectory
    BY <2>3 DEF MakeDirectory
  <2> QED
    BY <1>1, <2>1, <2>2, <2>3 DEF WordPress
<1>2. CASE Watch
  BY <1>2 DEF Watch, StatChanged, IndexChanged, OfferChanged, OfferRemoved, ScanDirectory
<1>3. CASE Scan
  <2>1. CASE FindGone \/ Forget \/ EndScan
    BY <2>1 DEF FindGone, Forget, EndScan
  <2>2. ASSUME NEW n \in Names, VisitFile(n) \/ AbortScan(n) \/ DeleteRemote(n)
        PROVE  UNCHANGED <<file, worker, events, evictor, reader, users>>
               /\ (~VisitFile(n) => UNCHANGED <<entry, queue>>)
               /\ (~AbortScan(n) => UNCHANGED watcher) /\ (~DeleteRemote(n) => UNCHANGED store)
    BY <2>2 DEF VisitFile, AbortScan, DeleteRemote
  <2> QED
    BY <1>3, <2>1, <2>2 DEF Scan
<1>4. CASE Evict
  BY <1>4 DEF Evict, RemoveFile, MarkEvicted, CheckEvictable
<1>5. CASE Start \/ Crash
  BY <1>5 DEF Start, Crash
<1>6. ASSUME NEW w \in Workers, Upload(w) \/ LoseUpload(w)
      PROVE  UNCHANGED <<file, events, watcher, scan, mode, evictor, reader, users>>
             /\ (~MarkUploaded(w) => UNCHANGED entry) /\ (~LandUpload(w) => UNCHANGED store)
             /\ (~TakeKey(w) => UNCHANGED queue)
  BY <1>6 DEF Upload, TakeKey, HashFile, SendFile, LandUpload, LoseUpload, MarkUploaded,
    ReleaseKey
<1>7. ASSUME NEW n \in Names, Sweep(n) \/ FailDelete(n)
      PROVE  UNCHANGED <<file, entry, worker, events, watcher, mode, evictor, reader, users>>
             /\ (~Sweep(n) => UNCHANGED queue)
             /\ (~FailDelete(n) => UNCHANGED <<store, scan>>)
  BY <1>7 DEF Sweep, FailDelete
<1>8. ASSUME NEW r \in Readers, Fetch(r) \/ FailGet(r) \/ DropTemp(r)
      PROVE  UNCHANGED <<store, queue, worker, watcher, scan, mode, evictor, users>>
             /\ (~MarkRecalled(r) => UNCHANGED entry)
             /\ (~(FillTemp(r) \/ DropTemp(r) \/ RenameTemp(r)) => UNCHANGED <<file, events>>)
  BY <1>8 DEF Fetch, ReadEntry, JoinRecall, StopWaiting, GetObject, FailGet, FillTemp,
    DropTemp, RenameTemp, MarkRecalled
<1>9. CASE UNCHANGED vars
  BY <1>9 DEF vars, users
<1>10. CASE \E w \in Workers : Upload(w) \/ LoseUpload(w)
  BY <1>6, <1>10
<1>11. CASE \E n \in Names : Sweep(n) \/ FailDelete(n)
  BY <1>7, <1>11
<1>12. CASE \E r \in Readers : Fetch(r) \/ FailGet(r) \/ DropTemp(r)
  BY <1>8, <1>12
<1> QED
  BY <1>1, <1>2, <1>3, <1>4, <1>5, <1>9, <1>10, <1>11, <1>12 DEF Next

-----------------------------------------------------------------------------
\* A scan runs alone at the start, and again only for a new directory; before
\* that and after a crash nothing runs at all (Agent.Run).
LEMMA ModeStep ==
  ASSUME TypeOK, ModeInv, [Next]_vars
  PROVE  ModeInv'
<1> USE DEF ModeInv
<1>1. CASE UNCHANGED vars
  BY <1>1 DEF vars, Told
<1>2. ASSUME NEW o \in Objects, WriteFile(o) \/ DeleteFile(o)
      PROVE  ModeInv'
  <2>1. /\ mode = "serving"
        /\ UNCHANGED <<queue, worker, watcher, scan, evictor, reader, mode>>
        /\ Notice(<<Changed(File(o))>>) \/ Notice(<<Removed(File(o))>>)
    BY <1>2 DEF WriteFile, DeleteFile
  <2>2. ~Told(NewDirectory) => ~Told(NewDirectory)'
    BY <2>1, NamesOf, EventsApart, EventsAfter
  <2> QED
    BY <2>1, <2>2
<1>3. CASE MakeDirectory
  BY <1>3 DEF MakeDirectory
<1>4. ASSUME NEW r \in Readers, NEW o \in Objects, OpenEvicted(r, o)
      PROVE  ModeInv'
  BY <1>4 DEF OpenEvicted, Told
<1>5. CASE Watch
  <2>1. mode = "serving"
    BY <1>5 DEF Watch, StatChanged, IndexChanged, OfferChanged, OfferRemoved, ScanDirectory,
      TypeOK
  <2>2. CASE StatChanged \/ OfferRemoved
    <3>1. /\ events # <<>> /\ Head(events).op # "dir" /\ events' = Tail(events)
          /\ watcher.pc = "idle" /\ watcher'.pc # "scanning"
          /\ UNCHANGED <<scan, mode>>
      BY <2>2 DEF StatChanged, OfferRemoved, Watching
    <3>2. ~Told(NewDirectory) => ~Told(NewDirectory)'
      BY <3>1, EventsAfter
    <3> QED
      BY <2>1, <3>1, <3>2
  <2>3. CASE IndexChanged \/ OfferChanged
    BY <2>1, <2>3 DEF IndexChanged, OfferChanged, Watching, TypeOK, Told
  <2>4. CASE ScanDirectory
    <3>1. "newdir" \in Environment
      <4>1. Head(events) \in Event /\ Told(Head(events)) /\ Head(events).op = "dir"
        BY <2>4, EventsAfter DEF ScanDirectory
      <4>2. Head(events) = NewDirectory
        BY <4>1 DEF Event, NewDirectory
      <4> QED
        BY <4>1, <4>2
    <3>2. watcher'.pc = "scanning" /\ mode' = mode
      BY <2>4, NamesUnderWay DEF ScanDirectory, Watching
    <3> QED
      BY <2>1, <3>1, <3>2
  <2> QED
    BY <1>5, <2>2, <2>3, <2>4 DEF Watch
<1>6. ASSUME NEW w \in Workers, Upload(w) \/ LoseUpload(w)
      PROVE  ModeInv'
  <2>1. mode # "stopped"
    BY <1>6 DEF Upload, TakeKey, HashFile, SendFile, LandUpload, MarkUploaded, ReleaseKey,
      LoseUpload, At, Idle
  <2>2. UNCHANGED <<events, watcher, scan, evictor, reader, mode>>
    BY <1>6 DEF Upload, TakeKey, HashFile, SendFile, LandUpload, MarkUploaded, ReleaseKey,
      LoseUpload
  <2> QED
    BY <2>1, <2>2 DEF Told
<1>7. CASE Scan \/ \E n \in Names : FailDelete(n)
  <2>1. scan.pc # "idle" /\ UNCHANGED <<events, evictor, reader>>
    BY <1>7, Zenon DEF Scan, VisitFile, AbortScan, FindGone, DeleteRemote, Forget, EndScan, FailDelete
  <2>2. mode # "stopped"
    BY <2>1
  <2>3. CASE ScanEnds
    BY <2>1, <2>2, <2>3 DEF ScanEnds, Unscanned, Watching, Told
  <2>4. CASE scan'.pc # "idle" /\ UNCHANGED <<mode, watcher>>
    BY <2>1, <2>2, <2>4 DEF Told
  <2>5. ScanEnds \/ (scan'.pc # "idle" /\ UNCHANGED <<mode, watcher>>)
    BY <1>7, Zenon DEF Scan, VisitFile, AbortScan, FindGone, DeleteRemote, Forget, EndScan,
      FailDelete, TypeOK
  <2> QED
    BY <2>3, <2>4, <2>5
<1>8. ASSUME NEW n \in Names, Sweep(n)
      PROVE  ModeInv'
  BY <1>8 DEF Sweep, Told
<1>9. CASE Evict
  <2>1. mode = "serving" /\ UNCHANGED <<queue, worker, watcher, scan, reader, mode>>
    BY <1>9 DEF Evict, CheckEvictable, RemoveFile, MarkEvicted, Resting
  <2>2. CASE events' = events
    BY <2>1, <2>2 DEF Told
  <2>3. CASE RemoveFile /\ Notice(<<Removed(evictor.name)>>)
    <3>1. evictor.name \in Names
      BY <2>3, NamesUnderWay DEF RemoveFile
    <3>2. ~Told(NewDirectory) => ~Told(NewDirectory)'
      BY <2>3, <3>1, EventsApart, EventsAfter
    <3> QED
      BY <2>1, <3>2
  <2>4. Notice(<<>>) => events' = events
    BY EventsAfter
  <2> QED
    BY <1>9, <2>2, <2>3, <2>4 DEF Evict, CheckEvictable, RemoveFile, MarkEvicted
<1>10. ASSUME NEW r \in Readers, Fetch(r) \/ FailGet(r) \/ DropTemp(r)
       PROVE  ModeInv'
  <2>1. /\ mode = "serving" /\ UNCHANGED <<queue, worker, watcher, scan, evictor, mode>>
        /\ reader[r].pc # "idle"
    BY <1>10 DEF Fetch, ReadEntry, JoinRecall, StopWaiting, GetObject, FailGet, FillTemp,
      DropTemp, RenameTemp, MarkRecalled, Away, TypeOK
  <2>2. reader[r].object \in Objects
    BY <2>1, ReaderStep
  <2> DEFINE o == reader[r].object
  <2>3. \/ events' = events
        \/ \E evs \in {<<Changed(Temp(o))>>, <<Removed(Temp(o))>>,
                       <<Removed(Temp(o)), Changed(File(o))>>} : Notice(evs)
    BY <1>10 DEF Fetch, ReadEntry, JoinRecall, StopWaiting, GetObject, FailGet, FillTemp,
      DropTemp, RenameTemp, MarkRecalled
  <2>4. o \in Objects /\ File(o) \in Names /\ Temp(o) \in Names
    BY <2>2, NamesOf
  <2> HIDE DEF o
  <2>5. ~Told(NewDirectory) => ~Told(NewDirectory)'
    <3>1. CASE events' = events
      BY <3>1 DEF Told
    <3>2. CASE events' # events
      BY <2>3, <2>4, <3>2, EventsApart, EventsAfter
    <3> QED
      BY <3>1, <3>2
  <2> QED
    BY <2>1, <2>5
<1>11. CASE Start
  BY <1>11 DEF Start, BeginScan, Unscanned, Told
<1>12. CASE Crash
  BY <1>12 DEF Crash, Unscanned, Watching, Told
<1> QED
  BY <1>1, <1>2, <1>3, <1>4, <1>5, <1>6, <1>7, <1>8, <1>9, <1>10, <1>11, <1>12
  DEF Next, WordPress

\* Without a ceiling no object is ever evicted, so none is recalled.
LEMMA UncachedStep ==
  ASSUME TypeOK, UncachedInv, [Next]_vars
  PROVE  UncachedInv'
<1> SUFFICES ASSUME ~Caching PROVE UncachedInv'
  BY DEF UncachedInv
<1>1. /\ evictor = Resting /\ \A n \in Names : ~InState(n, "evicted")
      /\ \A r \in Readers : reader[r] = Away
  BY DEF UncachedInv
<1>2. /\ \A r \in Readers : reader[r].pc = "idle"
      /\ evictor.pc = "idle"
      /\ \A o \in Objects : ~InState(File(o), "evicted")
  BY <1>1, NamesOf DEF Away, Resting
<1>3. UNCHANGED <<reader, evictor>> \/ Crash
  BY <1>2, Writers DEF Evict, RemoveFile, MarkEvicted, CheckEvictable, Fetch, ReadEntry,
    JoinRecall, StopWaiting, GetObject, FailGet, FillTemp, DropTemp, RenameTemp, MarkRecalled,
    OpenEvicted
<1>4. \A n \in Names : ~InState(n, "evicted")'
  <2>1. CASE entry' = entry
    BY <1>1, <2>1 DEF InState
  <2>2. ASSUME NEW m \in Names, SetState(m, "synced")
        PROVE  \A n \in Names : ~InState(n, "evicted")'
    BY <1>1, <2>2, SetStateIs DEF InState
  <2>3. ASSUME NEW m \in Names, NEW t \in Nat, MarkDirty(m, t)
        PROVE  \A n \in Names : ~InState(n, "evicted")'
    BY <1>1, <2>3, MarkDirtyIs DEF InState
  <2>4. CASE Forget
    <3>1. entry' = [entry EXCEPT ![scan.cur] = None] /\ entry \in [Names -> Entry \cup {None}]
      BY <2>4 DEF Forget, TypeOK
    <3>2. ASSUME NEW n \in Names PROVE entry'[n] = None \/ entry'[n] = entry[n]
      BY <3>1
    <3> QED
      BY <1>1, <3>2 DEF InState
  <2>5. CASE IndexChanged
    BY <2>3, <2>5, NamesUnderWay DEF IndexChanged
  <2>6. ASSUME NEW n \in Names, VisitFile(n) PROVE entry' = entry \/ MarkDirty(n, file[n].mtime)
    BY <2>6 DEF VisitFile
  <2>7. ASSUME NEW n \in Names, VisitFile(n) PROVE file[n].mtime \in Nat
    BY <2>7 DEF VisitFile, TypeOK, Content
  <2>8. ASSUME NEW w \in Workers, MarkUploaded(w)
        PROVE  worker[w].name \in Names /\ SetState(worker[w].name, "synced")
    BY <2>8, BusyWorker DEF MarkUploaded, At
  <2> QED
    BY <1>2, <2>1, <2>2, <2>3, <2>4, <2>5, <2>6, <2>7, <2>8, Writers DEF MarkEvicted, MarkRecalled
<1> QED
  BY <1>1, <1>3, <1>4 DEF UncachedInv, Crash

\* The index forgets only what a scan found gone (Agent.Scan).
LEMMA EntryStays ==
  ASSUME TypeOK, [Next]_vars, ~Forget
  PROVE  \A n \in Names : entry[n] # None => entry'[n] # None
<1>1. CASE entry' = entry
  BY <1>1
<1>2. ASSUME NEW m \in Names, NEW s \in {"dirty", "synced", "evicted"}, SetState(m, s)
      PROVE  \A n \in Names : entry[n] # None => entry'[n] # None
  BY <1>2, SetStateIs
<1>3. ASSUME NEW m \in Names, NEW t \in Nat, MarkDirty(m, t)
      PROVE  \A n \in Names : entry[n] # None => entry'[n] # None
  BY <1>3, MarkDirtyIs
<1>4. CASE IndexChanged
  BY <1>3, <1>4, NamesUnderWay DEF IndexChanged
<1>5. ASSUME NEW n \in Names, VisitFile(n)
      PROVE  entry' = entry \/ (file[n].mtime \in Nat /\ MarkDirty(n, file[n].mtime))
  BY <1>5 DEF VisitFile, TypeOK, Content
<1>6. ASSUME NEW w \in Workers, MarkUploaded(w)
      PROVE  worker[w].name \in Names /\ SetState(worker[w].name, "synced")
  BY <1>6, BusyWorker DEF MarkUploaded, At
<1>7. CASE MarkEvicted
  BY <1>2, <1>7, NamesUnderWay DEF MarkEvicted
<1>8. ASSUME NEW r \in Readers, MarkRecalled(r)
      PROVE  File(reader[r].object) \in Names /\ SetState(File(reader[r].object), "synced")
  BY <1>8, ReaderStep, NamesOf DEF MarkRecalled
<1> QED
  BY <1>1, <1>2, <1>3, <1>4, <1>5, <1>6, <1>7, <1>8, Writers

\* Only WordPress, an eviction or a recall touches the directory.
LEMMA FilesStay ==
  ASSUME [Next]_vars
  PROVE  \/ file' = file
         \/ mode = "serving" /\ \E o \in Objects : WriteFile(o) \/ DeleteFile(o)
         \/ RemoveFile
         \/ \E r \in Readers : FillTemp(r) \/ DropTemp(r) \/ RenameTemp(r)
BY Writers

\* While a scan runs, only WordPress touches the directory, and only files
\* nobody is uploading.
LEMMA FilesStill ==
  ASSUME NotedAssumption, TypeOK, ModeInv, UncachedInv, [Next]_vars
  PROVE  /\ mode = "starting" => file' = file
         /\ "newdir" \in Environment => \A n \in Pending \cap Names : file'[n] = file[n]
<1>1. mode = "starting" => file' = file
  <2> SUFFICES ASSUME mode = "starting" PROVE file' = file
    OBVIOUS
  <2>1. evictor = Resting /\ \A r \in Readers : reader[r] = Away
    BY DEF ModeInv
  <2>2. ~RemoveFile /\ \A r \in Readers : ~FillTemp(r) /\ ~DropTemp(r) /\ ~RenameTemp(r)
    BY <2>1 DEF RemoveFile, FillTemp, DropTemp, RenameTemp, Resting, Away
  <2> QED
    BY <2>2, FilesStay
<1>2. ASSUME "newdir" \in Environment, NEW n \in Pending, n \in Names
      PROVE  file'[n] = file[n]
  <2>1. /\ evictor = Resting /\ \A r \in Readers : reader[r] = Away
        /\ "rewrite" \notin Environment
    BY <1>2 DEF NotedAssumption, UncachedInv
  <2>2. ~RemoveFile /\ \A r \in Readers : ~FillTemp(r) /\ ~DropTemp(r) /\ ~RenameTemp(r)
    BY <2>1 DEF RemoveFile, FillTemp, DropTemp, RenameTemp, Resting, Away
  <2>3. ASSUME NEW o \in Objects, WriteFile(o) \/ DeleteFile(o)
        PROVE  file'[n] = file[n]
    <3>1. n # File(o)
      BY <1>2, <2>1, <2>3 DEF WriteFile, DeleteFile, MayChange, Settled
    <3>2. file \in [Names -> Content \cup {None}]
      BY DEF TypeOK
    <3> QED
      BY <1>2, <2>3, <3>1, <3>2 DEF WriteFile, DeleteFile
  <2> QED
    BY <2>2, <2>3, FilesStay
<1> QED
  BY <1>1, <1>2

\* The listing of the directory a scan begins with.
LEMMA ScanBegins ==
  ASSUME TypeOK, BeginScan, file' = file
  PROVE  ScanInv'
<1>1. /\ scan'.pc = "walk" /\ scan'.todo = {n \in Names : file[n] # None}
  BY DEF BeginScan, Unscanned
<1> QED
  BY <1>1 DEF ScanInv

\* What a scan has found gone stays gone and known until it is forgotten: a
\* file is written only where the scan will not delete it.
LEMMA ScanStep ==
  ASSUME NotedAssumption, TypeOK, ModeInv, UncachedInv, ScanInv, KnownInv, [Next]_vars
  PROVE  ScanInv'
<1>1. /\ file \in [Names -> Content \cup {None}] /\ entry \in [Names -> Entry \cup {None}]
      /\ store \in [Names -> Nat \cup {None}]
      /\ scan.todo \in SUBSET Names /\ scan.seen \in SUBSET Names
      /\ scan.pc \in {"idle", "walk", "gone", "forget"}
      /\ scan.pc = "forget" => scan.cur \in Names
      /\ None \notin Content
  BY NoneAssumption DEF TypeOK
<1>2. Going \in SUBSET Names
  BY <1>1 DEF Going
<1>3. CASE UNCHANGED <<file, entry, store, scan, mode>>
  BY <1>3 DEF ScanInv, Going, InState
<1>4. CASE scan'.pc = "idle"
  BY <1>4 DEF ScanInv
<1>5. ASSUME NEW o \in Objects, WriteFile(o) \/ DeleteFile(o), scan.pc # "idle"
      PROVE  ScanInv'
  <2>1. /\ UNCHANGED <<entry, store, scan, mode>> /\ mode = "serving"
        /\ \A n \in Names : n # File(o) => file'[n] = file[n]
        /\ File(o) \in Names /\ Settled(File(o))
    <3>1. mode = "serving"
      BY <1>5 DEF WriteFile, DeleteFile
    <3>2. "rewrite" \notin Environment
      BY <1>5, <3>1, ScanAlone
    <3> QED
      BY <1>1, <1>5, <3>1, <3>2, NamesOf DEF WriteFile, DeleteFile, MayChange
  <2>2. CASE DeleteFile(o)
    <3>1. file'[File(o)] = None
      BY <1>1, <2>1, <2>2 DEF DeleteFile
    <3>2. \A n \in Names : file[n] = None => file'[n] = None
      BY <2>1, <3>1
    <3> QED
      BY <1>2, <2>1, <3>2 DEF ScanInv, Going, InState
  <2>3. CASE WriteFile(o)
    <3>1. \/ entry[File(o)] = None \/ File(o) \in scan.seen
          \/ scan.pc = "walk" /\ File(o) \in scan.todo
      BY <1>5, <2>1 DEF Settled
    <3>2. scan.pc \in {"gone", "forget"} => File(o) \notin Going
      BY <3>1 DEF ScanInv
    <3>3. scan.pc = "walk" => \A n \in Names \ (scan.todo \cup scan.seen) :
            file'[n] = None \/ (entry[n] = None /\ mode = "serving")
      BY <2>1, <3>1 DEF ScanInv
    <3>4. scan.pc \in {"gone", "forget"} => \A n \in Going : file'[n] = file[n]
      BY <1>2, <2>1, <3>2
    <3> QED
      BY <2>1, <3>3, <3>4 DEF ScanInv, Going, InState
  <2> QED
    BY <1>5, <2>2, <2>3
<1>6. CASE Watch
  <2>1. CASE scan.pc # "idle"
    <3>1. watcher.pc \notin {"seen", "indexed"} /\ (watcher.pc = "idle" => mode = "starting")
          /\ mode \in {"starting", "serving"}
      BY <2>1, ScanAlone
    <3> QED
      BY <1>6, <3>1 DEF Watch, StatChanged, IndexChanged, OfferChanged, OfferRemoved,
        ScanDirectory
  <2>2. CASE scan.pc = "idle"
    <3>1. CASE ScanDirectory
      BY <3>1, ScanBegins DEF ScanDirectory
    <3>2. CASE ~ScanDirectory
      BY <1>4, <1>6, <2>2, <3>2 DEF Watch, StatChanged, IndexChanged, OfferChanged, OfferRemoved
    <3> QED
      BY <3>1, <3>2
  <2> QED
    BY <2>1, <2>2
<1>7. ASSUME NEW w \in Workers, LandUpload(w)
      PROVE  ScanInv'
  <2>1. /\ UNCHANGED <<file, entry, scan, mode>>
        /\ store' = [store EXCEPT ![worker[w].name] = worker[w].body]
        /\ Busy(w) /\ worker[w].name \in Names /\ worker[w].name \in Pending
    BY <1>7, BusyWorker DEF LandUpload, At, Busy, Pending
  <2>2. scan.pc = "forget" => store'[scan.cur] = None
    <3> SUFFICES ASSUME scan.pc = "forget" PROVE store'[scan.cur] = None
      OBVIOUS
    <3>1. file[scan.cur] = None /\ store[scan.cur] = None
      BY DEF ScanInv, Going
    <3>2. file[worker[w].name] # None
      <4>1. mode = "starting" \/ "newdir" \in Environment
        BY ScanAlone
      <4> QED
        BY <2>1, <4>1, NamesUnderWay DEF KnownInv
    <3> QED
      BY <1>1, <2>1, <3>1, <3>2
  <2> QED
    BY <2>1, <2>2 DEF ScanInv, Going, InState
<1>8. ASSUME NEW w \in Workers, MarkUploaded(w)
      PROVE  ScanInv'
  <2>1. /\ UNCHANGED <<file, store, scan, mode>>
        /\ SetState(worker[w].name, "synced") /\ worker[w].name \in Names
    BY <1>8, BusyWorker DEF MarkUploaded, At
  <2>2. \A n \in Names : /\ entry'[n] = None <=> entry[n] = None
                         /\ InState(n, "evicted")' => InState(n, "evicted")
    BY <2>1, SetStateIs DEF InState
  <2> QED
    BY <1>2, <2>1, <2>2 DEF ScanInv, Going
<1>9. ASSUME NEW n \in Names, VisitFile(n)
      PROVE  ScanInv'
  <2>1. /\ scan.pc = "walk" /\ scan'.pc = "walk" /\ UNCHANGED <<file, mode>>
        /\ scan'.todo \cup scan'.seen = scan.todo \cup scan.seen
        /\ n \in scan.todo
    BY <1>1, <1>9 DEF VisitFile, TypeOK
  <2>2. \A m \in Names : m # n => entry'[m] = entry[m]
    <3>1. CASE entry' = entry
      BY <3>1
    <3>2. CASE MarkDirty(n, file[n].mtime)
      <4>1. file[n].mtime \in Nat
        BY <1>9 DEF VisitFile, TypeOK, Content
      <4> QED
        BY <3>2, <4>1, MarkDirtyIs
    <3> QED
      BY <1>9, <3>1, <3>2 DEF VisitFile
  <2> QED
    BY <2>1, <2>2 DEF ScanInv
<1>10. CASE FindGone
  <2>1. /\ scan.pc = "walk" /\ scan.todo = {} /\ scan'.pc = "gone" /\ scan'.seen = scan.seen
        /\ scan'.todo = {n \in Names \ scan.seen : entry[n] # None /\ ~InState(n, "evicted")}
        /\ UNCHANGED <<file, entry, store, mode>>
    BY <1>10 DEF FindGone, TypeOK
  <2>2. Going' = scan'.todo
    BY <2>1 DEF Going
  <2> QED
    BY <2>1, <2>2 DEF ScanInv, InState
<1>11. ASSUME NEW n \in Names, DeleteRemote(n)
       PROVE  ScanInv'
  <2>1. /\ scan.pc = "gone" /\ n \in scan.todo /\ scan'.pc = "forget" /\ scan'.seen = scan.seen
        /\ scan'.todo = scan.todo \ {n} /\ scan'.cur = n
        /\ store'[n] = None /\ UNCHANGED <<file, entry, mode>>
    BY <1>1, <1>11 DEF DeleteRemote, TypeOK
  <2>2. Going' = Going
    BY <2>1 DEF Going
  <2> QED
    BY <2>1, <2>2 DEF ScanInv, InState
<1>12. ASSUME NEW n \in Names, FailDelete(n)
       PROVE  ScanInv'
  <2>1. /\ scan.pc = "gone" /\ scan'.pc = "gone" /\ scan'.seen = scan.seen
        /\ scan'.todo = scan.todo \ {n}
        /\ UNCHANGED <<file, entry, mode>>
    BY <1>12 DEF FailDelete, TypeOK
  <2>2. Going' \subseteq Going
    BY <2>1 DEF Going
  <2> QED
    BY <2>1, <2>2 DEF ScanInv, InState
<1>13. CASE Forget
  <2>1. /\ scan.pc = "forget" /\ scan'.pc = "gone" /\ scan'.seen = scan.seen
        /\ scan'.todo = scan.todo /\ UNCHANGED <<file, store, mode>>
        /\ \A n \in Names : n # scan.cur => entry'[n] = entry[n]
    BY <1>1, <1>13 DEF Forget, TypeOK
  <2>2. Going' = Going \ {scan.cur}
    BY <2>1 DEF Going, ScanInv
  <2>3. \A n \in Going' : entry'[n] = entry[n]
    BY <1>2, <2>1, <2>2
  <2> QED
    BY <2>1, <2>2, <2>3 DEF ScanInv, InState
<1>14. CASE Start
  BY <1>14, ScanBegins DEF Start
<1>15. CASE Evict \/ \E r \in Readers : Fetch(r) \/ FailGet(r) \/ DropTemp(r)
                                         \/ \E o \in Objects : OpenEvicted(r, o)
  <2>1. CASE scan.pc = "idle"
    BY <1>4, <1>15, <2>1 DEF Evict, CheckEvictable, RemoveFile, MarkEvicted, Fetch, ReadEntry,
      JoinRecall, StopWaiting, GetObject, FailGet, FillTemp, DropTemp, RenameTemp, MarkRecalled,
      OpenEvicted
  <2>2. CASE scan.pc # "idle"
    <3>1. evictor.pc = "idle" /\ \A r \in Readers : reader[r].pc = "idle"
      BY <2>2, ScanAlone DEF Resting, Away
    <3>2. UNCHANGED <<file, entry, store, scan, mode>>
      BY <1>15, <3>1 DEF Evict, CheckEvictable, RemoveFile, MarkEvicted, Fetch, ReadEntry,
        JoinRecall, StopWaiting, GetObject, FailGet, FillTemp, DropTemp, RenameTemp,
        MarkRecalled, OpenEvicted
    <3> QED
      BY <1>3, <3>2
  <2> QED
    BY <2>1, <2>2
<1>16. CASE Crash
  BY <1>4, <1>16 DEF Crash, Unscanned
<1>17. CASE EndScan \/ \E n \in Names : AbortScan(n)
  BY <1>4, <1>17 DEF EndScan, AbortScan, ScanEnds, Unscanned
<1>18. ASSUME NEW o \in Objects, WriteFile(o) \/ DeleteFile(o)
       PROVE  ScanInv'
  BY <1>4, <1>5, <1>18 DEF WriteFile, DeleteFile
<1>19. CASE MakeDirectory \/ \E n \in Names : Sweep(n)
  BY <1>3, <1>19 DEF MakeDirectory, Sweep
<1>20. ASSUME NEW w \in Workers, Upload(w) \/ LoseUpload(w)
       PROVE  ScanInv'
  BY <1>3, <1>7, <1>8, <1>20 DEF Upload, TakeKey, HashFile, SendFile, ReleaseKey, LoseUpload
<1>21. CASE UNCHANGED vars
  BY <1>3, <1>21 DEF vars
<1>22. CASE WordPress
  BY <1>15, <1>18, <1>19, <1>22 DEF WordPress
<1>23. CASE Scan
  BY <1>9, <1>10, <1>11, <1>13, <1>17, <1>23 DEF Scan
<1> QED
  BY <1>6, <1>12, <1>14, <1>15, <1>16, <1>19, <1>20, <1>21, <1>22, <1>23 DEF Next

\* A worker goes through its upload step by step, with the file's body in hand
\* from the hash on (Agent.upload).
LEMMA WorkerMoves ==
  ASSUME TypeOK, [Next]_vars, NEW w \in Workers, worker'[w].pc \in {"hash", "send", "sent", "landed"}
  PROVE  \/ worker'[w] = worker[w]
         \/ /\ worker'[w].name \in Queued /\ worker'[w].pc = "hash"
            /\ InState(worker'[w].name, "dirty")
            /\ UNCHANGED <<file, entry, store, latest, mode>>
         \/ /\ worker'[w].name = worker[w].name /\ UNCHANGED <<file, entry, latest, mode>>
            /\ \/ /\ worker[w].pc = "hash" /\ worker'[w].pc = "send"
                  /\ file[worker[w].name] # None
                  /\ worker'[w].body = file[worker[w].name].body
                  /\ store' = store
               \/ Busy(w) /\ worker'[w].pc = "hash" /\ store' = store
               \/ /\ worker[w].pc = "send" /\ worker'[w].pc = "sent"
                  /\ worker'[w].body = worker[w].body /\ store' = store
               \/ /\ worker[w].pc = "sent" /\ worker'[w].pc = "landed"
                  /\ worker'[w].body = worker[w].body
                  /\ store' = [store EXCEPT ![worker[w].name] = worker[w].body]
<1>1. CASE worker' = worker
  BY <1>1
<1>2. worker \in [Workers -> WorkerType]
  BY DEF TypeOK, WorkerType
<1>3. ASSUME NEW v \in Workers, v # w, Upload(v) \/ LoseUpload(v)
      PROVE  worker'[w] = worker[w]
  BY <1>2, <1>3 DEF Upload, TakeKey, HashFile, SendFile, LandUpload, MarkUploaded, ReleaseKey,
    LoseUpload, Goes, Retry
<1>4. CASE Crash
  <2>1. worker'[w].pc = "idle"
    BY <1>4 DEF Crash, Idle
  <2> QED
    BY <2>1
<1>5. CASE TakeKey(w)
  <2>1. Head(queue) \in Queued
    BY <1>5 DEF TakeKey, TypeOK, Queued
  <2> QED
    BY <1>2, <1>5, <2>1 DEF TakeKey, users
<1>6. ASSUME worker[w] \in [pc : {"hash", "send", "sent", "landed", "done"}, name : Names,
                            body : Nat, attempt : 1..MaxAttempts],
             HashFile(w) \/ SendFile(w) \/ LandUpload(w) \/ MarkUploaded(w) \/ LoseUpload(w)
      PROVE  /\ worker'[w].name = worker[w].name /\ UNCHANGED <<file, entry, latest, mode>>
             /\ \/ /\ worker[w].pc = "hash" /\ worker'[w].pc = "send"
                   /\ file[worker[w].name] # None
                   /\ worker'[w].body = file[worker[w].name].body
                   /\ store' = store
                \/ Busy(w) /\ worker'[w].pc = "hash" /\ store' = store
                \/ /\ worker[w].pc = "send" /\ worker'[w].pc = "sent"
                   /\ worker'[w].body = worker[w].body /\ store' = store
                \/ /\ worker[w].pc = "sent" /\ worker'[w].pc = "landed"
                   /\ worker'[w].body = worker[w].body
                   /\ store' = [store EXCEPT ![worker[w].name] = worker[w].body]
  <2>1. CASE HashFile(w)
    BY <1>2, <1>6, <2>1 DEF HashFile, At, users
  <2>2. CASE SendFile(w)
    BY <1>2, <1>6, <2>2 DEF SendFile, At, Goes, Retry, Busy, users
  <2>3. CASE LandUpload(w)
    BY <1>2, <1>6, <2>3 DEF LandUpload, At, Goes, users
  <2>4. CASE MarkUploaded(w)
    BY <1>2, <1>6, <2>4 DEF MarkUploaded, At, Goes
  <2>5. CASE LoseUpload(w)
    BY <1>2, <1>6, <2>5 DEF LoseUpload, At, Goes, Retry, Busy, users
  <2> QED
    BY <1>6, <2>1, <2>2, <2>3, <2>4, <2>5
<1>7. CASE HashFile(w) \/ SendFile(w) \/ LandUpload(w) \/ MarkUploaded(w) \/ LoseUpload(w)
  <2>1. worker[w].pc # "idle"
    BY <1>7 DEF HashFile, SendFile, LandUpload, MarkUploaded, LoseUpload, At
  <2>2. worker[w] \in [pc : {"hash", "send", "sent", "landed", "done"}, name : Names,
                       body : Nat, attempt : 1..MaxAttempts]
    BY <2>1 DEF TypeOK, Idle
  <2> QED
    BY <1>6, <1>7, <2>2
<1>8. CASE ReleaseKey(w)
  BY <1>2, <1>8 DEF ReleaseKey, Idle
<1>9. CASE \E v \in Workers : Upload(v) \/ LoseUpload(v)
  BY <1>3, <1>5, <1>7, <1>8, <1>9 DEF Upload
<1>10. worker' = worker \/ Crash \/ \E v \in Workers : Upload(v) \/ LoseUpload(v)
  BY Writers
<1> QED
  BY <1>1, <1>4, <1>9, <1>10

\* A worker's key is the one it had, or a queued one that is dirty.
LEMMA WorkerNames ==
  ASSUME TypeOK, [Next]_vars, NEW w \in Workers
  PROVE  /\ worker'[w].name \in Pending \cup {None}
         /\ \/ worker'[w].name \in {worker[w].name, None}
            \/ InState(worker'[w].name, "dirty") /\ UNCHANGED <<file, entry>>
<1>0. worker[w].name \in Pending
  BY DEF Pending
<1>1. CASE worker' = worker
  BY <1>0, <1>1
<1>2. worker \in [Workers -> WorkerType]
  BY DEF TypeOK, WorkerType
<1>3. CASE \E v \in Workers : Upload(v) \/ LoseUpload(v)
  <2>0. PICK v \in Workers : Upload(v) \/ LoseUpload(v)
    BY <1>3
  <2>1. CASE TakeKey(v)
    <3>1. Head(queue) \in Pending /\ UNCHANGED <<file, entry>>
      BY <2>1 DEF TakeKey, TypeOK, Queued, Pending
    <3>2. worker'[w] = worker[w] \/ (worker'[w].name = Head(queue) /\ InState(Head(queue), "dirty"))
      BY <1>2, <2>1 DEF TakeKey
    <3> QED
      BY <1>0, <3>1, <3>2
  <2>2. CASE ReleaseKey(v)
    BY <1>0, <1>2, <2>2 DEF ReleaseKey, Idle
  <2>3. CASE HashFile(v) \/ SendFile(v) \/ LandUpload(v) \/ LoseUpload(v) \/ MarkUploaded(v)
    <3>1. worker[v] # Idle
      BY <2>3 DEF HashFile, SendFile, LandUpload, LoseUpload, MarkUploaded, At, Idle
    <3> QED
      BY <1>0, <2>3, <3>1, KeepsKey
  <2> QED
    BY <2>0, <2>1, <2>2, <2>3 DEF Upload
<1>4. CASE Crash
  BY <1>4 DEF Crash, Idle
<1>5. worker' = worker \/ Crash \/ \E v \in Workers : Upload(v) \/ LoseUpload(v)
  BY Writers
<1> QED
  BY <1>1, <1>3, <1>4, <1>5

\* At the start only what the scan has visited is pending.
LEMMA StartingPending ==
  ASSUME TypeOK, ModeInv, KnownInv, [Next]_vars, mode' = "starting"
  PROVE  \A n \in Pending' : n = None \/ file[n] # None
<1>1. CASE Start
  <2>1. queue' = <<>> /\ \A w \in Workers : worker'[w] = Idle
    BY <1>1 DEF Start, ModeInv
  <2> QED
    BY <2>1 DEF Pending, Queued, Idle
<1>2. CASE ~Start
  <2>1. mode = "starting"
    BY <1>2, Writers, Zenon DEF EndScan, AbortScan, ScanEnds, ScanDirectory, FindGone, Forget, VisitFile,
      DeleteRemote, FailDelete, Crash
  <2>2. \A n \in Pending : n = None \/ file[n] # None
    BY <2>1 DEF KnownInv
  <2>3. \A w \in Workers : worker'[w].name = None \/ file[worker'[w].name] # None
    BY <2>2, WorkerNames
  <2>4. \A n \in Queued' : n = None \/ file[n] # None
    <3>1. CASE queue' = queue
      BY <2>2, <3>1 DEF Pending, Queued
    <3>2. ASSUME NEW n \in Names, VisitFile(n), Enqueue(n)
          PROVE  \A m \in Queued' : m = None \/ file[m] # None
      BY <2>2, <3>2, EnqueueIs DEF VisitFile, Pending
    <3>3. ASSUME NEW w \in Workers, TakeKey(w)
          PROVE  Queued' \subseteq Queued
      <4>1. /\ queue \in Seq(Names) /\ queue # <<>> /\ queue' = Tail(queue)
        BY <3>3 DEF TypeOK, TakeKey
      <4>2. /\ DOMAIN queue = 1..Len(queue) /\ DOMAIN queue' = 1..(Len(queue) - 1)
            /\ \A i \in DOMAIN queue' : i + 1 \in DOMAIN queue /\ queue'[i] = queue[i + 1]
        BY <4>1
      <4> QED
        BY <4>2 DEF Queued
    <3>4. CASE \E w \in Workers : TakeKey(w)
      BY <2>2, <3>3, <3>4 DEF Pending
    <3>5. /\ watcher.pc = "idle" /\ mode # "serving"
      BY <2>1 DEF ModeInv
    <3>6. ~Crash
      BY DEF Crash
    <3>7. \/ queue' = queue \/ \E n \in Names : VisitFile(n) /\ Enqueue(n)
          \/ \E w \in Workers : TakeKey(w)
      BY <1>2, <3>5, <3>6, Writers DEF OfferChanged, OfferRemoved, Sweep, VisitFile
    <3> QED
      BY <3>1, <3>2, <3>4, <3>7
  <2> QED
    BY <2>3, <2>4 DEF Pending
<1> QED
  BY <1>1, <1>2

\* What is stored and what is on its way there stays known: a scan forgets only
\* what it has deleted and nobody is sending.
LEMMA KnownStep ==
  ASSUME NotedAssumption, TypeOK, ModeInv, UncachedInv, ScanInv, KnownInv, [Next]_vars
  PROVE  KnownInv'
<1>1. /\ entry \in [Names -> Entry \cup {None}] /\ store \in [Names -> Nat \cup {None}]
      /\ entry' \in [Names -> Entry \cup {None}]
      /\ scan.pc = "forget" => scan.cur \in Names
  <2>1. TypeOK'
    BY TypeStep
  <2> QED
    BY <2>1 DEF TypeOK
<1>7. Forget => /\ scan.pc = "forget" /\ file[scan.cur] = None /\ store[scan.cur] = None
                /\ entry' = [entry EXCEPT ![scan.cur] = None]
                /\ UNCHANGED <<store, file, worker>>
                /\ mode = "starting" \/ "newdir" \in Environment
  <2> SUFFICES ASSUME Forget
               PROVE  /\ scan.pc = "forget" /\ file[scan.cur] = None /\ store[scan.cur] = None
                      /\ entry' = [entry EXCEPT ![scan.cur] = None]
                      /\ UNCHANGED <<store, file, worker>>
                      /\ mode = "starting" \/ "newdir" \in Environment
    OBVIOUS
  <2>1. scan.pc = "forget"
    BY DEF Forget
  <2>2. mode = "starting" \/ "newdir" \in Environment
    BY <2>1, ScanAlone
  <2> QED
    BY <2>1, <2>2 DEF ScanInv, Going, Forget
<1>2. \A w \in Workers : worker'[w].pc # "idle" =>
        worker'[w].name \in Names /\ worker'[w].name \in Pending
  <2> SUFFICES ASSUME NEW w \in Workers, worker'[w].pc # "idle"
               PROVE  worker'[w].name \in Names /\ worker'[w].name \in Pending
    OBVIOUS
  <2>1. TypeOK'
    BY TypeStep
  <2>2. worker'[w].name \in Names
    BY <2>1 DEF TypeOK, Idle
  <2> QED
    BY <2>2, WorkerNames, NamesUnderWay
<1>3. \A w \in Workers : worker[w].pc # "idle" => worker[w].name \in Names /\ worker[w].name \in Pending
  BY BusyWorker DEF Pending
<1>4. ASSUME NEW n \in Names, store'[n] # None
      PROVE  entry'[n] # None
  <2>1. CASE Forget
    BY <1>1, <1>7, <1>4, <2>1 DEF KnownInv
  <2>2. ASSUME ~Forget, entry[n] # None PROVE entry'[n] # None
    BY <2>2, EntryStays
  <2>3. ASSUME NEW w \in Workers, LandUpload(w) PROVE entry[n] # None
    <3>1. Busy(w) /\ store' = [store EXCEPT ![worker[w].name] = worker[w].body]
      BY <2>3 DEF LandUpload, At, Busy
    <3>2. n = worker[w].name \/ store'[n] = store[n]
      BY <1>1, <3>1
    <3> QED
      BY <1>4, <3>1, <3>2 DEF KnownInv
  <2>4. ASSUME ~ \E w \in Workers : LandUpload(w) PROVE entry[n] # None
    <3>1. store' = store \/ \E m \in Names : store' = [store EXCEPT ![m] = None]
      BY <2>4, Writers DEF DeleteRemote, FailDelete
    <3>2. store[n] # None
      BY <1>1, <1>4, <3>1
    <3> QED
      BY <3>2 DEF KnownInv
  <2> QED
    BY <2>1, <2>2, <2>3, <2>4
<1>5. ASSUME NEW w \in Workers, worker'[w].pc \in {"hash", "send", "sent", "landed"}
      PROVE  /\ Busy(w)' => entry'[worker'[w].name] # None
             /\ worker'[w].pc = "hash" =>
                  \/ entry'[worker'[w].name] # None
                  \/ "newdir" \in Environment /\ file'[worker'[w].name] = None
             /\ Busy(w)' /\ "newdir" \in Environment => file'[worker'[w].name] # None
  <2> DEFINE n == worker'[w].name
  <2>0. n \in Names /\ n \in Pending
    BY <1>2, <1>5
  <2>1. CASE worker'[w] = worker[w]
    <3>1. "newdir" \in Environment => file'[n] = file[n]
      BY <2>0, FilesStill
    <3>2. CASE ~Forget
      <4>1. entry[n] # None => entry'[n] # None
        BY <2>0, <3>2, EntryStays
      <4> QED
        BY <2>1, <3>1, <4>1 DEF KnownInv, Busy
    <3>3. CASE Forget
      <4>1. mode = "starting" => file[n] # None
        BY <2>0, NamesUnderWay DEF KnownInv
      <4>2. CASE n = scan.cur
        <5>1. file[n] = None /\ "newdir" \in Environment
          BY <1>1, <1>7, <3>3, <4>1, <4>2
        <5> QED
          BY <2>1, <3>1, <5>1 DEF KnownInv, Busy
      <4>3. CASE n # scan.cur
        <5>1. entry'[n] = entry[n]
          BY <1>1, <1>7, <2>0, <3>3, <4>3
        <5> QED
          BY <2>1, <3>1, <5>1 DEF KnownInv, Busy
      <4> QED
        BY <4>2, <4>3
    <3> QED
      BY <3>2, <3>3
  <2>2. CASE worker'[w].pc = "hash" /\ InState(n, "dirty") /\ entry' = entry
    BY <2>2 DEF InState, Busy
  <2>3. CASE n = worker[w].name /\ UNCHANGED <<file, entry>>
    <3>1. CASE worker[w].pc = "hash" /\ worker'[w].pc = "send" /\ file[n] # None
      BY <2>3, <3>1 DEF KnownInv, Busy
    <3>2. CASE Busy(w)
      BY <2>3, <3>2 DEF KnownInv
    <3>3. \/ worker[w].pc = "hash" /\ worker'[w].pc = "send" /\ file[n] # None
          \/ Busy(w) \/ worker'[w] = worker[w]
          \/ worker'[w].pc = "hash" /\ InState(n, "dirty") /\ entry' = entry
      BY <1>5, <2>3, WorkerMoves DEF Busy
    <3> QED
      BY <2>1, <2>2, <3>1, <3>2, <3>3
  <2> QED
    BY <1>5, <2>1, <2>2, <2>3, WorkerMoves
<1>6. mode' = "starting" => \A n \in Pending' : n = None \/ file'[n] # None
  <2> SUFFICES ASSUME mode' = "starting" PROVE \A n \in Pending' : n = None \/ file'[n] # None
    OBVIOUS
  <2>1. file' = file
    <3>1. mode = "starting" \/ Start
      BY Writers, Zenon DEF EndScan, AbortScan, ScanEnds, ScanDirectory, FindGone, Forget, VisitFile,
        DeleteRemote, FailDelete, Crash
    <3> QED
      BY <3>1, FilesStill DEF Start
  <2> QED
    BY <2>1, StartingPending
<1> QED
  BY <1>4, <1>5, <1>6 DEF KnownInv, Busy

\* The directory, the index and the store agree on what exists.
LEMMA DirectoryInvariant ==
  ASSUME NotedAssumption
  PROVE  Spec => []DirectoryInv
<1>1. Init => DirectoryInv
  <2> SUFFICES ASSUME Init PROVE DirectoryInv
    OBVIOUS
  <2>1. TypeOK
    BY BoundsAssumption DEF Init, TypeOK, Unscanned
  <2>2. ModeInv /\ UncachedInv /\ ScanInv
    BY DEF Init, ModeInv, UncachedInv, ScanInv, Unscanned, Watching, Told, InState
  <2>3. KnownInv
    BY DEF Init, KnownInv, Busy, Idle
  <2> QED
    BY <2>1, <2>2, <2>3 DEF DirectoryInv
<1>2. DirectoryInv /\ [Next]_vars => DirectoryInv'
  BY TypeStep, ModeStep, UncachedStep, ScanStep, KnownStep DEF DirectoryInv
<1> QED
  BY <1>1, <1>2, PTL DEF Spec

\* Nothing is on the store that no scan could find: for any number of objects,
\* workers and readers and in any order of writes, deletions, evictions,
\* failures and crashes, if directories appear only where there is no ceiling
\* and files are settled (Agent.Scan, Agent.upload).
THEOREM AgentNoZombies ==
  ASSUME NotedAssumption
  PROVE  Spec => []NoZombies
<1>1. DirectoryInv => NoZombies
  BY DEF DirectoryInv, KnownInv, NoZombies
<1> QED
  BY <1>1, DirectoryInvariant, PTL

-----------------------------------------------------------------------------
(***************************************************************************)
(* Nothing that was written is lost.                                       *)
(***************************************************************************)

\* WordPress changes a file long after it last did, evictions hit files long
\* after they were changed, the process does not die within an eviction, and
\* directories appear only where nothing is evicted.
CalmAssumption ==
  /\ Environment \cap {"rewrite", "warm", "crashEvicting"} = {}
  /\ "newdir" \in Environment => Caching = FALSE

\* Who may still have to look at a file that was written.
Noticed(n) ==
  \/ Told(Changed(n))
  \/ watcher.pc = "seen" /\ watcher.name = n
  \/ mode = "stopped"
  \/ mode = "starting" /\ n \notin scan.seen

\* An entry that has the time of the last write.
Recorded(o) == entry[File(o)] # None /\ entry[File(o)].mtime = wrote[o]

Written(o) == [body |-> wrote[o], mtime |-> wrote[o]]

\* The store has the last version, or has lost that of a deleted object.
Stored(o) == store[File(o)] = wrote[o]
Dropped(o) == latest[o] = None /\ store[File(o)] = None

\* What the directory, the index and the store have of an object: whoever has
\* something has the last version, or says it has not.
Kept(o) ==
  LET n == File(o) IN
  /\ latest[o] \in {None, wrote[o]}
  /\ file[n] # None => file[n] = Written(o)
  /\ latest[o] # None /\ file[n] = None =>
       /\ Recorded(o)
       /\ InState(n, "evicted") \/ (InState(n, "synced") /\ evictor = [pc |-> "removed", name |-> n])
  /\ Recorded(o) /\ ~InState(n, "dirty") => Stored(o) \/ (Dropped(o) /\ file[n] = None)
  /\ InState(n, "evicted") => Recorded(o)
  /\ latest[o] # None => Noticed(n) \/ Recorded(o)
  /\ latest[o] = None => entry[n] = None \/ Recorded(o)
  /\ entry[n] # None => entry[n].mtime <= wrote[o]

\* What the uploads of its file have of it.
Sending(o) ==
  \A w \in Workers : worker[w].name = File(o) =>
    /\ latest[o] # None \/ Busy(w) => file[File(o)] # None
    /\ Busy(w) => worker[w].body = wrote[o]
    /\ worker[w].pc = "landed" => Stored(o)

\* What its recalls have.
Fetching(o) ==
  \A r \in Readers : reader[r].object = o =>
    /\ Stored(o) \/ (Dropped(o) /\ reader[r].pc \in {"open", "join", "wait", "get"})
    /\ reader[r].pc # "open" => reader[r].mtime = wrote[o]
    /\ reader[r].pc \in {"temp", "rename", "mark"} => reader[r].body = wrote[o]
    /\ reader[r].pc = "rename" => file[Temp(o)] \in {None, Written(o)}
    /\ reader[r].pc = "mark" => file[File(o)] # None

\* What the watcher has.
Noting(o) ==
  watcher.name = File(o) => file[File(o)] # None /\ watcher.mtime = wrote[o]

\* What is being evicted is safe, and nothing else deals with it.
Evicting(o) ==
  evictor.name = File(o) =>
    /\ InState(File(o), "synced") /\ Recorded(o)
    /\ watcher.name # File(o)
    /\ ~Told(Changed(File(o)))
    /\ \A w \in Workers : worker[w].name # File(o)
    /\ \A r \in Readers : reader[r].object # o

\* What was never written is nowhere; what was deleted stays away where nothing
\* is recalled.
Unwritten(o) ==
  latest[o] = None =>
    /\ "delete" \notin Environment \/ ~Caching => file[File(o)] = None
    /\ "delete" \notin Environment =>
         /\ entry[File(o)] = None
         /\ watcher.name # File(o)
         /\ \A r \in Readers : reader[r].object # o

ObjectInv(o) ==
  Kept(o) /\ Sending(o) /\ Fetching(o) /\ Noting(o) /\ Evicting(o) /\ Unwritten(o)

CacheInv == \A o \in Objects : ObjectInv(o)

\* How the file of an object changes.
LEMMA FileOf ==
  ASSUME TypeOK, [Next]_vars, NEW o \in Objects
  PROVE  \/ file'[File(o)] = file[File(o)]
         \/ WriteFile(o) \/ DeleteFile(o)
         \/ /\ RemoveFile /\ evictor = [pc |-> "checked", name |-> File(o)]
            /\ evictor' = [pc |-> "removed", name |-> File(o)]
            /\ file'[File(o)] = None
         \/ \E r \in Readers :
              /\ RenameTemp(r) /\ reader[r].pc = "rename" /\ reader[r].object = o
              /\ file[Temp(o)] # None /\ file'[File(o)] = file[Temp(o)]
<1>1. file \in [Names -> Content \cup {None}] /\ File(o) \in Names /\ Temp(o) \in Names
  BY NamesOf DEF TypeOK
<1>2. ASSUME NEW p \in Objects, WriteFile(p) \/ DeleteFile(p), p # o
      PROVE  file'[File(o)] = file[File(o)]
  <2>1. File(p) \in Names /\ File(o) # File(p)
    BY <1>2, NamesOf DEF File
  <2> QED
    BY <1>1, <1>2, <2>1 DEF WriteFile, DeleteFile
<1>3. CASE RemoveFile
  <2>1. evictor.pc = "checked" /\ file' = [file EXCEPT ![evictor.name] = None]
        /\ evictor' = [evictor EXCEPT !.pc = "removed"]
    BY <1>3 DEF RemoveFile
  <2>2. evictor \in [pc : {"checked", "removed"}, name : Names]
    BY <2>1 DEF TypeOK, Resting
  <2>3. CASE evictor.name = File(o)
    <3>1. evictor = [pc |-> "checked", name |-> File(o)]
      BY <2>1, <2>2, <2>3
    <3>2. evictor' = [pc |-> "removed", name |-> File(o)]
      BY <2>1, <3>1
    <3> QED
      BY <1>1, <1>3, <2>1, <2>3, <3>1, <3>2
  <2>4. CASE evictor.name # File(o)
    BY <1>1, <2>1, <2>4
  <2> QED
    BY <2>3, <2>4
<1>4. ASSUME NEW r \in Readers, FillTemp(r) \/ DropTemp(r) \/ RenameTemp(r)
      PROVE  \/ file'[File(o)] = file[File(o)]
             \/ /\ RenameTemp(r) /\ reader[r].pc = "rename" /\ reader[r].object = o
                /\ file[Temp(o)] # None /\ file'[File(o)] = file[Temp(o)]
  <2>1. reader[r].object \in Objects
    BY <1>4, ReaderStep DEF FillTemp, DropTemp, RenameTemp
  <2>2. PICK p \in Objects : p = reader[r].object
    BY <2>1
  <2>3. File(p) \in Names /\ Temp(p) \in Names /\ File(o) # Temp(p) /\ (File(o) = File(p) => o = p)
    BY NamesOf DEF File, Temp
  <2>4. CASE FillTemp(r) \/ DropTemp(r)
    BY <1>1, <2>2, <2>3, <2>4 DEF FillTemp, DropTemp
  <2>5. CASE RenameTemp(r)
    BY <1>1, <2>2, <2>3, <2>5 DEF RenameTemp
  <2> QED
    BY <1>4, <2>4, <2>5
<1> QED
  BY <1>2, <1>3, <1>4, FilesStay

\* How the temporary file of its recalls changes.
LEMMA TempOf ==
  ASSUME TypeOK, [Next]_vars, NEW o \in Objects
  PROVE  \/ file'[Temp(o)] = file[Temp(o)]
         \/ file'[Temp(o)] = None
         \/ \E r \in Readers :
              /\ FillTemp(r) /\ reader[r].pc = "temp" /\ reader[r].object = o
              /\ file'[Temp(o)] = [body |-> reader[r].body, mtime |-> reader[r].mtime]
<1>1. file \in [Names -> Content \cup {None}] /\ File(o) \in Names /\ Temp(o) \in Names
  BY NamesOf DEF TypeOK
<1>2. ASSUME NEW p \in Objects, WriteFile(p) \/ DeleteFile(p)
      PROVE  file'[Temp(o)] = file[Temp(o)]
  <2>1. File(p) \in Names /\ Temp(o) # File(p)
    BY NamesOf DEF File, Temp
  <2> QED
    BY <1>1, <1>2, <2>1 DEF WriteFile, DeleteFile
<1>3. CASE RemoveFile
  BY <1>1, <1>3 DEF RemoveFile
<1>4. ASSUME NEW r \in Readers, FillTemp(r) \/ DropTemp(r) \/ RenameTemp(r)
      PROVE  \/ file'[Temp(o)] = file[Temp(o)]
             \/ file'[Temp(o)] = None
             \/ /\ FillTemp(r) /\ reader[r].pc = "temp" /\ reader[r].object = o
                /\ file'[Temp(o)] = [body |-> reader[r].body, mtime |-> reader[r].mtime]
  <2>1. reader[r].object \in Objects
    BY <1>4, ReaderStep DEF FillTemp, DropTemp, RenameTemp
  <2>2. PICK p \in Objects : p = reader[r].object
    BY <2>1
  <2>3. File(p) \in Names /\ Temp(p) \in Names /\ File(p) # Temp(o) /\ (Temp(o) = Temp(p) => o = p)
    BY NamesOf DEF File, Temp
  <2>4. CASE FillTemp(r) \/ DropTemp(r)
    BY <1>1, <2>2, <2>3, <2>4 DEF FillTemp, DropTemp
  <2>5. CASE RenameTemp(r)
    BY <1>1, <2>2, <2>3, <2>5 DEF RenameTemp
  <2> QED
    BY <1>4, <2>4, <2>5
<1> QED
  BY <1>2, <1>3, <1>4, FilesStay

\* How the entry of an object changes.
LEMMA EntryOf ==
  ASSUME TypeOK, [Next]_vars, NEW n \in Names
  PROVE  \/ entry'[n] = entry[n]
         \/ /\ UNCHANGED <<file, store, evictor, mode, latest, wrote, reader>>
            /\ \/ /\ IndexChanged /\ watcher.name = n /\ watcher.pc = "seen"
                  /\ entry'[n] # None /\ entry'[n].state = "dirty"
                  /\ entry'[n].mtime = watcher.mtime
               \/ /\ VisitFile(n) /\ scan.pc = "walk" /\ file[n] # None
                  /\ entry'[n] # None /\ entry'[n].state = "dirty"
                  /\ entry'[n].mtime = file[n].mtime
               \/ /\ \E w \in Workers : worker[w].name = n /\ worker[w].pc = "landed"
                  /\ entry[n] # None /\ entry'[n] # None
                  /\ entry'[n].state = "synced" /\ entry'[n].mtime = entry[n].mtime
               \/ Forget /\ scan.pc = "forget" /\ scan.cur = n /\ entry'[n] = None
         \/ /\ UNCHANGED <<file, store, mode, latest, wrote>>
            /\ entry[n] # None /\ entry'[n] # None /\ entry'[n].mtime = entry[n].mtime
            /\ \/ /\ MarkEvicted /\ evictor.pc = "removed" /\ evictor.name = n
                  /\ evictor' = Resting /\ entry'[n].state = "evicted"
               \/ /\ \E r \in Readers : /\ MarkRecalled(r) /\ reader[r].pc = "mark"
                                        /\ File(reader[r].object) = n
                  /\ entry'[n].state = "synced" /\ UNCHANGED evictor
<1>1. entry' = entry \/ IndexChanged \/ Forget \/ MarkEvicted
      \/ (\E w \in Workers : MarkUploaded(w)) \/ (\E m \in Names : VisitFile(m))
      \/ \E r \in Readers : MarkRecalled(r)
  BY Writers
<1>2. CASE IndexChanged
  <2>1. /\ watcher.pc = "seen" /\ MarkDirty(watcher.name, watcher.mtime)
        /\ watcher.name \in Names /\ watcher.mtime \in Nat
        /\ UNCHANGED <<file, store, evictor, mode, latest, wrote, reader>>
    BY <1>2, NamesUnderWay DEF IndexChanged, users
  <2> QED
    BY <1>2, <2>1, MarkDirtyIs
<1>3. CASE Forget
  <2>1. /\ scan.pc = "forget" /\ entry' = [entry EXCEPT ![scan.cur] = None]
        /\ UNCHANGED <<file, store, evictor, mode, latest, wrote, reader>>
    BY <1>3 DEF Forget, users
  <2> QED
    BY <1>3, <2>1 DEF TypeOK
<1>4. CASE MarkEvicted
  <2>1. /\ evictor.pc = "removed" /\ SetState(evictor.name, "evicted") /\ evictor' = Resting
        /\ evictor.name \in Names
        /\ UNCHANGED <<file, store, mode, latest, wrote>>
    BY <1>4, NamesUnderWay DEF MarkEvicted, users
  <2> QED
    BY <1>4, <2>1, SetStateIs
<1>5. ASSUME NEW w \in Workers, MarkUploaded(w)
      PROVE  \/ entry'[n] = entry[n]
             \/ /\ UNCHANGED <<file, store, evictor, mode, latest, wrote, reader>>
                /\ worker[w].name = n /\ worker[w].pc = "landed"
                /\ entry[n] # None /\ entry'[n] # None
                /\ entry'[n].state = "synced" /\ entry'[n].mtime = entry[n].mtime
  <2>1. /\ worker[w].pc = "landed" /\ SetState(worker[w].name, "synced")
        /\ worker[w].name \in Names
        /\ UNCHANGED <<file, store, evictor, mode, latest, wrote, reader>>
    BY <1>5, BusyWorker DEF MarkUploaded, At, users
  <2>2. CASE worker[w].name = n /\ entry[n] # None
    BY <2>1, <2>2, SetStateIs
  <2>3. CASE worker[w].name # n
    BY <2>1, <2>3, SetStateIs
  <2>4. CASE worker[w].name = n /\ entry[n] = None
    BY <2>1, <2>4, SetStateIs
  <2> QED
    BY <2>2, <2>3, <2>4
<1>6. ASSUME NEW m \in Names, VisitFile(m)
      PROVE  \/ entry'[n] = entry[n]
             \/ /\ UNCHANGED <<file, store, evictor, mode, latest, wrote, reader>>
                /\ m = n /\ scan.pc = "walk" /\ file[n] # None
                /\ entry'[n] # None /\ entry'[n].state = "dirty"
                /\ entry'[n].mtime = file[n].mtime
  <2>1. /\ scan.pc = "walk" /\ file[m] # None
        /\ entry' = entry \/ MarkDirty(m, file[m].mtime)
        /\ UNCHANGED <<file, store, evictor, mode, latest, wrote, reader>>
    BY <1>6 DEF VisitFile, users
  <2>2. file[m].mtime \in Nat
    BY <2>1 DEF TypeOK, Content
  <2> QED
    BY <2>1, <2>2, MarkDirtyIs
<1>7. ASSUME NEW r \in Readers, MarkRecalled(r)
      PROVE  \/ entry'[n] = entry[n]
             \/ /\ UNCHANGED <<file, store, mode, latest, wrote>>
                /\ entry[n] # None /\ entry'[n] # None /\ entry'[n].mtime = entry[n].mtime
                /\ reader[r].pc = "mark" /\ File(reader[r].object) = n
                /\ entry'[n].state = "synced" /\ UNCHANGED evictor
  <2>1. /\ reader[r].pc = "mark" /\ SetState(File(reader[r].object), "synced")
        /\ File(reader[r].object) \in Names
        /\ UNCHANGED <<file, store, evictor, mode, latest, wrote>>
    BY <1>7, ReaderStep, NamesOf DEF MarkRecalled, users
  <2>2. CASE File(reader[r].object) # n \/ entry[n] = None
    BY <2>1, <2>2, SetStateIs
  <2>3. CASE File(reader[r].object) = n /\ entry[n] # None
    BY <2>1, <2>3, SetStateIs
  <2> QED
    BY <2>2, <2>3
<1> QED
  BY <1>1, <1>2, <1>3, <1>4, <1>5, <1>6, <1>7

\* How the store changes.
LEMMA StoreOf ==
  ASSUME TypeOK, [Next]_vars, NEW n \in Names
  PROVE  \/ store'[n] = store[n]
         \/ \E w \in Workers : /\ worker[w].pc = "sent" /\ worker[w].name = n
                               /\ store'[n] = worker[w].body
         \/ scan.pc = "gone" /\ n \in scan.todo /\ store'[n] = None
<1>1. store \in [Names -> Nat \cup {None}]
  BY DEF TypeOK
<1>2. ASSUME NEW w \in Workers, LandUpload(w)
      PROVE  \/ store'[n] = store[n]
             \/ worker[w].pc = "sent" /\ worker[w].name = n /\ store'[n] = worker[w].body
  BY <1>1, <1>2 DEF LandUpload, At
<1>3. ASSUME NEW m \in Names, DeleteRemote(m) \/ FailDelete(m)
      PROVE  store'[n] = store[n] \/ (scan.pc = "gone" /\ n \in scan.todo /\ store'[n] = None)
  BY <1>1, <1>3 DEF DeleteRemote, FailDelete
<1>4. store' = store \/ (\E w \in Workers : LandUpload(w))
      \/ \E m \in Names : DeleteRemote(m) \/ FailDelete(m)
  BY Writers
<1> QED
  BY <1>2, <1>3, <1>4

\* Only WordPress decides what an object's last version is.
LEMMA LatestOf ==
  ASSUME TypeOK, [Next]_vars, NEW o \in Objects
  PROVE  /\ UNCHANGED <<latest[o], wrote[o]>> \/ WriteFile(o) \/ DeleteFile(o)
         /\ wrote[o] \in Nat /\ wrote'[o] \in Nat /\ wrote[o] <= wrote'[o]
<1>1. latest \in [Objects -> Nat \cup {None}] /\ wrote \in [Objects -> Nat]
  BY DEF TypeOK
<1>2. ASSUME NEW p \in Objects, WriteFile(p)
      PROVE  /\ UNCHANGED <<latest[o], wrote[o]>> \/ WriteFile(o)
             /\ wrote'[o] \in Nat /\ wrote[o] <= wrote'[o]
  <2>1. /\ wrote' = [wrote EXCEPT ![p] = wrote[p] + 1]
        /\ latest' = [latest EXCEPT ![p] = wrote'[p]]
    BY <1>2 DEF WriteFile
  <2>2. CASE p = o
    BY <1>1, <1>2, <2>1, <2>2
  <2>3. CASE p # o
    BY <1>1, <2>1, <2>3
  <2> QED
    BY <2>2, <2>3
<1>3. ASSUME NEW p \in Objects, DeleteFile(p)
      PROVE  /\ UNCHANGED <<latest[o], wrote[o]>> \/ DeleteFile(o)
             /\ wrote'[o] \in Nat /\ wrote[o] <= wrote'[o]
  <2>1. wrote' = wrote /\ latest' = [latest EXCEPT ![p] = None]
    BY <1>3 DEF DeleteFile
  <2>2. CASE p = o
    BY <1>1, <1>3, <2>1, <2>2
  <2>3. CASE p # o
    BY <1>1, <2>1, <2>3
  <2> QED
    BY <2>2, <2>3
<1>4. UNCHANGED <<latest, wrote>> \/ \E p \in Objects : WriteFile(p) \/ DeleteFile(p)
  BY Writers DEF users
<1> QED
  BY <1>1, <1>2, <1>3, <1>4

\* A recall goes through its steps one by one (Agent.Recall, Agent.recall).
LEMMA ReaderMoves ==
  ASSUME TypeOK, [Next]_vars, NEW r \in Readers, NEW o \in Objects, reader'[r].object = o
  PROVE  \/ reader'[r] = reader[r]
         \/ /\ reader'[r].pc = "open" /\ InState(File(o), "evicted")
            /\ UNCHANGED <<file, entry, store, latest, wrote, mode, watcher, evictor>>
         \/ /\ reader[r].object = o
            /\ UNCHANGED <<entry, store, latest, wrote, mode, watcher, evictor>>
            /\ \/ /\ reader[r].pc = "open" /\ reader'[r].pc = "join" /\ file' = file
                  /\ entry[File(o)] # None /\ reader'[r].mtime = entry[File(o)].mtime
                  /\ InState(File(o), "evicted") \/ file[File(o)] = None
               \/ /\ reader[r].pc = "join" /\ reader'[r].pc \in {"wait", "get"} /\ file' = file
                  /\ reader'[r].mtime = reader[r].mtime
               \/ /\ reader[r].pc = "get" /\ reader'[r].pc = "temp" /\ file' = file
                  /\ reader'[r].body = store[File(o)] /\ store[File(o)] # None
                  /\ reader'[r].mtime = reader[r].mtime
               \/ /\ reader[r].pc = "temp" /\ reader'[r].pc = "rename"
                  /\ reader'[r].body = reader[r].body /\ reader'[r].mtime = reader[r].mtime
                  /\ file'[Temp(o)] = [body |-> reader[r].body, mtime |-> reader[r].mtime]
               \/ /\ reader[r].pc = "rename" /\ reader'[r].pc = "mark"
                  /\ reader'[r].body = reader[r].body /\ reader'[r].mtime = reader[r].mtime
                  /\ file[Temp(o)] # None /\ file'[File(o)] = file[Temp(o)]
<1>1. /\ reader \in [Readers -> ReaderType] /\ file \in [Names -> Content \cup {None}]
      /\ None \notin Objects /\ o # None
  BY NoneAssumption DEF TypeOK, ReaderType
<1>2. CASE reader' = reader
  BY <1>2
<1>3. CASE Crash
  BY <1>1, <1>3 DEF Crash, Away
<1>4. ASSUME NEW q \in Readers, NEW p \in Objects, OpenEvicted(q, p)
      PROVE  \/ reader'[r] = reader[r]
             \/ /\ reader'[r].pc = "open" /\ InState(File(o), "evicted")
                /\ UNCHANGED <<file, entry, store, latest, wrote, mode, watcher, evictor>>
  <2>1. CASE q = r
    BY <1>1, <1>4, <2>1 DEF OpenEvicted, Away, users
  <2>2. CASE q # r
    BY <1>1, <1>4, <2>2 DEF OpenEvicted
  <2> QED
    BY <2>1, <2>2
<1>5. ASSUME NEW q \in Readers, q # r, Fetch(q) \/ FailGet(q) \/ DropTemp(q)
      PROVE  reader'[r] = reader[r]
  BY <1>1, <1>5 DEF Fetch, ReadEntry, JoinRecall, StopWaiting, GetObject, FailGet, FillTemp,
    DropTemp, RenameTemp, MarkRecalled, Recall, Return
<1>6. CASE Fetch(r) \/ FailGet(r) \/ DropTemp(r)
  <2>1. ~Return(r)
    BY <1>1 DEF Return, Away
  <2>2. reader[r].pc # "idle"
    BY <1>6, <2>1 DEF Fetch, ReadEntry, JoinRecall, GetObject, FillTemp, RenameTemp,
      StopWaiting, MarkRecalled, FailGet, DropTemp
  <2>3. reader[r] \in [pc : {"open", "join", "wait", "get", "temp", "rename", "mark"},
                       object : Objects, body : Nat, mtime : Nat]
    BY <1>1, <2>2 DEF ReaderType, Away
  <2>4. reader[r].object \in Objects /\ File(reader[r].object) \in Names
        /\ Temp(reader[r].object) \in Names /\ File(reader[r].object) # Temp(reader[r].object)
    BY <2>3, NamesOf DEF File, Temp
  <2>5. CASE ReadEntry(r)
    BY <1>1, <2>1, <2>3, <2>5 DEF ReadEntry, users
  <2>6. CASE JoinRecall(r)
    BY <1>1, <2>3, <2>6 DEF JoinRecall, Recall, users
  <2>7. CASE GetObject(r)
    BY <1>1, <2>1, <2>3, <2>7 DEF GetObject, users
  <2>8. CASE FillTemp(r)
    <3>1. /\ reader' = [reader EXCEPT ![r].pc = "rename"] /\ reader[r].pc = "temp"
          /\ file' = [file EXCEPT ![Temp(reader[r].object)] =
                        [body |-> reader[r].body, mtime |-> reader[r].mtime]]
          /\ UNCHANGED <<entry, store, latest, wrote, mode, watcher, evictor>>
      BY <2>8 DEF FillTemp, Recall, users
    <3> QED
      BY <1>1, <2>3, <2>4, <3>1
  <2>9. CASE RenameTemp(r)
    <3>1. /\ reader' = [reader EXCEPT ![r].pc = "mark"] /\ reader[r].pc = "rename"
          /\ file[Temp(reader[r].object)] # None
          /\ file' = [file EXCEPT ![File(reader[r].object)] = file[Temp(reader[r].object)],
                                  ![Temp(reader[r].object)] = None]
          /\ UNCHANGED <<entry, store, latest, wrote, mode, watcher, evictor>>
      BY <2>1, <2>9 DEF RenameTemp, Recall, users
    <3> QED
      BY <1>1, <2>3, <2>4, <3>1
  <2> QED
    BY <1>6, <2>1, <2>5, <2>6, <2>7, <2>8, <2>9
    DEF Fetch, StopWaiting, MarkRecalled, FailGet, DropTemp
<1>7. \/ reader' = reader \/ Crash
      \/ \E q \in Readers : Fetch(q) \/ FailGet(q) \/ DropTemp(q)
                            \/ \E p \in Objects : OpenEvicted(q, p)
  BY Writers
<1> QED
  BY <1>2, <1>3, <1>4, <1>5, <1>6, <1>7

\* The watcher handles one event after the other.
LEMMA WatcherMoves ==
  ASSUME TypeOK, [Next]_vars, NEW n \in Names
  PROVE  /\ watcher'.name = n =>
              \/ watcher.name = n /\ watcher'.mtime = watcher.mtime
              \/ /\ Told(Changed(n)) /\ file[n] # None /\ watcher'.mtime = file[n].mtime
                 /\ UNCHANGED <<file, entry, store, latest, wrote, evictor>>
         /\ Told(Changed(n)) =>
              \/ Told(Changed(n))' \/ mode' = "stopped"
              \/ file[n] = None /\ UNCHANGED <<file, entry, store, latest, wrote, evictor>>
              \/ watcher'.pc = "seen" /\ watcher'.name = n
         /\ watcher.pc = "seen" /\ watcher.name = n =>
              \/ watcher' = watcher \/ mode' = "stopped" \/ IndexChanged \/ scan.pc # "idle"
<1>1. CASE StatChanged
  <2>1. /\ watcher.pc = "idle" /\ events # <<>> /\ Head(events).op = "change"
        /\ events' = Tail(events)
        /\ watcher' = IF file[Head(events).name] = None THEN Watching
                      ELSE [pc |-> "seen", name |-> Head(events).name,
                            mtime |-> file[Head(events).name].mtime]
        /\ UNCHANGED <<file, entry, store, latest, wrote, evictor>>
    BY <1>1 DEF StatChanged, users
  <2>2. Head(events) \in Event /\ Told(Head(events))
        /\ \A e : Told(e) <=> e = Head(events) \/ Told(e)'
    BY <2>1, EventsAfter
  <2>3. Head(events) = Changed(Head(events).name) /\ Head(events).name \in Names
    BY <2>1, <2>2 DEF Event, Changed
  <2>4. Watching.name # n
    BY NamesUnderWay DEF Watching
  <2>5. watcher'.name = n =>
          /\ Told(Changed(n)) /\ file[n] # None /\ watcher'.mtime = file[n].mtime
    BY <2>1, <2>2, <2>3, <2>4
  <2>6. Changed(n) = Head(events) => Head(events).name = n
    BY DEF Changed
  <2>7. Told(Changed(n)) =>
          \/ Told(Changed(n))'
          \/ file[n] = None
          \/ watcher'.pc = "seen" /\ watcher'.name = n
    BY <2>1, <2>2, <2>6
  <2> QED
    BY <2>1, <2>5, <2>7
<1>2. CASE Crash
  <2>1. watcher'.name # n
    BY <1>2, NamesUnderWay DEF Crash, Watching
  <2> QED
    BY <1>2, <2>1 DEF Crash
<1>3. Told(Changed(n)) => Told(Changed(n))' \/ StatChanged \/ Crash
  <2> SUFFICES ASSUME Told(Changed(n)), ~StatChanged, ~Crash PROVE Told(Changed(n))'
    OBVIOUS
  <2>1. CASE events' = events
    BY <2>1 DEF Told
  <2>2. CASE \E evs \in Seq(Event) : Notice(evs)
    <3>1. PICK evs \in Seq(Event) : events' = events \o evs
      BY <2>2 DEF Notice
    <3>2. PICK i \in DOMAIN events : events[i] = Changed(n)
      BY DEF Told
    <3>3. i \in DOMAIN events' /\ events'[i] = Changed(n)
      BY <3>1, <3>2 DEF TypeOK
    <3> QED
      BY <3>3 DEF Told
  <2>3. CASE OfferRemoved \/ ScanDirectory
    <3>1. events # <<>> /\ Head(events).op # "change" /\ events' = Tail(events)
      BY <2>3 DEF OfferRemoved, ScanDirectory
    <3>2. Changed(n) # Head(events)
      BY <3>1 DEF Changed
    <3> QED
      BY <3>1, <3>2, EventsAfter
  <2>4. \A o \in Objects : /\ <<Changed(File(o))>> \in Seq(Event) /\ <<Removed(File(o))>> \in Seq(Event)
                           /\ <<Changed(Temp(o))>> \in Seq(Event) /\ <<Removed(Temp(o))>> \in Seq(Event)
                           /\ <<Removed(Temp(o)), Changed(File(o))>> \in Seq(Event)
    BY NamesOf, EventsOf
  <2>5. <<>> \in Seq(Event) /\ <<[op |-> "dir", name |-> None]>> \in Seq(Event)
    BY DEF Event
  <2>6. ASSUME RemoveFile PROVE <<Removed(evictor.name)>> \in Seq(Event)
    BY <2>6, NamesUnderWay, EventsOf DEF RemoveFile
  <2>7. ASSUME NEW r \in Readers, FillTemp(r) \/ DropTemp(r) \/ RenameTemp(r)
        PROVE  reader[r].object \in Objects
    BY <2>7, ReaderStep DEF FillTemp, DropTemp, RenameTemp
  <2>8. ASSUME NEW r \in Readers, FillTemp(r) \/ DropTemp(r) \/ RenameTemp(r)
        PROVE  events' = events \/ \E evs \in Seq(Event) : Notice(evs)
    BY <2>4, <2>7, <2>8 DEF FillTemp, DropTemp, RenameTemp
  <2>9. ASSUME NEW o \in Objects, WriteFile(o) \/ DeleteFile(o)
        PROVE  \E evs \in Seq(Event) : Notice(evs)
    BY <2>4, <2>9 DEF WriteFile, DeleteFile
  <2>10. RemoveFile => \E evs \in Seq(Event) : Notice(evs)
    <3> SUFFICES ASSUME RemoveFile PROVE \E evs \in Seq(Event) : Notice(evs)
      OBVIOUS
    <3>1. Notice(<<>>) \/ Notice(<<Removed(evictor.name)>>)
      BY DEF RemoveFile
    <3> QED
      BY <2>5, <2>6, <3>1
  <2>11. MakeDirectory => \E evs \in Seq(Event) : Notice(evs)
    BY <2>5 DEF MakeDirectory
  <2> QED
    BY <2>1, <2>2, <2>3, <2>8, <2>9, <2>10, <2>11, Writers DEF StatChanged
<1>4. CASE watcher' = watcher
  BY <1>1, <1>2, <1>3, <1>4
<1>5. CASE watcher.pc \in {"idle", "indexed", "scanning"} /\ watcher'.name = None
  BY <1>1, <1>2, <1>3, <1>5, NamesUnderWay
<1>6. CASE IndexChanged
  <2>1. watcher'.name = watcher.name /\ watcher'.mtime = watcher.mtime
    BY <1>6 DEF IndexChanged, TypeOK, Watching
  <2> QED
    BY <1>1, <1>2, <1>3, <1>6, <2>1
<1>7. CASE ScanEnds /\ scan.pc # "idle"
  <2>1. watcher'.name # n
    BY <1>7, NamesUnderWay DEF ScanEnds, Watching
  <2> QED
    BY <1>1, <1>2, <1>3, <1>7, <2>1
<1>8. ScanDirectory => watcher.pc = "idle" /\ watcher'.name = None
  BY NamesUnderWay DEF ScanDirectory, Watching
<1>9. OfferChanged => watcher.pc = "indexed" /\ watcher'.name = None
  BY DEF OfferChanged, Watching
<1>10. \/ StatChanged \/ Crash \/ watcher' = watcher \/ IndexChanged
       \/ ScanEnds /\ scan.pc # "idle"
       \/ ScanDirectory \/ OfferChanged
  BY Writers DEF EndScan, AbortScan
<1> QED
  BY <1>1, <1>2, <1>4, <1>5, <1>6, <1>7, <1>8, <1>9, <1>10

\* What a settled object is free of.
LEMMA SettledFree ==
  ASSUME NEW o \in Objects, Settled(File(o))
  PROVE  /\ watcher.name # File(o) /\ evictor.name # File(o)
         /\ \A w \in Workers : worker[w].name # File(o)
         /\ ~Told(Changed(File(o)))
         /\ \A r \in Readers : reader[r].object # o
<1>1. File(o)[1] = o
  BY DEF File
<1>2. Changed(File(o)).name = File(o)
  BY DEF Changed
<1> QED
  BY <1>1, <1>2 DEF Settled, Pending, Told

\* A scan deletes no object that has a file, or that was written last.
LEMMA NotGoing ==
  ASSUME CalmAssumption, DirectoryInv, NEW o \in Objects, Kept(o),
         scan.pc \in {"gone", "forget"}, File(o) \in Going
  PROVE  file[File(o)] = None /\ latest[o] = None
<1>1. NotedAssumption
  BY DEF CalmAssumption, NotedAssumption
<1>2. evictor = Resting
  BY <1>1, ScanAlone DEF DirectoryInv
<1>3. file[File(o)] = None /\ ~InState(File(o), "evicted")
  BY DEF DirectoryInv, ScanInv
<1>4. evictor # [pc |-> "removed", name |-> File(o)]
  BY <1>2 DEF Resting
<1> QED
  BY <1>3, <1>4 DEF Kept

\* Nor one that is being recalled.
LEMMA NotRecalled ==
  ASSUME CalmAssumption, DirectoryInv, scan.pc # "idle", NEW r \in Readers
  PROVE  reader[r].object \notin Objects
<1>1. NotedAssumption
  BY DEF CalmAssumption, NotedAssumption
<1>2. reader[r] = Away
  BY <1>1, ScanAlone DEF DirectoryInv
<1> QED
  BY <1>2, NoneAssumption DEF Away

\* WordPress writes: what it wrote is noticed, and nobody has the last version.
LEMMA WriteKeeps ==
  ASSUME CalmAssumption, DirectoryInv, NEW o \in Objects, ObjectInv(o), WriteFile(o)
  PROVE  ObjectInv(o)'
<1> DEFINE n == File(o)
           v == wrote[o] + 1
<1>1. n \in Names /\ TypeOK
  BY NamesOf DEF DirectoryInv
<1>2. Settled(n) /\ ~InState(n, "evicted")
  BY DEF CalmAssumption, WriteFile, MayChange
<1>3. /\ wrote' = [wrote EXCEPT ![o] = v] /\ latest' = [latest EXCEPT ![o] = wrote'[o]]
      /\ file' = [file EXCEPT ![n] = [body |-> wrote'[o], mtime |-> wrote'[o]]]
      /\ Notice(<<Changed(n)>>)
      /\ UNCHANGED <<entry, store, worker, watcher, scan, evictor, reader, mode>>
  BY DEF WriteFile
<1>4. /\ wrote'[o] = v /\ latest'[o] = v /\ wrote[o] \in Nat
      /\ file'[n] = [body |-> v, mtime |-> v]
  BY <1>1, <1>3 DEF TypeOK
<1>5. Told(Changed(n))'
  BY <1>1, <1>3, EventsOf, EventsAfter
<1>6. latest'[o] # None /\ file'[n] # None
  BY <1>4, NoneAssumption DEF Content
<1>7. entry'[n] = entry[n] /\ (entry[n] # None => entry[n].mtime <= wrote[o] /\ entry[n].mtime \in Nat)
  BY <1>1, <1>3 DEF ObjectInv, Kept, TypeOK, Entry
<1>8. ~Recorded(o)'
  BY <1>4, <1>7 DEF Recorded
<1>9. Kept(o)'
  <2>1. file'[n] = Written(o)'
    BY <1>4 DEF Written
  <2>2. Noticed(n)'
    BY <1>5 DEF Noticed
  <2>3. entry'[n] # None => entry'[n].mtime <= wrote'[o]
    BY <1>4, <1>7
  <2>4. ~InState(n, "evicted")'
    BY <1>2, <1>3 DEF InState
  <2> QED
    BY <1>4, <1>6, <1>8, <2>1, <2>2, <2>3, <2>4 DEF Kept
<1>10. /\ watcher.name # n /\ evictor.name # n
       /\ \A w \in Workers : worker[w].name # n
       /\ \A r \in Readers : reader[r].object # o
  BY <1>2, SettledFree
<1>11. Sending(o)' /\ Fetching(o)' /\ Noting(o)' /\ Evicting(o)' /\ Unwritten(o)'
  BY <1>3, <1>6, <1>10 DEF Sending, Fetching, Noting, Evicting, Unwritten
<1> QED
  BY <1>9, <1>11 DEF ObjectInv

\* WordPress deletes: what it deletes was recorded.
LEMMA DeleteKeeps ==
  ASSUME CalmAssumption, DirectoryInv, NEW o \in Objects, ObjectInv(o), DeleteFile(o)
  PROVE  ObjectInv(o)'
<1> DEFINE n == File(o)
<1>1. n \in Names /\ TypeOK
  BY NamesOf DEF DirectoryInv
<1>2. Settled(n) /\ mode = "serving" /\ "delete" \in Environment
  BY DEF CalmAssumption, DeleteFile, MayChange
<1>3. /\ file' = [file EXCEPT ![n] = None] /\ latest' = [latest EXCEPT ![o] = None]
      /\ UNCHANGED <<entry, store, worker, watcher, scan, evictor, reader, mode, wrote>>
  BY DEF DeleteFile
<1>4. latest'[o] = None /\ file'[n] = None /\ wrote'[o] = wrote[o]
  BY <1>1, <1>3 DEF TypeOK
<1>5. /\ watcher.name # n /\ evictor.name # n
      /\ \A w \in Workers : worker[w].name # n
      /\ \A r \in Readers : reader[r].object # o
      /\ ~Told(Changed(n))
  BY <1>2, SettledFree
<1>6. ~Noticed(n)
  BY <1>2, <1>5 DEF Noticed
<1>7. entry[n] = None \/ Recorded(o)
  BY <1>6 DEF ObjectInv, Kept
<1>8. Kept(o)'
  <2>1. /\ Recorded(o)' <=> Recorded(o)
        /\ InState(n, "dirty")' <=> InState(n, "dirty")
        /\ InState(n, "evicted")' <=> InState(n, "evicted")
        /\ Stored(o)' <=> Stored(o)
        /\ store'[n] = store[n]
    BY <1>3 DEF Recorded, InState, Stored
  <2>2. /\ Recorded(o) /\ ~InState(n, "dirty") => Stored(o) \/ store[n] = None
        /\ InState(n, "evicted") => Recorded(o)
        /\ entry[n] # None => entry[n].mtime <= wrote[o]
    BY DEF ObjectInv, Kept, Dropped
  <2>3. Recorded(o)' /\ ~InState(n, "dirty")' => Stored(o)' \/ (Dropped(o)' /\ file'[n] = None)
    BY <1>4, <2>1, <2>2 DEF Dropped
  <2>4. entry'[n] = entry[n]
    BY <1>3
  <2> QED
    BY <1>4, <1>7, <2>1, <2>2, <2>3, <2>4 DEF Kept
<1>9. Sending(o)' /\ Fetching(o)' /\ Noting(o)' /\ Evicting(o)' /\ Unwritten(o)'
  BY <1>2, <1>3, <1>4, <1>5 DEF Sending, Fetching, Noting, Evicting, Unwritten
<1> QED
  BY <1>8, <1>9 DEF ObjectInv

\* Steps of others than WordPress: only an upload and a scan change what the
\* store has.
LEMMA StoreKeeps ==
  ASSUME CalmAssumption, DirectoryInv, NEW o \in Objects, ObjectInv(o), [Next]_vars,
         ~WriteFile(o), ~DeleteFile(o)
  PROVE  /\ UNCHANGED <<latest[o], wrote[o]>>
         /\ Stored(o) => Stored(o)' \/ (latest[o] = None /\ file[File(o)] = None /\ scan.pc = "gone"
                                        /\ \A r \in Readers : reader[r].object # o)
         /\ store'[File(o)] \in {store[File(o)], None, wrote[o]}
         /\ Dropped(o) => Stored(o)' \/ Dropped(o)'
<1> DEFINE n == File(o)
<1>1. n \in Names /\ TypeOK /\ store' \in [Names -> Nat \cup {None}]
  <2>1. TypeOK /\ TypeOK'
    BY TypeStep DEF DirectoryInv
  <2> QED
    BY <2>1, NamesOf DEF TypeOK
<1>2. UNCHANGED <<latest[o], wrote[o]>>
  BY <1>1, LatestOf
<1>3. ASSUME NEW w \in Workers, worker[w].pc = "sent", worker[w].name = n
      PROVE  worker[w].body = wrote[o]
  BY <1>3 DEF ObjectInv, Sending, Busy
<1>4. CASE store'[n] = store[n]
  BY <1>2, <1>4 DEF Stored, Dropped
<1>5. CASE \E w \in Workers : /\ worker[w].pc = "sent" /\ worker[w].name = n
                              /\ store'[n] = worker[w].body
  BY <1>2, <1>3, <1>5 DEF Stored
<1>6. CASE scan.pc = "gone" /\ n \in scan.todo /\ store'[n] = None
  <2>1. n \in Going
    BY <1>6 DEF Going
  <2>2. file[n] = None /\ latest[o] = None
    BY <1>6, <2>1, NotGoing DEF ObjectInv
  <2>3. \A r \in Readers : reader[r].object # o
    BY <1>6, NotRecalled
  <2> QED
    BY <1>2, <1>6, <2>2, <2>3 DEF Stored, Dropped
<1> QED
  BY <1>1, <1>4, <1>5, <1>6, StoreOf

\* A start looks at every file (Agent.Scan).
LEMMA StartMoves ==
  ASSUME TypeOK, ModeInv, [Next]_vars, NEW n \in Names
  PROVE  /\ mode = "stopped" =>
              mode' = "stopped" \/ (mode' = "starting" /\ n \notin scan'.seen)
         /\ mode = "starting" /\ n \notin scan.seen =>
              \/ mode' = "stopped" \/ (mode' = "starting" /\ n \notin scan'.seen)
              \/ VisitFile(n)
              \/ scan.pc = "gone" /\ UNCHANGED <<file, entry, wrote>>
<1>1. CASE UNCHANGED <<mode, scan>>
  BY <1>1
<1>2. CASE Crash
  BY <1>2 DEF Crash
<1>3. CASE Start
  BY <1>3 DEF Start, BeginScan, Unscanned
<1>4. ASSUME NEW m \in Names, VisitFile(m), m # n
      PROVE  UNCHANGED mode /\ (n \notin scan.seen => n \notin scan'.seen) /\ mode # "stopped"
  <2>1. /\ scan' = [scan EXCEPT !.todo = scan.todo \ {m}, !.seen = scan.seen \cup {m}]
        /\ mode' = mode /\ scan.pc # "idle"
    BY <1>4 DEF VisitFile
  <2> QED
    BY <1>4, <2>1 DEF TypeOK, ModeInv
<1>5. CASE FindGone \/ Forget \/ \E m \in Names : DeleteRemote(m) \/ FailDelete(m)
  <2>1. mode' = mode /\ scan'.seen = scan.seen
    BY <1>5 DEF FindGone, Forget, DeleteRemote, FailDelete, TypeOK
  <2> QED
    BY <2>1, <1>5 DEF FindGone, Forget, DeleteRemote, FailDelete, ModeInv
<1>6. CASE EndScan
  <2>1. scan.pc = "gone" /\ UNCHANGED <<file, entry, wrote>>
    BY <1>6 DEF EndScan, users
  <2> QED
    BY <2>1 DEF ModeInv
<1>7. CASE ScanDirectory \/ \E m \in Names : AbortScan(m)
  BY <1>7 DEF ScanDirectory, AbortScan
<1>8. VisitFile(n) => mode # "stopped"
  BY DEF VisitFile, ModeInv
<1>9. \/ UNCHANGED <<mode, scan>> \/ Crash \/ Start \/ ScanDirectory \/ EndScan
      \/ FindGone \/ Forget
      \/ \E m \in Names : VisitFile(m) \/ AbortScan(m) \/ DeleteRemote(m) \/ FailDelete(m)
  BY Writers
<1> QED
  BY <1>1, <1>2, <1>3, <1>4, <1>5, <1>6, <1>7, <1>8, <1>9

\* Once recorded, an object that was written stays recorded.
LEMMA RecordedStays ==
  ASSUME CalmAssumption, DirectoryInv, NEW o \in Objects, ObjectInv(o), [Next]_vars,
         ~WriteFile(o), ~DeleteFile(o), Recorded(o)
  PROVE  Recorded(o)' \/ (latest[o] = None /\ entry'[File(o)] = None)
<1> DEFINE n == File(o)
<1>1. n \in Names /\ TypeOK /\ UNCHANGED wrote[o]
  BY NamesOf, StoreKeeps DEF DirectoryInv
<1>2. entry[n] # None /\ entry[n].mtime = wrote[o]
  BY DEF Recorded
<1>3. ASSUME entry'[n] # None, entry'[n].mtime = wrote[o]
      PROVE  Recorded(o)'
  BY <1>1, <1>3 DEF Recorded
<1>4. watcher.name = n => watcher.mtime = wrote[o]
  BY DEF ObjectInv, Noting
<1>5. file[n] # None => file[n].mtime = wrote[o]
  BY DEF ObjectInv, Kept, Written
<1>6. scan.pc = "forget" /\ scan.cur = n => latest[o] = None
  BY NotGoing DEF Going, ObjectInv
<1> QED
  BY <1>1, <1>2, <1>3, <1>4, <1>5, <1>6, EntryOf

\* What is to be noticed is, until it is recorded.
LEMMA NoticedStays ==
  ASSUME CalmAssumption, DirectoryInv, NEW o \in Objects, ObjectInv(o), [Next]_vars,
         ~WriteFile(o), ~DeleteFile(o), latest[o] # None, Noticed(File(o))
  PROVE  Noticed(File(o))' \/ Recorded(o)'
<1> DEFINE n == File(o)
<1>1. n \in Names /\ TypeOK /\ ModeInv /\ UNCHANGED wrote[o]
  BY NamesOf, StoreKeeps DEF DirectoryInv
<1>2. file[n] = None => Recorded(o)
  BY DEF ObjectInv, Kept
<1>3. Recorded(o) => Recorded(o)'
  BY RecordedStays
<1>4. SUFFICES ASSUME ~Recorded(o) PROVE Noticed(n)' \/ Recorded(o)'
  BY <1>3
<1>5. file[n] # None /\ file[n].mtime = wrote[o] /\ file[n].mtime \in Nat
  BY <1>1, <1>2, <1>4 DEF ObjectInv, Kept, Written, TypeOK
<1>6. CASE Told(Changed(n))
  BY <1>1, <1>5, <1>6, WatcherMoves DEF Noticed
<1>7. CASE watcher.pc = "seen" /\ watcher.name = n
  <2>1. scan.pc = "idle"
    <3>1. NotedAssumption
      BY DEF CalmAssumption, NotedAssumption
    <3> QED
      BY <1>7, <3>1, ScanAlone DEF DirectoryInv
  <2>2. IndexChanged => Recorded(o)'
    <3> SUFFICES ASSUME IndexChanged PROVE Recorded(o)'
      OBVIOUS
    <3>1. watcher.mtime = wrote[o] /\ watcher.mtime \in Nat /\ MarkDirty(n, watcher.mtime)
      BY <1>1, <1>7, NamesUnderWay DEF ObjectInv, Noting, IndexChanged
    <3>2. entry'[n] # None /\ entry'[n].mtime = wrote[o]
      BY <1>1, <3>1, MarkDirtyIs
    <3> QED
      BY <1>1, <3>2 DEF Recorded
  <2> QED
    BY <1>1, <1>7, <2>1, <2>2, WatcherMoves DEF Noticed
<1>8. CASE mode = "stopped"
  BY <1>1, <1>8, StartMoves DEF Noticed
<1>9. CASE mode = "starting" /\ n \notin scan.seen
  <2>1. VisitFile(n) => Recorded(o)'
    <3> SUFFICES ASSUME VisitFile(n) PROVE Recorded(o)'
      OBVIOUS
    <3>1. MarkDirty(n, file[n].mtime)
      BY <1>4, <1>5 DEF VisitFile, Recorded
    <3>2. entry'[n] # None /\ entry'[n].mtime = file[n].mtime
      BY <1>1, <1>5, <3>1, MarkDirtyIs
    <3> QED
      BY <1>1, <1>5, <3>2 DEF Recorded
  <2>2. scan.pc # "gone"
    BY <1>1, <1>5, <1>9 DEF DirectoryInv, ScanInv
  <2> QED
    BY <1>1, <1>9, <2>1, <2>2, StartMoves DEF Noticed
<1> QED
  BY <1>6, <1>7, <1>8, <1>9 DEF Noticed

\* Whose file is whose.
LEMMA FilesApart ==
  \A o, p \in Objects : File(o) = File(p) => o = p
BY DEF File

\* An eviction that has removed a file marks its entry next.
LEMMA RemovedStays ==
  ASSUME CalmAssumption, TypeOK, [Next]_vars, evictor.pc = "removed"
  PROVE  evictor' = evictor \/ MarkEvicted
BY Writers, Zenon DEF CalmAssumption, RemoveFile, CheckEvictable, Crash

\* Only an eviction that has looked at it removes the file of an object.
LEMMA FileKeeps ==
  ASSUME CalmAssumption, DirectoryInv, NEW o \in Objects, ObjectInv(o), [Next]_vars,
         ~WriteFile(o), ~DeleteFile(o)
  PROVE  /\ file'[File(o)] # None => file'[File(o)] = Written(o)'
         /\ file[File(o)] # None /\ file'[File(o)] = None =>
              /\ evictor.name = File(o) /\ evictor' = [pc |-> "removed", name |-> File(o)]
              /\ UNCHANGED <<entry, store>>
         /\ file[File(o)] = None /\ file'[File(o)] # None => Stored(o)'
<1> DEFINE n == File(o)
<1>1. TypeOK /\ UNCHANGED wrote[o]
  BY StoreKeeps DEF DirectoryInv
<1>2. Written(o)' = Written(o)
  BY <1>1 DEF Written
<1>3. file[n] # None => file[n] = Written(o)
  BY DEF ObjectInv, Kept
<1>4. ASSUME NEW r \in Readers, reader[r].pc = "rename", reader[r].object = o,
             file[Temp(o)] # None
      PROVE  file[Temp(o)] = Written(o) /\ Stored(o)
  BY <1>4 DEF ObjectInv, Fetching
<1>5. ASSUME NEW r \in Readers, RenameTemp(r)
      PROVE  store' = store
  BY <1>5 DEF RenameTemp
<1>6. CASE file'[n] = file[n]
  BY <1>2, <1>3, <1>6
<1>7. CASE /\ RemoveFile /\ evictor = [pc |-> "checked", name |-> n]
           /\ evictor' = [pc |-> "removed", name |-> n] /\ file'[n] = None
  BY <1>7 DEF RemoveFile
<1>8. ASSUME NEW r \in Readers, RenameTemp(r), reader[r].pc = "rename", reader[r].object = o,
             file[Temp(o)] # None, file'[n] = file[Temp(o)]
      PROVE  file'[n] # None /\ file'[n] = Written(o)' /\ Stored(o)'
  BY <1>1, <1>2, <1>4, <1>5, <1>8 DEF Stored
<1> QED
  BY <1>1, <1>6, <1>7, <1>8, FileOf

\* How an entry gets its state: what is synced or evicted is on the store.
LEMMA EntryKeeps ==
  ASSUME CalmAssumption, DirectoryInv, NEW o \in Objects, ObjectInv(o), [Next]_vars,
         ~WriteFile(o), ~DeleteFile(o), entry'[File(o)] # entry[File(o)]
  PROVE  \/ /\ InState(File(o), "dirty")' /\ file' = file /\ file[File(o)] # None
            /\ entry'[File(o)].mtime = wrote[o]
         \/ /\ entry'[File(o)] = None /\ latest[o] = None /\ file' = file
         \/ /\ InState(File(o), "synced")' /\ file[File(o)] # None
            /\ Stored(o) /\ UNCHANGED <<file, store>>
            /\ entry[File(o)] # None /\ entry'[File(o)].mtime = entry[File(o)].mtime
         \/ /\ InState(File(o), "evicted")' /\ evictor.name = File(o)
            /\ UNCHANGED <<file, store>>
            /\ entry'[File(o)].mtime = entry[File(o)].mtime
<1> DEFINE n == File(o)
<1>1. n \in Names /\ TypeOK
  BY NamesOf DEF DirectoryInv
<1>2. watcher.name = n => file[n] # None /\ watcher.mtime = wrote[o]
  BY DEF ObjectInv, Noting
<1>3. file[n] # None => file[n].mtime = wrote[o]
  BY DEF ObjectInv, Kept, Written
<1>4. scan.pc = "forget" /\ scan.cur = n => latest[o] = None
  BY NotGoing DEF Going, ObjectInv
<1>5. ASSUME NEW w \in Workers, worker[w].name = n, worker[w].pc = "landed"
      PROVE  Stored(o) /\ file[n] # None
  BY <1>5 DEF ObjectInv, Sending, Busy
<1>6. ASSUME NEW r \in Readers, MarkRecalled(r), reader[r].pc = "mark", File(reader[r].object) = n
      PROVE  Stored(o) /\ file[n] # None
  <2>1. reader[r].object = o
    BY <1>1, <1>6, ReaderStep, FilesApart
  <2> QED
    BY <1>6, <2>1 DEF ObjectInv, Fetching
<1>7. /\ \A s : entry'[n] # None /\ entry'[n].state = s => InState(n, s)'
      /\ entry'[n] # entry[n]
  BY DEF InState
<1> HIDE DEF n
<1>8. CASE entry'[n] # None /\ entry'[n].state = "dirty"
  <2>1. \/ watcher.name = n /\ entry'[n].mtime = watcher.mtime
        \/ file[n] # None /\ entry'[n].mtime = file[n].mtime
    BY <1>1, <1>7, <1>8, EntryOf
  <2>2. file' = file
    BY <1>1, <1>7, EntryOf
  <2> QED
    BY <1>2, <1>3, <1>7, <1>8, <2>1, <2>2 DEF n
<1>9. CASE entry'[n] # None /\ entry'[n].state = "synced"
  <2>1. UNCHANGED <<file, store>>
    BY <1>1, <1>7, EntryOf
  <2>2. /\ entry[n] # None /\ entry'[n].mtime = entry[n].mtime
        /\ \/ \E w \in Workers : worker[w].name = n /\ worker[w].pc = "landed"
           \/ \E r \in Readers : /\ MarkRecalled(r) /\ reader[r].pc = "mark"
                                 /\ File(reader[r].object) = n
    BY <1>1, <1>7, <1>9, EntryOf
  <2> QED
    BY <1>5, <1>6, <1>7, <1>9, <2>1, <2>2 DEF n
<1>10. CASE entry'[n] # None /\ entry'[n].state = "evicted"
  <2>1. UNCHANGED <<file, store>>
    BY <1>1, <1>7, EntryOf
  <2>2. entry'[n].mtime = entry[n].mtime /\ evictor.name = n
    BY <1>1, <1>7, <1>10, EntryOf
  <2> QED
    BY <1>7, <1>10, <2>1, <2>2 DEF n
<1>11. CASE entry'[n] = None
  <2>1. file' = file /\ scan.pc = "forget" /\ scan.cur = n
    BY <1>1, <1>7, <1>11, EntryOf
  <2> QED
    BY <1>4, <1>11, <2>1 DEF n
<1>12. entry'[n] # None => entry'[n].state \in {"dirty", "synced", "evicted"}
  BY <1>1, <1>7, EntryOf
<1> QED
  BY <1>8, <1>9, <1>10, <1>11, <1>12

\* Whoever has something of an object has its last version.
LEMMA KeptStep ==
  ASSUME CalmAssumption, DirectoryInv, NEW o \in Objects, ObjectInv(o), [Next]_vars,
         ~WriteFile(o), ~DeleteFile(o)
  PROVE  Kept(o)'
<1> DEFINE n == File(o)
<1>1. n \in Names /\ TypeOK /\ UNCHANGED <<latest[o], wrote[o]>>
  BY NamesOf, StoreKeeps DEF DirectoryInv
<1>2. latest'[o] \in {None, wrote'[o]}
  BY <1>1 DEF ObjectInv, Kept
<1>3. file'[n] # None => file'[n] = Written(o)'
  BY FileKeeps
<1>4. latest'[o] # None => Noticed(n)' \/ Recorded(o)'
  BY <1>1, NoticedStays, RecordedStays DEF ObjectInv, Kept
<1>5. latest'[o] = None => entry'[n] = None \/ Recorded(o)'
  <2> SUFFICES ASSUME latest'[o] = None, entry'[n] # None PROVE Recorded(o)'
    OBVIOUS
  <2>1. CASE Recorded(o)
    BY <1>1, <2>1, RecordedStays
  <2>2. CASE ~Recorded(o)
    <3>1. entry[n] = None
      BY <1>1, <2>2 DEF ObjectInv, Kept
    <3>2. \/ InState(n, "dirty")' /\ entry'[n].mtime = wrote[o]
          \/ evictor.name = n
      BY <3>1, EntryKeeps
    <3>3. evictor.name # n
      BY <2>2 DEF ObjectInv, Evicting
    <3> QED
      BY <1>1, <3>2, <3>3 DEF Recorded, InState
  <2> QED
    BY <2>1, <2>2
<1>6. entry'[n] # None => entry'[n].mtime <= wrote'[o]
  <2>1. wrote[o] <= wrote[o]
    BY <1>1 DEF TypeOK
  <2>2. entry[n] # None => entry[n].mtime <= wrote[o]
    BY DEF ObjectInv, Kept
  <2>3. evictor.name = n => entry[n] # None
    BY DEF ObjectInv, Evicting, Recorded
  <2> QED
    BY <1>1, <2>1, <2>2, <2>3, EntryKeeps
<1>7. InState(n, "evicted")' => Recorded(o)'
  <2> SUFFICES ASSUME InState(n, "evicted")' PROVE Recorded(o)'
    OBVIOUS
  <2>1. entry'[n] # None /\ entry'[n].state = "evicted"
    BY DEF InState
  <2>2. CASE entry'[n] = entry[n]
    <3>1. Recorded(o)
      BY <2>1, <2>2 DEF ObjectInv, Kept, InState
    <3> QED
      BY <1>1, <2>2, <3>1 DEF Recorded
  <2>3. CASE entry'[n] # entry[n]
    <3>1. evictor.name = n
      BY <2>1, <2>3, EntryKeeps DEF InState
    <3>2. Recorded(o)
      BY <3>1 DEF ObjectInv, Evicting
    <3> QED
      BY <2>1, <3>2, RecordedStays
  <2> QED
    BY <2>2, <2>3
<1>8. latest'[o] # None /\ file'[n] = None =>
        /\ Recorded(o)'
        /\ \/ InState(n, "evicted")'
           \/ InState(n, "synced")' /\ evictor' = [pc |-> "removed", name |-> n]
  <2> SUFFICES ASSUME latest[o] # None, file'[n] = None
               PROVE  /\ Recorded(o)'
                      /\ \/ InState(n, "evicted")'
                         \/ /\ InState(n, "synced")'
                            /\ evictor' = [pc |-> "removed", name |-> n]
    BY <1>1
  <2>1. CASE file[n] # None
    <3>1. /\ evictor.name = n /\ evictor' = [pc |-> "removed", name |-> n]
          /\ UNCHANGED <<entry, store>>
      BY <2>1, FileKeeps
    <3>2. InState(n, "synced") /\ Recorded(o)
      BY <3>1 DEF ObjectInv, Evicting
    <3> QED
      BY <1>1, <3>1, <3>2 DEF InState, Recorded
  <2>2. CASE file[n] = None
    <3>1. /\ Recorded(o)
          /\ \/ InState(n, "evicted")
             \/ InState(n, "synced") /\ evictor = [pc |-> "removed", name |-> n]
      BY <2>2 DEF ObjectInv, Kept
    <3>2. Recorded(o)'
      BY <3>1, RecordedStays
    <3>3. CASE entry'[n] = entry[n]
      <4>1. InState(n, "evicted") => InState(n, "evicted")'
        BY <3>3 DEF InState
      <4>2. InState(n, "synced") => InState(n, "synced")'
        BY <3>3 DEF InState
      <4>3. ASSUME evictor = [pc |-> "removed", name |-> n], MarkEvicted
            PROVE  InState(n, "evicted")'
        <5>1. SetState(n, "evicted")
          BY <4>3 DEF MarkEvicted
        <5> QED
          BY <1>1, <3>1, <3>2, <5>1, SetStateIs DEF Recorded, InState
      <4> QED
        BY <1>1, <3>1, <3>2, <4>1, <4>2, <4>3, RemovedStays
    <3>4. CASE entry'[n] # entry[n]
      <4>1. InState(n, "evicted")' \/ entry'[n] = None
        BY <2>2, <3>4, EntryKeeps
      <4> QED
        BY <3>2, <4>1 DEF Recorded
    <3> QED
      BY <3>3, <3>4
  <2> QED
    BY <2>1, <2>2
<1>9. Recorded(o)' /\ ~InState(n, "dirty")' => Stored(o)' \/ (Dropped(o)' /\ file'[n] = None)
  <2> SUFFICES ASSUME Recorded(o)', ~InState(n, "dirty")', ~Stored(o)'
               PROVE  Dropped(o)' /\ file'[n] = None
    OBVIOUS
  <2>1. file'[n] = None \/ file[n] # None
    BY FileKeeps
  <2>2. CASE entry'[n] # entry[n]
    <3>1. evictor.name = n /\ UNCHANGED <<file, store>>
      <4>1. entry'[n] # None
        BY DEF Recorded
      <4> QED
        BY <1>1, <2>2, <4>1, EntryKeeps DEF Stored
    <3>2. InState(n, "synced") /\ Recorded(o)
      BY <3>1 DEF ObjectInv, Evicting
    <3>3. Stored(o) \/ (Dropped(o) /\ file[n] = None)
      BY <3>2 DEF ObjectInv, Kept, InState
    <3> QED
      BY <1>1, <3>1, <3>3 DEF Stored, Dropped
  <2>3. CASE entry'[n] = entry[n]
    <3>1. Recorded(o) /\ ~InState(n, "dirty")
      BY <1>1, <2>3 DEF Recorded, InState
    <3>2. Stored(o) \/ (Dropped(o) /\ file[n] = None)
      BY <3>1 DEF ObjectInv, Kept
    <3>3. latest[o] = None /\ file[n] = None
      BY <3>2, StoreKeeps DEF Dropped
    <3>4. file'[n] = None
      BY <2>1, <3>3
    <3>5. store'[n] = None
      BY <1>1, <3>2, StoreKeeps DEF Stored, Dropped
    <3> QED
      BY <1>1, <3>3, <3>4, <3>5 DEF Dropped
  <2> QED
    BY <2>2, <2>3
<1> QED
  BY <1>2, <1>3, <1>4, <1>5, <1>6, <1>7, <1>8, <1>9 DEF Kept

\* A file stays while it is uploaded, recalled or looked at.
LEMMA FileStays ==
  ASSUME CalmAssumption, DirectoryInv, NEW o \in Objects, ObjectInv(o), [Next]_vars,
         ~WriteFile(o), ~DeleteFile(o), file[File(o)] # None,
         \/ \E w \in Workers : worker[w].name = File(o)
         \/ \E r \in Readers : reader[r].object = o
         \/ watcher.name = File(o) \/ Told(Changed(File(o)))
  PROVE  file'[File(o)] # None
BY FileKeeps DEF ObjectInv, Evicting

\* A stored version stays while its file does, or while it is recalled.
LEMMA StoredStays ==
  ASSUME CalmAssumption, DirectoryInv, NEW o \in Objects, ObjectInv(o), [Next]_vars,
         ~WriteFile(o), ~DeleteFile(o), Stored(o),
         file[File(o)] # None \/ \E r \in Readers : reader[r].object = o
  PROVE  Stored(o)'
BY StoreKeeps

\* An upload has what its file has, and what landed is on the store.
LEMMA SendingStep ==
  ASSUME CalmAssumption, DirectoryInv, NEW o \in Objects, ObjectInv(o), [Next]_vars,
         ~WriteFile(o), ~DeleteFile(o)
  PROVE  Sending(o)'
<1> DEFINE n == File(o)
<1>1. n \in Names /\ n # None /\ TypeOK /\ UNCHANGED <<latest[o], wrote[o]>>
  BY NamesOf, NamesUnderWay, StoreKeeps DEF DirectoryInv
<1>2. SUFFICES ASSUME NEW w \in Workers, worker'[w].name = n
               PROVE  /\ latest'[o] # None \/ Busy(w)' => file'[n] # None
                      /\ Busy(w)' => worker'[w].body = wrote'[o]
                      /\ worker'[w].pc = "landed" => Stored(o)'
  BY DEF Sending
<1>3. worker[w].name = n =>
        /\ latest[o] # None \/ Busy(w) => file[n] # None
        /\ Busy(w) => worker[w].body = wrote[o]
        /\ worker[w].pc = "landed" => Stored(o)
  BY DEF ObjectInv, Sending
<1>4. \/ worker[w].name = n
      \/ InState(n, "dirty") /\ file' = file
  BY <1>1, <1>2, WorkerNames
<1>5. latest'[o] # None => file'[n] # None
  <2> SUFFICES ASSUME latest[o] # None PROVE file'[n] # None
    BY <1>1
  <2>1. CASE worker[w].name = n
    BY <1>3, <2>1, FileStays
  <2>2. CASE InState(n, "dirty") /\ file' = file
    BY <2>2 DEF ObjectInv, Kept, InState
  <2> QED
    BY <1>4, <2>1, <2>2
<1>6. ASSUME Busy(w)'
      PROVE  /\ file'[n] # None /\ worker'[w].body = wrote[o]
             /\ worker'[w].pc = "landed" => Stored(o)'
  <2>1. worker'[w].pc \in {"send", "sent", "landed"}
    BY <1>6 DEF Busy
  <2>2. file[n] # None => file[n].body = wrote[o]
    BY DEF ObjectInv, Kept, Written
  <2>3. CASE worker'[w] = worker[w]
    <3>1. Busy(w) /\ worker[w].name = n
      BY <1>2, <2>1, <2>3 DEF Busy
    <3>2. file[n] # None /\ worker[w].body = wrote[o] /\ (worker[w].pc = "landed" => Stored(o))
      BY <1>3, <3>1
    <3>3. file'[n] # None
      BY <3>1, <3>2, FileStays
    <3> QED
      BY <2>3, <3>2, <3>3, StoredStays
  <2>4. CASE worker'[w] # worker[w]
    <3>0. store \in [Names -> Nat \cup {None}]
      BY <1>1 DEF TypeOK
    <3>1. /\ worker[w].name = n /\ file' = file
          /\ \/ /\ worker[w].pc = "hash" /\ worker'[w].pc = "send" /\ file[n] # None
                /\ worker'[w].body = file[n].body
             \/ /\ worker[w].pc = "send" /\ worker'[w].pc = "sent"
                /\ worker'[w].body = worker[w].body
             \/ /\ worker[w].pc = "sent" /\ worker'[w].pc = "landed"
                /\ worker'[w].body = worker[w].body /\ store'[n] = worker[w].body
      BY <1>1, <1>2, <2>1, <2>4, <3>0, WorkerMoves
    <3>2. worker[w].pc \in {"send", "sent"} => file[n] # None /\ worker[w].body = wrote[o]
      BY <1>3, <3>1 DEF Busy
    <3> QED
      BY <1>1, <2>2, <3>1, <3>2 DEF Stored
  <2> QED
    BY <2>3, <2>4
<1>7. worker'[w].pc = "landed" => Busy(w)'
  BY DEF Busy
<1> QED
  BY <1>1, <1>5, <1>6, <1>7

\* A recall has what the store has.
LEMMA FetchingStep ==
  ASSUME CalmAssumption, DirectoryInv, NEW o \in Objects, ObjectInv(o), [Next]_vars,
         ~WriteFile(o), ~DeleteFile(o)
  PROVE  Fetching(o)'
<1> DEFINE n == File(o)
<1>1. n \in Names /\ TypeOK /\ UNCHANGED <<latest[o], wrote[o]>>
  BY NamesOf, StoreKeeps DEF DirectoryInv
<1>2. Written(o)' = Written(o)
  BY <1>1 DEF Written
<1>3. SUFFICES ASSUME NEW r \in Readers, reader'[r].object = o
               PROVE  /\ \/ Stored(o)'
                         \/ Dropped(o)' /\ reader'[r].pc \in {"open", "join", "wait", "get"}
                      /\ reader'[r].pc # "open" => reader'[r].mtime = wrote[o]
                      /\ reader'[r].pc \in {"temp", "rename", "mark"} =>
                           reader'[r].body = wrote[o]
                      /\ reader'[r].pc = "rename" => file'[Temp(o)] \in {None, Written(o)}
                      /\ reader'[r].pc = "mark" => file'[n] # None
  BY <1>1, <1>2 DEF Fetching
<1>4. ASSUME NEW q \in Readers, reader[q].object = o
      PROVE  /\ Stored(o) \/ (Dropped(o) /\ reader[q].pc \in {"open", "join", "wait", "get"})
             /\ reader[q].pc # "open" => reader[q].mtime = wrote[o]
             /\ reader[q].pc \in {"temp", "rename", "mark"} => reader[q].body = wrote[o]
             /\ reader[q].pc = "rename" => file[Temp(o)] \in {None, Written(o)}
             /\ reader[q].pc = "mark" => file[n] # None
  BY <1>4 DEF ObjectInv, Fetching
<1>5. store' = store => (Stored(o) => Stored(o)') /\ (Dropped(o) => Dropped(o)')
  BY <1>1 DEF Stored, Dropped
<1>6. CASE reader'[r] = reader[r]
  <2>1. reader[r].object = o
    BY <1>3, <1>6
  <2>2. Stored(o) => Stored(o)'
    BY <2>1, StoredStays
  <2>3. Dropped(o) => Stored(o)' \/ Dropped(o)'
    BY StoreKeeps
  <2>4. reader[r].pc = "mark" => file'[n] # None
    BY <1>4, <2>1, FileStays
  <2>5. ASSUME reader[r].pc = "rename"
        PROVE  file'[Temp(o)] \in {None, Written(o)}
    <3>1. file[Temp(o)] \in {None, Written(o)}
      BY <1>4, <2>1, <2>5
    <3>2. ASSUME NEW q \in Readers, reader[q].pc = "temp", reader[q].object = o
          PROVE  [body |-> reader[q].body, mtime |-> reader[q].mtime] = Written(o)
      BY <1>4, <3>2 DEF Written
    <3> QED
      BY <1>1, <3>1, <3>2, TempOf
  <2> QED
    BY <1>4, <1>6, <2>1, <2>2, <2>3, <2>4, <2>5
<1>7. CASE /\ reader'[r].pc = "open" /\ InState(n, "evicted")
           /\ UNCHANGED <<file, entry, store, latest, wrote, mode, watcher, evictor>>
  <2>1. Recorded(o) /\ ~InState(n, "dirty")
    BY <1>7 DEF ObjectInv, Kept, InState
  <2>2. Stored(o) \/ Dropped(o)
    BY <2>1 DEF ObjectInv, Kept
  <2> QED
    BY <1>5, <1>7, <2>2
<1>8. CASE reader[r].object = o /\ reader'[r] # reader[r]
  <2>1. /\ Stored(o) \/ (Dropped(o) /\ reader[r].pc \in {"open", "join", "wait", "get"})
        /\ reader[r].pc # "open" => reader[r].mtime = wrote[o]
        /\ reader[r].pc \in {"temp", "rename", "mark"} => reader[r].body = wrote[o]
        /\ reader[r].pc = "rename" => file[Temp(o)] \in {None, Written(o)}
    BY <1>4, <1>8
  <2>2. entry[n] # None /\ (InState(n, "evicted") \/ file[n] = None) => entry[n].mtime = wrote[o]
    BY DEF ObjectInv, Kept, Recorded
  <2>3. store[n] # None => ~Dropped(o)
    BY DEF Dropped
  <2>4. reader'[r].pc # "open" => store' = store
    BY <1>1, <1>3, <1>8, ReaderMoves
  <2>5. ASSUME reader'[r].pc # "open"
        PROVE  \/ /\ reader[r].pc = "open" /\ reader'[r].pc = "join"
                  /\ reader'[r].mtime = wrote[o]
               \/ /\ reader[r].pc = "join" /\ reader'[r].pc \in {"wait", "get"}
                  /\ reader'[r].mtime = reader[r].mtime
               \/ /\ reader[r].pc = "get" /\ reader'[r].pc = "temp" /\ ~Dropped(o)
                  /\ reader'[r].body = store[n] /\ reader'[r].mtime = reader[r].mtime
               \/ /\ reader[r].pc = "temp" /\ reader'[r].pc = "rename"
                  /\ reader'[r].body = reader[r].body /\ reader'[r].mtime = reader[r].mtime
                  /\ file'[Temp(o)] = [body |-> reader[r].body, mtime |-> reader[r].mtime]
               \/ /\ reader[r].pc = "rename" /\ reader'[r].pc = "mark"
                  /\ reader'[r].body = reader[r].body /\ reader'[r].mtime = reader[r].mtime
                  /\ file[Temp(o)] # None /\ file'[n] = file[Temp(o)]
    BY <1>1, <1>3, <1>8, <2>2, <2>3, <2>5, ReaderMoves
  <2>6. CASE reader'[r].pc = "open"
    <3>1. InState(n, "evicted") /\ store' = store
      BY <1>1, <1>3, <1>8, <2>6, ReaderMoves
    <3> QED
      BY <1>1, <1>7, <1>3, <1>8, <2>6, ReaderMoves
  <2>7. CASE reader'[r].pc # "open"
    BY <1>5, <2>1, <2>4, <2>5, <2>7 DEF Stored, Written
  <2> QED
    BY <2>6, <2>7
<1> QED
  BY <1>1, <1>3, <1>6, <1>7, <1>8, ReaderMoves

\* The watcher has what the file has.
LEMMA NotingStep ==
  ASSUME CalmAssumption, DirectoryInv, NEW o \in Objects, ObjectInv(o), [Next]_vars,
         ~WriteFile(o), ~DeleteFile(o)
  PROVE  Noting(o)'
<1> DEFINE n == File(o)
<1>1. n \in Names /\ TypeOK /\ UNCHANGED wrote[o]
  BY NamesOf, StoreKeeps DEF DirectoryInv
<1>2. SUFFICES ASSUME watcher'.name = n PROVE file'[n] # None /\ watcher'.mtime = wrote[o]
  BY <1>1 DEF Noting
<1>3. watcher.name = n => file[n] # None /\ watcher.mtime = wrote[o]
  BY DEF ObjectInv, Noting
<1>4. file[n] # None => file[n].mtime = wrote[o]
  BY DEF ObjectInv, Kept, Written
<1>5. watcher.name = n => file'[n] # None
  BY <1>3, FileStays
<1> QED
  BY <1>1, <1>2, <1>3, <1>4, <1>5, WatcherMoves

\* An eviction begins with what nothing else deals with (Agent.Evict).
LEMMA EvictorOf ==
  ASSUME TypeOK, [Next]_vars, NEW n \in Names, evictor'.name = n
  PROVE  evictor.name = n \/ CheckEvictable(n)
<1>1. n # None
  BY NamesUnderWay
<1>2. Resting.name = None
  BY DEF Resting
<1>3. CASE evictor' = evictor
  BY <1>3
<1>4. ASSUME NEW m \in Names, CheckEvictable(m)
      PROVE  m = n
  BY <1>4 DEF CheckEvictable
<1>5. CASE RemoveFile
  <2>1. evictor' = [evictor EXCEPT !.pc = "removed"]
    BY <1>5 DEF RemoveFile
  <2>2. evictor'.name = evictor.name
    BY <2>1 DEF TypeOK, Resting
  <2> QED
    BY <2>2
<1>6. MarkEvicted \/ Crash => evictor' = Resting
  BY DEF MarkEvicted, Crash
<1>7. \/ evictor' = evictor \/ RemoveFile \/ MarkEvicted \/ Crash
      \/ \E m \in Names : CheckEvictable(m)
  BY Writers
<1> QED
  BY <1>1, <1>2, <1>3, <1>4, <1>5, <1>6, <1>7

\* The change of an object's file is told when it is written or recalled.
LEMMA ToldOf ==
  ASSUME TypeOK, [Next]_vars, NEW o \in Objects, Told(Changed(File(o)))'
  PROVE  \/ Told(Changed(File(o))) \/ WriteFile(o)
         \/ \E r \in Readers : reader[r].object = o
<1> DEFINE e == Changed(File(o))
<1>1. SUFFICES ASSUME ~Told(e) PROVE WriteFile(o) \/ \E r \in Readers : reader[r].object = o
  OBVIOUS
<1>2. e \in Event /\ e.op = "change" /\ e.name = File(o)
  BY NamesOf, EventsOf DEF Changed
<1>3. ASSUME NEW m \in Names
      PROVE  /\ Changed(m) \in Event /\ Removed(m) \in Event /\ e # Removed(m)
             /\ e = Changed(m) => m = File(o)
  <2>1. Removed(m).op = "remove" /\ Changed(m).name = m
    BY DEF Removed, Changed
  <2> QED
    BY <1>2, <2>1, EventsOf
<1>4. ASSUME NEW d \in Event, Notice(<<d>>)
      PROVE  e = d
  BY <1>1, <1>4, EventsAfter
<1>5. ASSUME NEW c \in Event, NEW d \in Event, Notice(<<c, d>>)
      PROVE  e = c \/ e = d
  BY <1>1, <1>5, EventsAfter
<1>6. events' # events
  BY <1>1 DEF Told
<1>7. ASSUME events # <<>>
      PROVE  events' # Tail(events)
  BY <1>1, <1>7, EventsAfter
<1>8. events' # <<>>
  BY DEF Told
<1>9. ASSUME NEW p \in Objects, WriteFile(p)
      PROVE  WriteFile(o)
  <2>1. e = Changed(File(p))
    BY <1>3, <1>4, <1>9, NamesOf DEF WriteFile
  <2> QED
    BY <1>3, <1>9, <2>1, NamesOf, FilesApart
<1>10. ASSUME NEW p \in Objects
       PROVE  ~DeleteFile(p)
  BY <1>3, <1>4, <1>10, NamesOf DEF DeleteFile
<1>11. ~MakeDirectory
  <2>1. NewDirectory \in Event /\ NewDirectory.op = "dir"
    BY DEF NewDirectory, Event
  <2> QED
    BY <1>2, <1>4, <2>1 DEF MakeDirectory, NewDirectory
<1>12. ~RemoveFile
  <2> SUFFICES ASSUME RemoveFile PROVE FALSE
    OBVIOUS
  <2>1. evictor.name \in Names
    BY NamesUnderWay DEF RemoveFile
  <2>2. Notice(<<>>) \/ Notice(<<Removed(evictor.name)>>)
    BY DEF RemoveFile
  <2> QED
    BY <1>3, <1>4, <1>6, <2>1, <2>2, EventsAfter
<1>13. ASSUME NEW r \in Readers, FillTemp(r) \/ DropTemp(r) \/ RenameTemp(r)
       PROVE  reader[r].object = o
  <2>1. PICK p \in Objects : p = reader[r].object
    BY <1>13, ReaderStep DEF FillTemp, DropTemp, RenameTemp
  <2>2. File(o) # Temp(p) /\ Temp(p) \in Names /\ File(p) \in Names
    BY NamesOf DEF File, Temp
  <2>3. ~FillTemp(r) /\ ~DropTemp(r)
    BY <1>3, <1>4, <2>1, <2>2 DEF FillTemp, DropTemp
  <2>4. Notice(<<Removed(Temp(p)), Changed(File(p))>>)
    BY <1>6, <1>13, <2>1, <2>3 DEF RenameTemp
  <2>5. e = Changed(File(p))
    BY <1>3, <1>5, <2>2, <2>4
  <2> QED
    BY <1>3, <2>1, <2>2, <2>5, FilesApart
<1> QED
  BY <1>6, <1>7, <1>8, <1>9, <1>10, <1>11, <1>12, <1>13, Writers
  DEF StatChanged, OfferRemoved, ScanDirectory, Crash

\* What is being evicted stays safe, and alone.
LEMMA EvictingStep ==
  ASSUME CalmAssumption, DirectoryInv, NEW o \in Objects, ObjectInv(o), [Next]_vars,
         ~WriteFile(o), ~DeleteFile(o)
  PROVE  Evicting(o)'
<1> DEFINE n == File(o)
<1>1. n \in Names /\ TypeOK /\ ModeInv /\ UNCHANGED <<latest[o], wrote[o]>>
  BY NamesOf, StoreKeeps DEF DirectoryInv
<1>2. n # None /\ Resting.name # n
  BY <1>1, NamesUnderWay DEF Resting
<1>3. SUFFICES ASSUME evictor'.name = n
               PROVE  /\ InState(n, "synced")' /\ Recorded(o)'
                      /\ watcher'.name # n
                      /\ ~Told(Changed(n))'
                      /\ \A w \in Workers : worker'[w].name # n
                      /\ \A r \in Readers : reader'[r].object # o
  BY DEF Evicting
<1>4. CASE evictor.name = n
  <2>1. /\ InState(n, "synced") /\ Recorded(o)
        /\ watcher.name # n
        /\ ~Told(Changed(n))
        /\ \A w \in Workers : worker[w].name # n
        /\ \A r \in Readers : reader[r].object # o
    BY <1>4 DEF ObjectInv, Evicting
  <2>2. evictor # Resting /\ evictor' # Resting
    BY <1>2, <1>3, <1>4
  <2>3. entry'[n] = entry[n]
    <3>1. scan.pc = "idle"
      <4>1. NotedAssumption
        BY DEF CalmAssumption, NotedAssumption
      <4> QED
        BY <2>2, <4>1, ScanAlone DEF DirectoryInv
    <3>2. ASSUME NEW r \in Readers, reader[r].pc = "mark"
          PROVE  File(reader[r].object) # n
      BY <1>1, <2>1, <3>2, ReaderStep, FilesApart
    <3> QED
      BY <1>1, <2>1, <2>2, <3>1, <3>2, EntryOf
  <2>4. InState(n, "synced")' /\ Recorded(o)'
    BY <1>1, <2>1, <2>3 DEF InState, Recorded
  <2>5. watcher'.name # n
    BY <1>1, <2>1, WatcherMoves
  <2>6. ~Told(Changed(n))'
    BY <1>1, <2>1, ToldOf
  <2>7. ~InState(n, "dirty") /\ ~InState(n, "evicted")
    BY <2>1 DEF InState
  <2>8. \A w \in Workers : worker'[w].name # n
    BY <1>1, <1>2, <2>1, <2>7, WorkerNames
  <2>9. \A r \in Readers : reader'[r].object # o
    BY <1>1, <2>1, <2>7, ReaderMoves
  <2> QED
    BY <2>4, <2>5, <2>6, <2>8, <2>9
<1>5. CASE CheckEvictable(n)
  <2>1. Settled(n) /\ mode = "serving" /\ InState(n, "synced")
    BY <1>5 DEF CheckEvictable, CalmAssumption
  <2>2. UNCHANGED <<file, entry, store, worker, events, watcher, scan, reader, mode, wrote>>
    BY <1>5 DEF CheckEvictable, users
  <2>3. /\ watcher.name # n
        /\ \A w \in Workers : worker[w].name # n
        /\ ~Told(Changed(n))
        /\ \A r \in Readers : reader[r].object # o
    BY <2>1, SettledFree
  <2>4. ~Noticed(n)
    BY <2>1, <2>3 DEF Noticed
  <2>5. Recorded(o)
    BY <2>1, <2>4 DEF ObjectInv, Kept, InState
  <2> QED
    BY <2>1, <2>2, <2>3, <2>5 DEF InState, Recorded, Told
<1> QED
  BY <1>1, <1>3, <1>4, <1>5, EvictorOf

\* What was never written appears nowhere, and what was deleted comes back
\* through a recall only.
LEMMA UnwrittenStep ==
  ASSUME CalmAssumption, DirectoryInv, NEW o \in Objects, ObjectInv(o), [Next]_vars,
         ~WriteFile(o), ~DeleteFile(o)
  PROVE  Unwritten(o)'
<1> DEFINE n == File(o)
<1>1. n \in Names /\ TypeOK /\ UncachedInv /\ UNCHANGED <<latest[o], wrote[o]>>
  BY NamesOf, StoreKeeps DEF DirectoryInv
<1>2. SUFFICES ASSUME latest[o] = None
               PROVE  /\ "delete" \notin Environment \/ ~Caching => file'[n] = None
                      /\ "delete" \notin Environment =>
                           /\ entry'[n] = None
                           /\ watcher'.name # n
                           /\ \A r \in Readers : reader'[r].object # o
  BY <1>1 DEF Unwritten
<1>3. ~Caching => file[n] = None /\ \A r \in Readers : reader[r].object # o
  BY <1>1, <1>2, NoneAssumption DEF ObjectInv, Unwritten, UncachedInv, Away
<1>4. ~Caching => file'[n] = None
  BY <1>1, <1>3, FileOf
<1>5. SUFFICES ASSUME "delete" \notin Environment
               PROVE  /\ file'[n] = None /\ entry'[n] = None
                      /\ watcher'.name # n
                      /\ \A r \in Readers : reader'[r].object # o
  BY <1>4
<1>6. /\ file[n] = None /\ entry[n] = None /\ watcher.name # n
      /\ \A r \in Readers : reader[r].object # o
  BY <1>2, <1>5 DEF ObjectInv, Unwritten
<1>7. file'[n] = None
  BY <1>1, <1>6, FileOf
<1>8. evictor.name # n /\ ~InState(n, "evicted")
  BY <1>6 DEF ObjectInv, Evicting, InState
<1>9. entry'[n] = None
  BY <1>6, <1>8, EntryKeeps
<1>10. watcher'.name # n
  BY <1>1, <1>6, WatcherMoves
<1>11. \A r \in Readers : reader'[r].object # o
  BY <1>1, <1>6, <1>8, ReaderMoves
<1> QED
  BY <1>7, <1>9, <1>10, <1>11

\* Every copy of every object is accounted for, at any time.
LEMMA CacheInvariant ==
  ASSUME CalmAssumption
  PROVE  Spec => [](DirectoryInv /\ CacheInv)
<1>1. Init => CacheInv
  <2> SUFFICES ASSUME Init, NEW o \in Objects PROVE ObjectInv(o)
    BY DEF CacheInv
  <2>1. File(o) \in Names /\ None \notin Objects /\ None \notin Names
    BY NamesOf, NoneAssumption
  <2>2. /\ file[File(o)] = None /\ entry[File(o)] = None /\ latest[o] = None
        /\ watcher.name # File(o) /\ evictor.name # File(o)
        /\ \A w \in Workers : worker[w].name # File(o)
        /\ \A r \in Readers : reader[r].object # o
    BY <2>1 DEF Init, Watching, Resting, Idle, Away
  <2> QED
    BY <2>2 DEF ObjectInv, Kept, Sending, Fetching, Noting, Evicting, Unwritten, InState, Recorded
<1>2. DirectoryInv /\ CacheInv /\ [Next]_vars => CacheInv'
  <2> SUFFICES ASSUME DirectoryInv, CacheInv, [Next]_vars, NEW o \in Objects
               PROVE  ObjectInv(o)'
    BY DEF CacheInv
  <2>1. ObjectInv(o)
    BY DEF CacheInv
  <2>2. CASE WriteFile(o)
    BY <2>1, <2>2, WriteKeeps
  <2>3. CASE DeleteFile(o)
    BY <2>1, <2>3, DeleteKeeps
  <2>4. CASE ~WriteFile(o) /\ ~DeleteFile(o)
    BY <2>1, <2>4, KeptStep, SendingStep, FetchingStep, NotingStep, EvictingStep, UnwrittenStep
    DEF ObjectInv
  <2> QED
    BY <2>2, <2>3, <2>4
<1>3. NotedAssumption
  BY DEF CalmAssumption, NotedAssumption
<1>4. Spec => []DirectoryInv
  BY <1>3, DirectoryInvariant
<1> QED
  BY <1>1, <1>2, <1>4, PTL DEF Spec

\* The last version of a file is on disk or on the store at any time, whatever
\* is uploaded, evicted, recalled, swept or interrupted (Agent.Evict: "evicting
\* a dirty object would be deleting the only copy").
THEOREM AgentNothingLost ==
  ASSUME CalmAssumption
  PROVE  Spec => []NothingLost
<1>1. CacheInv /\ DirectoryInv => NothingLost
  <2> SUFFICES ASSUME CacheInv, DirectoryInv, NEW o \in Objects, latest[o] # None
               PROVE  \/ file[File(o)] # None /\ file[File(o)].body = latest[o]
                      \/ store[File(o)] = latest[o]
    BY DEF NothingLost
  <2>1. Kept(o) /\ latest[o] = wrote[o]
    BY DEF CacheInv, ObjectInv, Kept
  <2>2. file[File(o)] # None => file[File(o)].body = latest[o]
    BY <2>1 DEF Kept, Written
  <2>3. file[File(o)] = None => Recorded(o) /\ ~InState(File(o), "dirty")
    BY <2>1 DEF Kept, InState
  <2> QED
    BY <2>1, <2>2, <2>3 DEF Kept, Stored, Dropped
<1> QED
  BY <1>1, CacheInvariant, PTL

\* What a scan would take for unchanged, and no upload would send, is on the
\* store (Agent.scan compares times; Agent.upload skips what is not dirty).
THEOREM AgentUnchangedMeansStored ==
  ASSUME CalmAssumption
  PROVE  Spec => []UnchangedMeansStored
<1>1. CacheInv => UnchangedMeansStored
  <2> SUFFICES ASSUME CacheInv, NEW o \in Objects,
                      entry[File(o)] # None, entry[File(o)].state # "dirty",
                      file[File(o)] # None, file[File(o)].mtime = entry[File(o)].mtime
               PROVE  store[File(o)] = file[File(o)].body
    BY DEF UnchangedMeansStored
  <2>1. Kept(o)
    BY DEF CacheInv, ObjectInv
  <2>2. file[File(o)].mtime = wrote[o] /\ file[File(o)].body = wrote[o]
    BY <2>1 DEF Kept, Written
  <2>3. Recorded(o) /\ ~InState(File(o), "dirty")
    BY <2>2 DEF Recorded, InState
  <2> QED
    BY <2>1, <2>2, <2>3 DEF Kept, Stored
<1> QED
  BY <1>1, CacheInvariant, PTL

\* WordPress sees what it last wrote through the mount, evicted or not, but
\* between the removal of an evicted file and the entry that says so, where it
\* deletes nothing or nothing is evicted (Agent.Evict, Agent.Recall).
THEOREM AgentReadersSeeLatest ==
  ASSUME CalmAssumption, "delete" \notin Environment \/ Caching = FALSE
  PROVE  Spec => []ReadersSeeLatest
<1>1. CacheInv /\ DirectoryInv => ReadersSeeLatest
  <2> SUFFICES ASSUME CacheInv, DirectoryInv, NEW o \in Objects
               PROVE  Visible(o) = latest[o] \/ evictor = [pc |-> "removed", name |-> File(o)]
    BY DEF ReadersSeeLatest
  <2>1. Kept(o) /\ Unwritten(o) /\ File(o) \in Names
    BY NamesOf DEF CacheInv, ObjectInv
  <2>2. CASE latest[o] = None
    <3>1. file[File(o)] = None
      BY <2>1, <2>2 DEF Unwritten
    <3>2. ~InState(File(o), "evicted")
      BY <2>1, <2>2 DEF Unwritten, InState, DirectoryInv, UncachedInv
    <3> QED
      BY <2>2, <3>1, <3>2 DEF Visible
  <2>3. CASE latest[o] # None
    <3>1. latest[o] = wrote[o]
      BY <2>1, <2>3 DEF Kept
    <3>2. CASE file[File(o)] # None
      BY <2>1, <3>1, <3>2 DEF Kept, Written, Visible
    <3>3. CASE file[File(o)] = None /\ evictor # [pc |-> "removed", name |-> File(o)]
      <4>1. InState(File(o), "evicted") /\ Recorded(o)
        BY <2>1, <2>3, <3>3 DEF Kept
      <4>2. ~InState(File(o), "dirty")
        BY <4>1 DEF InState
      <4>3. Stored(o)
        BY <2>1, <2>3, <4>1, <4>2 DEF Kept, Dropped
      <4> QED
        BY <3>1, <3>3, <4>1, <4>3 DEF Visible, Stored
    <3> QED
      BY <3>2, <3>3
  <2> QED
    BY <2>2, <2>3
<1> QED
  BY <1>1, CacheInvariant, PTL

=============================================================================
