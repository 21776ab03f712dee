------------------------------ MODULE TanaWatch ------------------------------
(***************************************************************************)
(* How the agent learns of what WordPress writes (internal/agent): a watch *)
(* on every directory of the backing store, since fsnotify is not          *)
(* recursive, one goroutine that reads the events in order, and a scan of  *)
(* the whole tree when a directory appears.  What becomes of a file that   *)
(* was recorded is the subject of TanaAgent, which has one directory.      *)
(*                                                                         *)
(* A directory has at most one file; a content is the number of the write  *)
(* that made it, 0 for none, and stands for size and modification time.    *)
(***************************************************************************)
EXTENDS Integers, Sequences, FiniteSets, SequencesExt

CONSTANTS
  Dirs,      \* directories there may be
  Root,      \* the backing directory
  ParentOf,  \* [Dirs \ {Root} -> Dirs]
  Hardships, \* what else may happen
  MaxWrites, \* bound: writes
  MaxEvents  \* the length of the kernel's queue; without "overflow" a bound

\* "nested": a directory is made inside one that is not watched yet;
\* "overflow": the kernel's queue is full and an event is dropped; "addFails":
\* a new directory gets no watch, and nobody is told.
ASSUME WatchHardships == Hardships \subseteq {"nested", "overflow", "addFails"}
ASSUME WatchBounds ==
  /\ Root \in Dirs /\ ParentOf \in [Dirs \ {Root} -> Dirs]
  /\ MaxWrites \in Nat /\ MaxEvents \in Nat \ {0}

VARIABLES
  dirs,     \* the directories that exist
  file,     \* [Dirs -> content of the file in it]
  recorded, \* [Dirs -> content the index has for that file]
  watched,  \* the directories with a watch
  events,   \* the kernel's queue
  watcher,  \* the goroutine of Agent.watch
  failed,   \* history: an error was logged, and no scan has been complete since
  writes

tree == <<dirs, file, writes>>
vars == <<dirs, file, recorded, watched, events, watcher, failed, writes>>

Event == [what : {"dir", "file", "gone"}, dir : Dirs]
Node == [what : {"dir", "file"}, dir : Dirs]

Idle == [pc |-> "idle", dir |-> Root, content |-> 0, todo |-> {}, seen |-> {}]

WatchTypeOK ==
  /\ dirs \subseteq Dirs /\ watched \subseteq dirs
  /\ file \in [Dirs -> 0..MaxWrites] /\ recorded \in [Dirs -> 0..MaxWrites]
  /\ events \in Seq(Event) /\ Len(events) <= MaxEvents
  /\ watcher \in [pc : {"idle", "stat", "walking", "info", "removing"}, dir : Dirs,
                  content : 0..MaxWrites, todo : SUBSET Node, seen : SUBSET Dirs]
  /\ failed \in BOOLEAN

WatchInit ==
  /\ dirs = {Root} /\ watched = {Root}
  /\ file = [d \in Dirs |-> 0] /\ recorded = file
  /\ events = <<>> /\ watcher = Idle /\ failed = FALSE /\ writes = 0

-----------------------------------------------------------------------------
(***************************************************************************)
(* WordPress.  The kernel reports what happens in a watched directory, and *)
(* merges an event with an equal one it has just queued.                   *)
(***************************************************************************)
Happens(e) == IF e.what = "dir" THEN ParentOf[e.dir] ELSE e.dir

Reported(e) == Happens(e) \in watched /\ (events = <<>> \/ Last(events) # e)

Notify(e) ==
  /\ Reported(e) => Len(events) < MaxEvents \/ "overflow" \in Hardships
  /\ events' = IF Reported(e) /\ Len(events) < MaxEvents THEN Append(events, e) ELSE events

MakeDirectory(d) ==
  /\ d \notin dirs /\ d # Root /\ ParentOf[d] \in dirs
  /\ ParentOf[d] \in watched \/ "nested" \in Hardships
  /\ dirs' = dirs \cup {d}
  /\ Notify([what |-> "dir", dir |-> d])
  /\ UNCHANGED <<file, recorded, watched, watcher, writes, failed>>

WriteFile(d) ==
  /\ d \in dirs /\ writes < MaxWrites
  /\ writes' = writes + 1
  /\ file' = [file EXCEPT ![d] = writes + 1]
  /\ Notify([what |-> "file", dir |-> d])
  /\ UNCHANGED <<dirs, recorded, watched, watcher, failed>>

DeleteFile(d) ==
  /\ file[d] # 0
  /\ file' = [file EXCEPT ![d] = 0]
  /\ Notify([what |-> "gone", dir |-> d])
  /\ UNCHANGED <<dirs, recorded, watched, watcher, writes, failed>>

-----------------------------------------------------------------------------
(***************************************************************************)
(* handleEvent.                                                            *)
(***************************************************************************)
Takes(what) ==
  /\ watcher.pc = "idle"
  /\ events # <<>> /\ Head(events).what = what
  /\ events' = Tail(events)

\* A removal queues the key and leaves the index alone; so does a file that
\* cannot be looked at.
PassOver ==
  /\ \/ Takes("gone")
     \/ Takes("file") /\ file[Head(events).dir] = 0
  /\ UNCHANGED <<tree, recorded, watched, watcher, failed>>

StatFile ==
  /\ Takes("file")
  /\ LET d == Head(events).dir IN
     /\ file[d] # 0
     /\ watcher' = [watcher EXCEPT !.pc = "stat", !.dir = d, !.content = file[d]]
  /\ UNCHANGED <<tree, recorded, watched, failed>>

PutEntry ==
  /\ watcher.pc = "stat"
  /\ recorded' = [recorded EXCEPT ![watcher.dir] = watcher.content]
  /\ watcher' = Idle
  /\ UNCHANGED <<tree, watched, events, failed>>

\* The index takes neither what an event nor what a scan has seen: the error is
\* logged, and the event or the whole scan is over.
FailPut ==
  /\ watcher.pc \in {"stat", "info"}
  /\ watcher' = Idle /\ failed' = TRUE
  /\ UNCHANGED <<tree, recorded, watched, events>>

\* w.Add, whose error is ignored.
AfterAdd(d) ==
  {watched \cup {d}} \cup (IF "addFails" \in Hardships THEN {watched} ELSE {})

\* Faulty: the new directory is watched, and its files wait for their events.
WatchOnly ==
  /\ Takes("dir")
  /\ watched' \in AfterAdd(Head(events).dir)
  /\ UNCHANGED <<tree, recorded, watcher, failed>>

\* Watch it, and scan: the walk begins at the root.
WatchDirectory ==
  /\ Takes("dir")
  /\ watched' \in AfterAdd(Head(events).dir)
  /\ watcher' = [Idle EXCEPT !.pc = "walking", !.todo = {[what |-> "dir", dir |-> Root]}]
  /\ UNCHANGED <<tree, recorded, failed>>

-----------------------------------------------------------------------------
(***************************************************************************)
(* Scan.  A directory is listed when the walk comes to it; its files are   *)
(* looked at later, one by one.  The order of the walk is left open.       *)
(***************************************************************************)
Listed(d) ==
  {[what |-> "dir", dir |-> c] : c \in {x \in dirs \ {Root} : ParentOf[x] = d}}
  \cup (IF file[d] # 0 THEN {[what |-> "file", dir |-> d]} ELSE {})

ListDirectory(d) ==
  LET node == [what |-> "dir", dir |-> d] IN
  /\ watcher.pc = "walking" /\ node \in watcher.todo
  /\ watcher' = [watcher EXCEPT !.todo = (@ \ {node}) \cup Listed(d)]
  /\ UNCHANGED <<tree, recorded, watched, events, failed>>

LookAtFile(d) ==
  LET node == [what |-> "file", dir |-> d] IN
  /\ watcher.pc = "walking" /\ node \in watcher.todo
  /\ file[d] # 0
  /\ watcher' = [watcher EXCEPT !.pc = "info", !.dir = d, !.content = file[d],
                                !.todo = @ \ {node}, !.seen = @ \cup {d}]
  /\ UNCHANGED <<tree, recorded, watched, events, failed>>

PutScanned ==
  /\ watcher.pc = "info"
  /\ recorded' = [recorded EXCEPT ![watcher.dir] = watcher.content]
  /\ watcher' = [watcher EXCEPT !.pc = "walking"]
  /\ UNCHANGED <<tree, watched, events, failed>>

\* The file a listing named is gone: the whole scan ends with an error.
AbortScan(d) ==
  /\ watcher.pc = "walking" /\ [what |-> "file", dir |-> d] \in watcher.todo
  /\ file[d] = 0
  /\ watcher' = Idle /\ failed' = TRUE
  /\ UNCHANGED <<tree, recorded, watched, events>>

\* What the walk has not seen is taken for deleted.
FindGone ==
  /\ watcher.pc = "walking" /\ watcher.todo = {}
  /\ watcher' = [watcher EXCEPT !.pc = "removing",
       !.todo = {[what |-> "file", dir |-> d] :
                   d \in {x \in Dirs : recorded[x] # 0} \ watcher.seen}]
  /\ UNCHANGED <<tree, recorded, watched, events, failed>>

\* The entry goes once the store has answered; if it does not, it stays.
RemoveEntry(d) ==
  LET node == [what |-> "file", dir |-> d] IN
  /\ watcher.pc = "removing" /\ node \in watcher.todo
  /\ watcher' = [watcher EXCEPT !.todo = @ \ {node}]
  /\ recorded' \in {recorded, [recorded EXCEPT ![d] = 0]}
  /\ UNCHANGED <<tree, watched, events, failed>>

EndScan ==
  /\ watcher.pc = "removing" /\ watcher.todo = {}
  /\ watcher' = Idle /\ failed' = FALSE
  /\ UNCHANGED <<tree, recorded, watched, events>>

-----------------------------------------------------------------------------
\* The process ends and is started: it scans, watches every directory, and
\* only then is there a mount for WordPress to write to.  A deletion the
\* store does not take keeps its entry.
Restart ==
  /\ watched' = dirs
  /\ \E kept \in SUBSET {d \in Dirs : file[d] = 0} :
       recorded' = [d \in Dirs |-> IF d \in kept THEN recorded[d] ELSE file[d]]
  /\ events' = <<>> /\ watcher' = Idle /\ failed' = FALSE
  /\ UNCHANGED tree

WatchNext ==
  \/ \E d \in Dirs :
       \/ MakeDirectory(d) \/ WriteFile(d) \/ DeleteFile(d)
       \/ ListDirectory(d) \/ LookAtFile(d) \/ RemoveEntry(d) \/ AbortScan(d)
  \/ PassOver \/ StatFile \/ PutEntry \/ FailPut \/ WatchDirectory
  \/ PutScanned \/ FindGone \/ EndScan
  \/ Restart

WatchSpec == WatchInit /\ [][WatchNext]_vars

-----------------------------------------------------------------------------
\* "Watch every directory": when the watcher has read every event and rests,
\* each directory has a watch and, unless an error was logged and no scan has
\* been complete since, each file an entry that says what is in it, however the
\* writes fell between a new directory, its watch and its scan.
NothingUnnoticed ==
  /\ WatchTypeOK
  /\ watcher.pc = "idle" /\ events = <<>> =>
       /\ watched = dirs
       /\ failed \/ \A d \in dirs : file[d] # 0 => recorded[d] = file[d]

=============================================================================
