------------------------------ MODULE TanaCache ------------------------------
(***************************************************************************)
(* Local disk as a cache, one site of it: the index entries with their     *)
(* counters and access times (internal/index), the eviction pass           *)
(* (internal/agent/recall.go) and what the FUSE mount answers meanwhile    *)
(* (internal/mount).                                                       *)
(*                                                                         *)
(* Counters and entries change in one transaction.  Access times wait in   *)
(* memory and are written by a flusher, a swap first and a transaction     *)
(* afterwards.  A file changes first and the watcher records it later.  A  *)
(* pass measures, walks and then evicts one object after the other, each   *)
(* in three steps: a look at the entry, the removal of the file, the mark. *)
(* A mount call looks at the directory and at the index, one after the     *)
(* other.  How writes, uploads and recalls interleave with one another is  *)
(* TanaAgent's subject: here each is the steps a pass or a call can tell   *)
(* apart.                                                                  *)
(***************************************************************************)
EXTENDS Integers, Sequences, FiniteSets, SequencesExt, FiniteSetsExt

CONSTANTS
  Objects,    \* the files WordPress knows
  Sizes,      \* sizes they may have
  NeverEvict, \* objects a never_evict pattern matches
  KeepBelow,  \* cache.keep_below
  MaxSize,    \* cache.max_size, in the same unit
  None,
  Hardships,  \* what else may happen
  MaxFiles,   \* bound: objects that exist at once
  MaxClock    \* bound: clock ticks

\* "short": the disk is short of cache.min_free by one unit; "flushFails": a
\* transaction of the flusher fails; "stale": an object is rewritten, too small
\* to be evicted, between the walk of a pass and its turn; "rewritten": when
\* Evict looks at an entry the file has changed and the watcher has not said so,
\* or it changes between that look and the removal.
ASSUME CacheHardships == Hardships \subseteq {"short", "flushFails", "stale", "rewritten"}
ASSUME CacheBounds ==
  /\ NeverEvict \subseteq Objects /\ Sizes \subseteq Nat /\ IsFiniteSet(Objects)
  /\ KeepBelow \in Nat /\ MaxSize \in Nat \ {0} /\ MaxFiles \in Nat /\ MaxClock \in Nat

Entry == [size : Sizes, state : {"dirty", "synced", "evicted"}, atime : Nat]
ASSUME CacheNone == None \notin Objects /\ None \notin Entry

VARIABLES
  entry,     \* the index entry of every object, or None
  stats,     \* the counters of the namespace
  pending,   \* DB.pending: access times in memory, -1 for none
  flushing,  \* access times a flush has taken out of pending
  file,      \* the objects with a file in the backing directory
  unread,    \* the files that changed since the watcher last looked at them
  landing,   \* objects whose recall has renamed its file and not marked it
  pass,      \* the eviction pass
  call,      \* a call of the mount
  read,      \* history: when an object was last recorded or read, as far as no
             \* failed flush has lost it
  clock

index == <<entry, stats>>
atimes == <<pending, flushing>>
disk == <<file, unread>>
vars == <<entry, stats, pending, flushing, file, unread, landing, pass, call, read, clock>>

Counters == {"objects", "bytes", "localObjects", "localBytes", "dirtyObjects", "dirtyBytes"}
NoTimes == [o \in Objects |-> -1]

Resting == [pc |-> "idle", target |-> 0, goal |-> 0, pool |-> <<>>, cur |-> None,
            freed |-> 0, last |-> 0, gone |-> {}, calm |-> TRUE, settled |-> FALSE]
Silent == [pc |-> "idle", op |-> "list", seen |-> {}, calm |-> {}, missed |-> {}]

CacheTypeOK ==
  /\ entry \in [Objects -> Entry \cup {None}]
  /\ stats \in [Counters -> Nat]
  /\ pending \in [Objects -> -1..MaxClock]
  /\ flushing \in [Objects -> -1..MaxClock]
  /\ file \subseteq Objects /\ landing \subseteq Objects
  /\ unread \subseteq Objects
  /\ pass.pc \in {"idle", "measured", "evicting", "checked", "removed", "done"}
  /\ call.pc \in {"idle", "half"}
  /\ read \in [Objects -> Nat] /\ clock \in 0..MaxClock

CacheInit ==
  /\ entry = [o \in Objects |-> None]
  /\ stats = [c \in Counters |-> 0]
  /\ pending = NoTimes /\ flushing = NoTimes
  /\ file = {} /\ landing = {} /\ unread = {}
  /\ pass = Resting /\ call = Silent
  /\ read = [o \in Objects |-> 0]
  /\ clock = 0

-----------------------------------------------------------------------------
(***************************************************************************)
(* Index transactions.                                                     *)
(***************************************************************************)
Indexed == {o \in Objects : entry[o] # None}
Local(e) == e.state # "evicted"
Safe(e) == e.state \in {"synced", "evicted"}

\* Stats.add: what one entry counts for.
Weight(e) ==
  IF e = None THEN [c \in Counters |-> 0]
  ELSE [objects      |-> 1,
        bytes        |-> e.size,
        localObjects |-> IF Local(e) THEN 1 ELSE 0,
        localBytes   |-> IF Local(e) THEN e.size ELSE 0,
        dirtyObjects |-> IF e.state = "dirty" THEN 1 ELSE 0,
        dirtyBytes   |-> IF e.state = "dirty" THEN e.size ELSE 0]

\* Faulty: replacing an entry counts the new one and forgets the old.
StoreAdding(o, e) ==
  /\ entry' = [entry EXCEPT ![o] = e]
  /\ stats' = [c \in Counters |->
       stats[c] - (IF e = None THEN Weight(entry[o])[c] ELSE 0) + Weight(e)[c]]

\* Tx.Put, Tx.SetState and Tx.Delete: the entry, and the difference it makes.
Store(o, e) ==
  /\ entry' = [entry EXCEPT ![o] = e]
  /\ stats' = [c \in Counters |-> stats[c] - Weight(entry[o])[c] + Weight(e)[c]]

SetState(o, s) ==
  IF entry[o] = None THEN UNCHANGED index
  ELSE Store(o, [entry[o] EXCEPT !.state = s])

Later(a, b) == IF a > b THEN a ELSE b

NoTimesWait == pending = NoTimes /\ flushing = NoTimes

\* DB.Touch: the later of the two times.
Touched(o) == [pending EXCEPT ![o] = Later(@, clock)]

-----------------------------------------------------------------------------
(***************************************************************************)
(* The site: WordPress, the uploads, the recalls.                          *)
(***************************************************************************)
Pooled(o) == \E i \in DOMAIN pass.pool : pass.pool[i].key = o

\* Evict has looked at the entry of o, and has not marked it yet.
Doomed(o) == pass.pc \in {"checked", "removed"} /\ pass.cur = o

\* The pass as it is when something else has changed the entries: what its
\* properties remember is void.
Disturbed ==
  IF pass.pc \in {"idle", "done"} THEN Resting
  ELSE [pass EXCEPT !.calm = FALSE, !.goal = 0, !.last = 0, !.gone = {}, !.settled = FALSE]

\* The call as it is when the bytes of o have come or gone.
Moved(o) == [call EXCEPT !.calm = IF call.op = "getattr" THEN @ ELSE @ \ {o}]

\* A file is written; its event is on its way to the watcher.
WriteFile(o) ==
  /\ Cardinality(Indexed \cup file \cup {o}) <= MaxFiles
  /\ call.pc = "idle"
  /\ "rewritten" \in Hardships \/ ~Doomed(o)
  /\ o \notin landing
  /\ entry[o] = None \/ o \in file
  /\ file' = file \cup {o}
  /\ unread' = unread \cup {o}
  /\ UNCHANGED <<index, atimes, landing, pass, call, read, clock>>

\* The watcher looks at the file and records it; the entry is built anew.
RecordFile(o, s) ==
  /\ o \in unread
  /\ "stale" \in Hardships \/ ~Pooled(o) \/ s >= KeepBelow
  /\ unread' = unread \ {o}
  /\ Store(o, [size |-> s, state |-> "dirty", atime |-> clock])
  /\ read' = [read EXCEPT ![o] = clock]
  /\ pass' = Disturbed
  /\ call' = Moved(o)
  /\ UNCHANGED <<atimes, file, landing, clock>>

Upload(o) ==
  /\ entry[o] # None /\ entry[o].state = "dirty"
  /\ SetState(o, "synced")
  /\ pass' = Disturbed
  /\ UNCHANGED <<atimes, disk, landing, call, read, clock>>

\* An object is deleted, from the directory and then from the index.
RemoveObject(o) ==
  /\ o \in file /\ o \notin landing
  /\ file' = file \ {o}
  /\ unread' = unread \ {o}
  /\ Store(o, None)
  /\ pending' = [pending EXCEPT ![o] = -1]
  /\ read' = [read EXCEPT ![o] = 0]
  /\ pass' = Disturbed
  /\ call' = [call EXCEPT !.calm = @ \ {o}]
  /\ UNCHANGED <<flushing, landing, clock>>

\* A recall renames what it fetched into place, and marks the entry afterwards.
LandRecall(o) ==
  /\ entry[o] # None /\ ~Local(entry[o]) /\ o \notin landing
  /\ pass.pc = "removed" => pass.cur # o
  /\ file' = file \cup {o}
  /\ landing' = landing \cup {o}
  /\ UNCHANGED <<index, atimes, unread, pass, call, read, clock>>

MarkRecalled(o) ==
  /\ o \in landing
  /\ landing' = landing \ {o}
  /\ SetState(o, "synced")
  /\ pending' = Touched(o)
  /\ read' = [read EXCEPT ![o] = clock]
  /\ pass' = Disturbed
  /\ call' = Moved(o)
  /\ UNCHANGED <<flushing, disk, clock>>

-----------------------------------------------------------------------------
(***************************************************************************)
(* Access times.                                                           *)
(***************************************************************************)
Touch(o) ==
  /\ entry[o] # None /\ call.pc = "idle"
  /\ pending' = Touched(o)
  /\ read' = [read EXCEPT ![o] = clock]
  /\ UNCHANGED <<index, flushing, disk, landing, pass, call, clock>>

TakePending ==
  /\ flushing = NoTimes /\ pending # NoTimes
  /\ flushing' = pending
  /\ pending' = NoTimes
  /\ UNCHANGED <<index, disk, landing, pass, call, read, clock>>

\* Faulty: the entry is written with the time it was read with.
FlushNothing ==
  /\ flushing # NoTimes
  /\ flushing' = NoTimes
  /\ UNCHANGED <<index, pending, disk, landing, pass, call, read, clock>>

\* One transaction; entries that are gone, or accessed later, are passed over.
Flush ==
  /\ flushing # NoTimes
  /\ flushing' = NoTimes
  /\ entry' = [o \in Objects |->
       IF entry[o] # None /\ flushing[o] > entry[o].atime
       THEN [entry[o] EXCEPT !.atime = flushing[o]] ELSE entry[o]]
  /\ UNCHANGED <<stats, pending, disk, landing, pass, call, read, clock>>

\* A failed transaction is logged and its times are lost: nothing knows any
\* more that the objects were read.
FailFlush ==
  /\ "flushFails" \in Hardships
  /\ flushing # NoTimes
  /\ flushing' = NoTimes
  /\ read' = [o \in Objects |-> IF entry[o] = None THEN read[o]
                                ELSE Later(entry[o].atime, pending[o])]
  /\ UNCHANGED <<index, pending, disk, landing, pass, call, clock>>

-----------------------------------------------------------------------------
(***************************************************************************)
(* EvictToFit.                                                             *)
(***************************************************************************)
Smaller(a, b) == IF a < b THEN a ELSE b

OverBy(short) ==
  LET over == stats["localBytes"] - MaxSize
  IN  IF over > short THEN over ELSE short

\* The counters decide how much is to go; nothing is walked if they fit.  goal
\* is what the pass is for, in the words of the configuration.
Measure(short) ==
  /\ pass.pc \in {"idle", "done"}
  /\ short = 0 \/ "short" \in Hardships
  /\ OverBy(short) > 0
  /\ pass' = [Resting EXCEPT !.pc = "measured", !.target = OverBy(short),
                             !.goal = Smaller(MaxSize, stats["localBytes"] - short)]
  /\ UNCHANGED <<index, atimes, disk, landing, call, read, clock>>

Evictable(o) ==
  /\ entry[o] # None
  /\ Local(entry[o]) /\ Safe(entry[o])
  /\ entry[o].size >= KeepBelow
  /\ o \notin NeverEvict

\* Coldest first, then largest first; the sort leaves open what is equal.
ColdestFirst(a, b) == a.atime < b.atime \/ (a.atime = b.atime /\ a.size >= b.size)

\* Faulty: the walk looks at the state and not at the size or the patterns.
WalkAll ==
  /\ pass.pc = "measured"
  /\ \E pool \in SetToSeqs({[key |-> o, size |-> entry[o].size, atime |-> entry[o].atime, read |-> read[o]] :
                             o \in {x \in Objects : entry[x] # None /\ entry[x].state = "synced"}}) :
       /\ \A i, j \in DOMAIN pool : i < j => ColdestFirst(pool[i], pool[j])
       /\ pass' = [pass EXCEPT !.pc = "evicting", !.pool = pool,
                !.settled = pass.calm /\ NoTimesWait]
  /\ UNCHANGED <<index, atimes, disk, landing, call, read, clock>>

Walk ==
  /\ pass.pc = "measured"
  /\ \E pool \in SetToSeqs({[key |-> o, size |-> entry[o].size, atime |-> entry[o].atime, read |-> read[o]] :
                             o \in {x \in Objects : Evictable(x)}}) :
       /\ \A i, j \in DOMAIN pool : i < j => ColdestFirst(pool[i], pool[j])
       /\ pass' = [pass EXCEPT !.pc = "evicting", !.pool = pool,
                !.settled = pass.calm /\ NoTimesWait]
  /\ UNCHANGED <<index, atimes, disk, landing, call, read, clock>>

Needed == pass.pool # <<>> /\ pass.freed < pass.target

\* Evict looks at the entry again.  What is gone or dirty is left alone.
SkipUnsafe ==
  /\ pass.pc = "evicting" /\ Needed
  /\ LET e == entry[Head(pass.pool).key] IN e # None => ~Safe(e)
  /\ pass' = [pass EXCEPT !.pool = Tail(@)]
  /\ UNCHANGED <<index, atimes, disk, landing, call, read, clock>>

\* Faulty: the entry is still there, and the walk has seen its state.
CheckPresent ==
  LET o == Head(pass.pool).key IN
  /\ pass.pc = "evicting" /\ Needed
  /\ entry[o] # None
  /\ "rewritten" \in Hardships \/ o \notin unread
  /\ pass' = [pass EXCEPT !.pc = "checked", !.cur = o]
  /\ UNCHANGED <<index, atimes, disk, landing, call, read, clock>>

CheckEntry ==
  LET o == Head(pass.pool).key IN
  /\ pass.pc = "evicting" /\ Needed
  /\ entry[o] # None /\ entry[o].state = "synced"
  /\ "rewritten" \in Hardships \/ o \notin unread
  /\ pass' = [pass EXCEPT !.pc = "checked", !.cur = o]
  /\ UNCHANGED <<index, atimes, disk, landing, call, read, clock>>

\* The event of what goes with the file finds nothing any more.
EvictFile ==
  /\ pass.pc = "checked"
  /\ file' = file \ {pass.cur}
  /\ unread' = unread \ {pass.cur}
  /\ pass' = [pass EXCEPT !.pc = "removed"]
  /\ call' = Moved(pass.cur)
  /\ UNCHANGED <<index, atimes, landing, read, clock>>

\* Faulty: the objects evicted are counted, and not their bytes.
MarkEvictedOne ==
  /\ pass.pc = "removed"
  /\ SetState(pass.cur, "evicted")
  /\ pass' = [pass EXCEPT !.pc = "evicting", !.pool = Tail(@), !.cur = None,
                !.freed = @ + 1, !.last = IF pass.calm THEN Head(pass.pool).size ELSE 0,
                !.gone = IF pass.settled THEN @ \cup {Head(pass.pool).read} ELSE @]
  /\ UNCHANGED <<atimes, disk, landing, call, read, clock>>

MarkEvicted ==
  /\ pass.pc = "removed"
  /\ SetState(pass.cur, "evicted")
  /\ pass' = [pass EXCEPT !.pc = "evicting", !.pool = Tail(@), !.cur = None,
                !.freed = @ + Head(pass.pool).size,
                !.last = IF pass.calm THEN Head(pass.pool).size ELSE 0,
                !.gone = IF pass.settled THEN @ \cup {Head(pass.pool).read} ELSE @]
  /\ UNCHANGED <<atimes, disk, landing, call, read, clock>>

EndPass ==
  /\ pass.pc = "evicting" /\ ~Needed
  /\ pass' = IF pass.calm THEN [pass EXCEPT !.pc = "done", !.pool = <<>>] ELSE Resting
  /\ UNCHANGED <<index, atimes, disk, landing, call, read, clock>>

-----------------------------------------------------------------------------
(***************************************************************************)
(* The mount.  Lookup, Readdir ("list") and Getattr look at the directory  *)
(* and then, for what is not there, at the index; Open does it the other   *)
(* way round.  Calls for different objects do not meet, so one call here   *)
(* asks for all of them.                                                   *)
(***************************************************************************)
Ops == {"list", "getattr", "open"}

LocalInIndex == {o \in Indexed : Local(entry[o])}

\* Bound: a call begins while no access time waits and no file is unread, and
\* nothing is read or written and no time passes during one; what a call looks
\* at is where the bytes are.
Apart == NoTimesWait /\ unread = {}

\* calm: what no other step can make the answer wrong about, as it stands.
BeginCall(op) ==
  /\ call.pc = "idle" /\ Apart
  /\ call' = [pc |-> "half", op |-> op, missed |-> {},
              seen |-> IF op = "open" THEN LocalInIndex ELSE file,
              calm |-> IF op = "getattr" THEN Indexed ELSE Indexed \ (LocalInIndex \ file)]
  /\ UNCHANGED <<index, atimes, disk, landing, pass, read, clock>>

\* Faulty: Getattr asks for the state, as Lookup does.
AnsweredLikeLookup(c) ==
  IF c.op = "open" THEN (c.seen \cap file) \cup (Indexed \ c.seen)
  ELSE c.seen \cup (Indexed \ LocalInIndex)

\* What the second half adds: evicted entries for Lookup and Readdir, any
\* entry for Getattr; Open needs the file of a local entry, and gets evicted
\* ones from the store.
Answered(c) ==
  CASE c.op = "open"    -> (c.seen \cap file) \cup (Indexed \ c.seen)
    [] c.op = "getattr" -> c.seen \cup Indexed
    [] c.op = "list"    -> c.seen \cup (Indexed \ LocalInIndex)

FinishCall ==
  /\ call.pc = "half"
  /\ call' = [Silent EXCEPT !.missed = call.calm \ Answered(call)]
  /\ UNCHANGED <<index, atimes, disk, landing, pass, read, clock>>

Tick ==
  /\ clock < MaxClock /\ call.pc = "idle"
  /\ clock' = clock + 1
  /\ UNCHANGED <<index, atimes, disk, landing, pass, call, read>>

-----------------------------------------------------------------------------
Flusher == TakePending \/ Flush \/ FailFlush

CacheNext ==
  \/ \E o \in Objects :
       \/ \E s \in Sizes : RecordFile(o, s)
       \/ WriteFile(o) \/ Upload(o) \/ RemoveObject(o) \/ LandRecall(o) \/ MarkRecalled(o) \/ Touch(o)
  \/ Flusher
  \/ \E short \in 0..1 : Measure(short)
  \/ Walk \/ SkipUnsafe \/ CheckEntry \/ EvictFile \/ MarkEvicted \/ EndPass
  \/ \E op \in Ops : BeginCall(op)
  \/ FinishCall
  \/ Tick

CacheSpec == CacheInit /\ [][CacheNext]_vars

-----------------------------------------------------------------------------
(***************************************************************************)
(* Safety.                                                                 *)
(***************************************************************************)
\* The state is well typed, and the counters, kept by differences from one
\* transaction to the next, are the sums over the entries: "so they can never
\* drift from the objects".
StatsExact ==
  /\ CacheTypeOK
  /\ \A c \in Counters : stats[c] = MapThenSumSet(LAMBDA o : Weight(entry[o])[c], Objects)

\* A pass during which nothing else changed ends below the ceiling and with the
\* room the disk was short of, or with nothing left that it may evict; and the
\* last object it evicted was still one too many.
PassFits ==
  pass.pc = "done" =>
    /\ stats["localBytes"] > pass.goal => \A o \in Objects : ~Evictable(o)
    /\ stats["localBytes"] + pass.last > pass.goal

\* A pass that began with no access time in memory evicts nothing that had
\* then been written or read after something it could have evicted instead.
ColdestGo ==
  pass.pc = "done" /\ pass.settled =>
    \A t \in pass.gone, p \in Objects : Evictable(p) => t <= read[p]

\* Whatever is written, uploaded and deleted between the walk of a pass and the
\* turn of an object, nothing protected or small loses its bytes, and nothing
\* whose bytes are only local: "evicting a dirty object would be deleting the
\* only copy".
KeepersKeep ==
  [][\A o \in file \ file' : entry'[o] # None => Evictable(o) /\ o \notin unread]_vars

\* Lookup, Readdir and Open answer for every object that no eviction removed
\* and no recall marked meanwhile; Getattr for every object that exists.
MountAnswers == call.missed = {}

=============================================================================
