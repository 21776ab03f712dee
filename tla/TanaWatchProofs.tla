--------------------------- MODULE TanaWatchProofs ---------------------------
(***************************************************************************)
(* Nothing that is written to the tree goes unnoticed, whatever shape the  *)
(* tree has.  The property speaks of a watcher at rest; what has to hold   *)
(* while it works is that every file whose entry is not right has somebody *)
(* who will look at it: an event in the queue, the watcher that has just   *)
(* looked, or the walk that has not come to it yet.                        *)
(***************************************************************************)
EXTENDS TanaWatch, TLAPS

(***************************************************************************)
(* The tree.                                                               *)
(***************************************************************************)
\* A set of directories that has with a directory all those in it.
HasChildren(S) ==
  /\ S \subseteq Dirs
  /\ \A x \in Dirs \ {Root} : ParentOf[x] \in S => x \in S

\* A walk from a comes to d.
Reaches(a, d) == \A S \in SUBSET Dirs : HasChildren(S) /\ a \in S => d \in S

DirNode(d) == [what |-> "dir", dir |-> d]
FileNode(d) == [what |-> "file", dir |-> d]

Waits(e) == \E i \in 1..Len(events) : events[i] = e

\* An event will make the watcher look at the file, or scan the tree.
Queued(d) == Waits(FileNode(d)) \/ Waits(DirNode(d))

\* The walk has not come to the file.
Ahead(d) ==
  \/ FileNode(d) \in watcher.todo
  \/ \E a \in Dirs : DirNode(a) \in watcher.todo /\ Reaches(a, d)

\* What the index says of the file, or is about to say.
Accounted(d) ==
  IF watcher.pc \in {"stat", "info"} /\ watcher.dir = d
    THEN watcher.content = file[d]
    ELSE recorded[d] = file[d]

\* Somebody will look at the file in d, or the index is right about it.
Noticed(d) ==
  /\ watcher.pc \in {"idle", "stat"} => Accounted(d) \/ failed
  /\ watcher.pc \in {"walking", "info"} => Ahead(d) \/ (d \in watcher.seen /\ Accounted(d))
  /\ watcher.pc = "removing" => Accounted(d) /\ FileNode(d) \notin watcher.todo

\* The kernel drops nothing, directories are made where there is a watch, and
\* get one.
Calm == Hardships = {}

WatchType ==
  /\ WatchTypeOK
  /\ writes \in 0..MaxWrites
  /\ \A e \in Event : Waits(e) /\ e.what = "dir" => e.dir \in dirs \ {Root}

TreeInv ==
  /\ Root \in dirs
  /\ \A d \in dirs \ {Root} : ParentOf[d] \in dirs
  /\ \A d \in dirs : Reaches(Root, d)
  /\ \A d \in dirs : d \in watched \/ Waits(DirNode(d))
  /\ \A d \in Dirs : file[d] # 0 => d \in dirs

NoticeInv ==
  /\ WatchType
  /\ TreeInv
  /\ \A d \in Dirs : file[d] # 0 => Queued(d) \/ Noticed(d)

-----------------------------------------------------------------------------
(***************************************************************************)
(* What a walk reaches.                                                    *)
(***************************************************************************)
\* A walk from a directory comes to it.
LEMMA ReachesItself == \A d : Reaches(d, d)
  BY DEF Reaches

\* A walk that comes to the parent comes to the child (Scan lists it).
LEMMA ReachesOn ==
  ASSUME NEW a, NEW d \in Dirs \ {Root}, Reaches(a, ParentOf[d])
  PROVE  Reaches(a, d)
BY DEF Reaches, HasChildren

\* A walk that goes beyond a directory goes through one of its children.
LEMMA ReachesThrough ==
  ASSUME NEW a \in Dirs, NEW d, Reaches(a, d), d # a
  PROVE  \E c \in Dirs \ {Root} : ParentOf[c] = a /\ Reaches(c, d)
<1> DEFINE Child == {c \in Dirs \ {Root} : ParentOf[c] = a}
           S == {x \in Dirs : x = a \/ \E c \in Child : Reaches(c, x)}
<1>1. HasChildren(S)
  <2>1. ASSUME NEW x \in Dirs \ {Root}, ParentOf[x] \in S PROVE x \in S
    <3>1. CASE ParentOf[x] = a
      BY <3>1, ReachesItself
    <3>2. CASE \E c \in Child : Reaches(c, ParentOf[x])
      <4>1. PICK c \in Child : Reaches(c, ParentOf[x])
        BY <3>2
      <4>2. Reaches(c, x)
        BY <4>1, ReachesOn
      <4> QED
        BY <4>2
    <3> QED
      BY <2>1, <3>1, <3>2
  <2> QED
    BY <2>1 DEF HasChildren
<1>2. d \in S
  <2>1. S \in SUBSET Dirs /\ a \in S
    OBVIOUS
  <2> HIDE DEF S
  <2> QED
    BY <1>1, <2>1 DEF Reaches
<1> QED
  BY <1>2

\* Every directory above one that exists exists.
LEMMA ReachesFromThere ==
  ASSUME TreeInv, NEW c \in Dirs, NEW d \in dirs, Reaches(c, d)
  PROVE  c \in dirs
<1> SUFFICES ASSUME c \notin dirs PROVE FALSE
  OBVIOUS
<1> DEFINE S == Dirs \ dirs
<1>1. HasChildren(S)
  BY DEF HasChildren, TreeInv
<1>2. S \in SUBSET Dirs /\ c \in S /\ d \notin S
  OBVIOUS
<1> HIDE DEF S
<1> QED
  BY <1>1, <1>2 DEF Reaches

-----------------------------------------------------------------------------
(***************************************************************************)
(* The queue.                                                              *)
(***************************************************************************)
\* An event that is reported waits, and those before it still do.
LEMMA QueueGrows ==
  ASSUME Calm, WatchType, NEW e \in Event, Notify(e)
  PROVE  /\ events' \in Seq(Event) /\ Len(events') <= MaxEvents
         /\ \A x : Waits(x) => Waits(x)'
         /\ \A x : Waits(x)' => Waits(x) \/ x = e
         /\ Waits(e)' => Waits(e) \/ Happens(e) \in watched
         /\ Happens(e) \in watched => Waits(e)'
<1>1. /\ events \in Seq(Event) /\ Len(events) \in Nat /\ Len(events) <= MaxEvents
      /\ MaxEvents \in Nat \ {0}
  BY WatchBounds DEF WatchType, WatchTypeOK
<1>2. CASE Reported(e)
  <2>1. events' = Append(events, e) /\ Len(events) < MaxEvents
    BY <1>2 DEF Notify, Calm
  <2>2. /\ events' \in Seq(Event) /\ Len(events') = Len(events) + 1
        /\ \A i \in 1..Len(events) : events'[i] = events[i]
        /\ events'[Len(events) + 1] = e
    BY <1>1, <2>1
  <2>3. \A x : Waits(x) => Waits(x)'
    BY <1>1, <2>2 DEF Waits
  <2>4. ASSUME NEW x, Waits(x)' PROVE Waits(x) \/ x = e
    <3>1. PICK i \in 1..Len(events') : events'[i] = x
      BY <2>4 DEF Waits
    <3>2. i \in 1..Len(events) \/ i = Len(events) + 1
      BY <1>1, <2>2, <3>1
    <3> QED
      BY <2>2, <3>1, <3>2 DEF Waits
  <2>5. Waits(e)'
    BY <1>1, <2>2 DEF Waits
  <2> QED
    BY <1>1, <1>2, <2>1, <2>2, <2>3, <2>4, <2>5 DEF Reported
<1>3. CASE ~Reported(e)
  <2>1. events' = events
    BY <1>3 DEF Notify
  <2>2. ASSUME Happens(e) \in watched PROVE Waits(e)
    <3>1. events # <<>> /\ Last(events) = e
      BY <1>3, <2>2 DEF Reported
    <3>2. Len(events) \in 1..Len(events)
      BY <1>1, <3>1
    <3> QED
      BY <3>1, <3>2 DEF Waits, Last
  <2> QED
    BY <1>1, <2>1, <2>2 DEF Waits
<1> QED
  BY <1>2, <1>3

\* The watcher takes the first event and leaves the others.
LEMMA QueueShrinks ==
  ASSUME WatchType, NEW w, Takes(w)
  PROVE  /\ watcher.pc = "idle"
         /\ events' \in Seq(Event) /\ Len(events') <= MaxEvents
         /\ Head(events) \in Event /\ Head(events).what = w /\ Waits(Head(events))
         /\ \A x : Waits(x) => x = Head(events) \/ Waits(x)'
         /\ \A x : Waits(x)' => Waits(x)
<1>1. /\ events \in Seq(Event) /\ Len(events) \in Nat /\ Len(events) <= MaxEvents
      /\ MaxEvents \in Nat \ {0} /\ events # <<>> /\ events' = Tail(events)
  BY WatchBounds DEF WatchType, WatchTypeOK, Takes
<1>2. /\ Len(events) > 0 /\ Head(events) = events[1] /\ events[1] \in Event
      /\ events' \in Seq(Event) /\ Len(events') = Len(events) - 1
      /\ \A i \in 1..Len(events') : events'[i] = events[i + 1]
  BY <1>1
<1>3. ASSUME NEW x, Waits(x), x # Head(events) PROVE Waits(x)'
  <2>1. PICK i \in 1..Len(events) : events[i] = x
    BY <1>3 DEF Waits
  <2>2. i - 1 \in 1..Len(events') /\ (i - 1) + 1 = i
    BY <1>1, <1>2, <1>3, <2>1
  <2>3. events'[i - 1] = x
    BY <1>2, <2>1, <2>2
  <2> QED
    BY <2>2, <2>3 DEF Waits
<1>4. ASSUME NEW x, Waits(x)' PROVE Waits(x)
  <2>1. PICK i \in 1..Len(events') : events'[i] = x
    BY <1>4 DEF Waits
  <2>2. i + 1 \in 1..Len(events)
    BY <1>1, <1>2, <2>1
  <2> QED
    BY <1>2, <2>1, <2>2 DEF Waits
<1>5. Waits(Head(events))
  BY <1>1, <1>2 DEF Waits
<1> QED
  BY <1>1, <1>2, <1>3, <1>4, <1>5 DEF Takes

-----------------------------------------------------------------------------
(***************************************************************************)
(* What WordPress does.                                                    *)
(***************************************************************************)
\* What was noticed stays so while the file, its entry and the watcher do.
LEMMA StillNoticed ==
  ASSUME NEW d, Noticed(d), file'[d] = file[d], UNCHANGED <<recorded, watcher, failed>>
  PROVE  Noticed(d)'
BY DEF Noticed, Accounted, Ahead, DirNode, FileNode

\* A new directory is empty, and its event waits.
LEMMA MakeDirectoryNotices ==
  ASSUME Calm, NoticeInv, NEW d \in Dirs, MakeDirectory(d)
  PROVE  NoticeInv'
<1> DEFINE e == DirNode(d)
<1>1. /\ d \notin dirs /\ d # Root /\ ParentOf[d] \in dirs /\ ParentOf[d] \in watched
      /\ dirs' = dirs \cup {d} /\ Notify(e)
      /\ UNCHANGED <<file, recorded, watched, watcher, writes, failed>>
  BY DEF MakeDirectory, Calm, DirNode
<1>2. e \in Event /\ e.what = "dir" /\ e.dir = d /\ Happens(e) = ParentOf[d]
  BY DEF Event, DirNode, Happens
<1>3. WatchType /\ TreeInv
  BY DEF NoticeInv
<1> HIDE DEF e
<1>4. /\ events' \in Seq(Event) /\ Len(events') <= MaxEvents
      /\ \A x : Waits(x) => Waits(x)'
      /\ \A x : Waits(x)' => Waits(x) \/ x = e
      /\ Waits(e)'
  BY <1>1, <1>2, <1>3, QueueGrows
<1>5. WatchType'
  <2>1. WatchTypeOK'
    BY <1>1, <1>3, <1>4 DEF WatchType, WatchTypeOK
  <2>2. \A x \in Event : Waits(x)' /\ x.what = "dir" => x.dir \in dirs' \ {Root}
    BY <1>1, <1>2, <1>3, <1>4 DEF WatchType
  <2> QED
    BY <1>1, <1>3, <2>1, <2>2 DEF WatchType
<1>6. TreeInv'
  <2>1. \A x \in dirs' : Reaches(Root, x)
    BY <1>1, <1>3, ReachesOn DEF TreeInv
  <2>2. \A x \in dirs' : x \in watched' \/ Waits(DirNode(x))'
    BY <1>1, <1>3, <1>4 DEF TreeInv, e
  <2> QED
    BY <1>1, <1>3, <2>1, <2>2 DEF TreeInv, Reaches, HasChildren
<1>7. ASSUME NEW x \in Dirs, file'[x] # 0 PROVE Queued(x)' \/ Noticed(x)'
  <2>1. Queued(x) \/ Noticed(x)
    BY <1>1, <1>7 DEF NoticeInv
  <2>2. Queued(x) => Queued(x)'
    BY <1>4 DEF Queued, FileNode, DirNode
  <2> QED
    BY <1>1, <2>1, <2>2, StillNoticed
<1> QED
  BY <1>5, <1>6, <1>7 DEF NoticeInv

\* A change of a file is reported where there is a watch; where there is none
\* the directory itself waits to be scanned.
LEMMA FileChangeNotices ==
  ASSUME Calm, NoticeInv, NEW d \in dirs, NEW n \in 0..MaxWrites, NEW e \in Event,
         e.what # "dir", Happens(e) = d, n # 0 => e = FileNode(d),
         file' = [file EXCEPT ![d] = n], Notify(e), writes' \in 0..MaxWrites,
         UNCHANGED <<dirs, recorded, watched, watcher, failed>>
  PROVE  NoticeInv'
<1>1. WatchType /\ TreeInv /\ d \in Dirs
  BY DEF NoticeInv, WatchType, WatchTypeOK
<1>2. /\ events' \in Seq(Event) /\ Len(events') <= MaxEvents
      /\ \A x : Waits(x) => Waits(x)'
      /\ \A x : Waits(x)' => Waits(x) \/ x = e
      /\ d \in watched => Waits(e)'
  BY <1>1, QueueGrows
<1>3. WatchType'
  <2>1. WatchTypeOK'
    BY <1>1, <1>2 DEF WatchType, WatchTypeOK
  <2>2. \A x \in Event : Waits(x)' /\ x.what = "dir" => x.dir \in dirs' \ {Root}
    BY <1>1, <1>2 DEF WatchType
  <2> QED
    BY <2>1, <2>2 DEF WatchType
<1>4. file \in [Dirs -> 0..MaxWrites]
  BY <1>1 DEF WatchType, WatchTypeOK
<1>5. TreeInv'
  <2>1. \A x \in dirs : x \in watched' \/ Waits(DirNode(x))'
    BY <1>1, <1>2 DEF TreeInv
  <2>2. \A x \in Dirs : file'[x] # 0 => x \in dirs
    BY <1>1, <1>4 DEF TreeInv
  <2> QED
    BY <1>1, <2>1, <2>2 DEF TreeInv, Reaches, HasChildren
<1>6. ASSUME NEW x \in Dirs, file'[x] # 0 PROVE Queued(x)' \/ Noticed(x)'
  <2>1. Queued(x) => Queued(x)'
    BY <1>2 DEF Queued, FileNode, DirNode
  <2>2. CASE x = d
    <3>1. n # 0
      BY <1>1, <1>4, <1>6, <2>2
    <3>2. d \in watched \/ Waits(DirNode(d))
      BY <1>1 DEF TreeInv
    <3>3. FileNode(d)' = FileNode(d)
      BY DEF FileNode
    <3> QED
      BY <1>2, <2>1, <2>2, <3>1, <3>2, <3>3 DEF Queued
  <2>3. CASE x # d
    <3>1. file'[x] = file[x]
      BY <1>4, <2>3
    <3>2. Queued(x) \/ Noticed(x)
      BY <1>6, <3>1 DEF NoticeInv
    <3> QED
      BY <2>1, <3>1, <3>2, StillNoticed
  <2> QED
    BY <2>2, <2>3
<1> QED
  BY <1>3, <1>5, <1>6 DEF NoticeInv

\* A write, whenever it falls (mu-plugin or upload into the tree).
LEMMA WriteFileNotices ==
  ASSUME Calm, NoticeInv, NEW d \in Dirs, WriteFile(d)
  PROVE  NoticeInv'
<1> DEFINE e == FileNode(d)
<1>1. /\ d \in dirs /\ writes < MaxWrites /\ writes' = writes + 1
      /\ file' = [file EXCEPT ![d] = writes + 1] /\ Notify(e)
      /\ UNCHANGED <<dirs, recorded, watched, watcher, failed>>
  BY DEF WriteFile, FileNode
<1>2. e \in Event /\ e.what # "dir" /\ Happens(e) = d
  BY DEF Event, FileNode, Happens
<1>3. writes + 1 \in 0..MaxWrites
  BY <1>1, WatchBounds DEF NoticeInv, WatchType
<1> QED
  BY <1>1, <1>2, <1>3, FileChangeNotices

\* A deletion leaves nothing to notice.
LEMMA DeleteFileNotices ==
  ASSUME Calm, NoticeInv, NEW d \in Dirs, DeleteFile(d)
  PROVE  NoticeInv'
<1> DEFINE e == [what |-> "gone", dir |-> d]
<1>1. /\ d \in dirs /\ file' = [file EXCEPT ![d] = 0] /\ Notify(e) /\ writes' = writes
      /\ UNCHANGED <<dirs, recorded, watched, watcher, failed>>
  BY DEF DeleteFile, NoticeInv, TreeInv
<1>2. e \in Event /\ e.what # "dir" /\ Happens(e) = d
  BY DEF Event, Happens
<1>3. writes \in 0..MaxWrites /\ 0 \in 0..MaxWrites
  BY WatchBounds DEF NoticeInv, WatchType
<1> HIDE DEF e
<1> QED
  BY <1>1, <1>2, <1>3, FileChangeNotices

-----------------------------------------------------------------------------
(***************************************************************************)
(* What the watcher does with an event.                                    *)
(***************************************************************************)
\* A step of the watcher that takes no event leaves the tree and its watches.
LEMMA TreeStays ==
  ASSUME TreeInv, UNCHANGED <<tree, watched, events>>
  PROVE  TreeInv'
BY DEF TreeInv, tree, Waits, Reaches, HasChildren, DirNode

\* So does one that takes the event of a file.
LEMMA TreeStaysAfterFile ==
  ASSUME WatchType, TreeInv, NEW w, w # "dir", Takes(w), UNCHANGED <<tree, watched>>
  PROVE  TreeInv'
<1>1. \A x : Waits(x) => x = Head(events) \/ Waits(x)'
  BY QueueShrinks
<1>2. Head(events).what = w
  BY QueueShrinks
<1>3. \A d : Waits(DirNode(d)) => Waits(DirNode(d))'
  BY <1>1, <1>2 DEF DirNode
<1> QED
  BY <1>3 DEF TreeInv, tree, Reaches, HasChildren, DirNode

\* The type of the queue after an event was taken.
LEMMA TypeAfterTaking ==
  ASSUME NoticeInv, NEW w, Takes(w), UNCHANGED tree,
         UNCHANGED recorded, UNCHANGED failed, watched' \in SUBSET dirs,
         watcher' \in [pc : {"idle", "stat", "walking", "info", "removing"}, dir : Dirs,
                       content : 0..MaxWrites, todo : SUBSET Node, seen : SUBSET Dirs]
  PROVE  WatchType'
<1>1. WatchType
  BY DEF NoticeInv
<1>2. /\ events' \in Seq(Event) /\ Len(events') <= MaxEvents
      /\ \A x : Waits(x)' => Waits(x)
  BY <1>1, QueueShrinks
<1>3. WatchTypeOK'
  BY <1>1, <1>2 DEF WatchType, WatchTypeOK, tree
<1>4. \A x \in Event : Waits(x)' /\ x.what = "dir" => x.dir \in dirs' \ {Root}
  BY <1>1, <1>2 DEF WatchType, tree
<1> QED
  BY <1>1, <1>3, <1>4 DEF WatchType, tree

\* The event of a removal, or of a file that is gone (handleEvent).
LEMMA PassOverNotices ==
  ASSUME NoticeInv, PassOver
  PROVE  NoticeInv'
<1>1. PICK w \in {"gone", "file"} : /\ Takes(w)
                                    /\ w = "file" => file[Head(events).dir] = 0
  BY DEF PassOver
<1>2. UNCHANGED <<tree, recorded, watched, watcher, failed>>
  BY DEF PassOver
<1>3. WatchType /\ TreeInv
  BY DEF NoticeInv
<1>4. /\ Head(events) \in Event /\ Head(events).what = w
      /\ \A x : Waits(x) => x = Head(events) \/ Waits(x)'
  BY <1>1, <1>3, QueueShrinks
<1>5. WatchType'
  <2>1. /\ watched' \in SUBSET dirs
        /\ watcher' \in [pc : {"idle", "stat", "walking", "info", "removing"}, dir : Dirs,
                         content : 0..MaxWrites, todo : SUBSET Node, seen : SUBSET Dirs]
    BY <1>2, <1>3 DEF WatchType, WatchTypeOK
  <2> QED
    BY <2>1, <1>1, <1>2, TypeAfterTaking
<1>6. TreeInv'
  BY <1>1, <1>2, <1>3, TreeStaysAfterFile
<1>7. ASSUME NEW x \in Dirs, file'[x] # 0 PROVE Queued(x)' \/ Noticed(x)'
  <2>1. file'[x] = file[x]
    BY <1>2 DEF tree
  <2>2. Queued(x) \/ Noticed(x)
    BY <1>7, <2>1 DEF NoticeInv
  <2>3. Queued(x) => Queued(x)'
    <3>1. FileNode(x) # Head(events) /\ DirNode(x) # Head(events)
      BY <1>1, <1>4, <1>7, <2>1 DEF FileNode, DirNode
    <3> QED
      BY <1>4, <3>1 DEF Queued, FileNode, DirNode
  <2> QED
    BY <1>2, <2>1, <2>2, <2>3, StillNoticed
<1> QED
  BY <1>5, <1>6, <1>7 DEF NoticeInv

\* A file that is there is looked at, and what was seen is in hand.
LEMMA StatFileNotices ==
  ASSUME NoticeInv, StatFile
  PROVE  NoticeInv'
<1> DEFINE d == Head(events).dir
<1>1. /\ Takes("file") /\ UNCHANGED <<tree, recorded, watched, failed>>
      /\ watcher' = [watcher EXCEPT !.pc = "stat", !.dir = d, !.content = file[d]]
  BY DEF StatFile
<1>2. WatchType /\ TreeInv
  BY DEF NoticeInv
<1>3. /\ Head(events) \in Event /\ Head(events).what = "file" /\ watcher.pc = "idle"
      /\ \A x : Waits(x) => x = Head(events) \/ Waits(x)'
  BY <1>1, <1>2, QueueShrinks
<1>4. d \in Dirs /\ Head(events) = FileNode(d)
  BY <1>3 DEF Event, FileNode
<1> HIDE DEF d
<1>5. /\ watcher' \in [pc : {"idle", "stat", "walking", "info", "removing"}, dir : Dirs,
                       content : 0..MaxWrites, todo : SUBSET Node, seen : SUBSET Dirs]
      /\ watcher'.pc = "stat" /\ watcher'.dir = d /\ watcher'.content = file[d]
      /\ watched' \in SUBSET dirs
  BY <1>1, <1>2, <1>4 DEF WatchType, WatchTypeOK
<1>6. WatchType'
  BY <1>1, <1>5, TypeAfterTaking
<1>7. TreeInv'
  BY <1>1, <1>2, TreeStaysAfterFile
<1>8. ASSUME NEW x \in Dirs, file'[x] # 0 PROVE Queued(x)' \/ Noticed(x)'
  <2>1. file' = file
    BY <1>1 DEF tree
  <2>2. CASE x = d
    BY <1>5, <2>1, <2>2 DEF Noticed, Accounted
  <2>3. CASE x # d
    <3>1. Queued(x) => Queued(x)'
      BY <1>3, <1>4, <2>3 DEF Queued, FileNode, DirNode
    <3>2. Noticed(x) => Noticed(x)'
      BY <1>1, <1>3, <1>5, <2>1, <2>3 DEF Noticed, Accounted
    <3> QED
      BY <1>8, <2>1, <3>1, <3>2 DEF NoticeInv
  <2> QED
    BY <2>2, <2>3
<1> QED
  BY <1>6, <1>7, <1>8 DEF NoticeInv

\* A new directory is watched, and the walk that begins comes everywhere.
LEMMA WatchDirectoryNotices ==
  ASSUME Calm, NoticeInv, WatchDirectory
  PROVE  NoticeInv'
<1> DEFINE d == Head(events).dir
<1>1. /\ Takes("dir") /\ UNCHANGED <<tree, recorded, failed>>
      /\ watched' = watched \cup {d}
      /\ watcher' = [Idle EXCEPT !.pc = "walking", !.todo = {DirNode(Root)}]
  BY DEF WatchDirectory, DirNode, AfterAdd, Calm
<1>2. WatchType /\ TreeInv
  BY DEF NoticeInv
<1>3. /\ Head(events) \in Event /\ Head(events).what = "dir" /\ Waits(Head(events))
      /\ \A x : Waits(x) => x = Head(events) \/ Waits(x)'
  BY <1>1, <1>2, QueueShrinks
<1>4. d \in dirs /\ Head(events) = DirNode(d)
  BY <1>2, <1>3 DEF Event, DirNode, WatchType
<1> HIDE DEF d
<1>5. /\ watcher' \in [pc : {"idle", "stat", "walking", "info", "removing"}, dir : Dirs,
                       content : 0..MaxWrites, todo : SUBSET Node, seen : SUBSET Dirs]
      /\ watcher'.pc = "walking" /\ DirNode(Root) \in watcher'.todo
  <2>1. watcher' = [pc |-> "walking", dir |-> Root, content |-> 0,
                    todo |-> {DirNode(Root)}, seen |-> {}]
    BY <1>1 DEF Idle
  <2>2. DirNode(Root) \in Node /\ 0 \in 0..MaxWrites /\ Root \in Dirs
    BY WatchBounds DEF Node, DirNode
  <2> QED
    BY <2>1, <2>2
<1>6. watched' \in SUBSET dirs
  BY <1>1, <1>2, <1>4 DEF WatchType, WatchTypeOK
<1>7. WatchType'
  BY <1>1, <1>5, <1>6, TypeAfterTaking
<1>8. TreeInv'
  <2>1. ASSUME NEW x \in dirs, x \notin watched' PROVE Waits(DirNode(x))'
    <3>1. Waits(DirNode(x)) /\ x # d
      BY <1>1, <1>2, <2>1 DEF TreeInv
    <3>2. DirNode(x) # Head(events) /\ DirNode(x)' = DirNode(x)
      BY <1>4, <3>1 DEF DirNode
    <3> QED
      BY <1>3, <3>1, <3>2
  <2> QED
    BY <1>1, <1>2, <2>1 DEF TreeInv, tree, Reaches, HasChildren
<1>9. ASSUME NEW x \in Dirs, file'[x] # 0 PROVE Noticed(x)'
  <2>1. Reaches(Root, x) /\ Root \in Dirs
    BY <1>1, <1>2, <1>9, WatchBounds DEF TreeInv, tree
  <2>2. Reaches(Root, x)'
    BY <2>1 DEF Reaches, HasChildren
  <2>3. DirNode(Root)' = DirNode(Root)
    BY DEF DirNode
  <2>4. Ahead(x)'
    BY <1>5, <2>1, <2>2, <2>3 DEF Ahead, DirNode
  <2> QED
    BY <1>5, <2>4 DEF Noticed
<1> QED
  BY <1>7, <1>8, <1>9 DEF NoticeInv

\* What was seen is written down (Agent.handleEvent, Scan).
LEMMA PutNotices ==
  ASSUME NoticeInv, watcher.pc \in {"stat", "info"},
         recorded' = [recorded EXCEPT ![watcher.dir] = watcher.content],
         UNCHANGED <<tree, watched, events, failed>>,
         \/ watcher.pc = "stat" /\ watcher' = Idle
         \/ watcher.pc = "info" /\ watcher' = [watcher EXCEPT !.pc = "walking"]
  PROVE  NoticeInv'
<1>1. WatchType /\ TreeInv /\ WatchTypeOK
  BY DEF NoticeInv, WatchType
<1>2. /\ watcher.dir \in Dirs /\ watcher.content \in 0..MaxWrites
      /\ recorded \in [Dirs -> 0..MaxWrites]
  BY <1>1 DEF WatchTypeOK
<1>3. /\ watcher' \in [pc : {"idle", "stat", "walking", "info", "removing"}, dir : Dirs,
                       content : 0..MaxWrites, todo : SUBSET Node, seen : SUBSET Dirs]
      /\ watcher.pc = "stat" => watcher'.pc = "idle"
      /\ watcher.pc = "info" => watcher'.pc = "walking" /\ UNCHANGED <<watcher.todo, watcher.seen>>
  <2>1. CASE watcher.pc = "stat"
    <3>1. 0 \in 0..MaxWrites /\ Root \in Dirs
      BY WatchBounds
    <3> QED
      BY <2>1, <3>1 DEF Idle
  <2>2. CASE watcher.pc = "info"
    BY <1>1, <2>2 DEF WatchTypeOK
  <2> QED
    BY <2>1, <2>2
<1>4. TreeInv'
  BY <1>1, TreeStays
<1>5. WatchType'
  BY <1>1, <1>2, <1>3 DEF WatchType, WatchTypeOK, tree, Waits
<1>6. ASSUME NEW x \in Dirs, file'[x] # 0 PROVE Queued(x)' \/ Noticed(x)'
  <2>1. file' = file
    BY DEF tree
  <2>2. Queued(x) => Queued(x)'
    BY DEF Queued, Waits, FileNode, DirNode
  <2>3. Accounted(x) => Accounted(x)'
    BY <1>2, <1>3, <2>1 DEF Accounted
  <2>4. watcher.pc = "info" /\ Ahead(x) => Ahead(x)'
    BY <1>3 DEF Ahead, FileNode, DirNode
  <2>5. Noticed(x) => Noticed(x)'
    BY <1>3, <2>3, <2>4 DEF Noticed
  <2> QED
    BY <1>6, <2>1, <2>2, <2>5 DEF NoticeInv
<1> QED
  BY <1>4, <1>5, <1>6 DEF NoticeInv

-----------------------------------------------------------------------------
(***************************************************************************)
(* The walk.                                                               *)
(***************************************************************************)
\* A step of the watcher that changes nothing but itself, the entries and the
\* outcome of the scan keeps the invariant if it loses no file.
LEMMA WalkNotices ==
  ASSUME NoticeInv, UNCHANGED <<tree, watched, events>>,
         recorded' \in [Dirs -> 0..MaxWrites], failed' \in BOOLEAN,
         watcher' \in [pc : {"idle", "stat", "walking", "info", "removing"}, dir : Dirs,
                       content : 0..MaxWrites, todo : SUBSET Node, seen : SUBSET Dirs],
         \A x \in dirs : Noticed(x) /\ file[x] # 0 => Noticed(x)'
  PROVE  NoticeInv'
<1>1. WatchType /\ TreeInv /\ WatchTypeOK
  BY DEF NoticeInv, WatchType
<1>2. TreeInv'
  BY <1>1, TreeStays
<1>3. WatchType'
  BY <1>1 DEF WatchType, WatchTypeOK, tree, Waits
<1>4. ASSUME NEW x \in Dirs, file'[x] # 0 PROVE Queued(x)' \/ Noticed(x)'
  <2>1. file' = file
    BY DEF tree
  <2>2. Queued(x) => Queued(x)'
    BY DEF Queued, Waits, FileNode, DirNode
  <2>3. x \in dirs
    BY <1>1, <1>4, <2>1 DEF TreeInv
  <2> QED
    BY <1>4, <2>1, <2>2, <2>3 DEF NoticeInv
<1> QED
  BY <1>2, <1>3, <1>4 DEF NoticeInv

\* What a walk would have come to, it comes to through a child.
LEMMA ListDirectoryNotices ==
  ASSUME NoticeInv, NEW d \in Dirs, ListDirectory(d)
  PROVE  NoticeInv'
<1>1. /\ watcher.pc = "walking" /\ DirNode(d) \in watcher.todo
      /\ watcher' = [watcher EXCEPT !.todo = (@ \ {DirNode(d)}) \cup Listed(d)]
      /\ UNCHANGED <<tree, recorded, watched, events, failed>>
  BY DEF ListDirectory, DirNode
<1>2. TreeInv /\ WatchTypeOK
  BY DEF NoticeInv, WatchType
<1>3. /\ \A n \in Listed(d) : n \in Node
      /\ file[d] # 0 => FileNode(d) \in Listed(d)
      /\ \A c \in dirs \ {Root} : ParentOf[c] = d => DirNode(c) \in Listed(d)
  BY <1>2 DEF Listed, Node, FileNode, DirNode, WatchTypeOK
<1>4. /\ watcher' \in [pc : {"idle", "stat", "walking", "info", "removing"}, dir : Dirs,
                       content : 0..MaxWrites, todo : SUBSET Node, seen : SUBSET Dirs]
      /\ watcher'.pc = "walking" /\ watcher'.seen = watcher.seen
      /\ watcher'.todo = (watcher.todo \ {DirNode(d)}) \cup Listed(d)
  BY <1>1, <1>2, <1>3 DEF WatchTypeOK
<1>5. ASSUME NEW x \in dirs, Noticed(x), file[x] # 0 PROVE Noticed(x)'
  <2>1. file' = file /\ recorded' = recorded
    BY <1>1 DEF tree
  <2>2. Accounted(x) => Accounted(x)'
    BY <1>1, <1>4, <2>1 DEF Accounted
  <2>3. ASSUME Ahead(x) PROVE Ahead(x)'
    <3>1. CASE FileNode(x) \in watcher.todo
      <4>1. FileNode(x) \in watcher'.todo
        BY <1>4, <3>1 DEF FileNode, DirNode
      <4> QED
        BY <4>1 DEF Ahead, FileNode
    <3>2. ASSUME NEW a \in Dirs, DirNode(a) \in watcher'.todo, Reaches(a, x) PROVE Ahead(x)'
      BY <3>2 DEF Ahead, DirNode, Reaches, HasChildren
    <3>3. CASE \E a \in Dirs : DirNode(a) \in watcher.todo /\ Reaches(a, x)
      <4>1. PICK a \in Dirs : DirNode(a) \in watcher.todo /\ Reaches(a, x)
        BY <3>3
      <4>2. CASE a # d
        <5>1. DirNode(a) # DirNode(d)
          BY <4>2 DEF DirNode
        <5> QED
          BY <1>4, <3>2, <4>1, <5>1
      <4>3. CASE a = d /\ x = d
        <5>1. FileNode(x) \in watcher'.todo
          BY <1>3, <1>4, <1>5, <4>3
        <5> QED
          BY <5>1 DEF Ahead, FileNode
      <4>4. CASE a = d /\ x # d
        <5>1. PICK c \in Dirs \ {Root} : ParentOf[c] = d /\ Reaches(c, x)
          BY <4>1, <4>4, ReachesThrough
        <5>2. c \in dirs
          BY <1>2, <5>1, ReachesFromThere
        <5> QED
          BY <1>3, <1>4, <3>2, <5>1, <5>2
      <4> QED
        BY <4>2, <4>3, <4>4
    <3> QED
      BY <2>3, <3>1, <3>3 DEF Ahead
  <2> QED
    BY <1>1, <1>4, <1>5, <2>2, <2>3 DEF Noticed
<1> QED
  BY <1>1, <1>2, <1>4, <1>5, WalkNotices DEF WatchTypeOK

\* A file the walk comes to is seen, and what it says is in hand.
LEMMA LookAtFileNotices ==
  ASSUME NoticeInv, NEW d \in Dirs, LookAtFile(d)
  PROVE  NoticeInv'
<1>1. /\ watcher.pc = "walking"
      /\ watcher' = [watcher EXCEPT !.pc = "info", !.dir = d, !.content = file[d],
                                    !.todo = @ \ {FileNode(d)}, !.seen = @ \cup {d}]
      /\ UNCHANGED <<tree, recorded, watched, events, failed>>
  BY DEF LookAtFile, FileNode
<1>2. TreeInv /\ WatchTypeOK
  BY DEF NoticeInv, WatchType
<1>3. /\ watcher' \in [pc : {"idle", "stat", "walking", "info", "removing"}, dir : Dirs,
                       content : 0..MaxWrites, todo : SUBSET Node, seen : SUBSET Dirs]
      /\ watcher'.pc = "info" /\ watcher'.dir = d /\ watcher'.content = file[d]
      /\ watcher'.seen = watcher.seen \cup {d} /\ watcher'.todo = watcher.todo \ {FileNode(d)}
  BY <1>1, <1>2 DEF WatchTypeOK
<1>4. ASSUME NEW x \in dirs, Noticed(x), file[x] # 0 PROVE Noticed(x)'
  <2>1. file' = file /\ recorded' = recorded
    BY <1>1 DEF tree
  <2>2. CASE x = d
    BY <1>3, <2>1, <2>2 DEF Noticed, Accounted
  <2>3. CASE x # d
    <3>1. Accounted(x) => Accounted(x)'
      BY <1>1, <1>3, <2>1, <2>3 DEF Accounted
    <3>2. Ahead(x) => Ahead(x)'
      <4>1. FileNode(x) # FileNode(d) /\ \A a : DirNode(a) # FileNode(d)
        BY <2>3 DEF FileNode, DirNode
      <4>2. FileNode(x)' = FileNode(x) /\ \A a : DirNode(a)' = DirNode(a)
        BY DEF FileNode, DirNode
      <4>3. FileNode(x) \in watcher.todo => FileNode(x) \in watcher'.todo
        BY <1>3, <4>1
      <4>4. \A a : DirNode(a) \in watcher.todo => DirNode(a) \in watcher'.todo
        BY <1>3, <4>1
      <4> QED
        BY <4>2, <4>3, <4>4 DEF Ahead, Reaches, HasChildren
    <3> QED
      BY <1>1, <1>3, <1>4, <3>1, <3>2 DEF Noticed
  <2> QED
    BY <2>2, <2>3
<1> QED
  BY <1>1, <1>2, <1>3, <1>4, WalkNotices DEF WatchTypeOK

\* What the index does not take is logged (Agent.handleEvent, Scan).
LEMMA FailPutNotices ==
  ASSUME NoticeInv, FailPut
  PROVE  NoticeInv'
<1>1. watcher' = Idle /\ failed' = TRUE /\ UNCHANGED <<tree, recorded, watched, events>>
  BY DEF FailPut
<1>2. WatchTypeOK
  BY DEF NoticeInv, WatchType
<1>3. Idle \in [pc : {"idle", "stat", "walking", "info", "removing"}, dir : Dirs,
                content : 0..MaxWrites, todo : SUBSET Node, seen : SUBSET Dirs]
  <2>1. 0 \in 0..MaxWrites /\ Root \in Dirs
    BY WatchBounds
  <2> QED
    BY <2>1 DEF Idle
<1>4. \A x \in dirs : Noticed(x)'
  BY <1>1 DEF Noticed, Idle
<1> QED
  BY <1>1, <1>2, <1>3, <1>4, WalkNotices DEF WatchTypeOK

\* A scan that ends early says so.
LEMMA AbortScanNotices ==
  ASSUME NoticeInv, NEW d \in Dirs, AbortScan(d)
  PROVE  NoticeInv'
<1>1. watcher' = Idle /\ failed' = TRUE /\ UNCHANGED <<tree, recorded, watched, events>>
  BY DEF AbortScan
<1>2. WatchTypeOK
  BY DEF NoticeInv, WatchType
<1>3. Idle \in [pc : {"idle", "stat", "walking", "info", "removing"}, dir : Dirs,
                content : 0..MaxWrites, todo : SUBSET Node, seen : SUBSET Dirs]
  <2>1. 0 \in 0..MaxWrites /\ Root \in Dirs
    BY WatchBounds
  <2> QED
    BY <2>1 DEF Idle
<1>4. \A x \in dirs : Noticed(x)'
  BY <1>1 DEF Noticed, Idle
<1> QED
  BY <1>1, <1>2, <1>3, <1>4, WalkNotices DEF WatchTypeOK

\* What the walk has not seen by its end has nothing in it.
LEMMA FindGoneNotices ==
  ASSUME NoticeInv, FindGone
  PROVE  NoticeInv'
<1> DEFINE T == {FileNode(d) : d \in {x \in Dirs : recorded[x] # 0} \ watcher.seen}
<1>1. /\ watcher.pc = "walking" /\ watcher.todo = {}
      /\ watcher' = [watcher EXCEPT !.pc = "removing", !.todo = T]
      /\ UNCHANGED <<tree, recorded, watched, events, failed>>
  BY DEF FindGone, FileNode
<1>2. WatchTypeOK
  BY DEF NoticeInv, WatchType
<1>3. T \in SUBSET Node /\ \A x : FileNode(x) \in T => x \notin watcher.seen
  <2>1. \A d \in Dirs : FileNode(d) \in Node
    BY DEF Node, FileNode
  <2>2. \A d, x : FileNode(x) = FileNode(d) => x = d
    BY DEF FileNode
  <2> QED
    BY <2>1, <2>2
<1> HIDE DEF T
<1>4. /\ watcher' \in [pc : {"idle", "stat", "walking", "info", "removing"}, dir : Dirs,
                       content : 0..MaxWrites, todo : SUBSET Node, seen : SUBSET Dirs]
      /\ watcher'.pc = "removing" /\ watcher'.todo = T
  BY <1>1, <1>2, <1>3 DEF WatchTypeOK
<1>5. ASSUME NEW x \in dirs, Noticed(x), file[x] # 0 PROVE Noticed(x)'
  <2>1. x \in watcher.seen /\ Accounted(x)
    BY <1>1, <1>5 DEF Noticed, Ahead
  <2>2. recorded[x] = file[x]
    BY <1>1, <2>1 DEF Accounted
  <2>3. FileNode(x)' = FileNode(x) /\ FileNode(x) \notin T
    BY <1>3, <2>1 DEF FileNode
  <2> QED
    BY <1>1, <1>4, <2>2, <2>3 DEF Noticed, Accounted, tree
<1> QED
  BY <1>1, <1>2, <1>4, <1>5, WalkNotices DEF WatchTypeOK

\* Only entries of files the walk did not see go.
LEMMA RemoveEntryNotices ==
  ASSUME NoticeInv, NEW d \in Dirs, RemoveEntry(d)
  PROVE  NoticeInv'
<1>1. /\ watcher.pc = "removing" /\ FileNode(d) \in watcher.todo
      /\ watcher' = [watcher EXCEPT !.todo = @ \ {FileNode(d)}]
      /\ recorded' \in {recorded, [recorded EXCEPT ![d] = 0]}
      /\ UNCHANGED <<tree, watched, events, failed>>
  BY DEF RemoveEntry, FileNode
<1>2. WatchTypeOK
  BY DEF NoticeInv, WatchType
<1>3. /\ watcher' \in [pc : {"idle", "stat", "walking", "info", "removing"}, dir : Dirs,
                       content : 0..MaxWrites, todo : SUBSET Node, seen : SUBSET Dirs]
      /\ watcher'.pc = "removing" /\ watcher'.todo = watcher.todo \ {FileNode(d)}
  BY <1>1, <1>2 DEF WatchTypeOK
<1>4. recorded' \in [Dirs -> 0..MaxWrites] /\ \A x \in Dirs : x # d => recorded'[x] = recorded[x]
  <2>1. 0 \in 0..MaxWrites
    BY WatchBounds
  <2> QED
    BY <1>1, <1>2, <2>1 DEF WatchTypeOK
<1>5. ASSUME NEW x \in dirs, Noticed(x), file[x] # 0 PROVE Noticed(x)'
  <2>1. recorded[x] = file[x] /\ FileNode(x) \notin watcher.todo
    BY <1>1, <1>5 DEF Noticed, Accounted
  <2>2. x # d /\ x \in Dirs
    BY <1>1, <1>2, <2>1 DEF WatchTypeOK
  <2>3. FileNode(x)' = FileNode(x) /\ FileNode(x) \notin watcher'.todo
    BY <1>3, <2>1 DEF FileNode
  <2>4. recorded'[x] = file'[x]
    BY <1>1, <1>4, <2>1, <2>2 DEF tree
  <2> QED
    BY <1>3, <2>3, <2>4 DEF Noticed, Accounted
<1> QED
  BY <1>1, <1>2, <1>3, <1>4, <1>5, WalkNotices DEF WatchTypeOK

\* A scan that comes to its end leaves every entry right.
LEMMA EndScanNotices ==
  ASSUME NoticeInv, EndScan
  PROVE  NoticeInv'
<1>1. /\ watcher.pc = "removing" /\ watcher' = Idle /\ failed' = FALSE
      /\ UNCHANGED <<tree, recorded, watched, events>>
  BY DEF EndScan
<1>2. WatchTypeOK
  BY DEF NoticeInv, WatchType
<1>3. Idle \in [pc : {"idle", "stat", "walking", "info", "removing"}, dir : Dirs,
                content : 0..MaxWrites, todo : SUBSET Node, seen : SUBSET Dirs]
  <2>1. 0 \in 0..MaxWrites /\ Root \in Dirs
    BY WatchBounds
  <2> QED
    BY <2>1 DEF Idle
<1>4. ASSUME NEW x \in dirs, Noticed(x) PROVE Noticed(x)'
  <2>1. recorded[x] = file[x]
    BY <1>1, <1>4 DEF Noticed, Accounted
  <2> QED
    BY <1>1, <2>1 DEF Noticed, Accounted, Idle, tree
<1> QED
  BY <1>1, <1>2, <1>3, <1>4, WalkNotices DEF WatchTypeOK

\* A start scans and watches before anybody can write (runAgent).
LEMMA RestartNotices ==
  ASSUME NoticeInv, Restart
  PROVE  NoticeInv'
<1>1. PICK kept \in SUBSET {d \in Dirs : file[d] = 0} :
        recorded' = [d \in Dirs |-> IF d \in kept THEN recorded[d] ELSE file[d]]
  BY DEF Restart
<1>2. /\ watched' = dirs /\ events' = <<>> /\ watcher' = Idle /\ failed' = FALSE
      /\ UNCHANGED tree
  BY DEF Restart
<1>3. WatchType /\ TreeInv /\ WatchTypeOK
  BY DEF NoticeInv, WatchType
<1>4. Idle \in [pc : {"idle", "stat", "walking", "info", "removing"}, dir : Dirs,
                content : 0..MaxWrites, todo : SUBSET Node, seen : SUBSET Dirs]
  <2>1. 0 \in 0..MaxWrites /\ Root \in Dirs
    BY WatchBounds
  <2> QED
    BY <2>1 DEF Idle
<1>5. WatchType'
  <2>1. events' \in Seq(Event) /\ Len(events') = 0 /\ 0 <= MaxEvents
    BY <1>2, WatchBounds
  <2>2. recorded' \in [Dirs -> 0..MaxWrites]
    BY <1>1, <1>3 DEF WatchTypeOK
  <2>3. WatchTypeOK'
    BY <1>2, <1>3, <1>4, <2>1, <2>2 DEF WatchTypeOK, tree
  <2>4. \A e : ~Waits(e)'
    BY <2>1 DEF Waits
  <2> QED
    BY <1>2, <1>3, <2>3, <2>4 DEF WatchType, tree
<1>6. TreeInv'
  BY <1>2, <1>3 DEF TreeInv, tree, Reaches, HasChildren
<1>7. ASSUME NEW x \in Dirs, file'[x] # 0 PROVE Noticed(x)'
  <2>1. recorded'[x] = file'[x]
    BY <1>1, <1>2, <1>7 DEF tree
  <2> QED
    BY <1>2, <2>1 DEF Noticed, Accounted, Idle
<1> QED
  BY <1>5, <1>6, <1>7 DEF NoticeInv

-----------------------------------------------------------------------------
(***************************************************************************)
(* Nothing goes unnoticed.                                                 *)
(***************************************************************************)
\* There is the backing directory, and it is watched.
LEMMA NoticeInit == WatchInit => NoticeInv
<1> SUFFICES ASSUME WatchInit PROVE NoticeInv
  OBVIOUS
<1>1. /\ 0 \in 0..MaxWrites /\ Root \in Dirs /\ 0 <= MaxEvents
      /\ events = <<>> /\ events \in Seq(Event) /\ Len(events) = 0
  BY WatchBounds DEF WatchInit
<1>2. WatchTypeOK
  BY <1>1 DEF WatchInit, WatchTypeOK, Idle
<1>3. \A e : ~Waits(e)
  BY <1>1 DEF Waits
<1>4. TreeInv
  BY <1>1, ReachesItself DEF WatchInit, TreeInv
<1> QED
  BY <1>1, <1>2, <1>3, <1>4 DEF WatchInit, NoticeInv, WatchType

\* Every step keeps the invariant.
LEMMA NoticeStep ==
  ASSUME Calm, NoticeInv, [WatchNext]_vars
  PROVE  NoticeInv'
<1>1. CASE \E d \in Dirs : MakeDirectory(d) \/ WriteFile(d) \/ DeleteFile(d)
  BY <1>1, MakeDirectoryNotices, WriteFileNotices, DeleteFileNotices
<1>2. CASE \E d \in Dirs : ListDirectory(d) \/ LookAtFile(d) \/ RemoveEntry(d) \/ AbortScan(d)
  BY <1>2, ListDirectoryNotices, LookAtFileNotices, RemoveEntryNotices, AbortScanNotices
<1>3. CASE PassOver \/ StatFile \/ WatchDirectory
  BY <1>3, PassOverNotices, StatFileNotices, WatchDirectoryNotices
<1>4. CASE PutEntry \/ PutScanned
  BY <1>4, PutNotices DEF PutEntry, PutScanned
<1>7. CASE FailPut
  BY <1>7, FailPutNotices
<1>5. CASE FindGone \/ EndScan \/ Restart
  BY <1>5, FindGoneNotices, EndScanNotices, RestartNotices
<1>6. CASE UNCHANGED vars
  <2>1. /\ UNCHANGED <<tree, watched, events, recorded, watcher, failed>>
    BY <1>6 DEF vars, tree
  <2>2. WatchTypeOK
    BY DEF NoticeInv, WatchType
  <2>3. \A x \in dirs : Noticed(x) => Noticed(x)'
    BY <2>1, StillNoticed DEF tree
  <2> QED
    BY <2>1, <2>2, <2>3, WalkNotices DEF WatchTypeOK
<1> QED
  BY <1>1, <1>2, <1>3, <1>4, <1>5, <1>6, <1>7 DEF WatchNext

\* "Watch every directory": whatever shape the tree has and however writes,
\* deletions and new directories fall between events, looks, walks and
\* restarts, a watcher that has read its queue has a watch on every directory
\* and, unless an error was logged and no scan has been complete since, an entry
\* for every file that says what is in it.  The kernel must not drop an event, a
\* directory must not be made inside one that is not watched yet, and w.Add must
\* not fail: each of these loses files.
THEOREM NothingGoesUnnoticed ==
  ASSUME Hardships = {}
  PROVE  WatchSpec => []NothingUnnoticed
<1>1. Calm
  BY DEF Calm
<1>2. NoticeInv => NothingUnnoticed
  <2> SUFFICES ASSUME NoticeInv PROVE NothingUnnoticed
    OBVIOUS
  <2>1. WatchTypeOK /\ TreeInv
    BY DEF NoticeInv, WatchType
  <2>2. ASSUME watcher.pc = "idle", events = <<>>
        PROVE  watched = dirs /\ (failed \/ \A d \in dirs : file[d] # 0 => recorded[d] = file[d])
    <3>1. \A e : ~Waits(e)
      <4>1. Len(events) = 0
        BY <2>2
      <4> QED
        BY <4>1 DEF Waits
    <3>2. watched = dirs
      BY <2>1, <3>1 DEF TreeInv, WatchTypeOK
    <3>3. ASSUME NEW d \in dirs, file[d] # 0, ~failed PROVE recorded[d] = file[d]
      <4>1. Noticed(d)
        BY <2>1, <3>1, <3>3 DEF NoticeInv, Queued, WatchTypeOK
      <4> QED
        BY <2>2, <3>3, <4>1 DEF Noticed, Accounted
    <3> QED
      BY <3>2, <3>3
  <2> QED
    BY <2>1, <2>2 DEF NothingUnnoticed
<1>3. NoticeInv /\ [WatchNext]_vars => NoticeInv'
  BY <1>1, NoticeStep
<1> QED
  BY <1>2, <1>3, NoticeInit, PTL DEF WatchSpec

=============================================================================
