----------------------------- MODULE TanaJournal -----------------------------
(***************************************************************************)
(* The journal of internal/journal: newline-terminated records in segment  *)
(* files named after their first number.  An append makes room (reopening  *)
(* or creating a segment), writes its line and syncs the file before the   *)
(* caller is told; opening repairs a torn line at the end of the newest    *)
(* segment and numbers on from what it finds there; a replay reads the     *)
(* files without the journal's lock, while appends go on.                  *)
(*                                                                         *)
(* A line counts one unit of a segment's size, a fragment of a line less.  *)
(***************************************************************************)
EXTENDS Integers, Sequences, FiniteSets, SequencesExt, FiniteSetsExt

CONSTANTS
  Records,      \* what a record says, beside its number
  Corrupt,      \* a line that does not parse
  MaxSegment,   \* maxSegment, in lines
  Environment,  \* what else may happen
  MaxSeq        \* bound: numbers

\* "kill": the process dies and the page cache survives; "power": what was
\* not synced may be lost; "diskFails": a write or a sync fails, and so does
\* every write until the process is restarted; "diskRecovers": writes work
\* again before that; "emptySegment": a crash may find the newest segment
\* without a record, or all others pruned and that one not there;
\* "lateWriteback": lines a killed process left in the page cache are still
\* not on disk when a later process appends.
ASSUME JournalEnvironment ==
  Environment \subseteq {"kill", "power", "diskFails", "diskRecovers",
                         "emptySegment", "lateWriteback"}
ASSUME JournalBounds == MaxSegment \in Nat \ {0} /\ MaxSeq \in Nat
ASSUME CorruptAssumption == Corrupt \notin Records

VARIABLES
  files,   \* the segment files by base number
  pc,      \* where the append holding the lock is; "down": no process
  last,    \* Journal.last
  cur,     \* Journal.cur and curBase: the base of the open segment, 0 for none
  size,    \* Journal.curSize
  adding,  \* the record being appended
  disk,    \* whether writes work
  told,    \* history: every record whose append returned, or that an opening found
  kept,    \* history: the highest keepFrom of a pruning
  reader   \* a replay in progress

vars == <<files, pc, last, cur, size, adding, disk, told, kept, reader>>
open == <<last, cur, size>>
history == <<told, kept>>

Line == [seq : Nat, rec : Records \cup {Corrupt}]

\* The lines of a file, how many of them are synced, and whether a fragment
\* without a newline follows them.
File == [lines : Seq(Line), synced : Nat, torn : BOOLEAN]

Empty == [lines |-> <<>>, synced |-> 0, torn |-> FALSE]

NoReader == [pc |-> "none", from |-> 0, floor |-> 0, todo |-> {}, got |-> <<>>]

JournalTypeOK ==
  /\ DOMAIN files \subseteq 1..MaxSeq
  /\ \A b \in DOMAIN files : files[b] \in File /\ files[b].synced <= Len(files[b].lines)
  /\ pc \in {"down", "idle", "created", "opened", "written"}
  /\ last \in 0..MaxSeq
  /\ cur \in {0} \cup DOMAIN files
  /\ size \in 0..MaxSegment
  /\ adding \in Records \cup {Corrupt}
  /\ disk \in {"works", "failing"}
  /\ told \subseteq [seq : 1..MaxSeq, rec : Records]
  /\ kept \in 0..MaxSeq

JournalInit ==
  /\ files = [b \in {} |-> Empty]
  /\ pc = "down" /\ last = 0 /\ cur = 0 /\ size = 0
  /\ adding = Corrupt
  /\ disk = "works"
  /\ told = {} /\ kept = 0
  /\ reader = NoReader

-----------------------------------------------------------------------------
Bases == DOMAIN files
Newest == Max(Bases)
SizeOf(f) == Len(f.lines) + (IF f.torn THEN 1 ELSE 0)
With(b, f) == [x \in Bases \cup {b} |-> IF x = b THEN f ELSE files[x]]

\* segment.next: the base of the following segment, 0 for the newest.
NextBase(b) == IF b = Newest THEN 0 ELSE Min({x \in Bases : x > b})

(***************************************************************************)
(* Open.  Only the newest segment is read.  A line that does not parse     *)
(* keeps the journal closed.                                               *)
(***************************************************************************)
Parses(f) == \A i \in DOMAIN f.lines : f.lines[i].rec # Corrupt

\* Faulty: the repair stops one record short.
RepairedShort(f) ==
  IF ~f.torn THEN f
  ELSE [lines |-> Front(f.lines), synced |-> Len(Front(f.lines)), torn |-> FALSE]

\* repairTail: the fragment is truncated, and only then is the file synced.
Repaired(f) ==
  [f EXCEPT !.torn = FALSE, !.synced = IF f.torn THEN Len(f.lines) ELSE @]

\* What an opening finds is what the store goes on from (Recover applies it).
Found == IF Bases = {} THEN {} ELSE Range(files[Newest].lines)

LastSeq(f) == IF f.lines = <<>> THEN 0 ELSE Last(f.lines).seq

\* Faulty: numbering goes on from the name of the newest segment.
OpenByName ==
  /\ pc = "down"
  /\ pc' = "idle" /\ disk' = "works"
  /\ cur' = 0 /\ size' = 0
  /\ IF Bases = {} THEN last' = 0 /\ UNCHANGED files
     ELSE last' = Newest /\ files' = [files EXCEPT ![Newest] = Repaired(@)]
  /\ told' = told \cup Found
  /\ UNCHANGED <<adding, kept, reader>>

Open ==
  /\ pc = "down"
  /\ pc' = "idle" /\ disk' = "works"
  /\ cur' = 0 /\ size' = 0
  /\ IF Bases = {} THEN last' = 0 /\ UNCHANGED files
     ELSE /\ Parses(files[Newest])
          /\ last' = LastSeq(files[Newest])
          /\ files' = [files EXCEPT ![Newest] = Repaired(@)]
  /\ told' = told \cup Found
  /\ UNCHANGED <<adding, kept, reader>>

-----------------------------------------------------------------------------
(***************************************************************************)
(* Append and AppendAt.  Append takes the next number; AppendAt is given   *)
(* one and refuses any other.                                              *)
(***************************************************************************)
Fits(b) == Bases # {} /\ b = Newest /\ SizeOf(files[b]) + 1 <= MaxSegment

\* ensureSegment: go on in the open segment, reopen the newest one, or
\* create one named after the next number.  An empty file has its directory
\* entry synced before it is written to.
MakeRoom(r, n) ==
  /\ pc = "idle"
  /\ n = last + 1
  /\ adding' = r
  /\ \/ /\ cur # 0 /\ size + 1 <= MaxSegment
        /\ pc' = "opened"
        /\ UNCHANGED <<files, cur, size>>
     \/ /\ cur = 0 \/ size + 1 > MaxSegment
        /\ \E b \in Bases : /\ Fits(b)
                            /\ cur' = b /\ size' = SizeOf(files[b])
                            /\ pc' = IF size' = 0 THEN "created" ELSE "opened"
        /\ UNCHANGED files
     \/ /\ cur = 0 \/ size + 1 > MaxSegment
        /\ \A b \in Bases : ~Fits(b)
        /\ files' = IF n \in Bases THEN files ELSE With(n, Empty)
        /\ cur' = n /\ size' = SizeOf(files'[n])
        /\ pc' = IF size' = 0 THEN "created" ELSE "opened"
  /\ UNCHANGED <<last, disk, history, reader>>

SyncDir ==
  /\ pc = "created"
  /\ pc' = "opened"
  /\ UNCHANGED <<files, open, adding, disk, history, reader>>

\* A write after a fragment that an earlier write left makes one line of both.
Write ==
  /\ pc = "opened"
  /\ disk = "works" \/ "diskRecovers" \in Environment
  /\ files' = [files EXCEPT ![cur] =
       [lines |-> Append(@.lines, [seq |-> last + 1,
                                   rec |-> IF @.torn THEN Corrupt ELSE adding]),
        synced |-> @.synced, torn |-> FALSE]]
  /\ size' = size + 1
  /\ pc' = "written"
  /\ UNCHANGED <<last, cur, adding, disk, history, reader>>

\* Faulty: the caller is told before the file is synced.
SyncNothing ==
  /\ pc = "written"
  /\ last' = last + 1
  /\ told' = told \cup {[seq |-> last + 1, rec |-> adding]}
  /\ pc' = "idle" /\ adding' = Corrupt
  /\ UNCHANGED <<files, cur, size, disk, kept, reader>>

\* The file is synced, and with it every line of it; the caller is told.
Sync ==
  /\ pc = "written"
  /\ files' = [files EXCEPT ![cur].synced = Len(files[cur].lines)]
  /\ last' = last + 1
  /\ told' = told \cup {[seq |-> last + 1, rec |-> adding]}
  /\ pc' = "idle" /\ adding' = Corrupt
  /\ UNCHANGED <<cur, size, disk, kept, reader>>

\* The append fails: syncing the directory closes the file it opened, a write
\* may leave a fragment, a failed sync leaves the line.
FailAppend ==
  /\ "diskFails" \in Environment
  /\ pc \in {"created", "opened", "written"}
  /\ disk' = "failing"
  /\ \/ UNCHANGED files
     \/ pc = "opened" /\ disk = "works" /\ files' = [files EXCEPT ![cur].torn = TRUE]
  /\ IF pc = "created" THEN cur' = 0 ELSE UNCHANGED cur
  /\ pc' = "idle" /\ adding' = Corrupt
  /\ UNCHANGED <<last, size, history, reader>>

-----------------------------------------------------------------------------
\* Faulty: a segment is judged by its own name.
PruneByBase(k) ==
  /\ pc = "idle"
  /\ \E b \in Bases : b < k
  /\ files' = [b \in {x \in Bases : x = cur \/ x = Newest \/ x > k} |-> files[b]]
  /\ kept' = IF k > kept THEN k ELSE kept
  /\ UNCHANGED <<pc, open, adding, disk, told, reader>>

\* Prune: whole segments whose successor starts at or below keepFrom.
Prune(k) ==
  /\ pc = "idle"
  /\ \E b \in Bases : b < k
  /\ files' = [b \in {x \in Bases : NextBase(x) = 0 \/ NextBase(x) > k \/ x = cur}
                 |-> files[b]]
  /\ kept' = IF k > kept THEN k ELSE kept
  /\ UNCHANGED <<pc, open, adding, disk, told, reader>>

-----------------------------------------------------------------------------
(***************************************************************************)
(* Replay, which takes no lock: the segments are listed once, those whose  *)
(* successor starts at or below the first number wanted are passed over,   *)
(* and the others are read one after the other, in the order of their      *)
(* names: todo is the set of those not read yet.                           *)
(***************************************************************************)
\* Faulty: a segment is passed over when the record after the first one
\* wanted is in the next.
WantedTooFew(from) == {b \in Bases : ~(NextBase(b) # 0 /\ NextBase(b) <= from + 1)}

Wanted(from) == {b \in Bases : ~(NextBase(b) # 0 /\ NextBase(b) <= from)}

Top(S) == Max({0} \cup S)

ListSegments(from) ==
  /\ pc # "down" /\ reader.pc = "none"
  /\ reader' = [pc |-> "reading", from |-> from,
                floor |-> Top({t.seq : t \in told}),
                todo |-> Wanted(from), got |-> <<>>]
  /\ UNCHANGED <<files, pc, open, adding, disk, history>>

\* replayFile, record by record: what comes before the first one wanted is passed over.
Delivered(from, got, lines) ==
  FoldLeft(LAMBDA g, l : IF l.seq < from THEN g ELSE Append(g, l), got, lines)

ReadSegment ==
  /\ reader.pc = "reading" /\ reader.todo # {}
  /\ LET b == Min(reader.todo) IN
     /\ b \in Bases
     /\ Parses(files[b]) /\ ~files[b].torn
     /\ reader' = [reader EXCEPT !.todo = @ \ {b},
                                 !.got = Delivered(reader.from, @, files[b].lines)]
  /\ UNCHANGED <<files, pc, open, adding, disk, history>>

EndReplay ==
  /\ reader.pc = "reading" /\ reader.todo = {}
  /\ reader' = [reader EXCEPT !.pc = "done"]
  /\ UNCHANGED <<files, pc, open, adding, disk, history>>

\* The caller has what it asked for, or an error: the file was pruned, or it
\* ends in a line that is being written.
LeaveReplay ==
  /\ \/ reader.pc = "done"
     \/ /\ reader.pc = "reading" /\ reader.todo # {}
        /\ LET b == Min(reader.todo) IN
             b \in Bases => files[b].torn \/ ~Parses(files[b]) \/ (pc = "opened" /\ b = cur)
  /\ reader' = NoReader
  /\ UNCHANGED <<files, pc, open, adding, disk, history>>

-----------------------------------------------------------------------------
(***************************************************************************)
(* Crashes.                                                                *)
(***************************************************************************)
Sound(fs) ==
  "emptySegment" \notin Environment /\ told # {} =>
    /\ DOMAIN fs # {}
    /\ fs[Max(DOMAIN fs)].lines # <<>>

Down ==
  /\ pc' = "down" /\ cur' = 0 /\ size' = 0 /\ last' = 0 /\ adding' = Corrupt
  /\ reader' = NoReader
  /\ UNCHANGED <<disk, history>>

WrittenBack(f) ==
  IF "lateWriteback" \in Environment THEN f ELSE [f EXCEPT !.synced = Len(f.lines)]

\* The process stops, by Close between two appends or by dying anywhere; a
\* write under way may leave a fragment.
Kill ==
  /\ "kill" \in Environment
  /\ pc # "down"
  /\ \E torn \in BOOLEAN :
       /\ torn => pc = "opened" /\ disk = "works"
       /\ files' = [b \in Bases |->
            WrittenBack([files[b] EXCEPT !.torn = @ \/ (torn /\ b = cur)])]
  /\ Sound(files')
  /\ Down

\* What a file may hold after the power was lost: its synced lines, some of
\* the others, and a part of the first one missing.
Survivors(f) ==
  {[lines |-> SubSeq(f.lines, 1, n), synced |-> n, torn |-> torn] :
     n \in f.synced..Len(f.lines), torn \in {FALSE}}
  \cup {[lines |-> SubSeq(f.lines, 1, n), synced |-> n, torn |-> TRUE] :
     n \in f.synced..(IF f.torn \/ pc = "opened" THEN Len(f.lines) ELSE Len(f.lines) - 1)}

Settled(b) == ~files[b].torn /\ files[b].synced = Len(files[b].lines) /\ b # cur

\* A file whose directory entry was not synced may be gone.  Every file but
\* one is settled, unless pages are written back late.
PowerCut ==
  /\ "power" \in Environment
  /\ pc # "down" \/ "lateWriteback" \in Environment
  /\ \E there \in {Bases} \cup (IF pc = "created" THEN {Bases \ {cur}} ELSE {}) :
       LET loose == {b \in there : ~Settled(b)} IN
       IF loose = {} THEN files' = [b \in there |-> files[b]]
       ELSE \E x \in loose : \E g \in Survivors(files[x]) :
              files' = [b \in there |-> IF b = x THEN g ELSE files[b]]
  /\ Sound(files')
  /\ Down

-----------------------------------------------------------------------------
JournalNext ==
  \/ Open \/ SyncDir \/ Write \/ Sync \/ FailAppend
  \/ \E r \in Records, n \in 1..MaxSeq : MakeRoom(r, n)
  \/ \E k \in 1..MaxSeq : Prune(k)
  \/ \E n \in 1..MaxSeq : ListSegments(n)
  \/ ReadSegment \/ EndReplay \/ LeaveReplay
  \/ Kill \/ PowerCut

JournalSpec == JournalInit /\ [][JournalNext]_vars

-----------------------------------------------------------------------------
(***************************************************************************)
(* Safety.                                                                 *)
(***************************************************************************)
Lines == UNION {Range(files[b].lines) : b \in Bases}

\* "A record is durable when Append returns": it is among the synced lines of
\* a file, as it was written, until a pruning was allowed to take it.  So is
\* whatever a restart found and the store went on from.  The files are well
\* formed besides.
AckedIsDurable ==
  /\ JournalTypeOK
  /\ \A t \in told : t.seq >= kept =>
       \E b \in Bases : \E i \in 1..files[b].synced : files[b].lines[i] = t

\* A replay that ends without an error delivered every record from the first
\* one wanted to the last one promised when it began, once, in order and as
\* written, whatever was appended, rotated and pruned meanwhile.
ReplayIsExact ==
  reader.pc = "done" =>
    LET first == Max({reader.from, kept}) IN
    /\ \A i \in 2..Len(reader.got) : reader.got[i].seq = reader.got[i - 1].seq + 1
    /\ \A t \in told : t.seq \in first..reader.floor => t \in Range(reader.got)
    /\ \A l \in Range(reader.got) : l.seq >= reader.from

(***************************************************************************)
(* Every step of the files is a step of the log.                           *)
(***************************************************************************)
Log == INSTANCE TanaLog WITH log <- Lines, promised <- Top({t.seq : t \in told})

\* The journal is the numbered log the store takes it for: numbers are never
\* skipped nor reused, nothing promised is lost or changed, across crashes,
\* rotations, failed writes and prunings.
ImplementsLog == Log!Spec

\* The log never holds two records under one number, nor a gap.
NumbersDense == Log!Dense

=============================================================================
