--------------------------- MODULE TanaJournalProofs ---------------------------
(***************************************************************************)
(* Theorems of TanaJournal, for all records, segment sizes and bounds:     *)
(* what an append answered is on disk, the segment files are the log the   *)
(* store takes them for, and a replay delivers what it promised, across    *)
(* kills, power cuts, failed writes, rotations and prunings.               *)
(***************************************************************************)
EXTENDS TanaJournal, TanaInduction, TLAPS

\* The environment these theorems are about, as in the run: a disk that fails
\* stays failed until the process is restarted, a crash does not find the
\* newest segment empty once something was promised, and what a killed process
\* left in the page cache is on disk before a later one appends.
OrderlyAssumption == Environment \subseteq {"kill", "power", "diskFails"}

-----------------------------------------------------------------------------
(***************************************************************************)
(* Sets of numbers.                                                        *)
(***************************************************************************)
\* The greatest of a bounded set of numbers (the newest segment, the last record).
LEMMA MaxOf ==
  ASSUME NEW S \in SUBSET Nat, S # {}, NEW n \in Nat, \A y \in S : y <= n
  PROVE  Max(S) \in S /\ \A y \in S : y <= Max(S)
<1>1. \E x \in S : \A y \in S : y <= x
  BY Greatest
<1>2. \E x \in S : \A y \in S : x >= y
  BY <1>1
<1> DEFINE P(x) == x \in S /\ \A y \in S : x >= y
<1>3. P(CHOOSE x : P(x))
  BY <1>2
<1> QED
  BY <1>2 DEF Max

\* There is only one such (the newest segment).
LEMMA MaxIs ==
  ASSUME NEW S \in SUBSET Nat, NEW m \in S, \A y \in S : y <= m
  PROVE  Max(S) = m
<1>1. \E x \in S : \A y \in S : x >= y
  OBVIOUS
<1>2. Max(S) \in S /\ \A y \in S : Max(S) >= y
  BY <1>1 DEF Max
<1>3. Max(S) >= m /\ Max(S) <= m /\ Max(S) \in Nat /\ m \in Nat
  BY <1>2
<1> QED
  BY <1>3

\* The least of a set of numbers (segment.next).
LEMMA MinOf ==
  ASSUME NEW S \in SUBSET Nat, S # {}
  PROVE  Min(S) \in S /\ \A y \in S : Min(S) <= y
<1>1. \E x \in S : \A y \in S : x =< y
  BY Least
<1> QED
  BY <1>1 DEF Min

-----------------------------------------------------------------------------
(***************************************************************************)
(* The inductive invariant.                                                *)
(***************************************************************************)
Up == pc # "down"
LenOf(b) == Len(files[b].lines)

\* Something of the file is not on disk.
Behind(b) == files[b].torn \/ files[b].synced # LenOf(b)

\* The lines of a segment are numbered from its name.
Numbered ==
  \A b \in Bases :
    /\ LenOf(b) <= MaxSegment
    /\ \A i \in 1..LenOf(b) :
         /\ files[b].lines[i].seq = b + i - 1
         /\ files[b].lines[i].rec \in Records
         /\ b + i - 1 <= MaxSeq

\* A segment ends before the next begins, but for the line a failed sync left
\* before an empty one.
Chained ==
  \A b, c \in Bases : b < c =>
    \/ b + LenOf(b) <= c
    \/ /\ c = Newest /\ LenOf(c) = 0 /\ b + LenOf(b) = c + 1
       /\ Up /\ disk = "failing"

\* A record is where its number says, among the synced lines.
Held(t, b) ==
  /\ t.seq - b + 1 \in 1..files[b].synced
  /\ files[b].lines[t.seq - b + 1] = t

\* What was promised and may not be pruned has a segment, and the segment its
\* number falls into holds it.
ToldHeld ==
  \A t \in told :
    /\ t.seq >= kept => \E b \in Bases : b <= t.seq
    /\ \A b \in Bases :
         b <= t.seq /\ (\A c \in Bases : c <= b \/ c > t.seq) => Held(t, b)

\* Before anything was promised there is at most the first segment; after that
\* there is one, and the newest begins by the next number.
Started ==
  /\ told = {} => Bases \subseteq {1} /\ last = 0
  /\ Bases = {} => told = {}
  /\ told # {} => \E t \in told : Newest <= t.seq + 1

\* Only the newest segment lacks something on disk, unless the disk failed and
\* an empty one was created after it.
LateBehind ==
  \A b \in Bases : Behind(b) /\ b # Newest =>
    /\ Up /\ disk = "failing" /\ told # {}
    /\ LenOf(Newest) = 0
    /\ b + LenOf(b) = Newest + 1

\* What a restart finds.
Stopped ==
  ~Up => /\ \A b \in Bases : files[b].synced = LenOf(b)
         /\ told # {} => LenOf(Newest) # 0
         /\ cur = 0

\* How the position of a running process relates to its files.
Positioned ==
  Up =>
    /\ cur # 0 => cur = Newest
    /\ \A t \in told : t.seq <= last
    /\ told # {} => \E t \in told : t.seq = last
    /\ Bases # {} =>
         /\ Newest <= last + 1
         /\ Newest + LenOf(Newest) \in {last + 1, last + 2}
         /\ disk = "works" /\ pc # "written" => Newest + LenOf(Newest) = last + 1
    /\ \A b \in Bases : files[b].torn =>
         b = cur /\ size + 1 <= MaxSegment /\ pc # "written" /\ disk = "failing"
    /\ pc # "written" =>
         \A b \in Bases : files[b].synced # LenOf(b) =>
            disk = "failing" /\ b + LenOf(b) = last + 2

\* What an append under way has done.
Appending ==
  Up =>
    /\ pc # "idle" => cur # 0 /\ last + 1 <= MaxSeq /\ adding \in Records
    /\ cur # 0 /\ disk = "works" => size = LenOf(cur)
    /\ pc = "opened" /\ disk = "works" => size + 1 <= MaxSegment
    /\ pc = "written" =>
         /\ disk = "works" /\ LenOf(cur) > 0
         /\ files[cur].lines[LenOf(cur)] = [seq |-> last + 1, rec |-> adding]
    /\ pc = "created" => LenOf(cur) = 0 /\ ~files[cur].torn

FilesInv == Numbered /\ Chained /\ ToldHeld /\ Started
JournalInv ==
  JournalTypeOK /\ FilesInv /\ LateBehind /\ Stopped /\ Positioned /\ Appending

\* Numbers are numbers, and the newest segment is the last of them.
LEMMA BasesAre ==
  ASSUME JournalTypeOK
  PROVE  /\ MaxSegment \in Nat \ {0} /\ MaxSeq \in Nat
         /\ Bases \subseteq Nat \ {0}
         /\ \A b \in Bases : /\ b \in 1..MaxSeq /\ b \in Nat
                             /\ files[b] \in File
                             /\ files[b].lines \in Seq(Line) /\ LenOf(b) \in Nat
                             /\ DOMAIN files[b].lines = 1..LenOf(b)
                             /\ files[b].synced \in Nat /\ files[b].synced <= LenOf(b)
                             /\ files[b].torn \in BOOLEAN
         /\ Bases # {} => /\ Newest \in Bases /\ Newest \in Nat \ {0}
                          /\ \A b \in Bases : b <= Newest
         /\ last \in Nat /\ kept \in Nat
         /\ \A t \in told : t.seq \in Nat \ {0} /\ t.seq <= MaxSeq /\ t.rec \in Records
<1>1. MaxSegment \in Nat \ {0} /\ MaxSeq \in Nat
  BY JournalBounds
<1>2. Bases \subseteq 1..MaxSeq
  BY DEF JournalTypeOK, Bases
<1>3. ASSUME NEW b \in Bases
      PROVE  /\ files[b] \in File
             /\ files[b].lines \in Seq(Line) /\ LenOf(b) \in Nat
             /\ DOMAIN files[b].lines = 1..LenOf(b)
             /\ files[b].synced \in Nat /\ files[b].synced <= LenOf(b)
             /\ files[b].torn \in BOOLEAN
  <2>1. files[b] \in File /\ files[b].synced <= Len(files[b].lines)
    BY DEF JournalTypeOK, Bases
  <2>2. files[b].lines \in Seq(Line)
    BY <2>1 DEF File
  <2>3. Len(files[b].lines) \in Nat /\ DOMAIN files[b].lines = 1..Len(files[b].lines)
    BY <2>2
  <2> QED
    BY <2>1, <2>2, <2>3 DEF File, LenOf
<1>4. ASSUME Bases # {}
      PROVE  Newest \in Bases /\ \A b \in Bases : b <= Newest
  <2>1. Bases \in SUBSET Nat /\ \A b \in Bases : b <= MaxSeq
    BY <1>1, <1>2
  <2> HIDE DEF Bases
  <2> QED
    BY <1>1, <1>4, <2>1, MaxOf DEF Newest
<1>5. /\ last \in Nat /\ kept \in Nat
      /\ \A t \in told : t.seq \in Nat \ {0} /\ t.seq <= MaxSeq /\ t.rec \in Records
  BY <1>1 DEF JournalTypeOK
<1>6. Bases \subseteq Nat \ {0} /\ \A b \in Bases : b \in 1..MaxSeq /\ b \in Nat
  BY <1>1, <1>2
<1> HIDE DEF Bases, Newest
<1> QED
  BY <1>1, <1>3, <1>4, <1>5, <1>6

\* segment.next of a segment that is not the newest is the one that follows it.
LEMMA NextBaseIs ==
  ASSUME JournalTypeOK, NEW b \in Bases
  PROVE  /\ b = Newest => NextBase(b) = 0
         /\ b # Newest => /\ NextBase(b) \in Bases /\ b < NextBase(b)
                          /\ \A c \in Bases : c <= b \/ NextBase(b) <= c
<1> DEFINE S == {x \in Bases : x > b}
<1>1. Bases \subseteq Nat /\ Newest \in Bases /\ b <= Newest
  <2>1. Bases # {}
    OBVIOUS
  <2> QED
    BY <2>1, BasesAre
<1>2. S \in SUBSET Nat /\ (b # Newest => S # {})
  <2>1. S \subseteq Nat
    BY <1>1
  <2>2. b \in Nat /\ Newest \in Nat
    BY <1>1
  <2>3. b # Newest => Newest > b
    BY <1>1, <2>2
  <2> QED
    BY <1>1, <2>1, <2>3
<1>3. b # Newest => Min(S) \in S /\ \A y \in S : Min(S) <= y
  BY <1>2, MinOf
<1>4. b # Newest => NextBase(b) = Min(S)
  BY DEF NextBase
<1>5. \A c \in Bases : c <= b \/ c \in S
  BY <1>1
<1> QED
  BY <1>3, <1>4, <1>5 DEF NextBase

-----------------------------------------------------------------------------
(***************************************************************************)
(* Every step keeps the invariant.                                         *)
(***************************************************************************)
\* There is nothing yet.
LEMMA JournalInvInit == JournalInit => JournalInv
<1> SUFFICES ASSUME JournalInit PROVE JournalInv
  OBVIOUS
<1>1. Bases = {}
  BY DEF JournalInit, Bases
<1>2. JournalTypeOK
  BY <1>1, JournalBounds DEF JournalInit, JournalTypeOK, Bases
<1> QED
  BY <1>1, <1>2 DEF JournalInit, JournalInv, FilesInv, Numbered, Chained, ToldHeld, Started,
     LateBehind, Stopped, Positioned, Appending, Up

\* What a step that leaves the files and the promises alone keeps.
LEMMA FilesKept ==
  ASSUME FilesInv, UNCHANGED <<files, told, kept, last, disk>>, Up <=> Up'
  PROVE  FilesInv'
BY DEF FilesInv, Numbered, Chained, ToldHeld, Held, Started, Bases, Newest, LenOf

\* The directory is synced (ensureSegment).
LEMMA SyncDirInv == JournalInv /\ SyncDir => JournalInv'
<1> SUFFICES ASSUME JournalInv, SyncDir PROVE JournalInv'
  OBVIOUS
<1>1. JournalTypeOK'
  BY DEF JournalInv, JournalTypeOK, SyncDir, open, history
<1>2. FilesInv'
  BY FilesKept DEF JournalInv, SyncDir, open, history, Up
<1>3. LateBehind' /\ Stopped' /\ Positioned'
  BY DEF JournalInv, SyncDir, open, history, LateBehind, Stopped, Positioned, Behind,
     Bases, Newest, LenOf, Up
<1>4. Appending'
  <2>1. disk = "works" => size = LenOf(cur)
    BY DEF JournalInv, SyncDir, Appending, Up
  <2>2. LenOf(cur) = 0 /\ MaxSegment \in Nat \ {0}
    BY JournalBounds DEF JournalInv, SyncDir, Appending, Up
  <2>3. disk = "works" => size + 1 <= MaxSegment
    BY <2>1, <2>2
  <2> QED
    BY <2>3 DEF JournalInv, SyncDir, open, history, Appending, Up, LenOf
<1> QED
  BY <1>1, <1>2, <1>3, <1>4 DEF JournalInv

\* A reader changes nothing of the journal (Replay).
LEMMA ReaderInv ==
  ASSUME JournalInv, UNCHANGED <<files, pc, last, cur, size, adding, disk, told, kept>>
  PROVE  JournalInv'
<1>1. JournalTypeOK'
  BY DEF JournalInv, JournalTypeOK
<1>2. FilesInv'
  BY FilesKept DEF JournalInv, Up
<1>3. LateBehind' /\ Stopped' /\ Positioned' /\ Appending'
  BY DEF JournalInv, LateBehind, Stopped, Positioned, Appending, Behind,
     Bases, Newest, LenOf, Up
<1> QED
  BY <1>1, <1>2, <1>3 DEF JournalInv

\* The line is synced and the caller told (Append).
LEMMA SyncInv == JournalInv /\ Sync => JournalInv'
<1> SUFFICES ASSUME JournalInv, Sync PROVE JournalInv'
  OBVIOUS
<1> USE DEF Sync
<1>e. PICK e : e = [seq |-> last + 1, rec |-> adding]
  OBVIOUS
<1>0. /\ JournalTypeOK /\ Numbered /\ Chained /\ ToldHeld /\ Started
      /\ LateBehind /\ Stopped /\ Positioned /\ Appending /\ Up
  BY DEF JournalInv, FilesInv, Up
<1>1. /\ cur \in Bases /\ cur = Newest /\ LenOf(cur) \in Nat \ {0}
      /\ files[cur].lines[LenOf(cur)] = e /\ last + 1 <= MaxSeq /\ Bases # {}
      /\ adding \in Records /\ disk = "works" /\ size = LenOf(cur) /\ ~files[cur].torn
  <2>1. cur # 0
    BY <1>0 DEF Appending
  <2>2. cur \in Bases /\ cur = Newest
    BY <1>0, <2>1 DEF JournalTypeOK, Bases, Positioned
  <2> QED
    BY <1>e, <1>0, <2>1, <2>2, BasesAre DEF Appending, Positioned
<1>2. /\ Bases' = Bases /\ Newest' = Newest
      /\ \A b \in Bases : /\ files'[b].lines = files[b].lines /\ files'[b].torn = files[b].torn
                          /\ b # cur => files'[b] = files[b]
                          /\ LenOf(b)' = LenOf(b)
      /\ files'[cur].synced = LenOf(cur)
  <2>1. Bases' = Bases
    BY DEF Bases
  <2>2. files[cur] \in File
    BY <1>0, <1>1 DEF JournalTypeOK, Bases
  <2>3. files'[cur] = [files[cur] EXCEPT !.synced = LenOf(cur)]
    BY <1>1 DEF Bases, LenOf
  <2>4. files'[cur].synced = LenOf(cur) /\ files'[cur].lines = files[cur].lines
        /\ files'[cur].torn = files[cur].torn /\ files'[cur] \in File
    BY <2>2, <2>3, <1>1 DEF File
  <2>5. \A b \in Bases : b # cur => files'[b] = files[b]
    BY DEF Bases
  <2> QED
    BY <2>1, <2>4, <2>5 DEF Newest, LenOf
<1>3. /\ MaxSegment \in Nat \ {0} /\ MaxSeq \in Nat
      /\ \A b \in Bases : b \in Nat \ {0} /\ b <= Newest /\ LenOf(b) \in Nat
                          /\ files[b].synced \in Nat /\ files[b].synced <= LenOf(b)
      /\ last \in Nat /\ kept \in Nat /\ Newest \in Nat \ {0}
      /\ \A t \in told : t.seq \in Nat \ {0}
  BY <1>0, <1>1, BasesAre
<1>4. cur + LenOf(cur) = last + 2 /\ cur <= last + 1
  <2>1. files[cur].lines[LenOf(cur)].seq = cur + LenOf(cur) - 1
    BY <1>0, <1>1 DEF Numbered
  <2>2. e.seq = last + 1
    BY <1>e
  <2>3. Newest <= last + 1
    BY <1>0, <1>1 DEF Positioned
  <2>4. cur \in Nat /\ LenOf(cur) \in Nat /\ last \in Nat
    BY <1>1, <1>3
  <2>5. cur + LenOf(cur) - 1 = last + 1
    BY <2>1, <2>2, <1>1
  <2>6. cur <= last + 1
    BY <2>3, <1>1
  <2> QED
    BY <2>4, <2>5, <2>6
<1>5. last' = last + 1 /\ told' = told \cup {e} /\ kept' = kept /\ cur' = cur /\ size' = size
      /\ pc' = "idle" /\ adding' = Corrupt /\ disk' = disk
  BY <1>e
<1>6. JournalTypeOK'
  <2>1. \A b \in Bases : files'[b] \in File /\ files'[b].synced <= Len(files'[b].lines)
    <3>1. files[cur] \in File
      BY <1>0, <1>1 DEF JournalTypeOK, Bases
    <3>2. files'[cur] = [files[cur] EXCEPT !.synced = LenOf(cur)]
      BY <1>1 DEF Bases, LenOf
    <3>3. files'[cur] \in File
      BY <3>1, <3>2, <1>1 DEF File
    <3> QED
      BY <3>3, <1>0, <1>1, <1>2, <1>3 DEF JournalTypeOK, Bases, LenOf
  <2>2. told' \subseteq [seq : 1..MaxSeq, rec : Records]
    BY <1>e, <1>0, <1>1, <1>3, <1>5 DEF JournalTypeOK
  <2>3. last' \in 0..MaxSeq /\ cur' \in Bases' /\ size' \in 0..MaxSegment
        /\ kept' \in 0..MaxSeq /\ disk' \in {"works", "failing"}
    BY <1>0, <1>1, <1>2, <1>3, <1>5 DEF JournalTypeOK
  <2>4. Bases' \subseteq 1..MaxSeq
    BY <1>0, <1>2 DEF JournalTypeOK, Bases
  <2> HIDE DEF Sync
  <2> QED
    BY <2>1, <2>2, <2>3, <2>4, <1>2, <1>5 DEF JournalTypeOK, Bases
<1> HIDE DEF Sync
<1>7. e.seq = last + 1 /\ e.rec = adding
  BY <1>e
<1>8. Numbered'
  BY <1>0, <1>2 DEF Numbered
<1>9. Chained'
  BY <1>0, <1>1, <1>2, <1>5 DEF Chained, Up
<1>10. ToldHeld'
  <2>1. ASSUME NEW t \in told, NEW b \in Bases, Held(t, b)
        PROVE  Held(t, b)'
    BY <2>1, <1>1, <1>2, <1>3 DEF Held
  <2>2. \A b \in Bases : b = cur => Held(e, b)'
    BY <1>1, <1>2, <1>3, <1>4, <1>7 DEF Held
  <2>3. ASSUME NEW b \in Bases, b <= e.seq, \A c \in Bases : c <= b \/ c > e.seq
        PROVE  b = cur
    BY <2>3, <1>1, <1>3, <1>4, <1>7
  <2>4. ASSUME NEW t \in told'
        PROVE  /\ t.seq >= kept' => \E b \in Bases' : b <= t.seq
               /\ \A b \in Bases' :
                    b <= t.seq /\ (\A c \in Bases' : c <= b \/ c > t.seq) => Held(t, b)'
    <3>1. CASE t \in told
      BY <3>1, <2>1, <1>0, <1>2, <1>5 DEF ToldHeld
    <3>2. CASE t = e
      BY <3>2, <2>2, <2>3, <1>1, <1>2, <1>4, <1>5, <1>7
    <3> QED
      BY <3>1, <3>2, <1>5
  <2> QED
    BY <2>4 DEF ToldHeld
<1>11. Started'
  BY <1>0, <1>1, <1>2, <1>3, <1>4, <1>5, <1>7 DEF Started
<1>12. \A b \in Bases : b # cur => ~Behind(b)
  BY <1>0, <1>1 DEF LateBehind
<1>13. \A b \in Bases : ~Behind(b)'
  BY <1>1, <1>2, <1>12 DEF Behind
<1>14. LateBehind' /\ Stopped'
  BY <1>2, <1>5, <1>13 DEF LateBehind, Stopped, Up
<1>15. Positioned'
  <2>1. \A t \in told : t.seq <= last
    BY <1>0 DEF Positioned
  <2>2. /\ cur' # 0 => cur' = Newest'
        /\ \A t \in told' : t.seq <= last'
        /\ \E t \in told' : t.seq = last'
        /\ Newest' <= last' + 1
        /\ Newest' + LenOf(Newest)' = last' + 1
    BY <2>1, <1>1, <1>2, <1>3, <1>4, <1>5, <1>7 DEF LenOf
  <2>3. \A b \in Bases' : ~files'[b].torn /\ files'[b].synced = LenOf(b)'
    BY <1>13, <1>2 DEF Behind
  <2> QED
    BY <2>2, <2>3, <1>3, <1>5 DEF Positioned
<1>16. Appending'
  BY <1>1, <1>2, <1>5 DEF Appending, LenOf
<1> QED
  BY <1>6, <1>8, <1>9, <1>10, <1>11, <1>14, <1>15, <1>16 DEF JournalInv, FilesInv

\* Where a running append is: in the newest segment.
LEMMA CurIs ==
  ASSUME JournalInv, Up, cur # 0
  PROVE  /\ cur \in Bases /\ cur = Newest /\ Bases # {} /\ Newest <= last + 1
         /\ cur \in Nat /\ LenOf(cur) \in Nat /\ last \in Nat /\ size \in Nat
         /\ files[cur] \in File /\ files[cur].lines \in Seq(Line)
         /\ DOMAIN files[cur].lines = 1..LenOf(cur)
<1>1. cur \in Bases /\ size \in Nat
  BY DEF JournalInv, JournalTypeOK, Bases
<1>2. cur = Newest /\ Newest <= last + 1
  BY <1>1 DEF JournalInv, Positioned
<1> QED
  BY <1>1, <1>2, BasesAre DEF JournalInv

\* A line goes to the end of the newest segment (Append, with a disk that has
\* not failed).
LEMMA WriteIs ==
  ASSUME OrderlyAssumption, JournalInv, Write
  PROVE  /\ pc = "opened" /\ disk = "works"
         /\ cur # 0 /\ last + 1 <= MaxSeq /\ adding \in Records /\ size = LenOf(cur)
         /\ size + 1 <= MaxSegment
         /\ cur \in Bases /\ cur = Newest /\ Bases # {} /\ Newest <= last + 1
         /\ cur \in Nat /\ LenOf(cur) \in Nat /\ last \in Nat /\ size \in Nat
         /\ files[cur].lines \in Seq(Line) /\ DOMAIN files[cur].lines = 1..LenOf(cur)
         /\ ~files[cur].torn /\ cur + LenOf(cur) = last + 1
         /\ \A b \in Bases : files[b].synced = LenOf(b) /\ ~files[b].torn
         /\ Bases' = Bases
         /\ \A b \in Bases : b # cur => files'[b] = files[b]
         /\ files'[cur] \in File
         /\ files'[cur].lines = Append(files[cur].lines, [seq |-> last + 1, rec |-> adding])
         /\ Len(files'[cur].lines) = LenOf(cur) + 1
         /\ files'[cur].synced = LenOf(cur) /\ ~files'[cur].torn
         /\ \A i \in 1..LenOf(cur) : files'[cur].lines[i] = files[cur].lines[i]
         /\ files'[cur].lines[LenOf(cur) + 1] = [seq |-> last + 1, rec |-> adding]
<1>e. PICK e : e = [seq |-> last + 1, rec |-> adding]
  OBVIOUS
<1>0. Positioned /\ Appending /\ Up /\ pc = "opened" /\ disk = "works"
  BY DEF JournalInv, Up, Write, OrderlyAssumption
<1>1. cur # 0 /\ last + 1 <= MaxSeq /\ adding \in Records /\ size = LenOf(cur)
      /\ size + 1 <= MaxSegment
  BY <1>0 DEF Appending
<1>2. /\ cur \in Bases /\ cur = Newest /\ Bases # {} /\ Newest <= last + 1
      /\ cur \in Nat /\ LenOf(cur) \in Nat /\ last \in Nat /\ size \in Nat
      /\ files[cur] \in File /\ files[cur].lines \in Seq(Line)
      /\ DOMAIN files[cur].lines = 1..LenOf(cur)
  BY <1>0, <1>1, CurIs
<1>3. /\ ~files[cur].torn /\ cur + LenOf(cur) = last + 1
      /\ \A b \in Bases : files[b].synced = LenOf(b) /\ ~files[b].torn
  BY <1>0, <1>2 DEF Positioned
<1>4. e \in Line
  BY <1>e, <1>1, <1>2 DEF Line
<1>5. Bases' = Bases
  BY DEF Write, Bases
<1>6. \A b \in Bases : b # cur => files'[b] = files[b]
  BY DEF Write, Bases
<1>7. files'[cur] = [lines |-> Append(files[cur].lines, e), synced |-> files[cur].synced,
                     torn |-> FALSE]
  BY <1>e, <1>2, <1>3 DEF Write, Bases
<1>8. /\ Append(files[cur].lines, e) \in Seq(Line)
      /\ Len(Append(files[cur].lines, e)) = LenOf(cur) + 1
  BY <1>2, <1>4 DEF LenOf
<1>9. files'[cur] \in File /\ files'[cur].lines = Append(files[cur].lines, e)
      /\ files'[cur].synced = files[cur].synced /\ files'[cur].torn = FALSE
  BY <1>7, <1>8, <1>2 DEF File
<1>10. /\ \A i \in 1..LenOf(cur) : files'[cur].lines[i] = files[cur].lines[i]
       /\ files'[cur].lines[LenOf(cur) + 1] = e
  BY <1>2, <1>9 DEF LenOf
<1> QED
  BY <1>e, <1>0, <1>1, <1>2, <1>3, <1>5, <1>6, <1>8, <1>9, <1>10

\* The line is written (Append).
LEMMA WriteInv == OrderlyAssumption /\ JournalInv /\ Write => JournalInv'
<1> SUFFICES ASSUME OrderlyAssumption, JournalInv, Write PROVE JournalInv'
  OBVIOUS
<1>e. PICK e : e = [seq |-> last + 1, rec |-> adding]
  OBVIOUS
<1>0. /\ JournalTypeOK /\ Numbered /\ Chained /\ ToldHeld /\ Started
      /\ LateBehind /\ Stopped /\ Positioned /\ Appending /\ Up
      /\ pc = "opened" /\ disk = "works"
  BY WriteIs DEF JournalInv, FilesInv, Up
<1>1. cur # 0 /\ last + 1 <= MaxSeq /\ adding \in Records /\ size = LenOf(cur)
      /\ size + 1 <= MaxSegment
  BY WriteIs
<1>2. /\ cur \in Bases /\ cur = Newest /\ Bases # {} /\ Newest <= last + 1
      /\ cur \in Nat /\ LenOf(cur) \in Nat /\ last \in Nat /\ size \in Nat
      /\ files[cur].lines \in Seq(Line) /\ DOMAIN files[cur].lines = 1..LenOf(cur)
  BY WriteIs
<1>3. /\ ~files[cur].torn /\ cur + LenOf(cur) = last + 1
      /\ \A b \in Bases : files[b].synced = LenOf(b) /\ ~files[b].torn
  BY WriteIs
<1>4. /\ last' = last /\ told' = told /\ kept' = kept /\ cur' = cur /\ size' = size + 1
      /\ pc' = "written" /\ adding' = adding /\ disk' = disk
  BY DEF Write, history
<1>5. e.seq = last + 1 /\ e.rec = adding
  BY <1>e
<1>6. /\ Bases' = Bases /\ Newest' = Newest
      /\ \A b \in Bases : b # cur => files'[b] = files[b] /\ LenOf(b)' = LenOf(b)
      /\ files'[cur] \in File /\ files'[cur].lines = Append(files[cur].lines, e)
      /\ Len(files'[cur].lines) = LenOf(cur) + 1
      /\ files'[cur].synced = LenOf(cur) /\ ~files'[cur].torn
  BY <1>e, WriteIs DEF Newest, LenOf
<1>7. \A i \in 1..LenOf(cur) : files'[cur].lines[i] = files[cur].lines[i]
  BY WriteIs
<1>8. files'[cur].lines[LenOf(cur) + 1] = e
  BY <1>e, WriteIs
<1>9. \A b \in Bases : b = cur => LenOf(b)' = LenOf(b) + 1
  BY <1>6 DEF LenOf
<1>10. /\ MaxSegment \in Nat \ {0} /\ MaxSeq \in Nat
       /\ \A b \in Bases : b \in Nat \ {0} /\ b <= Newest /\ LenOf(b) \in Nat
                           /\ files[b].synced \in Nat /\ files[b].synced <= LenOf(b)
       /\ last \in Nat /\ kept \in Nat /\ Newest \in Nat \ {0}
       /\ \A t \in told : t.seq \in Nat \ {0}
  BY <1>0, <1>2, BasesAre
<1>11. JournalTypeOK'
  <2>1. \A b \in Bases : files'[b] \in File /\ files'[b].synced <= Len(files'[b].lines)
    <3>1. files'[cur].synced <= Len(files'[cur].lines)
      BY <1>2, <1>6
    <3>2. \A b \in Bases : files[b] \in File /\ files[b].synced <= Len(files[b].lines)
      BY <1>0 DEF JournalTypeOK, Bases
    <3> QED
      BY <1>6, <3>1, <3>2
  <2>2. last' \in 0..MaxSeq /\ cur' \in Bases' /\ size' \in 0..MaxSegment
        /\ kept' \in 0..MaxSeq /\ disk' \in {"works", "failing"} /\ adding' \in Records
        /\ told' \subseteq [seq : 1..MaxSeq, rec : Records]
    BY <1>0, <1>1, <1>2, <1>4, <1>6 DEF JournalTypeOK
  <2>3. Bases' \subseteq 1..MaxSeq
    BY <1>0, <1>6 DEF JournalTypeOK, Bases
  <2> QED
    BY <2>1, <2>2, <2>3, <1>6, <1>4 DEF JournalTypeOK, Bases
<1>12. Numbered'
  <2>1. ASSUME NEW b \in Bases, b # cur
        PROVE  /\ LenOf(b)' <= MaxSegment
               /\ \A i \in 1..LenOf(b)' :
                    /\ files'[b].lines[i].seq = b + i - 1
                    /\ files'[b].lines[i].rec \in Records
                    /\ b + i - 1 <= MaxSeq
    BY <2>1, <1>0, <1>6 DEF Numbered
  <2>2. ASSUME NEW i \in 1..(LenOf(cur) + 1)
        PROVE  /\ files'[cur].lines[i].seq = cur + i - 1
               /\ files'[cur].lines[i].rec \in Records
               /\ cur + i - 1 <= MaxSeq
    <3>1. CASE i \in 1..LenOf(cur)
      BY <3>1, <1>0, <1>2, <1>7 DEF Numbered
    <3>2. CASE i = LenOf(cur) + 1
      BY <3>2, <1>1, <1>2, <1>3, <1>5, <1>8
    <3> QED
      BY <3>1, <3>2, <1>2
  <2> QED
    BY <2>1, <2>2, <1>1, <1>2, <1>6, <1>9 DEF Numbered
<1>13. Chained'
  <2>1. \A b, c \in Bases : b < c => b + LenOf(b) <= c /\ b # cur
    BY <1>0, <1>2, <1>10 DEF Chained
  <2> QED
    BY <2>1, <1>6 DEF Chained
<1>14. ToldHeld'
  <2>1. ASSUME NEW t \in told, NEW b \in Bases, Held(t, b)
        PROVE  Held(t, b)'
    <3>1. CASE b # cur
      BY <3>1, <2>1, <1>6 DEF Held
    <3>2. CASE b = cur
      BY <3>2, <2>1, <1>2, <1>3, <1>6, <1>7, <1>10 DEF Held
    <3> QED
      BY <3>1, <3>2
  <2> QED
    BY <2>1, <1>0, <1>4, <1>6 DEF ToldHeld
<1>15. Started'
  BY <1>0, <1>4, <1>6 DEF Started
<1>16. \A b \in Bases : b # cur => ~Behind(b)'
  BY <1>3, <1>6 DEF Behind
<1>17. LateBehind' /\ Stopped'
  BY <1>2, <1>6, <1>4, <1>16 DEF LateBehind, Stopped, Up
<1>18. Positioned'
  <2>1. \A b \in Bases : ~files'[b].torn
    BY <1>3, <1>6
  <2>2. Newest' + LenOf(Newest)' = last' + 2
    <3>1. LenOf(Newest)' = Len(files'[cur].lines)
      BY <1>2, <1>6 DEF LenOf
    <3> QED
      BY <3>1, <1>2, <1>3, <1>4, <1>6
  <2> QED
    BY <2>1, <2>2, <1>0, <1>2, <1>4, <1>6 DEF Positioned, Up
<1>19. Appending'
  <2>1. LenOf(cur)' = LenOf(cur) + 1
    BY <1>4, <1>6 DEF LenOf
  <2> QED
    BY <2>1, <1>e, <1>1, <1>2, <1>4, <1>8, <1>0 DEF Appending, Up
<1> QED
  BY <1>11, <1>12, <1>13, <1>14, <1>15, <1>17, <1>18, <1>19 DEF JournalInv, FilesInv

\* No file ends in a fragment when room has to be found (ensureSegment).
LEMMA RoomIsWhole ==
  ASSUME JournalInv, pc = "idle", cur = 0 \/ size + 1 > MaxSegment, NEW b \in Bases
  PROVE  ~files[b].torn /\ SizeOf(files[b]) = LenOf(b)
<1>1. b \in Nat \ {0} /\ size \in Nat /\ MaxSegment \in Nat /\ files[b].torn \in BOOLEAN
      /\ LenOf(b) \in Nat
  BY BasesAre DEF JournalInv, JournalTypeOK
<1>2. files[b].torn => b = cur /\ size + 1 <= MaxSegment
  BY DEF JournalInv, Positioned, Up
<1>3. ~files[b].torn
  BY <1>1, <1>2
<1> QED
  BY <1>1, <1>3 DEF SizeOf, LenOf

\* Room in a file that is there (ensureSegment).
LEMMA ReopenInv ==
  ASSUME JournalInv, NEW r \in Records, pc = "idle", last + 1 <= MaxSeq, adding' = r,
         UNCHANGED <<files, last, disk, history, reader>>,
         \/ /\ cur # 0 /\ size + 1 <= MaxSegment
            /\ pc' = "opened"
            /\ UNCHANGED <<cur, size>>
         \/ /\ cur = 0 \/ size + 1 > MaxSegment
            /\ \E b \in Bases :
                 /\ b = Newest /\ SizeOf(files[b]) <= MaxSegment
                 /\ disk = "works" => SizeOf(files[b]) + 1 <= MaxSegment
                 /\ cur' = b /\ size' = SizeOf(files[b])
                 /\ pc' = IF size' = 0 THEN "created" ELSE "opened"
  PROVE  JournalInv'
<1>0. /\ JournalTypeOK /\ FilesInv /\ Started
      /\ LateBehind /\ Stopped /\ Positioned /\ Appending /\ Up /\ Up'
      /\ MaxSegment \in Nat \ {0} /\ size \in Nat
  BY JournalBounds DEF JournalInv, FilesInv, Up, JournalTypeOK
<1>1. FilesInv'
  BY <1>0, FilesKept DEF history
<1>2. LateBehind' /\ Stopped'
  BY <1>0 DEF history, LateBehind, Stopped, Behind, Bases, Newest, LenOf, Up
<1>3. CASE /\ cur # 0 /\ size + 1 <= MaxSegment
           /\ pc' = "opened"
           /\ UNCHANGED <<cur, size>>
  <2>1. JournalTypeOK'
    BY <1>3, <1>0 DEF JournalTypeOK, history
  <2>2. Positioned'
    BY <1>3, <1>0 DEF history, Positioned, Bases, Newest, LenOf
  <2>3. Appending'
    BY <1>3, <1>0 DEF history, Appending, LenOf
  <2> QED
    BY <2>1, <2>2, <2>3, <1>1, <1>2 DEF JournalInv
<1>4. ASSUME cur = 0 \/ size + 1 > MaxSegment,
             NEW b \in Bases, b = Newest, SizeOf(files[b]) <= MaxSegment,
             disk = "works" => SizeOf(files[b]) + 1 <= MaxSegment,
             cur' = b, size' = SizeOf(files[b]),
             pc' = IF size' = 0 THEN "created" ELSE "opened"
      PROVE  JournalInv'
  <2>1. \A x \in Bases : ~files[x].torn /\ SizeOf(files[x]) = LenOf(x)
    BY <1>4, RoomIsWhole
  <2>2. b \in Nat \ {0} /\ LenOf(b) \in Nat /\ size' = LenOf(b) /\ pc' \in {"created", "opened"}
    BY <1>0, <1>4, <2>1, BasesAre
  <2>3. JournalTypeOK'
    BY <1>0, <1>4, <2>2, <2>1 DEF JournalTypeOK, history, Bases
  <2>4. Positioned'
    BY <1>0, <1>4, <2>1, <2>2 DEF history, Positioned, Bases, Newest, LenOf
  <2>5. Appending'
    <3>1. cur' # 0 /\ last' + 1 <= MaxSeq /\ adding' \in Records
      BY <1>4, <2>2
    <3>2. LenOf(cur)' = LenOf(b) /\ files'[cur'].torn = FALSE
      BY <1>4, <2>1 DEF LenOf
    <3>3. pc' = "opened" /\ disk' = "works" => size' + 1 <= MaxSegment
      BY <1>4
    <3>4. pc' = "created" => LenOf(cur)' = 0
      BY <1>4, <3>2, <2>2
    <3> QED
      BY <3>1, <3>2, <3>3, <3>4, <2>2 DEF Appending
  <2> QED
    BY <2>3, <2>4, <2>5, <1>1, <1>2 DEF JournalInv
<1> QED
  BY <1>3, <1>4

\* A segment is created (ensureSegment).
LEMMA CreateInv ==
  ASSUME JournalInv, NEW r \in Records, NEW n \in 1..MaxSeq, pc = "idle", n = last + 1,
         adding' = r, UNCHANGED <<last, disk, history, reader>>,
         cur = 0 \/ size + 1 > MaxSegment,
         \A b \in Bases : ~Fits(b),
         n \notin Bases, files' = With(n, Empty), cur' = n, size' = 0, pc' = "created"
  PROVE  JournalInv'
<1>0. /\ JournalTypeOK /\ Numbered /\ Chained /\ ToldHeld /\ Started
      /\ LateBehind /\ Stopped /\ Positioned /\ Appending /\ Up /\ Up'
  BY DEF JournalInv, FilesInv, Up
<1>1. /\ MaxSegment \in Nat \ {0} /\ MaxSeq \in Nat
      /\ \A b \in Bases : b \in Nat \ {0} /\ b <= Newest /\ LenOf(b) \in Nat
                          /\ files[b].synced \in Nat /\ files[b].synced <= LenOf(b)
      /\ last \in Nat /\ kept \in Nat /\ n \in Nat \ {0}
      /\ Bases # {} => Newest \in Bases /\ Newest \in Nat \ {0}
      /\ \A t \in told : t.seq \in Nat \ {0}
  BY <1>0, BasesAre
<1>2. \A x \in Bases : ~files[x].torn /\ SizeOf(files[x]) = LenOf(x)
  BY RoomIsWhole
<1>3. /\ Bases' = Bases \cup {n}
      /\ \A b \in Bases : files'[b] = files[b] /\ b # n /\ LenOf(b)' = LenOf(b)
      /\ files'[n] = Empty /\ Empty.lines = <<>> /\ Empty.synced = 0 /\ Empty.torn = FALSE
      /\ Empty \in File /\ Len(Empty.lines) = 0
  BY DEF With, Bases, Empty, File, LenOf
<1>4. Bases # {} => /\ Newest <= last /\ LenOf(Newest) # 0
                    /\ Newest + LenOf(Newest) \in {n, n + 1}
                    /\ disk = "works" => Newest + LenOf(Newest) = n
  <2> SUFFICES ASSUME Bases # {}
               PROVE  /\ Newest <= last /\ LenOf(Newest) # 0
                      /\ Newest + LenOf(Newest) \in {n, n + 1}
                      /\ disk = "works" => Newest + LenOf(Newest) = n
    OBVIOUS
  <2>1. /\ Newest <= last + 1 /\ Newest + LenOf(Newest) \in {last + 1, last + 2}
        /\ disk = "works" => Newest + LenOf(Newest) = last + 1
    BY <1>0 DEF Positioned
  <2>2. Newest # last + 1
    BY <1>1
  <2>3. SizeOf(files[Newest]) + 1 > MaxSegment
    <3>1. SizeOf(files[Newest]) \in Nat
      BY <1>1, <1>2
    <3> QED
      BY <3>1, <1>1 DEF Fits
  <2>4. LenOf(Newest) # 0
    BY <2>3, <1>1, <1>2
  <2> QED
    BY <2>1, <2>2, <2>4, <1>1
<1>5. Newest' = n
  <2>1. Bases' \in SUBSET Nat /\ n \in Bases' /\ \A b \in Bases' : b <= n
    BY <1>1, <1>3, <1>4
  <2> HIDE DEF Bases
  <2>2. Max(Bases') = n
    BY <2>1, MaxIs
  <2> QED
    BY <2>2 DEF Newest
<1>6. /\ last' = last /\ told' = told /\ kept' = kept /\ disk' = disk
      /\ cur' = n /\ size' = 0 /\ pc' = "created" /\ adding' = r
  BY DEF history
<1>7. LenOf(n)' = 0 /\ LenOf(Newest)' = 0 /\ LenOf(cur)' = 0
  BY <1>3, <1>5, <1>6 DEF LenOf
<1>8. Bases # {} => told # {}
  <2>1. SUFFICES ASSUME told = {}, Bases # {} PROVE FALSE
    OBVIOUS
  <2>2. 1 \in Bases /\ n = 1
    BY <2>1, <1>0, <1>1 DEF Started
  <2> QED
    BY <2>2
<1>9. JournalTypeOK'
  <2>1. \A b \in Bases' : files'[b] \in File /\ files'[b].synced <= Len(files'[b].lines)
    BY <1>0, <1>3 DEF JournalTypeOK, Bases
  <2>2. Bases' \subseteq 1..MaxSeq
    BY <1>0, <1>3 DEF JournalTypeOK, Bases
  <2>3. /\ last' \in 0..MaxSeq /\ cur' \in Bases' /\ size' \in 0..MaxSegment
        /\ kept' \in 0..MaxSeq /\ disk' \in {"works", "failing"} /\ adding' \in Records
        /\ told' \subseteq [seq : 1..MaxSeq, rec : Records]
    BY <1>0, <1>1, <1>3, <1>6 DEF JournalTypeOK
  <2> QED
    BY <2>1, <2>2, <2>3, <1>6 DEF JournalTypeOK, Bases
<1>10. Numbered'
  <2>1. ASSUME NEW b \in Bases', b # n
        PROVE  /\ LenOf(b)' <= MaxSegment
               /\ \A i \in 1..LenOf(b)' :
                    /\ files'[b].lines[i].seq = b + i - 1
                    /\ files'[b].lines[i].rec \in Records
                    /\ b + i - 1 <= MaxSeq
    BY <2>1, <1>0, <1>3 DEF Numbered
  <2>2. LenOf(n)' <= MaxSegment /\ 1..LenOf(n)' = {}
    BY <1>1, <1>7
  <2> QED
    BY <2>1, <2>2, <1>3 DEF Numbered
<1>11. Chained'
  <2>1. ASSUME NEW b \in Bases', NEW c \in Bases', b < c
        PROVE  \/ b + LenOf(b)' <= c
               \/ /\ c = Newest' /\ LenOf(c)' = 0 /\ b + LenOf(b)' = c + 1
                  /\ Up' /\ disk' = "failing"
    <3>1. b \in Bases
      <4>1. b # n
        BY <2>1, <1>1, <1>3, <1>4
      <4> QED
        BY <4>1, <1>3
    <3>2. CASE c \in Bases
      BY <3>1, <3>2, <2>1, <1>0, <1>1, <1>3, <1>4 DEF Chained
    <3>3. CASE c = n /\ b = Newest
      <4>1. b + LenOf(b) = n \/ (b + LenOf(b) = n + 1 /\ disk = "failing")
        BY <3>1, <3>3, <1>4, <1>0 DEF JournalTypeOK
      <4> QED
        BY <4>1, <3>1, <3>3, <1>0, <1>1, <1>3, <1>5, <1>6, <1>7
    <3>4. CASE c = n /\ b # Newest
      <4>1. b < Newest /\ Newest \in Bases /\ LenOf(Newest) # 0 /\ Newest <= last
        BY <3>1, <3>4, <1>1, <1>4
      <4>2. b + LenOf(b) <= Newest
        BY <3>1, <4>1, <1>0 DEF Chained
      <4> QED
        BY <4>1, <4>2, <3>1, <3>4, <1>1, <1>3
    <3> QED
      BY <3>2, <3>3, <3>4, <1>3
  <2> QED
    BY <2>1 DEF Chained
<1>12. ToldHeld'
  <2>1. \A t \in told : t.seq <= last
    BY <1>0 DEF Positioned
  <2>2. \A t \in told : ~(n <= t.seq)
    BY <2>1, <1>1
  <2>3. ASSUME NEW t \in told, NEW b \in Bases, Held(t, b) PROVE Held(t, b)'
    BY <2>3, <1>3 DEF Held
  <2>4. ASSUME NEW t \in told
        PROVE  /\ t.seq >= kept => \E b \in Bases' : b <= t.seq
               /\ \A b \in Bases' :
                    b <= t.seq /\ (\A c \in Bases' : c <= b \/ c > t.seq) => Held(t, b)'
    BY <2>2, <2>3, <1>0, <1>3 DEF ToldHeld
  <2> QED
    BY <2>4, <1>6 DEF ToldHeld
<1>13. Started'
  <2>1. CASE told = {}
    BY <2>1, <1>0, <1>1, <1>3, <1>6, <1>8 DEF Started
  <2>2. CASE told # {}
    <3>1. \E t \in told : t.seq = last
      BY <2>2, <1>0 DEF Positioned
    <3> QED
      BY <3>1, <2>2, <1>1, <1>3, <1>5, <1>6 DEF Started
  <2> QED
    BY <2>1, <2>2
<1>14. ASSUME NEW b \in Bases, Behind(b)'
       PROVE  disk = "failing" /\ b + LenOf(b) = last + 2
  <2>1. files[b].synced # LenOf(b)
    BY <1>14, <1>2, <1>3 DEF Behind
  <2> QED
    BY <2>1, <1>0 DEF Positioned
<1>15. LateBehind' /\ Stopped'
  <2>1. ASSUME NEW b \in Bases', Behind(b)', b # Newest'
        PROVE  disk' = "failing" /\ told' # {} /\ b + LenOf(b)' = Newest' + 1
    <3>1. b \in Bases
      BY <2>1, <1>3, <1>5
    <3> QED
      BY <3>1, <2>1, <1>14, <1>1, <1>3, <1>5, <1>6, <1>8
  <2> QED
    BY <2>1, <1>0, <1>7 DEF LateBehind, Stopped
<1>16. Positioned'
  <2>1. /\ cur' # 0 => cur' = Newest'
        /\ \A t \in told' : t.seq <= last'
        /\ told' # {} => \E t \in told' : t.seq = last'
        /\ Newest' <= last' + 1 /\ Newest' + LenOf(Newest)' = last' + 1
    BY <1>0, <1>1, <1>5, <1>6, <1>7 DEF Positioned
  <2>2. \A b \in Bases' : ~files'[b].torn
    BY <1>2, <1>3
  <2>3. ASSUME NEW b \in Bases', files'[b].synced # LenOf(b)'
        PROVE  disk' = "failing" /\ b + LenOf(b)' = last' + 2
    <3>1. CASE b = n
      BY <3>1, <2>3, <1>3, <1>7
    <3>2. CASE b \in Bases
      <4>1. Behind(b)'
        BY <2>3 DEF Behind
      <4> QED
        BY <4>1, <3>2, <1>14, <1>3, <1>6
    <3> QED
      BY <3>1, <3>2, <1>3
  <2> QED
    BY <2>1, <2>2, <2>3, <1>1 DEF Positioned
<1>17. Appending'
  <2>1. cur' # 0 /\ last' + 1 <= MaxSeq /\ adding' \in Records /\ ~files'[cur'].torn
    BY <1>1, <1>3, <1>6
  <2> QED
    BY <2>1, <1>6, <1>7 DEF Appending
<1> QED
  BY <1>9, <1>10, <1>11, <1>12, <1>13, <1>15, <1>16, <1>17 DEF JournalInv, FilesInv

\* Room is found for a record (ensureSegment).
LEMMA MakeRoomInv ==
  ASSUME JournalInv, NEW r \in Records, NEW n \in 1..MaxSeq, MakeRoom(r, n)
  PROVE  JournalInv'
<1>0. /\ pc = "idle" /\ n = last + 1 /\ n \in Nat /\ last + 1 <= MaxSeq
      /\ adding' = r /\ UNCHANGED <<last, disk, history, reader>>
      /\ MaxSegment \in Nat \ {0}
  BY JournalBounds DEF MakeRoom
<1>1. CASE cur # 0 /\ size + 1 <= MaxSegment /\ pc' = "opened" /\ UNCHANGED <<files, cur, size>>
  BY <1>0, <1>1, ReopenInv
<1>2. ASSUME cur = 0 \/ size + 1 > MaxSegment, UNCHANGED files,
             NEW b \in Bases, Fits(b), cur' = b, size' = SizeOf(files[b]),
             pc' = IF size' = 0 THEN "created" ELSE "opened"
      PROVE  JournalInv'
  <2>1. b = Newest /\ SizeOf(files[b]) + 1 <= MaxSegment
    BY <1>2 DEF Fits
  <2>2. SizeOf(files[b]) \in Nat
    BY <1>2, <1>0, RoomIsWhole, BasesAre DEF JournalInv
  <2>3. SizeOf(files[b]) <= MaxSegment
    BY <2>1, <2>2, <1>0
  <2> HIDE DEF Bases
  <2> QED
    BY <2>1, <2>3, <1>0, <1>2, ReopenInv
<1>3. ASSUME cur = 0 \/ size + 1 > MaxSegment, \A b \in Bases : ~Fits(b),
             files' = (IF n \in Bases THEN files ELSE With(n, Empty)),
             cur' = n, size' = SizeOf(files'[n]),
             pc' = IF size' = 0 THEN "created" ELSE "opened"
      PROVE  JournalInv'
  <2>1. CASE n \in Bases
    <3>1. files' = files /\ Bases # {}
      BY <1>3, <2>1
    <3>2. /\ n = Newest /\ SizeOf(files[n]) = LenOf(n) /\ LenOf(n) \in Nat
          /\ LenOf(n) <= MaxSegment
      <4>1. /\ Newest <= last + 1 /\ Newest \in Nat /\ n <= Newest /\ LenOf(n) \in Nat
            /\ last \in Nat
        BY <3>1, <2>1, <1>0, BasesAre DEF JournalInv, Positioned, Up
      <4>2. n = Newest
        BY <4>1, <1>0
      <4> QED
        BY <4>1, <4>2, <2>1, <1>0, <1>3, RoomIsWhole DEF JournalInv, FilesInv, Numbered
    <3>3. disk # "works"
      <4>1. SizeOf(files[n]) + 1 > MaxSegment
        BY <3>1, <3>2, <2>1, <1>0, <1>3 DEF Fits
      <4>2. disk = "works" => n + LenOf(n) = last + 1
        BY <3>1, <3>2, <1>0 DEF JournalInv, Positioned, Up
      <4> QED
        BY <4>1, <4>2, <3>2, <1>0 DEF JournalInv, JournalTypeOK
    <3> QED
      BY <3>1, <3>2, <3>3, <2>1, <1>0, <1>3, ReopenInv
  <2>2. CASE n \notin Bases
    <3>1. files' = With(n, Empty)
      BY <1>3, <2>2
    <3>2. files'[n] = Empty
      BY <3>1 DEF With
    <3>3. size' = 0 /\ pc' = "created"
      <4>1. Empty.lines = <<>> /\ ~Empty.torn
        BY DEF Empty
      <4>2. SizeOf(Empty) = 0
        BY <4>1 DEF SizeOf
      <4> QED
        BY <4>2, <3>2, <1>3
    <3> QED
      BY <3>1, <3>3, <2>2, <1>0, <1>3, CreateInv
  <2> QED
    BY <2>1, <2>2
<1> QED
  BY <1>1, <1>2, <1>3 DEF MakeRoom

\* The number of the line that is written but not synced (Append).
LEMMA WrittenIs ==
  ASSUME JournalInv, pc = "written"
  PROVE  cur + LenOf(cur) = last + 2
<1>1. /\ cur # 0 /\ disk = "works" /\ LenOf(cur) > 0
      /\ files[cur].lines[LenOf(cur)].seq = last + 1
  BY DEF JournalInv, Appending, Up
<1>2. cur \in Bases /\ cur \in Nat /\ LenOf(cur) \in Nat /\ last \in Nat
  BY <1>1, CurIs DEF Up
<1>3. files[cur].lines[LenOf(cur)].seq = cur + LenOf(cur) - 1
  BY <1>1, <1>2 DEF JournalInv, FilesInv, Numbered
<1> QED
  BY <1>1, <1>2, <1>3

\* The append fails: the directory, the write or the sync.
LEMMA FailAppendInv == JournalInv /\ FailAppend => JournalInv'
<1> SUFFICES ASSUME JournalInv, FailAppend PROVE JournalInv'
  OBVIOUS
<1>0. /\ JournalTypeOK /\ Numbered /\ Chained /\ ToldHeld /\ Started
      /\ LateBehind /\ Stopped /\ Positioned /\ Appending /\ Up /\ Up'
      /\ pc \in {"created", "opened", "written"}
      /\ last' = last /\ told' = told /\ kept' = kept /\ size' = size
      /\ pc' = "idle" /\ adding' = Corrupt /\ disk' = "failing"
      /\ (IF pc = "created" THEN cur' = 0 ELSE cur' = cur)
  BY DEF JournalInv, FilesInv, Up, FailAppend, history
<1>1. cur # 0 /\ last + 1 <= MaxSeq
  BY <1>0 DEF Appending
<1>2. /\ cur \in Bases /\ cur = Newest /\ Bases # {}
      /\ cur \in Nat /\ LenOf(cur) \in Nat /\ last \in Nat /\ size \in Nat
      /\ files[cur] \in File
  BY <1>0, <1>1, CurIs
<1>3. Appending'
  BY <1>0 DEF Appending
<1>4. CASE files' = files
  <2>1. JournalTypeOK'
    BY <1>0, <1>4 DEF JournalTypeOK
  <2>2. FilesInv'
    BY <1>0, <1>4 DEF FilesInv, Numbered, Chained, ToldHeld, Held, Started, Bases, Newest, LenOf
  <2>3. LateBehind' /\ Stopped'
    BY <1>0, <1>4 DEF LateBehind, Stopped, Behind, Bases, Newest, LenOf
  <2>4. Positioned'
    <3>1. ASSUME NEW b \in Bases, files[b].torn
          PROVE  b = cur' /\ size' + 1 <= MaxSegment
      BY <3>1, <1>0 DEF Positioned, Appending
    <3>2. ASSUME NEW b \in Bases, files[b].synced # LenOf(b)
          PROVE  b + LenOf(b) = last + 2
      <4>1. CASE pc # "written"
        BY <4>1, <3>2, <1>0 DEF Positioned
      <4>2. CASE pc = "written"
        <5>1. b = cur
          BY <4>2, <3>2, <1>0, <1>2 DEF Appending, LateBehind, Behind
        <5> QED
          BY <5>1, <4>2, WrittenIs
      <4> QED
        BY <4>1, <4>2
    <3>3. cur' # 0 => cur' = Newest
      BY <1>0, <1>2
    <3> QED
      BY <3>1, <3>2, <3>3, <1>0, <1>4 DEF Positioned, Bases, Newest, LenOf
  <2> QED
    BY <2>1, <2>2, <2>3, <2>4, <1>3 DEF JournalInv
<1>5. CASE pc = "opened" /\ disk = "works" /\ files' = [files EXCEPT ![cur].torn = TRUE]
  <2>1. /\ Bases' = Bases /\ Newest' = Newest /\ cur' = cur
        /\ \A b \in Bases : /\ LenOf(b)' = LenOf(b) /\ files'[b].lines = files[b].lines
                            /\ files'[b].synced = files[b].synced
                            /\ b # cur => files'[b] = files[b]
        /\ files'[cur] \in File
    <3>1. Bases' = Bases
      BY <1>5 DEF Bases
    <3>2. files'[cur] = [files[cur] EXCEPT !.torn = TRUE]
      BY <1>2, <1>5 DEF Bases
    <3>3. /\ files'[cur].lines = files[cur].lines /\ files'[cur].synced = files[cur].synced
          /\ files'[cur] \in File
      BY <3>2, <1>2 DEF File
    <3>4. \A b \in Bases : b # cur => files'[b] = files[b]
      BY <1>5 DEF Bases
    <3> QED
      BY <3>1, <3>3, <3>4, <1>0, <1>5 DEF Newest, LenOf
  <2>2. \A b \in Bases : files[b].synced = LenOf(b) /\ ~files[b].torn
    BY <1>0, <1>5 DEF Positioned
  <2>3. JournalTypeOK'
    <3>1. \A b \in Bases : files'[b] \in File /\ files'[b].synced <= Len(files'[b].lines)
      BY <1>0, <2>1 DEF JournalTypeOK, Bases
    <3>2. Bases' \subseteq 1..MaxSeq
      BY <1>0, <2>1 DEF JournalTypeOK, Bases
    <3>3. /\ last' \in 0..MaxSeq /\ cur' \in Bases' /\ size' \in 0..MaxSegment
          /\ kept' \in 0..MaxSeq /\ told' \subseteq [seq : 1..MaxSeq, rec : Records]
      BY <1>0, <1>2, <2>1 DEF JournalTypeOK
    <3> QED
      BY <3>1, <3>2, <3>3, <2>1, <1>0 DEF JournalTypeOK, Bases
  <2>4. Numbered' /\ Chained' /\ Started'
    BY <1>0, <2>1 DEF Numbered, Chained, Started
  <2>5. ToldHeld'
    BY <1>0, <2>1 DEF ToldHeld, Held
  <2>6. LateBehind' /\ Stopped'
    BY <1>0, <1>2, <2>1, <2>2 DEF LateBehind, Stopped, Behind
  <2>7. Positioned'
    <3>1. size' + 1 <= MaxSegment
      BY <1>0, <1>5 DEF Appending
    <3>2. \A b \in Bases : files'[b].torn => b = cur
      BY <2>1, <2>2
    <3>3. LenOf(Newest)' = LenOf(Newest) /\ Newest + LenOf(Newest) = last + 1 /\ Newest <= last + 1
      BY <2>1, <1>0, <1>2, <1>5 DEF Positioned, LenOf
    <3> QED
      BY <3>1, <3>2, <3>3, <2>1, <2>2, <1>0, <1>2 DEF Positioned
  <2> QED
    BY <2>3, <2>4, <2>5, <2>6, <2>7, <1>3 DEF JournalInv, FilesInv
<1> QED
  BY <1>4, <1>5 DEF FailAppend

\* The tail is repaired and numbering goes on from it (Open).
LEMMA OpenInv == JournalInv /\ Open => JournalInv'
<1> SUFFICES ASSUME JournalInv, Open PROVE JournalInv'
  OBVIOUS
<1>0. /\ JournalTypeOK /\ Numbered /\ Chained /\ ToldHeld /\ Started
      /\ LateBehind /\ Stopped /\ ~Up /\ Up'
      /\ told' = told \cup Found /\ kept' = kept /\ adding' = adding
      /\ pc' = "idle" /\ disk' = "works" /\ cur' = 0 /\ size' = 0
  BY DEF JournalInv, FilesInv, Up, Open
<1>1. /\ MaxSegment \in Nat \ {0} /\ MaxSeq \in Nat
      /\ \A b \in Bases : b \in Nat \ {0} /\ b <= Newest /\ LenOf(b) \in Nat
                          /\ b \in 1..MaxSeq
                          /\ files[b] \in File
                          /\ DOMAIN files[b].lines = 1..LenOf(b)
                          /\ files[b].synced \in Nat /\ files[b].torn \in BOOLEAN
      /\ Bases # {} => Newest \in Bases /\ Newest \in Nat \ {0}
      /\ \A t \in told : t.seq \in Nat \ {0}
      /\ kept \in Nat
  BY <1>0, BasesAre
<1>2. \A b \in Bases : files[b].synced = LenOf(b)
  BY <1>0 DEF Stopped
<1>3. Appending'
  BY <1>0 DEF Appending
<1>4. CASE Bases = {}
  <2>1. last' = 0 /\ files' = files /\ told' = told
    BY <1>0, <1>4 DEF Open, Found
  <2>2. told = {}
    BY <1>0, <1>4 DEF Started
  <2>3. JournalTypeOK'
    BY <1>0, <1>1, <2>1, <2>2 DEF JournalTypeOK
  <2>4. Bases' = {}
    BY <2>1, <1>4 DEF Bases
  <2>5. FilesInv'
    BY <2>4, <2>1, <2>2 DEF FilesInv, Numbered, Chained, ToldHeld, Started
  <2>6. LateBehind' /\ Stopped' /\ Positioned'
    BY <2>4, <2>1, <2>2, <1>0 DEF LateBehind, Stopped, Positioned
  <2> QED
    BY <2>3, <2>5, <2>6, <1>3 DEF JournalInv
<1>5. CASE Bases # {}
  <2>N. PICK N : N = Newest
    OBVIOUS
  <2>L. PICK L : L = LenOf(N)
    OBVIOUS
  <2>0. /\ N \in Bases /\ N \in Nat \ {0} /\ L \in Nat /\ N \in 1..MaxSeq
        /\ \A b \in Bases : b <= N
    BY <2>N, <2>L, <1>1, <1>5
  <2>1. /\ Bases' = Bases /\ Newest' = N
        /\ \A b \in Bases : /\ files'[b].lines = files[b].lines /\ LenOf(b)' = LenOf(b)
                            /\ files'[b].synced = LenOf(b) /\ ~files'[b].torn
                            /\ files'[b] \in File
    <3>1. files' = [files EXCEPT ![N] = Repaired(files[N])]
      BY <1>5, <2>N DEF Open
    <3>2. Bases' = Bases
      BY <3>1 DEF Bases
    <3>3. files'[N] = Repaired(files[N]) /\ \A b \in Bases : b # N => files'[b] = files[b]
      BY <3>1, <2>0 DEF Bases
    <3>4. files[N] \in File /\ files[N].synced = L /\ Len(files[N].lines) = L
      BY <1>1, <1>2, <2>0, <2>L DEF LenOf
    <3>5. /\ Repaired(files[N]).lines = files[N].lines /\ Repaired(files[N]).synced = L
          /\ Repaired(files[N]).torn = FALSE /\ Repaired(files[N]) \in File
      <4>1. CASE files[N].torn
        BY <4>1, <3>4, <2>0 DEF Repaired, File
      <4>2. CASE ~files[N].torn
        BY <4>2, <3>4, <2>0 DEF Repaired, File
      <4> QED
        BY <4>1, <4>2
    <3>6. ASSUME NEW b \in Bases, b # N PROVE ~files[b].torn
      BY <3>6, <1>0, <2>N DEF LateBehind, Behind
    <3> QED
      BY <3>2, <3>3, <3>5, <3>6, <1>1, <1>2, <2>N, <2>L DEF Newest, LenOf
  <2>2. \A i \in 1..L : /\ files[N].lines[i].seq = N + i - 1
                        /\ files[N].lines[i].rec \in Records /\ N + i - 1 <= MaxSeq
    BY <2>0, <2>L, <1>0 DEF Numbered
  <2>3. Found = {files[N].lines[i] : i \in 1..L}
    BY <1>5, <1>1, <2>0, <2>N, <2>L DEF Found, Range
  <2>4. last' = (IF L = 0 THEN 0 ELSE N + L - 1) /\ last' \in 0..MaxSeq
    <3>1. last' = LastSeq(files[N])
      BY <1>5, <2>N DEF Open
    <3>2. CASE L = 0
      <4>1. files[N].lines = <<>>
        BY <3>2, <2>L, <2>0, <1>1 DEF LenOf, File
      <4> QED
        BY <4>1, <3>1, <3>2, <1>1 DEF LastSeq
    <3>3. CASE L # 0
      <4>1. files[N].lines # <<>> /\ Len(files[N].lines) = L
        BY <3>3, <2>L DEF LenOf
      <4>2. last' = files[N].lines[L].seq
        BY <4>1, <3>1 DEF LastSeq, Last
      <4>3. L \in 1..L /\ N + L - 1 \in Nat
        BY <3>3, <2>0
      <4> QED
        BY <4>2, <4>3, <3>3, <2>2, <1>1
    <3> QED
      BY <3>2, <3>3
  <2>5. \A t \in Found : t \in [seq : 1..MaxSeq, rec : Records]
    <3>1. SUFFICES ASSUME NEW i \in 1..L
                   PROVE  files[N].lines[i] \in [seq : 1..MaxSeq, rec : Records]
      BY <2>3
    <3>2. files[N].lines[i] \in Line
      BY <1>1, <2>0, <2>L DEF File
    <3> QED
      BY <3>2, <2>2, <2>0, <1>1 DEF Line
  <2>6. JournalTypeOK'
    <3>1. \A b \in Bases' : files'[b] \in File /\ files'[b].synced <= Len(files'[b].lines)
      BY <2>1, <1>1 DEF LenOf
    <3>2. Bases' \subseteq 1..MaxSeq
      BY <1>0, <2>1 DEF JournalTypeOK, Bases
    <3>3. /\ kept' \in 0..MaxSeq /\ told' \subseteq [seq : 1..MaxSeq, rec : Records]
          /\ size' \in 0..MaxSegment /\ adding' \in Records \cup {Corrupt}
      BY <1>0, <1>1, <2>5 DEF JournalTypeOK
    <3> QED
      BY <3>1, <3>2, <3>3, <2>4, <1>0 DEF JournalTypeOK, Bases
  <2>7. Numbered'
    BY <1>0, <2>1 DEF Numbered
  <2>8. Chained'
    BY <1>0, <2>1 DEF Chained
  <2>9. ToldHeld'
    <3>1. ASSUME NEW t \in told, NEW b \in Bases, Held(t, b) PROVE Held(t, b)'
      BY <3>1, <2>1, <1>2 DEF Held
    <3>2. ASSUME NEW t \in Found
          PROVE  /\ N <= t.seq
                 /\ \A b \in Bases : b = N => Held(t, b)'
                 /\ \A b \in Bases : (\A c \in Bases : c <= b \/ c > t.seq) => b = N
      <4>1. PICK i \in 1..L : t = files[N].lines[i]
        BY <2>3
      <4>2. t.seq = N + i - 1
        BY <4>1, <2>2
      <4>3. t.seq - N + 1 = i /\ N <= t.seq /\ t.seq \in Nat
        BY <4>2, <2>0
      <4>4. \A b \in Bases : b = N => Held(t, b)'
        BY <4>1, <4>3, <2>1, <2>L DEF Held
      <4>5. \A b \in Bases : (\A c \in Bases : c <= b \/ c > t.seq) => b = N
        BY <4>3, <2>0, <1>1
      <4> QED
        BY <4>3, <4>4, <4>5
    <3>3. ASSUME NEW t \in told'
          PROVE  /\ t.seq >= kept' => \E b \in Bases' : b <= t.seq
                 /\ \A b \in Bases' :
                      b <= t.seq /\ (\A c \in Bases' : c <= b \/ c > t.seq) => Held(t, b)'
      <4>1. CASE t \in told
        BY <4>1, <3>1, <1>0, <2>1 DEF ToldHeld
      <4>2. CASE t \in Found
        BY <4>2, <3>2, <2>0, <2>1
      <4> QED
        BY <4>1, <4>2, <1>0
    <3> QED
      BY <3>3 DEF ToldHeld
  <2>10. \A t \in told : t.seq <= last'
    <3>1. SUFFICES ASSUME NEW t \in told PROVE t.seq <= last'
      OBVIOUS
    <3>2. L # 0
      BY <2>N, <2>L, <1>0 DEF Stopped
    <3>3. CASE t.seq < N
      BY <3>2, <3>3, <2>0, <2>4, <1>1
    <3>4. CASE N <= t.seq
      <4>1. \A c \in Bases : c <= N
        BY <2>0
      <4>2. Held(t, N)
        BY <4>1, <3>4, <2>0, <1>0 DEF ToldHeld
      <4> QED
        BY <4>2, <3>2, <2>0, <2>4, <2>L, <1>1, <1>2 DEF Held
    <3> QED
      BY <3>3, <3>4, <2>0, <1>1
  <2>11. \A t \in Found : t.seq <= last'
    BY <2>2, <2>3, <2>4, <2>0
  <2>12. CASE L = 0
    <3>1. told = {} /\ Found = {} /\ told' = {} /\ last' = 0
      BY <2>12, <2>3, <2>4, <2>N, <2>L, <1>0 DEF Stopped
    <3>2. Bases = {1} /\ N = 1
      BY <3>1, <2>0, <1>0 DEF Started
    <3>3. Started'
      BY <3>1, <3>2, <2>1 DEF Started
    <3>4. LateBehind' /\ Stopped'
      BY <2>1, <1>0 DEF LateBehind, Stopped, Behind
    <3>5. LenOf(Newest)' = 0
      BY <2>1, <2>12, <2>0, <2>L DEF LenOf
    <3>6. Positioned'
      BY <3>1, <3>2, <3>5, <2>1, <1>0 DEF Positioned
    <3> QED
      BY <3>3, <3>4, <3>6, <2>6, <2>7, <2>8, <2>9, <1>3 DEF JournalInv, FilesInv
  <2>13. CASE L # 0
    <3>1. PICK l \in Found : l.seq = last'
      <4>1. L \in 1..L
        BY <2>13, <2>0
      <4> QED
        BY <4>1, <2>13, <2>2, <2>3, <2>4
    <3>2. last' = N + L - 1 /\ last' \in Nat /\ N <= last' /\ l \in told'
      BY <2>13, <2>4, <2>0, <3>1, <1>0
    <3>3. Started'
      BY <3>1, <3>2, <2>0, <2>1, <1>5 DEF Started
    <3>4. LateBehind' /\ Stopped'
      BY <2>1, <1>0 DEF LateBehind, Stopped, Behind
    <3>5. LenOf(Newest)' = L
      BY <2>1, <2>0, <2>L DEF LenOf
    <3>6. Positioned'
      <4>1. N + L = last' + 1
        BY <3>2, <2>0
      <4> QED
        BY <4>1, <3>1, <3>2, <3>5, <2>0, <2>1, <2>10, <2>11, <1>0 DEF Positioned
    <3> QED
      BY <3>3, <3>4, <3>6, <2>6, <2>7, <2>8, <2>9, <1>3 DEF JournalInv, FilesInv
  <2> QED
    BY <2>12, <2>13
<1> QED
  BY <1>4, <1>5

\* What a pruning keeps: the newest segment, and with a segment every later
\* one; what it removes is followed by one that starts at or below the number.
LEMMA KeptSegments ==
  ASSUME JournalInv, Up, Bases # {}, NEW k \in Nat, NEW Keep,
         Keep = {x \in Bases : NextBase(x) = 0 \/ NextBase(x) > k \/ x = cur}
  PROVE  /\ Keep \subseteq Bases /\ Newest \in Keep
         /\ cur # 0 => cur \in Keep
         /\ \A x \in Bases \ Keep : /\ NextBase(x) \in Bases /\ x < NextBase(x)
                                    /\ NextBase(x) <= k
         /\ \A b \in Keep, c \in Bases : b < c => c \in Keep
<1>0. /\ JournalTypeOK /\ Newest \in Bases
      /\ \A b \in Bases : b \in Nat \ {0} /\ b <= Newest
  BY BasesAre DEF JournalInv
<1>1. cur # 0 => cur = Newest
  BY DEF JournalInv, Positioned
<1>2. \A b \in Bases : /\ b = Newest => NextBase(b) = 0
                       /\ b # Newest => /\ NextBase(b) \in Bases /\ b < NextBase(b)
                                        /\ \A c \in Bases : c <= b \/ NextBase(b) <= c
  BY <1>0, NextBaseIs
<1>3. Keep \subseteq Bases /\ Newest \in Keep
  BY <1>0, <1>2
<1>4. ASSUME NEW x \in Bases \ Keep
      PROVE  NextBase(x) \in Bases /\ x < NextBase(x) /\ NextBase(x) <= k /\ x # Newest
  <2>1. NextBase(x) # 0 /\ ~(NextBase(x) > k)
    OBVIOUS
  <2>2. NextBase(x) \in Bases /\ x < NextBase(x) /\ x # Newest
    BY <2>1, <1>2
  <2>3. NextBase(x) \in Nat
    BY <2>2, <1>0
  <2> QED
    BY <2>1, <2>2, <2>3
<1>5. ASSUME NEW b \in Keep, NEW c \in Bases, b < c, c \notin Keep
      PROVE  FALSE
  <2>1. b \in Bases /\ b # Newest /\ b # cur
    BY <1>0, <1>1, <1>3, <1>5
  <2>2. NextBase(b) \in Bases /\ NextBase(b) <= c /\ (NextBase(b) = 0 \/ NextBase(b) > k)
    <3>1. b \in Nat /\ c \in Nat
      BY <2>1, <1>0, <1>5
    <3> QED
      BY <3>1, <2>1, <1>2, <1>5
  <2>3. NextBase(c) \in Bases /\ c < NextBase(c) /\ NextBase(c) <= k
    BY <1>4, <1>5
  <2> QED
    BY <2>2, <2>3, <1>0, <1>5
<1> QED
  BY <1>1, <1>3, <1>4, <1>5

\* Segments that hold nothing to keep are removed (Prune).
LEMMA PruneInv ==
  ASSUME JournalInv, NEW k \in 1..MaxSeq, Prune(k)
  PROVE  JournalInv'
<1>0. /\ JournalTypeOK /\ Numbered /\ Chained /\ ToldHeld /\ Started
      /\ LateBehind /\ Stopped /\ Positioned /\ Appending /\ Up /\ Up'
      /\ pc = "idle" /\ Bases # {}
      /\ UNCHANGED <<pc, last, cur, size, adding, disk, told>>
  BY DEF JournalInv, FilesInv, Up, Prune, open
<1>K. PICK Keep : Keep = {x \in Bases : NextBase(x) = 0 \/ NextBase(x) > k \/ x = cur}
  OBVIOUS
<1>1. /\ MaxSeq \in Nat /\ k \in Nat
      /\ \A b \in Bases : b \in Nat \ {0} /\ b <= Newest
      /\ kept \in Nat /\ kept' \in 0..MaxSeq /\ k <= kept' /\ kept <= kept'
      /\ \A t \in told : t.seq \in Nat \ {0}
  <2>1. MaxSeq \in Nat /\ kept \in 0..MaxSeq
    BY <1>0, JournalBounds DEF JournalTypeOK
  <2>2. kept' = IF k > kept THEN k ELSE kept
    BY DEF Prune
  <2>3. kept' \in 0..MaxSeq /\ k <= kept' /\ kept <= kept'
    BY <2>1, <2>2
  <2> QED
    BY <2>1, <2>3, <1>0, BasesAre
<1>2. /\ Keep \subseteq Bases /\ Newest \in Keep
      /\ cur # 0 => cur \in Keep
      /\ \A x \in Bases \ Keep : /\ NextBase(x) \in Bases /\ x < NextBase(x)
                                 /\ NextBase(x) <= k
      /\ \A b \in Keep, c \in Bases : b < c => c \in Keep
  BY <1>0, <1>1, <1>K, KeptSegments
<1>3. Bases' = Keep /\ \A b \in Keep : files'[b] = files[b] /\ LenOf(b)' = LenOf(b)
  <2>1. files' = [b \in Keep |-> files[b]]
    BY <1>K DEF Prune
  <2> QED
    BY <2>1 DEF Bases, LenOf
<1>4. Newest' = Newest
  <2>1. Bases' \in SUBSET Nat /\ Newest \in Bases' /\ \A b \in Bases' : b <= Newest
    BY <1>1, <1>2, <1>3
  <2> HIDE DEF Bases
  <2>2. Max(Bases') = Newest
    BY <2>1, MaxIs
  <2> QED
    BY <2>2 DEF Newest
<1>5. LenOf(Newest)' = LenOf(Newest)
  BY <1>2, <1>3, <1>4 DEF LenOf
<1>6. JournalTypeOK'
  <2>1. Bases' \subseteq 1..MaxSeq
    BY <1>0, <1>2, <1>3 DEF JournalTypeOK, Bases
  <2>2. \A b \in Bases' : files'[b] \in File /\ files'[b].synced <= Len(files'[b].lines)
    BY <1>0, <1>2, <1>3 DEF JournalTypeOK, Bases
  <2>3. cur' \in {0} \cup Bases'
    BY <1>0, <1>2, <1>3
  <2> QED
    BY <2>1, <2>2, <2>3, <1>0, <1>1 DEF JournalTypeOK, Bases
<1>7. Numbered' /\ Chained'
  BY <1>0, <1>2, <1>3, <1>4 DEF Numbered, Chained
<1>8. ToldHeld'
  <2>1. ASSUME NEW t \in told, t.seq >= kept'
        PROVE  \E b \in Bases' : b <= t.seq
    <3>1. t.seq >= kept /\ t.seq >= k /\ t.seq \in Nat
      BY <2>1, <1>1
    <3> DEFINE S == {b \in Bases : b <= t.seq}
    <3>2. S \in SUBSET Nat /\ S # {} /\ \A y \in S : y <= t.seq
      BY <3>1, <1>0, <1>1 DEF ToldHeld
    <3> HIDE DEF S
    <3>3. PICK g \in S : \A y \in S : y <= g
      BY <3>1, <3>2, Greatest
    <3>4. g \in Bases /\ g <= t.seq
      BY DEF S
    <3>5. g \in Keep
      <4>1. SUFFICES ASSUME g \notin Keep PROVE FALSE
        OBVIOUS
      <4>2. NextBase(g) \in Bases /\ g < NextBase(g) /\ NextBase(g) <= k
        BY <4>1, <3>4, <1>2
      <4>3. NextBase(g) \in S
        BY <4>2, <3>1, <1>1 DEF S
      <4> QED
        BY <4>2, <4>3, <3>3, <3>4, <1>1
    <3> QED
      BY <3>4, <3>5, <1>3
  <2>2. ASSUME NEW t \in told, NEW b \in Bases', b <= t.seq,
               \A c \in Bases' : c <= b \/ c > t.seq
        PROVE  Held(t, b)'
    <3>1. b \in Keep /\ b \in Bases
      BY <1>2, <1>3
    <3>2. \A c \in Bases : c <= b \/ c > t.seq
      BY <2>2, <3>1, <1>1, <1>2, <1>3
    <3>3. Held(t, b)
      BY <2>2, <3>1, <3>2, <1>0 DEF ToldHeld
    <3> QED
      BY <3>1, <3>3, <1>3 DEF Held
  <2> QED
    BY <2>1, <2>2, <1>0 DEF ToldHeld
<1>9. Started'
  BY <1>0, <1>2, <1>3, <1>4 DEF Started
<1>10. LateBehind' /\ Stopped'
  BY <1>0, <1>2, <1>3, <1>4, <1>5 DEF LateBehind, Stopped, Behind
<1>11. Positioned'
  BY <1>0, <1>2, <1>3, <1>4, <1>5 DEF Positioned
<1>12. Appending'
  BY <1>0, <1>2, <1>3 DEF Appending, LenOf
<1> QED
  BY <1>6, <1>7, <1>8, <1>9, <1>10, <1>11, <1>12 DEF JournalInv, FilesInv

\* What a crash leaves: of every file the synced lines and perhaps more, a
\* fragment at the end of the newest one only, and every file but perhaps one
\* that was just created.
LEMMA CrashInv ==
  ASSUME OrderlyAssumption, JournalInv, Up, Down, Sound(files'),
         NEW T \in SUBSET Bases, Bases' = T,
         T = Bases \/ (pc = "created" /\ T = Bases \ {cur}),
         \A b \in T : /\ files'[b] \in File
                      /\ files'[b].synced = LenOf(b)'
                      /\ files[b].synced <= LenOf(b)' /\ LenOf(b)' <= LenOf(b)
                      /\ \A i \in 1..LenOf(b)' : files'[b].lines[i] = files[b].lines[i]
                      /\ files'[b].torn => \A c \in T : c <= b
  PROVE  JournalInv'
<1>0. /\ JournalTypeOK /\ Numbered /\ Chained /\ ToldHeld /\ Started
      /\ LateBehind /\ Stopped /\ Positioned /\ Appending /\ ~Up'
      /\ pc' = "down" /\ cur' = 0 /\ size' = 0 /\ last' = 0 /\ adding' = Corrupt
      /\ UNCHANGED <<disk, told, kept>>
  BY DEF JournalInv, FilesInv, Up, Down, history
<1>1. /\ MaxSegment \in Nat \ {0} /\ MaxSeq \in Nat
      /\ \A b \in Bases : b \in Nat \ {0} /\ b <= Newest /\ LenOf(b) \in Nat
                          /\ files[b].synced \in Nat
      /\ \A b \in T : LenOf(b)' \in Nat
      /\ Bases # {} => Newest \in Bases /\ Newest \in Nat \ {0}
      /\ last \in Nat
      /\ \A t \in told : t.seq \in Nat \ {0}
  <2>1. \A b \in T : LenOf(b)' \in Nat
    BY DEF LenOf, File
  <2> QED
    BY <2>1, <1>0, BasesAre
<1>2. told # {} => Bases' # {} /\ LenOf(Newest)' # 0
  <2>1. told # {} => DOMAIN files' # {} /\ files'[Max(DOMAIN files')].lines # <<>>
    BY DEF Sound, OrderlyAssumption
  <2>2. Bases' # {} => Newest' \in Bases'
    <3>1. Bases' \in SUBSET Nat /\ MaxSeq \in Nat /\ \A y \in Bases' : y <= MaxSeq
      BY <1>0, <1>1 DEF JournalTypeOK, Bases
    <3> HIDE DEF Bases
    <3> QED
      BY <3>1, MaxOf DEF Newest
  <2>3. told # {} => files'[Newest'] \in File /\ files'[Newest'].lines # <<>>
    BY <2>1, <2>2 DEF Bases, Newest
  <2>4. \A f \in File : Len(f.lines) = 0 => f.lines = <<>>
    BY DEF File
  <2> QED
    BY <2>1, <2>3, <2>4 DEF LenOf, Bases
<1>3. ASSUME T # {}
      PROVE  Newest' \in T /\ \A b \in T : b <= Newest'
  <2>1. Bases' \in SUBSET Nat /\ MaxSeq \in Nat /\ \A y \in Bases' : y <= MaxSeq
    BY <1>0, <1>1 DEF JournalTypeOK, Bases
  <2> HIDE DEF Bases
  <2>2. Max(Bases') \in Bases' /\ \A y \in Bases' : y <= Max(Bases')
    BY <2>1, <1>3, MaxOf
  <2> QED
    BY <2>2 DEF Newest
<1>4. ASSUME told # {}, Newest \in T
      PROVE  LenOf(Newest) # 0
  <2>1. Newest' = Newest
    <3>1. Newest' \in Nat /\ Newest \in Nat
      BY <1>1, <1>3, <1>4
    <3> QED
      BY <3>1, <1>1, <1>3, <1>4
  <2>2. LenOf(Newest)' <= LenOf(Newest) /\ LenOf(Newest)' \in Nat
    BY <2>1, <1>4, <1>1 DEF LenOf
  <2> QED
    BY <2>2, <1>1, <1>2, <1>4
<1>5. JournalTypeOK'
  <2>1. Bases' \subseteq 1..MaxSeq
    BY <1>0 DEF JournalTypeOK, Bases
  <2>2. \A b \in Bases' : files'[b] \in File /\ files'[b].synced <= Len(files'[b].lines)
    <3>1. ASSUME NEW b \in Bases'
          PROVE  files'[b].synced = Len(files'[b].lines) /\ Len(files'[b].lines) \in Nat
      BY <3>1, <1>1 DEF LenOf
    <3> QED
      BY <3>1
  <2> QED
    BY <2>1, <2>2, <1>0, <1>1 DEF JournalTypeOK, Bases
<1>6. Numbered'
  <2>1. ASSUME NEW b \in T, NEW i \in 1..LenOf(b)' PROVE i \in 1..LenOf(b)
    BY <2>1, <1>1
  <2>2. ASSUME NEW b \in T PROVE LenOf(b)' <= MaxSegment
    BY <2>2, <1>0, <1>1 DEF Numbered
  <2> QED
    BY <2>1, <2>2, <1>0 DEF Numbered
<1>7. Chained'
  <2>1. ASSUME NEW b \in T, NEW c \in T, b < c
        PROVE  b + LenOf(b)' <= c
    <3>1. told # {}
      BY <2>1, <1>0 DEF Started
    <3>2. b + LenOf(b) <= c
      BY <2>1, <3>1, <1>0, <1>4 DEF Chained
    <3> QED
      BY <2>1, <3>2, <1>1
  <2> QED
    BY <2>1 DEF Chained
<1>8. ASSUME NEW t \in told, NEW c \in Bases, c <= t.seq
      PROVE  c \in T
  <2>1. SUFFICES ASSUME c \notin T PROVE FALSE
    OBVIOUS
  <2>2. c = cur /\ pc = "created" /\ cur # 0
    BY <2>1, <1>1
  <2>3. c = Newest /\ LenOf(Newest) = 0
    BY <2>2, <1>0 DEF Positioned, Appending
  <2>4. Newest = last + 1
    BY <2>3, <1>0, <1>1 DEF Positioned
  <2> QED
    BY <2>3, <2>4, <1>0, <1>1, <1>8 DEF Positioned
<1>9. ToldHeld'
  <2>1. ASSUME NEW t \in told, NEW b \in T, b <= t.seq,
               \A c \in T : c <= b \/ c > t.seq
        PROVE  Held(t, b)'
    <3>1. \A c \in Bases : c <= b \/ c > t.seq
      BY <2>1, <1>1, <1>8
    <3>2. t.seq - b + 1 \in 1..files[b].synced /\ files[b].lines[t.seq - b + 1] = t
      BY <2>1, <3>1, <1>0 DEF ToldHeld, Held
    <3>3. t.seq - b + 1 \in 1..LenOf(b)'
      BY <3>2, <1>1
    <3> QED
      BY <3>2, <3>3 DEF Held
  <2>2. ASSUME NEW t \in told, t.seq >= kept PROVE \E b \in T : b <= t.seq
    BY <2>2, <1>0, <1>8 DEF ToldHeld
  <2> QED
    BY <2>1, <2>2, <1>0 DEF ToldHeld
<1>10. Started'
  <2>1. told = {} => Bases' \subseteq {1}
    BY <1>0 DEF Started
  <2>2. told # {} => \E t \in told : Newest' <= t.seq + 1
    <3>1. SUFFICES ASSUME told # {} PROVE \E t \in told : Newest' <= t.seq + 1
      OBVIOUS
    <3>2. Newest' \in Bases /\ Newest' <= Newest /\ Newest' \in Nat /\ Newest \in Nat
      BY <3>1, <1>1, <1>2, <1>3
    <3>3. PICK t \in told : Newest <= t.seq + 1
      BY <3>1, <1>0 DEF Started
    <3> QED
      BY <3>2, <3>3, <1>1
  <2> QED
    BY <2>1, <2>2, <1>0, <1>2 DEF Started
<1>11. LateBehind'
  <2>1. ASSUME NEW b \in T, files'[b].torn PROVE b = Newest'
    <3>1. Newest' \in T /\ Newest' <= b /\ b <= Newest' /\ b \in Nat /\ Newest' \in Nat
      BY <2>1, <1>1, <1>3
    <3> QED
      BY <3>1
  <2> QED
    BY <2>1 DEF LateBehind, Behind
<1>12. Stopped' /\ Positioned' /\ Appending'
  BY <1>0, <1>2 DEF Stopped, Positioned, Appending
<1> QED
  BY <1>5, <1>6, <1>7, <1>9, <1>10, <1>11, <1>12 DEF JournalInv, FilesInv

\* Where a file may lack something when the process stops (Kill, PowerCut).
LEMMA LateIsLast ==
  ASSUME JournalInv, Up, NEW b \in Bases, Behind(b), b # Newest
  PROVE  \A c \in Bases : b < c => c = Newest
<1>1. b + LenOf(b) = Newest + 1
  BY DEF JournalInv, LateBehind
<1>2. ASSUME NEW c \in Bases, b < c, c # Newest PROVE FALSE
  <2>1. c \in Nat /\ Newest \in Nat /\ c <= Newest /\ LenOf(b) \in Nat /\ b \in Nat
    BY BasesAre DEF JournalInv
  <2>2. b + LenOf(b) <= c
    BY <1>2 DEF JournalInv, FilesInv, Chained
  <2> QED
    BY <2>1, <2>2, <1>1, <1>2
<1> QED
  BY <1>2

\* The process stops (Close, or a signal) and the page cache survives.
LEMMA KillInv == OrderlyAssumption /\ JournalInv /\ Kill => JournalInv'
<1> SUFFICES ASSUME OrderlyAssumption, JournalInv, Kill PROVE JournalInv'
  OBVIOUS
<1>1. PICK torn \in BOOLEAN :
        files' = [b \in Bases |->
                    WrittenBack([files[b] EXCEPT !.torn = @ \/ (torn /\ b = cur)])]
  BY DEF Kill
<1>2. Up /\ Down /\ Sound(files') /\ JournalTypeOK /\ LateBehind /\ Positioned
  BY DEF Kill, Up, JournalInv
<1>3. \A b \in Bases : /\ files[b] \in File /\ b \in Nat \ {0} /\ b <= Newest
                       /\ files[b].synced <= LenOf(b) /\ LenOf(b) \in Nat
  BY <1>2, BasesAre
<1>4. Bases' = Bases
  BY <1>1 DEF Bases
<1>5. ASSUME NEW b \in Bases
      PROVE  /\ files'[b] \in File /\ files'[b].lines = files[b].lines
             /\ files'[b].synced = LenOf(b)
             /\ files'[b].torn = (files[b].torn \/ (torn /\ b = cur))
  <2> DEFINE f == [files[b] EXCEPT !.torn = @ \/ (torn /\ b = cur)]
  <2>1. files'[b] = WrittenBack(f)
    BY <1>1
  <2>2. f \in File /\ f.lines = files[b].lines /\ f.torn = (files[b].torn \/ (torn /\ b = cur))
    BY <1>3 DEF File
  <2> HIDE DEF f
  <2>3. WrittenBack(f) = [f EXCEPT !.synced = Len(f.lines)]
    BY DEF WrittenBack, OrderlyAssumption
  <2>4. Len(f.lines) = LenOf(b) /\ Len(f.lines) \in Nat
    BY <2>2, <1>3 DEF LenOf
  <2> QED
    BY <2>1, <2>2, <2>3, <2>4 DEF File
<1>6. ASSUME NEW b \in Bases, files'[b].torn, NEW c \in Bases
      PROVE  c <= b
  <2>1. b = cur
    BY <1>2, <1>5, <1>6 DEF Positioned
  <2>2. b = Newest
    BY <2>1, <1>2, <1>3 DEF Positioned
  <2> QED
    BY <2>2, <1>3
<1>7. \A b \in Bases : LenOf(b)' = LenOf(b)
  BY <1>5 DEF LenOf
<1> HIDE DEF Bases
<1> QED
  BY <1>2, <1>3, <1>4, <1>5, <1>6, <1>7, CrashInv

\* What is left of a file after the power was lost is its beginning.
LEMMA SurvivorIs ==
  ASSUME NEW f \in File, f.synced <= Len(f.lines), NEW g \in Survivors(f)
  PROVE  /\ g \in File /\ g.synced = Len(g.lines)
         /\ f.synced <= Len(g.lines) /\ Len(g.lines) <= Len(f.lines)
         /\ \A i \in 1..Len(g.lines) : g.lines[i] = f.lines[i]
<1>1. f.lines \in Seq(Line) /\ Len(f.lines) \in Nat /\ f.synced \in Nat
  BY DEF File
<1>2. PICK n \in f.synced..Len(f.lines), torn \in BOOLEAN :
        g = [lines |-> SubSeq(f.lines, 1, n), synced |-> n, torn |-> torn]
  <2> DEFINE m == IF f.torn \/ pc = "opened" THEN Len(f.lines) ELSE Len(f.lines) - 1
             A == {[lines |-> SubSeq(f.lines, 1, n), synced |-> n, torn |-> torn] :
                     n \in f.synced..Len(f.lines), torn \in {FALSE}}
             B == {[lines |-> SubSeq(f.lines, 1, n), synced |-> n, torn |-> TRUE] :
                     n \in f.synced..m}
  <2>1. g \in A \cup B
    BY DEF Survivors
  <2>2. m \in Int /\ m <= Len(f.lines)
    BY <1>1
  <2> HIDE DEF m
  <2>3. CASE g \in A
    <3>1. PICK n \in f.synced..Len(f.lines) :
            g = [lines |-> SubSeq(f.lines, 1, n), synced |-> n, torn |-> FALSE]
      BY <2>3
    <3> QED
      BY <3>1
  <2>4. CASE g \in B
    <3>1. PICK n \in f.synced..m :
            g = [lines |-> SubSeq(f.lines, 1, n), synced |-> n, torn |-> TRUE]
      BY <2>4
    <3>2. n \in f.synced..Len(f.lines)
      BY <1>1, <2>2
    <3> QED
      BY <3>1, <3>2
  <2> QED
    BY <2>1, <2>3, <2>4
<1>3. n \in Nat /\ n <= Len(f.lines) /\ f.synced <= n
  BY <1>1, <1>2
<1>4. /\ SubSeq(f.lines, 1, n) \in Seq(Line) /\ Len(SubSeq(f.lines, 1, n)) = n
      /\ \A i \in 1..n : SubSeq(f.lines, 1, n)[i] = f.lines[i]
  BY <1>1, <1>3
<1>5. g.lines = SubSeq(f.lines, 1, n) /\ g.synced = n /\ g.torn = torn
  BY <1>2
<1>6. g \in File
  BY <1>2, <1>3, <1>4 DEF File
<1> QED
  BY <1>3, <1>4, <1>5, <1>6

\* What is there after the power was lost (appends under way, unsynced lines,
\* unsynced directory), and that only the last of it may have lost anything.
LEMMA PowerCutIs ==
  ASSUME OrderlyAssumption, JournalInv, PowerCut
  PROVE  \E T \in SUBSET Bases :
           /\ Bases' = T
           /\ T = Bases \/ (pc = "created" /\ T = Bases \ {cur})
           /\ \A b \in T : /\ files'[b] \in File
                           /\ files'[b].synced = LenOf(b)'
                           /\ files[b].synced <= LenOf(b)' /\ LenOf(b)' <= LenOf(b)
                           /\ \A i \in 1..LenOf(b)' : files'[b].lines[i] = files[b].lines[i]
                           /\ files'[b].torn => \A c \in T : c <= b
           /\ \A b \in T : ~Settled(b) => \A c \in T : c <= b
<1>1. /\ Up /\ Down /\ Sound(files') /\ JournalTypeOK /\ LateBehind /\ Positioned /\ Appending
  BY DEF PowerCut, OrderlyAssumption, Up, JournalInv
<1>2. PICK T \in {Bases} \cup (IF pc = "created" THEN {Bases \ {cur}} ELSE {}) :
        LET loose == {b \in T : ~Settled(b)} IN
        IF loose = {} THEN files' = [b \in T |-> files[b]]
        ELSE \E x \in loose : \E g \in Survivors(files[x]) :
               files' = [b \in T |-> IF b = x THEN g ELSE files[b]]
  BY DEF PowerCut
<1>3. T \in SUBSET Bases /\ (T = Bases \/ (pc = "created" /\ T = Bases \ {cur}))
  BY <1>2
<1>4. \A b \in Bases : /\ files[b] \in File /\ b \in Nat \ {0} /\ b <= Newest
                       /\ files[b].synced <= LenOf(b) /\ LenOf(b) \in Nat
  BY <1>1, BasesAre
<1>5. PICK x : /\ DOMAIN files' = T
               /\ \A b \in T : \/ Settled(b) /\ files'[b] = files[b]
                               \/ ~Settled(b) /\ files'[b] \in Survivors(files[b])
                               \/ /\ ~Settled(b) /\ files'[b] = files[b]
                                  /\ b # x /\ x \in T /\ ~Settled(x)
  <2>1. CASE {b \in T : ~Settled(b)} = {}
    <3>1. files' = [b \in T |-> files[b]]
      BY <2>1, <1>2
    <3>2. \A b \in T : Settled(b)
      BY <2>1
    <3> QED
      BY <3>1, <3>2
  <2>2. CASE {b \in T : ~Settled(b)} # {}
    <3>1. PICK x \in {b \in T : ~Settled(b)} : \E g \in Survivors(files[x]) :
            files' = [b \in T |-> IF b = x THEN g ELSE files[b]]
      BY <2>2, <1>2
    <3> QED
      BY <3>1
  <2> QED
    BY <2>1, <2>2
<1>6. Bases' = T
  BY <1>5 DEF Bases
<1>7. ASSUME NEW b \in T
      PROVE  LenOf(b)' <= LenOf(b) /\ LenOf(b)' \in Nat
  <2>1. CASE files'[b] = files[b]
    BY <2>1, <1>3, <1>4 DEF LenOf
  <2>2. CASE files'[b] \in Survivors(files[b])
    BY <2>2, <1>3, <1>4, SurvivorIs DEF LenOf, File
  <2> QED
    BY <2>1, <2>2, <1>5
<1>8. ASSUME NEW b \in T, ~Settled(b), NEW c \in T
      PROVE  c <= b
  <2>1. b \in Bases /\ c \in Bases /\ b \in Nat /\ c \in Nat
    BY <1>3, <1>4
  <2>2. CASE b = Newest
    BY <2>1, <2>2, <1>4
  <2>3. CASE b # Newest
    <3>1. Behind(b)
      BY <2>1, <2>3, <1>1, <1>4, <1>8 DEF Settled, Behind, Positioned, LenOf
    <3>2. told # {} /\ LenOf(Newest) = 0
      BY <3>1, <2>1, <2>3, <1>1 DEF LateBehind
    <3>3. Newest \notin T
      <4>1. SUFFICES ASSUME Newest \in T PROVE FALSE
        OBVIOUS
      <4>2. Max(DOMAIN files') = Newest
        <5>1. T \in SUBSET Nat /\ Newest \in T /\ \A y \in T : y <= Newest
          BY <4>1, <1>3, <1>4
        <5> QED
          BY <5>1, <1>5, MaxIs
      <4>3. files'[Newest].lines # <<>>
        BY <4>2, <3>2, <1>1 DEF Sound, OrderlyAssumption
      <4>4. Len(files'[Newest].lines) = 0 /\ files'[Newest] \in File
        <5>1. \A y \in T : y = Newest => Len(files'[y].lines) = 0 /\ files'[y] \in File
          BY <3>2, <1>3, <1>4, <1>5, <1>7, SurvivorIs DEF LenOf
        <5> QED
          BY <4>1, <5>1
      <4> QED
        BY <4>3, <4>4 DEF File
    <3>4. ~(b < c)
      BY <3>1, <3>3, <2>1, <2>3, <1>1, LateIsLast
    <3> QED
      BY <3>4, <2>1
  <2> QED
    BY <2>2, <2>3
<1>9. ASSUME NEW b \in T
      PROVE  /\ files'[b] \in File
             /\ files'[b].synced = LenOf(b)'
             /\ files[b].synced <= LenOf(b)' /\ LenOf(b)' <= LenOf(b)
             /\ \A i \in 1..LenOf(b)' : files'[b].lines[i] = files[b].lines[i]
             /\ files'[b].torn => \A c \in T : c <= b
  <2>0. b \in Bases /\ files[b] \in File /\ files[b].synced <= LenOf(b) /\ LenOf(b) \in Nat
    BY <1>3, <1>4
  <2>1. CASE Settled(b) /\ files'[b] = files[b]
    BY <2>0, <2>1 DEF Settled, LenOf, File
  <2>2. CASE ~Settled(b) /\ files'[b] = files[b] /\ b # x /\ x \in T /\ ~Settled(x)
    <3>1. x \in T /\ ~Settled(x) /\ b # x
      BY <2>2
    <3>2. x <= b /\ b <= x /\ x \in Nat /\ b \in Nat
      BY <2>2, <3>1, <1>3, <1>4, <1>8
    <3> QED
      BY <3>1, <3>2
  <2>3. CASE ~Settled(b) /\ files'[b] \in Survivors(files[b])
    <3>1. /\ files'[b] \in File /\ files'[b].synced = LenOf(b)'
          /\ files[b].synced <= LenOf(b)' /\ LenOf(b)' <= LenOf(b)
          /\ \A i \in 1..LenOf(b)' : files'[b].lines[i] = files[b].lines[i]
      BY <2>0, <2>3, SurvivorIs DEF LenOf
    <3>2. \A c \in T : c <= b
      BY <2>3, <1>8
    <3> QED
      BY <3>1, <3>2
  <2> QED
    BY <2>1, <2>2, <2>3, <1>5
<1> QED
  BY <1>3, <1>6, <1>8, <1>9

\* The power is lost.
LEMMA PowerCutInv == OrderlyAssumption /\ JournalInv /\ PowerCut => JournalInv'
<1> SUFFICES ASSUME OrderlyAssumption, JournalInv, PowerCut PROVE JournalInv'
  OBVIOUS
<1>1. Up /\ Down /\ Sound(files')
  BY DEF PowerCut, OrderlyAssumption, Up
<1> HIDE DEF Bases, LenOf
<1> QED
  BY <1>1, PowerCutIs, CrashInv

-----------------------------------------------------------------------------
(***************************************************************************)
(* What an append answered is on disk.                                     *)
(***************************************************************************)
\* Steps of a reader (Replay).
LEMMA ReaderStep ==
  ASSUME \/ \E n \in 1..MaxSeq : ListSegments(n)
         \/ ReadSegment \/ EndReplay \/ LeaveReplay \/ UNCHANGED vars
  PROVE  UNCHANGED <<files, pc, last, cur, size, adding, disk, told, kept>>
BY Zenon DEF ListSegments, ReadSegment, EndReplay, LeaveReplay, vars, open, history

\* Every step keeps the invariant.
LEMMA JournalInvStep ==
  ASSUME OrderlyAssumption, JournalInv, [JournalNext]_vars
  PROVE  JournalInv'
<1>1. CASE \E r \in Records, n \in 1..MaxSeq : MakeRoom(r, n)
  BY <1>1, MakeRoomInv
<1>2. CASE \E k \in 1..MaxSeq : Prune(k)
  BY <1>2, PruneInv
<1>3. CASE \/ \E n \in 1..MaxSeq : ListSegments(n)
           \/ ReadSegment \/ EndReplay \/ LeaveReplay \/ UNCHANGED vars
  BY <1>3, ReaderStep, ReaderInv
<1>4. CASE Open \/ SyncDir \/ Write \/ Sync \/ FailAppend
  BY <1>4, OpenInv, SyncDirInv, WriteInv, SyncInv, FailAppendInv
<1>5. CASE Kill \/ PowerCut
  BY <1>5, KillInv, PowerCutInv
<1> QED
  BY <1>1, <1>2, <1>3, <1>4, <1>5 DEF JournalNext

\* The invariant of the journal.
LEMMA JournalInvariant ==
  ASSUME OrderlyAssumption
  PROVE  JournalSpec => []JournalInv
<1>1. JournalInv /\ [JournalNext]_vars => JournalInv'
  BY JournalInvStep
<1> QED
  BY <1>1, JournalInvInit, PTL DEF JournalSpec

\* "A record is durable when Append returns": after any number of kills, power
\* cuts, failed writes and syncs, rotations and prunings, every record an
\* append returned or a restart went on from is among the synced lines of a
\* file, as it was written, until a pruning was allowed to take it.
THEOREM JournalIsDurable ==
  ASSUME OrderlyAssumption
  PROVE  JournalSpec => []AckedIsDurable
<1>1. JournalInv => AckedIsDurable
  <2> SUFFICES ASSUME JournalInv, NEW t \in told, t.seq >= kept
               PROVE  \E b \in Bases : \E i \in 1..files[b].synced : files[b].lines[i] = t
    BY DEF AckedIsDurable, JournalInv
  <2>1. /\ \A b \in Bases : b \in Nat
        /\ t.seq \in Nat
    BY BasesAre DEF JournalInv
  <2> DEFINE S == {b \in Bases : b <= t.seq}
  <2>2. S \in SUBSET Nat /\ S # {} /\ \A b \in S : b <= t.seq
    BY <2>1 DEF JournalInv, FilesInv, ToldHeld
  <2> HIDE DEF S
  <2>3. PICK g \in S : \A b \in S : b <= g
    BY <2>1, <2>2, Greatest
  <2>4. g \in Bases /\ g <= t.seq /\ \A c \in Bases : c <= g \/ c > t.seq
    BY <2>1, <2>3 DEF S
  <2>5. Held(t, g)
    BY <2>4 DEF JournalInv, FilesInv, ToldHeld
  <2> QED
    BY <2>4, <2>5 DEF Held
<1> QED
  BY <1>1, JournalInvariant, PTL

-----------------------------------------------------------------------------
(***************************************************************************)
(* The segment files are a log: every step of the journal is a step of     *)
(* TanaLog, or changes nothing of it.                                      *)
(***************************************************************************)
Promised == Top({t.seq : t \in told})

\* The lines of some files, by where they are.
LEMMA LinesOf ==
  ASSUME NEW F, \A b \in DOMAIN F : F[b] \in File
  PROVE  \A l : l \in UNION {Range(F[b].lines) : b \in DOMAIN F}
                  <=> \E b \in DOMAIN F : \E i \in 1..Len(F[b].lines) : l = F[b].lines[i]
<1>1. \A b \in DOMAIN F : DOMAIN F[b].lines = 1..Len(F[b].lines)
  BY DEF File
<1> QED
  BY <1>1 DEF Range

\* The lines of the files there are after a step.
LEMMA LinesAfter ==
  ASSUME JournalInv'
  PROVE  \A l : l \in Lines'
                  <=> \E b \in Bases' : \E i \in 1..LenOf(b)' : l = files'[b].lines[i]
<1>1. \A b \in DOMAIN files' : files'[b] \in File
  BY DEF JournalInv, JournalTypeOK
<1> QED
  BY <1>1, LinesOf DEF Lines, Bases, LenOf

\* The lines of the files, by where they are.
LEMMA LinesAre ==
  ASSUME JournalInv
  PROVE  /\ \A l : l \in Lines <=> \E b \in Bases : \E i \in 1..LenOf(b) : l = files[b].lines[i]
         /\ \A b \in Bases : \A i \in 1..LenOf(b) :
              /\ files[b].lines[i].seq = b + i - 1
              /\ files[b].lines[i] \in Log!Entry
         /\ \A b \in Bases : b \in Nat \ {0} /\ LenOf(b) \in Nat
<1>1. \A b \in Bases : /\ DOMAIN files[b].lines = 1..LenOf(b) /\ LenOf(b) \in Nat
                       /\ files[b].lines \in Seq(Line) /\ b \in Nat \ {0}
  BY BasesAre DEF JournalInv
<1>2. \A l : l \in Lines <=> \E b \in Bases : \E i \in 1..LenOf(b) : l = files[b].lines[i]
  BY <1>1 DEF Lines, Range
<1>3. ASSUME NEW b \in Bases, NEW i \in 1..LenOf(b)
      PROVE  files[b].lines[i].seq = b + i - 1 /\ files[b].lines[i] \in Log!Entry
  <2>1. /\ files[b].lines[i].seq = b + i - 1 /\ files[b].lines[i].rec \in Records
        /\ files[b].lines[i] \in Line
    BY <1>1 DEF JournalInv, FilesInv, Numbered
  <2>2. b + i - 1 \in Nat \ {0}
    BY <1>1
  <2> QED
    BY <2>1, <2>2 DEF Line, Log!Entry
<1> QED
  BY <1>1, <1>2, <1>3

\* The same lines make the same log (SyncDir, Sync, a failed append).
LEMMA LinesKept ==
  ASSUME Bases' = Bases, \A b \in Bases : files'[b].lines = files[b].lines
  PROVE  Lines' = Lines
BY DEF Lines, Range

\* What was promised is the highest number of a record that was.
LEMMA TopIs ==
  ASSUME NEW R, \A t \in R : t.seq \in Nat, NEW l \in Nat, \A t \in R : t.seq <= l,
         R = {} => l = 0, R # {} => \E t \in R : t.seq = l
  PROVE  Top({t.seq : t \in R}) = l
<1> DEFINE S == {0} \cup {t.seq : t \in R}
<1>1. S \in SUBSET Nat /\ l \in S /\ \A y \in S : y <= l
  OBVIOUS
<1> HIDE DEF S
<1>2. Max(S) = l
  BY <1>1, MaxIs
<1> QED
  BY <1>2 DEF S, Top

\* A running process promised what its counter says (Journal.last).
LEMMA PromisedIs ==
  ASSUME JournalInv
  PROVE  /\ Up => Promised = last
         /\ Promised \in Nat /\ \A t \in told : t.seq <= Promised
         /\ told = {} => Promised = 0
<1>1. \A t \in told : t.seq \in Nat /\ t.seq <= MaxSeq
  BY BasesAre DEF JournalInv
<1>2. MaxSeq \in Nat /\ last \in Nat
  BY BasesAre DEF JournalInv
<1>3. CASE told = {}
  <2>1. Promised = 0
    BY <1>3, TopIs DEF Promised
  <2> QED
    BY <2>1, <1>3 DEF JournalInv, FilesInv, Started
<1>4. CASE told # {}
  <2> DEFINE S == {t.seq : t \in told}
  <2>1. S \in SUBSET Nat /\ S # {} /\ \A y \in S : y <= MaxSeq
    BY <1>1, <1>4
  <2>2. PICK x \in S : \A y \in S : y <= x
    <3> HIDE DEF S
    <3> QED
      BY <2>1, <1>2, Greatest
  <2>3. Promised = x
    BY <2>1, <2>2, <1>1, <1>4, TopIs DEF Promised
  <2>4. Up => last \in S /\ \A y \in S : y <= last
    BY <1>4 DEF JournalInv, Positioned
  <2>5. Up => last = x
    BY <2>1, <2>2, <2>4, <1>2
  <2> QED
    BY <2>1, <2>2, <2>3, <2>5, <1>4
<1> QED
  BY <1>3, <1>4

\* A record after the last one of all the files, as long as the disk has not
\* failed (Append).
LEMMA WriteExtends == OrderlyAssumption /\ JournalInv /\ JournalInv' /\ Write => Log!Extend
<1> SUFFICES ASSUME OrderlyAssumption, JournalInv, JournalInv', Write PROVE Log!Extend
  OBVIOUS
<1>e. PICK e : e = [seq |-> last + 1, rec |-> adding]
  OBVIOUS
<1>1. /\ adding \in Records /\ cur \in Bases /\ cur = Newest
      /\ LenOf(cur) \in Nat /\ last \in Nat /\ cur \in Nat
      /\ files[cur].lines \in Seq(Line) /\ cur + LenOf(cur) = last + 1
      /\ disk = "works"
      /\ Bases' = Bases /\ \A b \in Bases : b # cur => files'[b] = files[b]
      /\ files'[cur].lines = Append(files[cur].lines, e)
      /\ Len(files'[cur].lines) = LenOf(cur) + 1
      /\ \A i \in 1..LenOf(cur) : files'[cur].lines[i] = files[cur].lines[i]
      /\ files'[cur].lines[LenOf(cur) + 1] = e
  BY <1>e, WriteIs
<1>2. /\ \A b \in Bases : b # cur => LenOf(b)' = LenOf(b)
      /\ \A b \in Bases : b = cur => LenOf(b)' = LenOf(b) + 1
  BY <1>1 DEF LenOf
<1>3. e \in Log!Entry /\ e.seq = last + 1
  BY <1>e, <1>1 DEF Log!Entry
<1>4. /\ \A l : l \in Lines <=> \E b \in Bases : \E i \in 1..LenOf(b) : l = files[b].lines[i]
      /\ \A b \in Bases : \A i \in 1..LenOf(b) : files[b].lines[i].seq = b + i - 1
      /\ \A b \in Bases : b \in Nat \ {0} /\ LenOf(b) \in Nat /\ b <= Newest
  BY LinesAre, BasesAre DEF JournalInv
<1>5. \A l : l \in Lines' <=> \E b \in Bases' : \E i \in 1..LenOf(b)' : l = files'[b].lines[i]
  BY LinesAfter
<1>6. Lines' = Lines \cup {e}
  <2>1. ASSUME NEW l \in Lines' PROVE l \in Lines \cup {e}
    <3>1b. PICK b \in Bases' : \E i \in 1..LenOf(b)' : l = files'[b].lines[i]
      BY <2>1, <1>5
    <3>1. PICK i \in 1..LenOf(b)' : l = files'[b].lines[i]
      BY <3>1b
    <3>1c. b \in Bases
      BY <1>1
    <3>2. CASE b # cur
      <4>1. i \in 1..LenOf(b) /\ l = files[b].lines[i]
        BY <3>1, <3>1c, <3>2, <1>1, <1>2
      <4> QED
        BY <4>1, <3>1c, <1>4
    <3>3. CASE b = cur /\ i = LenOf(cur) + 1
      BY <3>1, <3>3, <1>1
    <3>4. CASE b = cur /\ i # LenOf(cur) + 1
      <4>1. i \in 1..LenOf(cur)
        BY <3>1, <3>4, <1>1, <1>2
      <4> QED
        BY <4>1, <3>1, <3>4, <1>1, <1>2, <1>4
    <3> QED
      BY <3>2, <3>3, <3>4
  <2>2. ASSUME NEW l \in Lines PROVE l \in Lines'
    <3>1b. PICK b \in Bases : \E i \in 1..LenOf(b) : l = files[b].lines[i]
      BY <2>2, <1>4
    <3>1. PICK i \in 1..LenOf(b) : l = files[b].lines[i]
      BY <3>1b
    <3>2. CASE b # cur
      BY <3>1, <3>2, <1>1, <1>2, <1>5
    <3>3. CASE b = cur
      <4>1. i \in 1..LenOf(b)' /\ l = files'[b].lines[i]
        BY <3>1, <3>3, <1>1, <1>2
      <4>2. b \in Bases'
        BY <1>1
      <4> QED
        BY <4>1, <4>2, <1>5
    <3> QED
      BY <3>2, <3>3
  <2>3. e \in Lines'
    <3>1. \A b \in Bases : b = cur => LenOf(cur) + 1 \in 1..LenOf(b)'
      BY <1>1, <1>2
    <3> QED
      BY <3>1, <1>1, <1>2, <1>5
  <2> QED
    BY <2>1, <2>2, <2>3
<1>7. Promised = last
  BY <1>e, PromisedIs, WriteIs DEF Up
<1>8. ASSUME NEW l \in Lines PROVE l.seq <= last
  <2>1b. PICK b \in Bases : \E i \in 1..LenOf(b) : l = files[b].lines[i]
    BY <1>4
  <2>1. PICK i \in 1..LenOf(b) : l = files[b].lines[i]
    BY <2>1b
  <2>2. l.seq = b + i - 1 /\ b \in Nat /\ LenOf(b) \in Nat /\ b <= Newest
    BY <2>1, <1>4
  <2>3. CASE b = cur
    BY <2>2, <2>3, <1>1
  <2>4. CASE b # cur
    <3>1. b + LenOf(b) <= cur
      BY <2>2, <2>4, <1>1 DEF JournalInv, FilesInv, Chained
    <3> QED
      BY <3>1, <2>2, <1>1
  <2> QED
    BY <2>3, <2>4
<1>9. Log!IsNext(e.seq)
  <2>1. ASSUME NEW m \in {l.seq : l \in Lines} \cup {Promised} PROVE m < last + 1
    <3>1. CASE m = Promised
      BY <3>1, <1>1, <1>7
    <3>2. CASE m \in {l.seq : l \in Lines}
      <4>1. PICK l \in Lines : m = l.seq
        BY <3>2
      <4>2. l.seq \in Int
        BY <1>4
      <4> QED
        BY <4>1, <4>2, <1>1, <1>8
    <3> QED
      BY <2>1, <3>1, <3>2
  <2>2. (last + 1) - 1 = Promised
    BY <1>1, <1>7
  <2> QED
    BY <2>1, <2>2, <1>3 DEF Log!IsNext, Log!Numbers, Promised
<1>10. Promised' = Promised /\ kept' = kept
  BY DEF Write, history, Promised
<1> QED
  BY <1>3, <1>6, <1>9, <1>10 DEF Log!Extend, Promised

\* The caller is told of the record after the last one promised (Append).
LEMMA SyncPromises == JournalInv /\ JournalInv' /\ Sync => Log!Promise
<1> SUFFICES ASSUME JournalInv, JournalInv', Sync PROVE Log!Promise
  OBVIOUS
<1>1. Up /\ Up' /\ last' = last + 1 /\ kept' = kept /\ pc = "written"
  BY DEF Sync, Up
<1>2. Promised = last /\ Promised' = last + 1
  <2>1. Promised = last
    BY <1>1, PromisedIs
  <2>2. \A t \in told' : t.seq \in Nat
    BY DEF JournalInv, JournalTypeOK
  <2>3. last' \in Nat
    BY DEF JournalInv, JournalTypeOK
  <2>4. /\ \A t \in told' : t.seq <= last'
        /\ told' # {} => \E t \in told' : t.seq = last'
        /\ told' = {} => last' = 0
    BY <1>1 DEF JournalInv, FilesInv, Positioned, Started
  <2>5. Top({t.seq : t \in told'}) = last'
    <3>1. PICK R : R = told'
      OBVIOUS
    <3>2. PICK l : l = last'
      OBVIOUS
    <3> QED
      BY <3>1, <3>2, <2>2, <2>3, <2>4, TopIs
  <2> QED
    BY <2>1, <2>5, <1>1 DEF Promised
<1>3. Lines' = Lines
  <2>1. Bases' = Bases
    BY DEF Sync, Bases
  <2>2. cur \in Bases /\ files[cur] \in File
    BY <1>1, CurIs DEF JournalInv, Appending
  <2>3. files'[cur] = [files[cur] EXCEPT !.synced = Len(files[cur].lines)]
    BY <2>2 DEF Sync, Bases
  <2>4. files'[cur].lines = files[cur].lines
    BY <2>2, <2>3 DEF File
  <2>5. \A b \in Bases : b # cur => files'[b] = files[b]
    BY DEF Sync, Bases
  <2> QED
    BY <2>1, <2>4, <2>5, LinesKept
<1>4. \E l \in Lines : l.seq = last + 1
  <2>1. /\ cur \in Bases /\ LenOf(cur) > 0 /\ LenOf(cur) \in Nat
        /\ files[cur].lines[LenOf(cur)].seq = last + 1
    BY <1>1, CurIs DEF JournalInv, Appending
  <2>2. LenOf(cur) \in 1..LenOf(cur)
    BY <2>1
  <2>3. files[cur].lines[LenOf(cur)] \in Lines
    BY <2>1, <2>2, LinesAre
  <2> QED
    BY <2>1, <2>3
<1>5. last + 1 \in Log!Numbers /\ last \in Nat
  BY <1>4 DEF Log!Numbers, JournalInv, JournalTypeOK
<1>6. (last + 1)..(last + 1) \subseteq Log!Numbers
  BY <1>5
<1>7. /\ Promised < Promised' /\ Promised' \in Log!Numbers
      /\ (Promised + 1)..Promised' \subseteq Log!Numbers
  BY <1>2, <1>5, <1>6
<1> QED
  BY <1>1, <1>3, <1>7 DEF Log!Promise, Promised

\* A restart goes on from what it finds, so that much is promised (Open).
LEMMA OpenPromises ==
  JournalInv /\ JournalInv' /\ Open => Log!Promise \/ UNCHANGED Log!vars
<1> SUFFICES ASSUME JournalInv, JournalInv', Open PROVE Log!Promise \/ UNCHANGED Log!vars
  OBVIOUS
<1>1. Up' /\ ~Up /\ kept' = kept /\ told \subseteq told'
  BY DEF Open, Up
<1>2. /\ \A t \in told' : t.seq \in Nat /\ t.seq <= last'
      /\ last' \in Nat
      /\ told' # {} => \E t \in told' : t.seq = last'
      /\ told' = {} => last' = 0
  BY <1>1 DEF JournalInv, JournalTypeOK, FilesInv, Positioned, Started
<1>3. Promised' = last'
  <2>1. Top({t.seq : t \in told'}) = last'
    <3>1. PICK R : R = told'
      OBVIOUS
    <3>2. PICK l : l = last'
      OBVIOUS
    <3> QED
      BY <3>1, <3>2, <1>2, TopIs
  <2> QED
    BY <2>1 DEF Promised
<1>4. Lines' = Lines
  <2>1. CASE Bases = {}
    BY <2>1 DEF Open, Lines, Bases
  <2>2. CASE Bases # {}
    <3>1. files' = [files EXCEPT ![Newest] = Repaired(files[Newest])]
      BY <2>2 DEF Open
    <3>2. Bases' = Bases
      BY <3>1 DEF Bases
    <3>3. Newest \in Bases /\ files[Newest] \in File
      BY <2>2, BasesAre DEF JournalInv
    <3>4. Repaired(files[Newest]).lines = files[Newest].lines
      BY <3>3 DEF Repaired, File
    <3>5. \A b \in Bases : files'[b].lines = files[b].lines
      BY <3>1, <3>3, <3>4 DEF Bases
    <3> QED
      BY <3>2, <3>5, LinesKept
  <2> QED
    BY <2>1, <2>2
<1>5. Promised \in Nat /\ Promised <= last'
  <2>1. CASE told = {}
    BY <2>1, <1>2, PromisedIs
  <2>2. CASE told # {}
    <3>1. \A t \in told : t.seq \in Nat /\ t.seq <= last'
      BY <1>1, <1>2
    <3>2. PICK t \in told : t.seq = Promised
      <4>1. \A t \in told : t.seq \in Nat /\ t.seq <= MaxSeq
        BY BasesAre DEF JournalInv
      <4> DEFINE S == {t.seq : t \in told}
      <4>2. S \in SUBSET Nat /\ S # {} /\ MaxSeq \in Nat /\ \A y \in S : y <= MaxSeq
        BY <4>1, <2>2, JournalBounds
      <4>3. PICK x \in S : \A y \in S : y <= x
        <5> HIDE DEF S
        <5> QED
          BY <4>2, Greatest
      <4>4. Promised = x
        BY <4>1, <4>2, <4>3, <2>2, TopIs DEF Promised
      <4> QED
        BY <4>3, <4>4
    <3> QED
      BY <3>1, <3>2
  <2> QED
    BY <2>1, <2>2
<1>6. CASE Promised = last'
  BY <1>1, <1>3, <1>4, <1>6 DEF Log!vars, Promised
<1>7. CASE Promised # last'
  <2>1. Promised < last' /\ last' # 0
    BY <1>2, <1>5, <1>7
  <2>2. Bases # {}
    BY <2>1 DEF Open
  <2>N. PICK N : N = Newest
    OBVIOUS
  <2>L. PICK L : L = LenOf(N)
    OBVIOUS
  <2>3. N \in Bases /\ N \in Nat \ {0} /\ L \in Nat /\ files[N] \in File
    BY <2>2, <2>N, <2>L, BasesAre DEF JournalInv
  <2>4. L # 0 /\ last' = N + L - 1
    <3>1. last' = LastSeq(files[N])
      BY <2>2, <2>N DEF Open
    <3>2. files[N].lines # <<>> /\ L # 0
      BY <2>1, <2>3, <3>1, <2>L DEF LastSeq, LenOf, File
    <3>3. last' = files[N].lines[L].seq
      BY <3>1, <3>2, <2>L DEF LastSeq, Last, LenOf
    <3>4. L \in 1..L
      BY <3>2, <2>3
    <3> QED
      BY <3>2, <3>3, <3>4, <2>3, <2>L, LinesAre
  <2>5. N <= Promised + 1
    <3>1. CASE told = {}
      <4>1. N = 1
        BY <3>1, <2>3 DEF JournalInv, FilesInv, Started
      <4> QED
        BY <4>1, <1>5
    <3>2. CASE told # {}
      <4>1. PICK t \in told : N <= t.seq + 1
        BY <3>2, <2>N DEF JournalInv, FilesInv, Started
      <4>2. t.seq <= Promised /\ t.seq \in Nat
        BY PromisedIs, BasesAre DEF JournalInv
      <4> QED
        BY <4>1, <4>2, <2>3, <1>5
    <3> QED
      BY <3>1, <3>2
  <2>6. ASSUME NEW n \in (Promised + 1)..last' PROVE n \in Log!Numbers
    <3>1. n - N + 1 \in 1..L
      BY <1>2, <1>5, <2>3, <2>4, <2>5
    <3>2. /\ files[N].lines[n - N + 1] \in Lines
          /\ files[N].lines[n - N + 1].seq = N + (n - N + 1) - 1
      BY <3>1, <2>3, <2>L, LinesAre
    <3>3. N + (n - N + 1) - 1 = n
      BY <2>3
    <3> QED
      BY <3>2, <3>3 DEF Log!Numbers
  <2>7. last' \in Log!Numbers
    BY <2>1, <2>6, <1>2, <1>5
  <2> QED
    BY <2>1, <2>6, <2>7, <1>1, <1>3, <1>4 DEF Log!Promise, Promised
<1> QED
  BY <1>6, <1>7

\* Whole segments before the record to keep are gone (Prune).
LEMMA PruneIsPrune ==
  ASSUME JournalInv, JournalInv', NEW k \in 1..MaxSeq, Prune(k)
  PROVE  Log!Prune
<1>1. /\ Up /\ Bases # {} /\ told' = told /\ k \in Nat
      /\ kept' = IF k > kept THEN k ELSE kept
  BY DEF Prune, Up
<1>K. PICK Keep : Keep = {x \in Bases : NextBase(x) = 0 \/ NextBase(x) > k \/ x = cur}
  OBVIOUS
<1>2. /\ Keep \subseteq Bases /\ Newest \in Keep
      /\ \A x \in Bases \ Keep : /\ NextBase(x) \in Bases /\ x < NextBase(x)
                                 /\ NextBase(x) <= k
      /\ \A b \in Keep, c \in Bases : b < c => c \in Keep
  BY <1>1, <1>K, KeptSegments
<1>3. Bases' = Keep /\ \A b \in Keep : files'[b] = files[b] /\ LenOf(b)' = LenOf(b)
  <2>1. files' = [b \in Keep |-> files[b]]
    BY <1>K DEF Prune
  <2> QED
    BY <2>1 DEF Bases, LenOf
<1>4. /\ \A l : l \in Lines <=> \E b \in Bases : \E i \in 1..LenOf(b) : l = files[b].lines[i]
      /\ \A b \in Bases : \A i \in 1..LenOf(b) : files[b].lines[i].seq = b + i - 1
      /\ \A b \in Bases : b \in Nat \ {0} /\ LenOf(b) \in Nat
  BY LinesAre
<1>5. \A l : l \in Lines' <=> \E b \in Keep : \E i \in 1..LenOf(b) : l = files[b].lines[i]
  <2>1. \A l : l \in Lines' <=> \E b \in Bases' : \E i \in 1..LenOf(b)' : l = files'[b].lines[i]
    BY LinesAfter
  <2>2. ASSUME NEW l \in Lines' PROVE \E b \in Keep : \E i \in 1..LenOf(b) : l = files[b].lines[i]
    <3>1b. PICK b \in Bases' : \E i \in 1..LenOf(b)' : l = files'[b].lines[i]
      BY <2>1, <2>2
    <3> QED
      BY <3>1b, <1>3
  <2>3. ASSUME NEW b \in Keep, NEW i \in 1..LenOf(b) PROVE files[b].lines[i] \in Lines'
    <3>1. b \in Bases' /\ i \in 1..LenOf(b)' /\ files[b].lines[i] = files'[b].lines[i]
      BY <1>3
    <3> QED
      BY <2>1, <3>1
  <2> QED
    BY <2>2, <2>3
<1>6. kept \in Nat /\ kept <= kept' /\ k <= kept' /\ kept' \in Nat
  BY <1>1 DEF JournalInv, JournalTypeOK
<1>7. Promised = last /\ Promised' = Promised
  BY <1>1, PromisedIs DEF Promised
<1>8. ASSUME NEW b \in Bases \ Keep, NEW i \in 1..LenOf(b)
      PROVE  \/ files[b].lines[i].seq < kept'
             \/ files[b].lines[i].seq > Promised
  <2>1. PICK y \in Bases : b < y /\ y <= k
    BY <1>2
  <2>2. /\ files[b].lines[i].seq = b + i - 1 /\ b \in Nat /\ LenOf(b) \in Nat /\ y \in Nat
        /\ i \in Nat /\ i <= LenOf(b)
    BY <1>4
  <2>3. CASE b + LenOf(b) <= y
    BY <2>1, <2>2, <2>3, <1>1, <1>6
  <2>4. CASE y = Newest /\ LenOf(y) = 0 /\ b + LenOf(b) = y + 1
    <3>1. Newest + 0 \in {last + 1, last + 2} /\ Newest <= last + 1 /\ last \in Nat
      BY <2>4, <1>1, BasesAre DEF JournalInv, Positioned
    <3>2. y = last + 1
      BY <3>1, <2>2, <2>4
    <3>3. CASE b + i - 1 = y
      BY <3>2, <3>3, <2>2, <1>7, <3>1
    <3>4. CASE b + i - 1 # y
      BY <3>4, <2>1, <2>2, <2>4, <1>1, <1>6
    <3> QED
      BY <3>3, <3>4
  <2> QED
    BY <2>1, <2>3, <2>4 DEF JournalInv, FilesInv, Chained
<1>9. Lines' \subseteq Lines
  BY <1>2, <1>4, <1>5
<1>10. ASSUME NEW l \in Lines \ Lines' PROVE l.seq < kept' \/ l.seq > Promised
  <2>1b. PICK b \in Bases : \E i \in 1..LenOf(b) : l = files[b].lines[i]
    BY <1>4
  <2>1. PICK i \in 1..LenOf(b) : l = files[b].lines[i]
    BY <2>1b
  <2>2. b \notin Keep
    BY <2>1, <1>5
  <2> QED
    BY <2>1, <2>2, <1>8
<1>11. Lines' = Lines \/ \E n \in Log!Numbers : Lines' = {l \in Lines : l.seq > n}
  <2> DEFINE S == {l.seq : l \in Lines \ Lines'}
  <2>1. CASE S = {}
    BY <2>1, <1>9
  <2>2. CASE S # {}
    <3>1. \A l \in Lines : l.seq \in Nat /\ l.seq <= MaxSeq
      BY <1>4, LinesAre DEF JournalInv, FilesInv, Numbered, Log!Entry
    <3>2. S \in SUBSET Nat /\ MaxSeq \in Nat /\ \A y \in S : y <= MaxSeq
      BY <3>1, JournalBounds
    <3>3. PICK n \in S : \A y \in S : y <= n
      <4> HIDE DEF S
      <4> QED
        BY <3>2, <2>2, Greatest
    <3>4. PICK m \in Lines \ Lines' : m.seq = n
      BY <3>3
    <3>5b. PICK b \in Bases : \E j \in 1..LenOf(b) : m = files[b].lines[j]
      BY <1>4
    <3>5. PICK j \in 1..LenOf(b) : m = files[b].lines[j]
      BY <3>5b
    <3>6. b \notin Keep /\ n = b + j - 1
      BY <3>4, <3>5, <1>4, <1>5
    <3>7. ASSUME NEW l \in Lines' PROVE l.seq > n
      <4>1b. PICK c \in Keep : \E i \in 1..LenOf(c) : l = files[c].lines[i]
        BY <1>5
      <4>1. PICK i \in 1..LenOf(c) : l = files[c].lines[i]
        BY <4>1b
      <4>2. c \in Bases /\ c \in Nat /\ b \in Nat /\ LenOf(c) \in Nat /\ LenOf(b) \in Nat
            /\ l.seq = c + i - 1
        BY <4>1, <1>2, <1>4
      <4>3. b < c
        BY <4>2, <3>6, <1>2
      <4>4. b + LenOf(b) <= c
        BY <4>2, <4>3 DEF JournalInv, FilesInv, Chained
      <4> QED
        BY <4>2, <4>4, <3>6
    <3>8. ASSUME NEW l \in Lines, l \notin Lines' PROVE ~(l.seq > n)
      BY <3>1, <3>3, <3>8
    <3>9. Lines' = {l \in Lines : l.seq > n}
      BY <3>7, <3>8, <1>9
    <3>10. n \in Log!Numbers
      BY <3>4 DEF Log!Numbers
    <3> QED
      BY <3>9, <3>10
  <2> QED
    BY <2>1, <2>2
<1> QED
  BY <1>6, <1>7, <1>10, <1>11 DEF Log!Prune, Promised

\* Only a tail nobody was told of is lost with the power.
LEMMA PowerCutLoses ==
  ASSUME OrderlyAssumption, JournalInv, JournalInv', PowerCut
  PROVE  Log!Lose \/ UNCHANGED Log!vars
<1>1. Up /\ told' = told /\ kept' = kept
  BY DEF PowerCut, OrderlyAssumption, Up, Down, history
<1>2. PICK T \in SUBSET Bases :
           /\ Bases' = T
           /\ T = Bases \/ (pc = "created" /\ T = Bases \ {cur})
           /\ \A b \in T : /\ files[b].synced <= LenOf(b)' /\ LenOf(b)' <= LenOf(b)
                           /\ \A i \in 1..LenOf(b)' : files'[b].lines[i] = files[b].lines[i]
           /\ \A b \in T : ~Settled(b) => \A c \in T : c <= b
  BY PowerCutIs
<1>3. /\ \A b \in Bases : b \in Nat \ {0} /\ LenOf(b) \in Nat /\ files[b].synced \in Nat
                          /\ files[b].synced <= LenOf(b)
      /\ last \in Nat
      /\ \A t \in told : t.seq \in Nat
  BY BasesAre DEF JournalInv
<1>4. /\ \A l : l \in Lines <=> \E b \in Bases : \E i \in 1..LenOf(b) : l = files[b].lines[i]
      /\ \A b \in Bases : \A i \in 1..LenOf(b) : files[b].lines[i].seq = b + i - 1
  BY LinesAre
<1>5. \A b \in T : LenOf(b)' \in Nat
  <2>1. \A b \in Bases' : files'[b] \in File
    BY DEF JournalInv, JournalTypeOK, Bases
  <2> QED
    BY <2>1, <1>2 DEF LenOf, File
<1>6. \A l : l \in Lines' <=> \E b \in T : \E i \in 1..LenOf(b)' : l = files[b].lines[i]
  <2>1. \A l : l \in Lines' <=> \E b \in Bases' : \E i \in 1..LenOf(b)' : l = files'[b].lines[i]
    BY LinesAfter
  <2>2. ASSUME NEW l \in Lines'
        PROVE  \E b \in T : \E i \in 1..LenOf(b)' : l = files[b].lines[i]
    <3>1b. PICK b \in Bases' : \E i \in 1..LenOf(b)' : l = files'[b].lines[i]
      BY <2>1, <2>2
    <3>1. PICK i \in 1..LenOf(b)' : l = files'[b].lines[i]
      BY <3>1b
    <3> QED
      BY <3>1, <1>2
  <2>3. ASSUME NEW b \in T, NEW i \in 1..LenOf(b)' PROVE files[b].lines[i] \in Lines'
    <3>1. b \in Bases' /\ files[b].lines[i] = files'[b].lines[i]
      BY <1>2
    <3> QED
      BY <2>1, <3>1
  <2> QED
    BY <2>2, <2>3
<1>7. ASSUME NEW b \in Bases, b \notin T
      PROVE  LenOf(b) = 0 /\ last < b
  <2>1. b = cur /\ pc = "created" /\ cur # 0
    BY <1>2, <1>3, <1>7
  <2>2. b = Newest /\ LenOf(Newest) = 0 /\ Bases # {}
    BY <2>1, <1>1 DEF JournalInv, Positioned, Appending
  <2>3. Newest + LenOf(Newest) \in {last + 1, last + 2}
    BY <2>2, <1>1 DEF JournalInv, Positioned
  <2> QED
    BY <2>2, <2>3, <1>3
<1>8. \A b \in T : \A i \in 1..LenOf(b)' : i \in 1..LenOf(b)
  BY <1>2, <1>3, <1>5
<1>9. CASE \A b \in T : LenOf(b)' = LenOf(b)
  <2>1. ASSUME NEW l \in Lines PROVE l \in Lines'
    <3>1b. PICK b \in Bases : \E i \in 1..LenOf(b) : l = files[b].lines[i]
      BY <1>4
    <3>1. PICK i \in 1..LenOf(b) : l = files[b].lines[i]
      BY <3>1b
    <3>2. b \in T
      BY <3>1, <1>3, <1>7
    <3> QED
      BY <3>1, <3>2, <1>6, <1>9
  <2>2. ASSUME NEW l \in Lines' PROVE l \in Lines
    BY <1>2, <1>4, <1>6, <1>8
  <2>3. Lines' = Lines
    BY <2>1, <2>2
  <2> QED
    BY <2>3, <1>1 DEF Log!vars
<1>10. ASSUME NEW x \in T, LenOf(x)' # LenOf(x)
       PROVE  Log!Lose
  <2>X. PICK m : m = LenOf(x)'
    OBVIOUS
  <2>0. /\ x \in Bases /\ x \in Nat \ {0} /\ m \in Nat /\ LenOf(x) \in Nat /\ m < LenOf(x)
        /\ files[x].synced <= m /\ files[x].synced \in Nat
    BY <2>X, <1>2, <1>3, <1>5, <1>10
  <2>1. ASSUME NEW b \in T, LenOf(b)' # LenOf(b) PROVE \A c \in T : c <= b
    <3>1. files[b].synced # LenOf(b)
      BY <2>1, <1>2, <1>3, <1>5
    <3>2. ~Settled(b)
      BY <3>1 DEF Settled, LenOf
    <3> QED
      BY <3>2, <1>2
  <2>2. \A c \in T : c <= x
    BY <2>1, <1>10
  <2>3. ASSUME NEW c \in T, c # x PROVE LenOf(c)' = LenOf(c) /\ c + LenOf(c) <= x
    <3>1. c \in Bases /\ c \in Nat /\ LenOf(c) \in Nat /\ c < x
      BY <2>2, <2>3, <2>0, <1>3
    <3>2. LenOf(c)' = LenOf(c)
      BY <2>0, <2>1, <3>1
    <3>3. c + LenOf(c) <= x
      BY <3>1, <2>0 DEF JournalInv, FilesInv, Chained
    <3> QED
      BY <3>2, <3>3
  <2>4. m + 1 \in 1..LenOf(x) /\ x + m \in Nat
    BY <2>0
  <2>5. x + m \in Log!Numbers
    <3>1. files[x].lines[m + 1] \in Lines /\ files[x].lines[m + 1].seq = x + (m + 1) - 1
      BY <2>0, <2>4, <1>4
    <3>2. x + (m + 1) - 1 = x + m
      BY <2>0
    <3> QED
      BY <3>1, <3>2 DEF Log!Numbers
  <2>6. x + m > Promised
    <3>1. Promised = last
      BY <1>1, PromisedIs
    <3>2. CASE told = {}
      BY <3>1, <3>2, <2>0 DEF JournalInv, FilesInv, Started
    <3>3. CASE told # {}
      <4>1. PICK t \in told : t.seq = last
        BY <3>3, <1>1 DEF JournalInv, Positioned
      <4>2. CASE last < x
        BY <4>2, <3>1, <2>0, <1>3
      <4>3. CASE x <= last
        <5>1. \A c \in Bases : c <= x \/ c > t.seq
          BY <4>1, <2>2, <1>7
        <5>2. Held(t, x)
          BY <4>1, <4>3, <5>1, <2>0 DEF JournalInv, FilesInv, ToldHeld
        <5> QED
          BY <4>1, <5>2, <3>1, <2>0, <1>3 DEF Held
      <4> QED
        BY <4>2, <4>3, <2>0, <1>3
    <3> QED
      BY <3>2, <3>3
  <2>7. ASSUME NEW l \in Lines' PROVE l \in Lines /\ l.seq < x + m
    <3>1b. PICK b \in T : \E i \in 1..LenOf(b)' : l = files[b].lines[i]
      BY <1>6
    <3>1. PICK i \in 1..LenOf(b)' : l = files[b].lines[i]
      BY <3>1b
    <3>2. b \in Bases /\ b \in Nat /\ i \in 1..LenOf(b) /\ l.seq = b + i - 1 /\ LenOf(b) \in Nat
      BY <3>1, <1>3, <1>4, <1>8
    <3>3. CASE b = x
      BY <3>1, <3>2, <3>3, <2>0, <2>X, <1>4
    <3>4. CASE b # x
      BY <3>1, <3>2, <3>4, <2>0, <2>3, <1>4
    <3> QED
      BY <3>3, <3>4
  <2>8. ASSUME NEW l \in Lines, l.seq < x + m PROVE l \in Lines'
    <3>1b. PICK b \in Bases : \E i \in 1..LenOf(b) : l = files[b].lines[i]
      BY <1>4
    <3>1. PICK i \in 1..LenOf(b) : l = files[b].lines[i]
      BY <3>1b
    <3>2. b \in T /\ l.seq = b + i - 1
      BY <3>1, <1>3, <1>4, <1>7
    <3>3. CASE b = x
      <4>1. i \in 1..m
        BY <3>2, <3>3, <2>0, <2>8
      <4>2. i \in 1..LenOf(b)'
        BY <4>1, <3>3, <2>X
      <4> QED
        BY <4>2, <3>1, <3>2, <1>6
    <3>4. CASE b # x
      BY <3>1, <3>2, <3>4, <2>3, <1>6
    <3> QED
      BY <3>3, <3>4
  <2>9. Lines' = {l \in Lines : l.seq < x + m}
    BY <2>7, <2>8
  <2> QED
    BY <2>5, <2>6, <2>9, <1>1 DEF Log!Lose, Promised
<1> QED
  BY <1>9, <1>10

\* A step that leaves every file's lines and what was promised alone.
LEMMA LogUnchanged ==
  ASSUME Bases' = Bases, \A b \in Bases : files'[b].lines = files[b].lines,
         UNCHANGED <<told, kept>>
  PROVE  UNCHANGED Log!vars
<1>1. Lines' = Lines
  BY LinesKept
<1> QED
  BY <1>1 DEF Log!vars

\* A segment that is created is empty (ensureSegment).
LEMMA MakeRoomKeepsLog ==
  ASSUME JournalInv, NEW r \in Records, NEW n \in 1..MaxSeq, MakeRoom(r, n)
  PROVE  UNCHANGED Log!vars
<1>1. UNCHANGED <<told, kept>>
  BY DEF MakeRoom, history
<1>2. CASE files' = files
  BY <1>1, <1>2, LogUnchanged DEF Bases
<1>3. CASE n \notin Bases /\ files' = With(n, Empty)
  <2>1. /\ DOMAIN files' = DOMAIN files \cup {n}
        /\ \A b \in DOMAIN files : files'[b].lines = files[b].lines
        /\ files'[n].lines = <<>>
    BY <1>3 DEF With, Bases, Empty
  <2>2. Range(<<>>) = {}
    BY DEF Range
  <2>3. Lines' = Lines
    BY <2>1, <2>2 DEF Lines, Bases
  <2> QED
    BY <2>3, <1>1 DEF Log!vars
<1> QED
  BY <1>2, <1>3 DEF MakeRoom

\* The process stops, or an append fails: no line is touched.
LEMMA LinesSurvive ==
  ASSUME OrderlyAssumption, JournalInv, Kill \/ FailAppend
  PROVE  UNCHANGED Log!vars
<1>1. UNCHANGED <<told, kept>>
  BY DEF Kill, FailAppend, Down, history
<1>2. \A b \in Bases : files[b] \in File
  BY DEF JournalInv, JournalTypeOK, Bases
<1>3. CASE Kill
  <2>1. PICK torn \in BOOLEAN :
          files' = [b \in Bases |->
                      WrittenBack([files[b] EXCEPT !.torn = @ \/ (torn /\ b = cur)])]
    BY <1>3 DEF Kill
  <2>2. ASSUME NEW b \in Bases PROVE files'[b].lines = files[b].lines
    <3> DEFINE f == [files[b] EXCEPT !.torn = @ \/ (torn /\ b = cur)]
    <3>1. files'[b] = WrittenBack(f)
      BY <2>1
    <3>2. f \in File /\ f.lines = files[b].lines
      BY <1>2 DEF File
    <3> HIDE DEF f
    <3>3. WrittenBack(f).lines = f.lines
      BY <3>2 DEF WrittenBack, File
    <3> QED
      BY <3>1, <3>2, <3>3
  <2>3. Bases' = Bases
    BY <2>1 DEF Bases
  <2> QED
    BY <2>2, <2>3, <1>1, LogUnchanged
<1>4. CASE FailAppend
  <2>1. CASE files' = files
    BY <2>1, <1>1, LogUnchanged DEF Bases
  <2>2. CASE pc = "opened" /\ files' = [files EXCEPT ![cur].torn = TRUE]
    <3>1. cur \in Bases
      BY <2>2, CurIs DEF JournalInv, Appending, Up
    <3>2. files'[cur] = [files[cur] EXCEPT !.torn = TRUE]
      BY <3>1, <2>2 DEF Bases
    <3>3. files'[cur].lines = files[cur].lines
      BY <3>1, <3>2, <1>2 DEF File
    <3>4. Bases' = Bases /\ \A b \in Bases : b # cur => files'[b] = files[b]
      BY <2>2 DEF Bases
    <3> QED
      BY <3>3, <3>4, <1>1, LogUnchanged
  <2> QED
    BY <1>4, <2>1, <2>2 DEF FailAppend
<1> QED
  BY <1>3, <1>4

\* Every step of the journal is a step of the log, or none.
LEMMA LogSteps ==
  ASSUME OrderlyAssumption, JournalInv, JournalInv', [JournalNext]_vars
  PROVE  [Log!Next]_(Log!vars)
<1>1. CASE \E r \in Records, n \in 1..MaxSeq : MakeRoom(r, n)
  BY <1>1, MakeRoomKeepsLog
<1>2. CASE \E k \in 1..MaxSeq : Prune(k)
  BY <1>2, PruneIsPrune DEF Log!Next
<1>3. CASE \/ \E n \in 1..MaxSeq : ListSegments(n)
           \/ ReadSegment \/ EndReplay \/ LeaveReplay \/ UNCHANGED vars
  <2>1. UNCHANGED <<files, told, kept>>
    BY <1>3, ReaderStep
  <2> QED
    BY <2>1, LogUnchanged DEF Bases
<1>4. CASE Write
  BY <1>4, WriteExtends DEF Log!Next
<1>5. CASE Sync
  BY <1>5, SyncPromises DEF Log!Next
<1>6. CASE Open
  BY <1>6, OpenPromises DEF Log!Next
<1>7. CASE PowerCut
  BY <1>7, PowerCutLoses DEF Log!Next
<1>8. CASE Kill \/ FailAppend
  BY <1>8, LinesSurvive
<1>9. CASE SyncDir
  BY <1>9, LogUnchanged DEF SyncDir, history, Bases
<1> QED
  BY <1>1, <1>2, <1>3, <1>4, <1>5, <1>6, <1>7, <1>8, <1>9 DEF JournalNext

\* The journal implements the log the store is built on: whatever is appended,
\* rotated, pruned, killed or cut off, numbers are never skipped nor reused,
\* and nothing promised is lost or changed.
THEOREM JournalImplementsLog ==
  ASSUME OrderlyAssumption
  PROVE  JournalSpec => ImplementsLog
<1>1. JournalInit => Log!Init
  <2> SUFFICES ASSUME JournalInit PROVE Log!Init
    OBVIOUS
  <2>1. Lines = {}
    BY DEF JournalInit, Lines, Bases
  <2>2. Promised = 0
    BY JournalInvInit, PromisedIs DEF JournalInit
  <2> QED
    BY <2>1, <2>2 DEF JournalInit, Log!Init, Promised
<1>2. JournalInv /\ JournalInv' /\ [JournalNext]_vars => [Log!Next]_(Log!vars)
  BY LogSteps
<1> QED
  BY <1>1, <1>2, JournalInvariant, PTL DEF JournalSpec, ImplementsLog, Log!Spec

-----------------------------------------------------------------------------
(***************************************************************************)
(* The log never holds a gap, nor two records under one number.  Dense is  *)
(* not inductive alone: the next number is one past what was promised or   *)
(* read, so what was promised has to be in the log, or below all of it.    *)
(***************************************************************************)
LogAnchored ==
  Lines # {} => Promised \in Log!Numbers \/ \A m \in Log!Numbers : Promised < m

LogInv ==
  /\ Lines \subseteq Log!Entry
  /\ Promised \in Nat
  /\ Log!Dense
  /\ LogAnchored

\* Nothing is in an empty log.
LEMMA LogInit == Log!Init => LogInv
  BY SMT DEF Promised, Log!Init, LogInv, Log!Dense, LogAnchored, Log!Numbers, Log!Entry

\* A record under the next number (Journal.Append) follows what is there.
LEMMA ExtendDense == LogInv /\ Log!Extend => LogInv'
<1> SUFFICES ASSUME LogInv, Log!Extend PROVE LogInv'
  OBVIOUS
<1>1. PICK e \in Log!Entry : Log!IsNext(e.seq) /\ Lines' = Lines \cup {e}
  BY DEF Promised, Log!Extend
<1>2. /\ Log!Numbers' = Log!Numbers \cup {e.seq}
      /\ Promised' = Promised
      /\ Log!Numbers \subseteq Nat
      /\ e.seq \in Nat
  BY <1>1 DEF Promised, Log!Numbers, Log!Extend, LogInv, Log!Entry
<1>3. /\ \A m \in Log!Numbers : m < e.seq
      /\ Promised < e.seq
      /\ e.seq - 1 \in Log!Numbers \cup {Promised}
  BY <1>1 DEF Promised, Log!IsNext
<1>4. ASSUME NEW m \in Log!Numbers PROVE e.seq - 1 \in Log!Numbers
  <2>1. m \in Nat /\ m < e.seq /\ Promised \in Nat
    BY <1>2, <1>3 DEF LogInv
  <2>2. CASE Promised \in Log!Numbers
    BY <1>3, <2>2
  <2>3. CASE \A x \in Log!Numbers : Promised < x
    <3>1. Promised < m
      BY <2>3
    <3> QED BY <1>2, <1>3, <2>1, <3>1
  <2>4. Lines # {}
    BY DEF Log!Numbers
  <2> QED BY <2>2, <2>3, <2>4 DEF LogInv, LogAnchored
<1>5. Log!Dense'
  <2>1. ASSUME NEW c \in Lines', NEW d \in Lines', c.seq = d.seq PROVE c = d
    <3>1. \A x \in Lines : x.seq # e.seq
      <4>1. \A x \in Lines : x.seq \in Log!Numbers
        BY DEF Log!Numbers
      <4> QED BY <4>1, <1>2, <1>3
    <3> QED BY <1>1, <2>1, <3>1 DEF LogInv, Log!Dense
  <2>2. ASSUME NEW c \in Lines', NEW d \in Lines', NEW n \in c.seq..d.seq PROVE n \in Log!Numbers'
    <3>1. CASE c \in Lines /\ d \in Lines
      BY <3>1, <1>2, <2>2 DEF LogInv, Log!Dense
    <3>2. CASE d = e /\ c \in Lines
      <4>1. PICK b \in Lines : b.seq = e.seq - 1
        <5>1. c.seq \in Log!Numbers
          BY <3>2 DEF Log!Numbers
        <5> QED BY <1>4, <5>1 DEF Log!Numbers
      <4>2. n = e.seq \/ n \in c.seq..b.seq
        BY <4>1, <3>2, <2>2, <1>2 DEF LogInv, Log!Entry
      <4> QED BY <4>1, <4>2, <3>2, <1>2 DEF LogInv, Log!Dense
    <3>3. CASE c = e
      <4>1. d.seq <= e.seq /\ d.seq \in Nat
        BY <1>1, <1>2, <1>3 DEF Log!Numbers, LogInv, Log!Entry
      <4> QED BY <4>1, <3>3, <2>2, <1>2
    <3> QED BY <3>1, <3>2, <3>3, <1>1
  <2> QED BY <2>1, <2>2 DEF Log!Dense
<1>6. LogAnchored'
  BY <1>2, <1>3 DEF LogInv, LogAnchored, Log!Numbers
<1> QED BY <1>1, <1>2, <1>5, <1>6 DEF LogInv

\* What is left of a dense log after either end is cut off is dense.
LEMMA CutDense ==
  ASSUME LogInv, NEW a \in Int, NEW b \in Int,
         Lines' = {e \in Lines : e.seq > a /\ e.seq < b}
  PROVE  Log!Dense' /\ Lines' \subseteq Log!Entry
<1>1. Log!Numbers' = {n \in Log!Numbers : n > a /\ n < b}
  BY DEF Log!Numbers
<1>2. \A c, d \in Lines' : c.seq = d.seq => c = d
  BY DEF LogInv, Log!Dense
<1>3. ASSUME NEW c \in Lines', NEW d \in Lines', NEW n \in c.seq..d.seq PROVE n \in Log!Numbers'
  <2>1. n \in Log!Numbers
    BY <1>3 DEF LogInv, Log!Dense
  <2>2. n > a /\ n < b
    BY <1>3 DEF LogInv, Log!Entry
  <2> QED BY <2>1, <2>2, <1>1
<1> QED BY <1>2, <1>3 DEF Log!Dense, LogInv

\* A crash loses a tail nobody was told about (Journal.repairTail).
LEMMA LoseDense == LogInv /\ Log!Lose => LogInv'
<1> SUFFICES ASSUME LogInv, Log!Lose PROVE LogInv'
  OBVIOUS
<1>1. PICK n \in Log!Numbers : n > Promised /\ Lines' = {e \in Lines : e.seq < n}
  BY DEF Promised, Log!Lose
<1>2. n \in Nat /\ \A e \in Lines : e.seq \in Nat
  BY DEF LogInv, Log!Numbers, Log!Entry
<1>3. Lines' = {e \in Lines : e.seq > -1 /\ e.seq < n}
  BY <1>1, <1>2
<1>4. Log!Dense' /\ Lines' \subseteq Log!Entry
  BY <1>2, <1>3, CutDense
<1>5. Promised' = Promised
  BY DEF Promised, Log!Lose
<1>6. LogAnchored'
  <2>1. Log!Numbers' = {m \in Log!Numbers : m < n}
    BY <1>1 DEF Log!Numbers
  <2> QED BY <2>1, <1>1, <1>5 DEF LogInv, LogAnchored, Log!Numbers
<1> QED BY <1>4, <1>5, <1>6 DEF LogInv

\* A pruning removes a head (Journal.Prune).
LEMMA PruneDense == LogInv /\ Log!Prune => LogInv'
<1> SUFFICES ASSUME LogInv, Log!Prune PROVE LogInv'
  OBVIOUS
<1>1. Promised' = Promised
  BY DEF Promised, Log!Prune
<1>2. CASE Lines' = Lines
  BY <1>1, <1>2 DEF LogInv, Log!Dense, LogAnchored, Log!Numbers
<1>3. CASE \E n \in Log!Numbers : Lines' = {e \in Lines : e.seq > n}
  <2>1. PICK n \in Log!Numbers : Lines' = {e \in Lines : e.seq > n}
    BY <1>3
  <2>2. n \in Nat /\ \A e \in Lines : e.seq \in Nat
    BY DEF LogInv, Log!Numbers, Log!Entry
  <2>3. CASE Lines' = {}
    BY <2>3, <1>1 DEF LogInv, Log!Dense, LogAnchored, Log!Numbers
  <2>4. CASE Lines' # {}
    <3>1. Log!Numbers' = {m \in Log!Numbers : m > n}
      BY <2>1 DEF Log!Numbers
    <3>2. ASSUME NEW c \in Lines', NEW d \in Lines', NEW m \in c.seq..d.seq PROVE m \in Log!Numbers'
      <4>1. m \in Log!Numbers
        BY <2>1, <3>2 DEF LogInv, Log!Dense
      <4>2. m > n
        BY <2>1, <2>2, <3>2
      <4> QED BY <4>1, <4>2, <3>1
    <3>3. Log!Dense'
      BY <2>1, <3>2 DEF LogInv, Log!Dense
    <3>4. LogAnchored'
      BY <3>1, <2>2, <1>1 DEF LogInv, LogAnchored, Log!Numbers
    <3> QED BY <2>1, <3>3, <3>4, <1>1 DEF LogInv
  <2> QED BY <2>3, <2>4
<1> QED BY <1>2, <1>3 DEF Promised, Log!Prune

\* Every step of the log keeps it dense.
LEMMA LogStep == LogInv /\ [Log!Next]_(Log!vars) => LogInv'
<1> SUFFICES ASSUME LogInv, [Log!Next]_(Log!vars) PROVE LogInv'
  OBVIOUS
<1>1. CASE Log!Extend
  BY <1>1, ExtendDense
<1>2. CASE Log!Promise
  <2>1. Lines' = Lines /\ Promised' \in Log!Numbers
    BY <1>2 DEF Promised, Log!Promise
  <2>2. Log!Numbers \subseteq Nat
    BY DEF LogInv, Log!Numbers, Log!Entry
  <2> QED BY <2>1, <2>2 DEF LogInv, Log!Dense, LogAnchored, Log!Numbers
<1>3. CASE Log!Lose
  BY <1>3, LoseDense
<1>4. CASE Log!Prune
  BY <1>4, PruneDense
<1>5. CASE UNCHANGED Log!vars
  BY <1>5 DEF Promised, Log!vars, LogInv, Log!Dense, LogAnchored, Log!Numbers
<1> QED BY <1>1, <1>2, <1>3, <1>4, <1>5 DEF Promised, Log!Next

\* Whatever is appended, promised, lost and pruned, the numbers of the log
\* are consecutive and each names one record.
THEOREM LogIsDense == Log!Spec => []Log!Dense
<1>1. LogInv => Log!Dense
  BY DEF LogInv
<1> QED BY LogInit, LogStep, <1>1, PTL DEF Log!Spec

\* The segment files are such a log, so a number is never in them twice, and
\* none is missing between two that are there (Journal.Append, repairTail).
THEOREM NumbersAreDense ==
  ASSUME OrderlyAssumption
  PROVE  JournalSpec => []NumbersDense
BY JournalImplementsLog, LogIsDense, PTL DEF ImplementsLog, NumbersDense

-----------------------------------------------------------------------------
(***************************************************************************)
(* What a replay delivers.                                                 *)
(***************************************************************************)
\* A segment ends where the next one begins, or later.
Gapless ==
  \A b, c \in Bases : b < c /\ (\A x \in Bases : x <= b \/ c <= x) => c <= b + LenOf(b)

\* The segments are those there were, with the lines they had.
Grown ==
  /\ Bases' = Bases
  /\ \A b \in Bases : /\ LenOf(b)' \in Nat /\ LenOf(b) <= LenOf(b)'
                      /\ \A i \in 1..LenOf(b) : files'[b].lines[i] = files[b].lines[i]

\* A line of a file is a line of it after a step that lets the files grow.
LEMMA LineStays ==
  ASSUME JournalTypeOK, JournalTypeOK', Grown, NEW b \in Bases, NEW t \in Range(files[b].lines)
  PROVE  t \in Range(files'[b].lines)
<1>1. DOMAIN files[b].lines = 1..LenOf(b) /\ LenOf(b) \in Nat
  BY BasesAre
<1>2. b \in DOMAIN files' /\ files'[b] \in File
  BY DEF Grown, JournalTypeOK, Bases
<1>3. DOMAIN files'[b].lines = 1..LenOf(b)'
  BY <1>2 DEF File, LenOf
<1>4. PICK i \in 1..LenOf(b) : files[b].lines[i] = t
  BY <1>1 DEF Range
<1>5. i \in DOMAIN files'[b].lines /\ files'[b].lines[i] = t
  BY <1>1, <1>3, <1>4 DEF Grown
<1> QED
  BY <1>5 DEF Range

\* Files that only grow leave no gap (Append, Open).
LEMMA GrownGapless ==
  ASSUME JournalTypeOK, Gapless, Grown
  PROVE  Gapless'
<1> SUFFICES ASSUME NEW b \in Bases', NEW c \in Bases', b < c,
                    \A x \in Bases' : x <= b \/ c <= x
             PROVE  c <= b + LenOf(b)'
  BY DEF Gapless
<1>1. b \in Bases /\ c \in Bases /\ Bases' = Bases
  BY DEF Grown
<1>2. c <= b + LenOf(b)
  BY <1>1 DEF Gapless
<1>3. b \in Nat /\ c \in Nat /\ LenOf(b) \in Nat
  BY <1>1, BasesAre
<1>4. LenOf(b)' \in Nat /\ LenOf(b) <= LenOf(b)'
  BY <1>1 DEF Grown
<1> QED
  BY <1>2, <1>3, <1>4

\* A step of an append that creates no segment: the files grow, and not at all
\* once the disk fails; nothing but the next number is promised.
Proceeds ==
  /\ Grown /\ Up /\ Up' /\ UNCHANGED <<reader, kept>>
  /\ last' \in Nat /\ last <= last'
  /\ told \subseteq told' /\ \A t \in told' \ told : t.seq > last
  /\ disk = "failing" => disk' = "failing" /\ \A b \in Bases : LenOf(b)' = LenOf(b)

\* Steps that leave the files alone.
LEMMA IdleProceeds ==
  ASSUME JournalTypeOK, files' = files, Up, Up', UNCHANGED <<reader, kept, last, told>>,
         disk = "failing" => disk' = "failing"
  PROVE  Proceeds
<1>1. last \in Nat /\ \A b \in Bases : LenOf(b) \in Nat
  BY BasesAre
<1>2. Bases' = Bases /\ \A b \in Bases : LenOf(b)' = LenOf(b)
  BY DEF Bases, LenOf
<1> QED
  BY <1>1, <1>2 DEF Proceeds, Grown

\* The line is synced and the caller told (Append).
LEMMA SyncProceeds == JournalInv /\ Sync => Proceeds
<1> SUFFICES ASSUME JournalInv, Sync PROVE Proceeds
  OBVIOUS
<1>1. /\ Up /\ Up' /\ UNCHANGED <<reader, kept, disk>> /\ last' = last + 1
      /\ \A t \in told' \ told : t.seq = last + 1
      /\ told \subseteq told' /\ disk = "works"
  BY DEF Sync, Up, JournalInv, Appending
<1>2. last \in Nat /\ \A b \in Bases : LenOf(b) \in Nat
  BY BasesAre DEF JournalInv
<1>3. Bases' = Bases /\ \A b \in Bases : files'[b].lines = files[b].lines
  <2>1. Bases' = Bases
    BY DEF Sync, Bases
  <2>2. cur \in Bases /\ files[cur] \in File
    BY <1>1, CurIs DEF JournalInv, Appending, Sync
  <2>3. files'[cur] = [files[cur] EXCEPT !.synced = Len(files[cur].lines)]
    BY <2>2 DEF Sync, Bases
  <2>4. files'[cur].lines = files[cur].lines
    BY <2>2, <2>3 DEF File
  <2>5. \A b \in Bases : b # cur => files'[b] = files[b]
    BY DEF Sync, Bases
  <2> QED
    BY <2>1, <2>4, <2>5
<1>4. \A b \in Bases : LenOf(b)' = LenOf(b)
  BY <1>3 DEF LenOf
<1> QED
  BY <1>1, <1>2, <1>3, <1>4 DEF Proceeds, Grown

\* The line is written (Append).
LEMMA WriteProceeds == OrderlyAssumption /\ JournalInv /\ Write => Proceeds
<1> SUFFICES ASSUME OrderlyAssumption, JournalInv, Write PROVE Proceeds
  OBVIOUS
<1>1. /\ Up /\ Up' /\ UNCHANGED <<reader, kept, disk, last, told>> /\ disk = "works"
      /\ last \in Nat
  <2>1. disk = "works" /\ last \in Nat
    BY WriteIs
  <2> QED
    BY <2>1 DEF Write, Up, history
<1>2. /\ Bases' = Bases
      /\ \A b \in Bases : LenOf(b) \in Nat /\ (b # cur => files'[b] = files[b])
      /\ LenOf(cur)' = LenOf(cur) + 1
      /\ \A i \in 1..LenOf(cur) : files'[cur].lines[i] = files[cur].lines[i]
      /\ cur \in Bases /\ cur' = cur
  <2>1. \A b \in Bases : LenOf(b) \in Nat
    BY BasesAre DEF JournalInv
  <2>2. cur' = cur
    BY DEF Write
  <2>3. Len(files'[cur].lines) = LenOf(cur) + 1
    BY WriteIs
  <2> QED
    BY <2>1, <2>2, <2>3, WriteIs DEF LenOf
<1>3. ASSUME NEW b \in Bases
      PROVE  /\ LenOf(b)' \in Nat /\ LenOf(b) <= LenOf(b)'
             /\ \A i \in 1..LenOf(b) : files'[b].lines[i] = files[b].lines[i]
  <2>1. CASE b = cur
    <3>1. LenOf(b)' = LenOf(b) + 1
      BY <2>1, <1>2
    <3> QED
      BY <3>1, <2>1, <1>2
  <2>2. CASE b # cur
    <3>1. LenOf(b)' = LenOf(b)
      BY <2>2, <1>2 DEF LenOf
    <3> QED
      BY <3>1, <2>2, <1>2
  <2> QED
    BY <2>1, <2>2
<1> QED
  BY <1>1, <1>2, <1>3 DEF Proceeds, Grown

\* The append fails (Append).
LEMMA FailProceeds == JournalInv /\ FailAppend => Proceeds
<1> SUFFICES ASSUME JournalInv, FailAppend PROVE Proceeds
  OBVIOUS
<1>1. /\ Up /\ Up' /\ UNCHANGED <<reader, kept, last, told>> /\ disk' = "failing"
  BY DEF FailAppend, Up, history
<1>2. last \in Nat /\ \A b \in Bases : LenOf(b) \in Nat /\ files[b] \in File
  BY BasesAre DEF JournalInv
<1>3. Bases' = Bases /\ \A b \in Bases : files'[b].lines = files[b].lines
  <2>1. CASE files' = files
    BY <2>1 DEF Bases
  <2>2. CASE files' = [files EXCEPT ![cur].torn = TRUE]
    <3>1. Bases' = Bases
      BY <2>2 DEF Bases
    <3>2. ASSUME NEW b \in Bases
          PROVE  files'[b] = IF b = cur THEN [files[b] EXCEPT !.torn = TRUE] ELSE files[b]
      BY <2>2 DEF Bases
    <3>3. \A b \in Bases : [files[b] EXCEPT !.torn = TRUE].lines = files[b].lines
      BY <1>2 DEF File
    <3> QED
      BY <3>1, <3>2, <3>3
  <2> QED
    BY <2>1, <2>2 DEF FailAppend
<1>4. \A b \in Bases : LenOf(b)' = LenOf(b)
  BY <1>3 DEF LenOf
<1> QED
  BY <1>1, <1>2, <1>3, <1>4 DEF Proceeds, Grown

\* A restart leaves the lines alone (Open).
LEMMA OpenGrown == JournalInv /\ Open => Grown
<1> SUFFICES ASSUME JournalInv, Open PROVE Grown
  OBVIOUS
<1>1. \A b \in Bases : LenOf(b) \in Nat /\ files[b] \in File
  BY BasesAre DEF JournalInv
<1>2. Bases' = Bases /\ \A b \in Bases : files'[b].lines = files[b].lines
  <2>1. CASE files' = files
    BY <2>1 DEF Bases
  <2>2. CASE files' = [files EXCEPT ![Newest] = Repaired(@)]
    <3>1. Bases' = Bases
      BY <2>2 DEF Bases
    <3>2. ASSUME NEW b \in Bases
          PROVE  files'[b] = IF b = Newest THEN Repaired(files[b]) ELSE files[b]
      BY <2>2 DEF Bases
    <3>3. \A b \in Bases : Repaired(files[b]).lines = files[b].lines
      BY <1>1 DEF File, Repaired
    <3> QED
      BY <3>1, <3>2, <3>3
  <2> QED
    BY <2>1, <2>2 DEF Open
<1>3. \A b \in Bases : LenOf(b)' = LenOf(b)
  BY <1>2 DEF LenOf
<1> QED
  BY <1>1, <1>2, <1>3 DEF Grown

\* A new segment follows the newest one at once, and never an empty one.
Creates ==
  /\ Up /\ Up' /\ UNCHANGED <<reader, kept, last, told, disk>> /\ last + 1 \notin Bases
  /\ Bases' = Bases \cup {last + 1}
  /\ \A b \in Bases : files'[b] = files[b]
  /\ LenOf(last + 1)' = 0
  /\ Bases # {} => /\ Newest <= last /\ last + 1 <= Newest + LenOf(Newest)
                   /\ LenOf(Newest) # 0

\* Room is found for a record (ensureSegment).
LEMMA RoomSteps ==
  ASSUME JournalInv, NEW r \in Records, NEW n \in 1..MaxSeq, MakeRoom(r, n)
  PROVE  Proceeds \/ Creates
<1>0. /\ pc = "idle" /\ n = last + 1 /\ last \in Nat /\ JournalTypeOK /\ MaxSegment \in Nat \ {0}
      /\ UNCHANGED <<last, disk, reader, kept, told>> /\ Up /\ Up'
      /\ \A b \in Bases : b \in Nat \ {0} /\ LenOf(b) \in Nat
  <2>1. Up /\ Up'
    BY DEF MakeRoom, Up
  <2> QED
    BY <2>1, BasesAre DEF MakeRoom, history, JournalInv
<1>1. CASE files' = files
  BY <1>0, <1>1, IdleProceeds
<1>2. CASE files' # files
  <2>1. /\ cur = 0 \/ size + 1 > MaxSegment
        /\ \A b \in Bases : ~Fits(b)
        /\ n \notin Bases /\ files' = With(n, Empty)
    <3>1. n = last + 1
      BY <1>0
    <3> QED
      BY <1>2, <3>1, Zenon DEF MakeRoom
  <2>2. /\ Bases' = Bases \cup {n}
        /\ \A b \in Bases : files'[b] = files[b]
        /\ files'[n] = Empty /\ Len(Empty.lines) = 0
    BY <2>1 DEF With, Bases, Empty
  <2>3. LenOf(n)' = 0
    BY <2>2 DEF LenOf
  <2>4. ASSUME Bases # {}
        PROVE  Newest <= last /\ n <= Newest + LenOf(Newest) /\ LenOf(Newest) # 0
    <3>1. /\ Newest \in Bases /\ Newest <= last + 1
          /\ Newest + LenOf(Newest) \in {last + 1, last + 2}
      BY <1>0, <2>4, BasesAre DEF JournalInv, Positioned
    <3>2. Newest # last + 1
      BY <1>0, <2>1, <3>1
    <3>3. SizeOf(files[Newest]) + 1 > MaxSegment /\ SizeOf(files[Newest]) = LenOf(Newest)
      <4>1. SizeOf(files[Newest]) = LenOf(Newest)
        BY <1>0, <2>1, <3>1, RoomIsWhole
      <4>2. ~(SizeOf(files[Newest]) + 1 <= MaxSegment)
        BY <2>1, <2>4, <3>1 DEF Fits
      <4> QED
        BY <1>0, <3>1, <4>1, <4>2
    <3> QED
      BY <1>0, <3>1, <3>2, <3>3
  <2> QED
    BY <1>0, <2>1, <2>2, <2>3, <2>4 DEF Creates
<1> QED
  BY <1>1, <1>2

\* A new segment leaves no gap (ensureSegment).
LEMMA CreateGapless ==
  ASSUME JournalTypeOK, Gapless, Creates
  PROVE  Gapless'
<1> SUFFICES ASSUME NEW b \in Bases', NEW c \in Bases', b < c,
                    \A x \in Bases' : x <= b \/ c <= x
             PROVE  c <= b + LenOf(b)'
  BY DEF Gapless
<1>1. /\ last \in Nat /\ \A x \in Bases : x \in Nat /\ x <= Newest /\ LenOf(x) \in Nat
      /\ Bases # {} => Newest \in Bases /\ Newest <= last /\ last + 1 <= Newest + LenOf(Newest)
      /\ Bases' = Bases \cup {last + 1}
  BY BasesAre DEF Creates
<1>2. \A x \in Bases : x < last + 1 /\ LenOf(x)' = LenOf(x)
  BY <1>1 DEF Creates, LenOf
<1>3. b \in Bases
  BY <1>1, <1>2
<1>4. CASE c \in Bases
  <2>1. \A x \in Bases : x <= b \/ c <= x
    BY <1>1
  <2>2. c <= b + LenOf(b)
    BY <1>3, <1>4, <2>1 DEF Gapless
  <2> QED
    BY <2>2, <1>2, <1>3
<1>5. CASE c = last + 1
  <2>1. Newest \in Bases /\ Newest < c /\ Newest <= b /\ b <= Newest
    <3>1. Newest \in Bases /\ b <= Newest
      BY <1>1, <1>3
    <3>2. Newest < c /\ Newest \in Bases' /\ Newest \in Nat /\ c \in Nat
      BY <3>1, <1>1, <1>2, <1>5
    <3>3. Newest <= b \/ c <= Newest
      BY <3>2
    <3> QED
      BY <3>1, <3>2, <3>3
  <2>2. b = Newest
    BY <2>1, <1>1
  <2> QED
    <3>1. LenOf(b)' = LenOf(Newest)
      BY <2>2, <1>2, <1>3
    <3>2. last + 1 <= Newest + LenOf(Newest)
      BY <2>1, <1>1
    <3> QED
      BY <2>2, <3>1, <3>2, <1>5
<1> QED
  BY <1>1, <1>4, <1>5

\* What a pruning does to the segments: it takes a beginning of them, whose
\* successors it leaves or takes as well (Prune).
LEMMA PruneIs ==
  ASSUME JournalInv, NEW k \in 1..MaxSeq, Prune(k)
  PROVE  /\ Up /\ Up' /\ UNCHANGED <<reader, last, told, disk>>
         /\ kept' \in Nat /\ k <= kept' /\ kept <= kept'
         /\ Bases' \subseteq Bases /\ Newest' = Newest /\ Newest \in Bases'
         /\ \A b \in Bases' : files'[b] = files[b]
         /\ \A b \in Bases', c \in Bases : b < c => c \in Bases'
         /\ \A b \in Bases \ Bases' : /\ NextBase(b) \in Bases /\ b < NextBase(b)
                                      /\ NextBase(b) <= k
<1>0. Up /\ Up' /\ UNCHANGED <<reader, last, told, disk>> /\ Bases # {} /\ JournalTypeOK
  BY DEF Prune, Up, open, JournalInv
<1>1. kept' \in Nat /\ k <= kept' /\ kept <= kept' /\ k \in Nat
  <2>1. kept' = IF k > kept THEN k ELSE kept
    BY DEF Prune
  <2>2. kept \in Nat
    BY <1>0, BasesAre
  <2> QED
    BY <2>1, <2>2
<1>2. PICK Keep : Keep = {x \in Bases : NextBase(x) = 0 \/ NextBase(x) > k \/ x = cur}
  OBVIOUS
<1>3. /\ Keep \subseteq Bases /\ Newest \in Keep
      /\ \A x \in Bases \ Keep : NextBase(x) \in Bases /\ x < NextBase(x) /\ NextBase(x) <= k
      /\ \A b \in Keep, c \in Bases : b < c => c \in Keep
  BY <1>0, <1>1, <1>2, KeptSegments
<1>4. Bases' = Keep /\ \A b \in Keep : files'[b] = files[b]
  <2>1. files' = [b \in Keep |-> files[b]]
    BY <1>2 DEF Prune
  <2> QED
    BY <2>1 DEF Bases
<1>5. Newest' = Newest
  <2>1. Bases' \in SUBSET Nat /\ Newest \in Bases' /\ \A b \in Bases' : b <= Newest
    BY <1>0, <1>3, <1>4, BasesAre
  <2> HIDE DEF Bases
  <2>2. Max(Bases') = Newest
    BY <2>1, MaxIs
  <2> QED
    BY <2>2 DEF Newest
<1> QED
  BY <1>0, <1>1, <1>3, <1>4, <1>5

\* A pruning leaves no gap.
LEMMA PruneGapless ==
  ASSUME JournalInv, Gapless, NEW k \in 1..MaxSeq, Prune(k)
  PROVE  Gapless'
<1> SUFFICES ASSUME NEW b \in Bases', NEW c \in Bases', b < c,
                    \A x \in Bases' : x <= b \/ c <= x
             PROVE  c <= b + LenOf(b)'
  BY DEF Gapless
<1>1. b \in Bases /\ c \in Bases /\ LenOf(b)' = LenOf(b) /\ \A x \in Bases : x \in Nat
  BY PruneIs, BasesAre DEF LenOf, JournalInv
<1>2. ASSUME NEW x \in Bases PROVE x <= b \/ c <= x
  <2>1. CASE x \in Bases'
    BY <2>1
  <2>2. CASE x \notin Bases'
    <3>1. ~(b < x)
      BY <2>2, PruneIs
    <3> QED
      BY <3>1, <1>1
  <2> QED
    BY <2>1, <2>2
<1> QED
  BY <1>1, <1>2 DEF Gapless

\* A process that stops leaves no gap (Close, or a signal).
LEMMA KillGapless == OrderlyAssumption /\ JournalInv /\ Gapless /\ Kill => Gapless'
<1> SUFFICES ASSUME OrderlyAssumption, JournalInv, Gapless, Kill PROVE Gapless'
  OBVIOUS
<1>1. PICK torn \in BOOLEAN :
        files' = [b \in Bases |->
                    WrittenBack([files[b] EXCEPT !.torn = @ \/ (torn /\ b = cur)])]
  BY DEF Kill
<1>2. \A b \in Bases : LenOf(b) \in Nat /\ files[b] \in File
  BY BasesAre DEF JournalInv
<1>3. Bases' = Bases
  BY <1>1 DEF Bases
<1>4. ASSUME NEW b \in Bases
      PROVE  files'[b].lines = files[b].lines
  <2> DEFINE f == [files[b] EXCEPT !.torn = @ \/ (torn /\ b = cur)]
  <2>1. files'[b] = WrittenBack(f)
    BY <1>1
  <2>2. f \in File /\ f.lines = files[b].lines
    BY <1>2 DEF File
  <2> HIDE DEF f
  <2>3. WrittenBack(f) = [f EXCEPT !.synced = Len(f.lines)]
    BY DEF WrittenBack, OrderlyAssumption
  <2> QED
    BY <2>1, <2>2, <2>3 DEF File
<1>5. Grown
  BY <1>2, <1>3, <1>4 DEF Grown, LenOf
<1> QED
  BY <1>5, GrownGapless DEF JournalInv

\* Nor does one that loses power: only the end of the last segment goes.
LEMMA PowerCutGapless == OrderlyAssumption /\ JournalInv /\ Gapless /\ PowerCut => Gapless'
<1> SUFFICES ASSUME OrderlyAssumption, JournalInv, Gapless, PowerCut,
                    NEW b \in Bases', NEW c \in Bases', b < c,
                    \A x \in Bases' : x <= b \/ c <= x
             PROVE  c <= b + LenOf(b)'
  BY DEF Gapless
<1>0. Up
  BY DEF PowerCut, OrderlyAssumption, Up
<1>1. PICK T \in SUBSET Bases :
           /\ Bases' = T
           /\ T = Bases \/ (pc = "created" /\ T = Bases \ {cur})
           /\ \A x \in T : files'[x] \in File /\ files[x].synced <= LenOf(x)'
           /\ \A x \in T : ~Settled(x) => \A y \in T : y <= x
  BY PowerCutIs
<1>2. /\ b \in T /\ c \in T /\ T \subseteq Bases
      /\ \A x \in Bases : x \in Nat /\ x <= Newest /\ LenOf(x) \in Nat
  BY <1>1, BasesAre DEF JournalInv
<1>3. ASSUME NEW x \in Bases PROVE x <= b \/ c <= x
  <2>1. CASE x \in T
    BY <2>1, <1>1
  <2>2. CASE x \notin T
    <3>1. x = cur /\ cur # 0
      BY <2>2, <1>0, <1>1 DEF JournalInv, Appending
    <3>2. x = Newest
      BY <3>1, <1>0 DEF JournalInv, Positioned
    <3> QED
      BY <3>2, <1>2
  <2> QED
    BY <2>1, <2>2
<1>4. c <= b + LenOf(b)
  BY <1>2, <1>3 DEF Gapless
<1>5. LenOf(b) <= LenOf(b)' /\ LenOf(b)' \in Nat
  <2>1. Settled(b)
    <3>1. ~(c <= b)
      BY <1>2
    <3> QED
      BY <3>1, <1>1, <1>2
  <2>2. files[b].synced = LenOf(b)
    BY <2>1 DEF Settled, LenOf
  <2>3. files'[b] \in File
    BY <1>1, <1>2
  <2> QED
    BY <2>2, <2>3, <1>1, <1>2 DEF LenOf, File
<1> QED
  BY <1>2, <1>4, <1>5

\* The segments follow on each other without a gap, whatever happens.
LEMMA GaplessStep ==
  ASSUME OrderlyAssumption, JournalInv, Gapless, [JournalNext]_vars
  PROVE  Gapless'
<1>0. JournalTypeOK
  BY DEF JournalInv
<1>1. CASE \E r \in Records, n \in 1..MaxSeq : MakeRoom(r, n)
  <2>1. Proceeds \/ Creates
    BY <1>1, RoomSteps
  <2> QED
    BY <2>1, <1>0, CreateGapless, GrownGapless DEF Proceeds
<1>2. CASE \E k \in 1..MaxSeq : Prune(k)
  BY <1>2, PruneGapless
<1>3. CASE \/ \E n \in 1..MaxSeq : ListSegments(n)
           \/ ReadSegment \/ EndReplay \/ LeaveReplay \/ UNCHANGED vars
  <2>1. files' = files
    BY <1>3, ReaderStep
  <2> QED
    BY <2>1 DEF Gapless, Bases, LenOf
<1>4. CASE SyncDir
  BY <1>4 DEF SyncDir, Gapless, Bases, LenOf
<1>5. CASE Open
  BY <1>0, <1>5, OpenGrown, GrownGapless
<1>6. CASE Write \/ Sync \/ FailAppend
  <2>1. Proceeds
    BY <1>6, WriteProceeds, SyncProceeds, FailProceeds
  <2> QED
    BY <2>1, <1>0, GrownGapless DEF Proceeds
<1>7. CASE Kill \/ PowerCut
  BY <1>7, KillGapless, PowerCutGapless
<1> QED
  BY <1>1, <1>2, <1>3, <1>4, <1>5, <1>6, <1>7 DEF JournalNext

\* The loop of replayFile, record by record. A fold over a list is a recursion
\* over the sets of its indices, each reduced by its greatest.
LEMMA DeliverTurns ==
  ASSUME NEW from \in Nat, NEW got \in Seq(Line), NEW lines \in Seq(Line)
  PROVE  \E h : /\ h[0] = got
                /\ \A n \in Nat : n + 1 <= Len(lines) =>
                     h[n + 1] = IF lines[n + 1].seq < from THEN h[n]
                                ELSE Append(h[n], lines[n + 1])
                /\ Delivered(from, got, lines) = h[Len(lines)]
<1> DEFINE D == DOMAIN lines
           Hand(g, l) == IF l.seq < from THEN g ELSE Append(g, l)
           IsRec(f) == f = [s \in SUBSET D |-> IF s = {} THEN got
                                               ELSE Hand(f[s \ {Max(s)}], lines[Max(s)])]
           G == CHOOSE f : IsRec(f)
<1>1. /\ D = 1..Len(lines) /\ Len(lines) \in Nat /\ IsFiniteSet(D)
      /\ \A i \in D : lines[i] \in Line
  BY FS_Interval
<1>2. Delivered(from, got, lines) = G[D]
  BY Zenon DEF Delivered, FoldLeft, MapThenFoldSet
<1>4. ASSUME NEW g \in Seq(Line), NEW l \in Line PROVE Hand(g, l) \in Seq(Line)
  OBVIOUS
<1> DEFINE step == [p \in D \X Seq(Line) |-> Hand(p[2], lines[p[1]])]
           pick == [s \in SUBSET D |-> Max(s)]
<1>5. step \in [D \X Seq(Line) -> Seq(Line)]
  BY <1>1, <1>4
<1>6. Picks(pick, D)
  <2>1. ASSUME NEW s \in SUBSET D, s # {} PROVE Max(s) \in s
    <3>1. s \in SUBSET Nat /\ \A y \in s : y <= Len(lines)
      BY <1>1
    <3> QED
      BY <1>1, <2>1, <3>1, MaxOf
  <2> QED
    BY <2>1 DEF Picks
<1>7. \E f : IsRec(f)
  <2>1. PICK f \in [SUBSET D -> Seq(Line)] : Solves(f, D, got, step, pick)
    <3> HIDE DEF D, step, pick
    <3> QED
      BY <1>1, <1>5, <1>6, SetRecursion, Zenon
  <2>2. ASSUME NEW s \in SUBSET D, s # {}
        PROVE  f[s] = Hand(f[s \ {Max(s)}], lines[Max(s)])
    <3>1. Max(s) \in D /\ s \ {Max(s)} \in SUBSET D /\ pick[s] = Max(s)
      BY <1>6, <2>2 DEF Picks
    <3>2. <<Max(s), f[s \ {Max(s)}]>> \in D \X Seq(Line)
      BY <2>1, <3>1
    <3> QED
      BY <2>1, <2>2, <3>1, <3>2 DEF Solves
  <2>3. \A s \in SUBSET D : f[s] = IF s = {} THEN got ELSE Hand(f[s \ {Max(s)}], lines[Max(s)])
    BY <2>1, <2>2, ZenonT(40) DEF Solves
  <2> QED
    BY <2>1, <2>3
<1>8. G = [s \in SUBSET D |-> IF s = {} THEN got ELSE Hand(G[s \ {Max(s)}], lines[Max(s)])]
  BY <1>7
<1> HIDE DEF G, D
<1> DEFINE h == [n \in 0..Len(lines) |-> G[1..n]]
<1>9. h[0] = got
  <2>1. 0 \in 0..Len(lines) /\ 1..0 = {} /\ {} \in SUBSET D
    BY <1>1
  <2> QED
    BY <1>8, <2>1
<1>10. ASSUME NEW n \in Nat, n + 1 <= Len(lines) PROVE h[n + 1] = Hand(h[n], lines[n + 1])
  <2>1. n \in 0..Len(lines) /\ n + 1 \in 0..Len(lines) /\ 1..n + 1 \in SUBSET D
    BY <1>1, <1>10
  <2>2. G[1..n + 1] = Hand(G[1..n], lines[n + 1])
    <3>1. Max(1..n + 1) = n + 1
      <4>1. 1..n + 1 \in SUBSET Nat /\ n + 1 \in 1..n + 1 /\ \A y \in 1..n + 1 : y <= n + 1
        OBVIOUS
      <4> QED
        BY <4>1, MaxIs
    <3>2. (1..n + 1) \ {n + 1} = 1..n /\ 1..n + 1 # {}
      <4>1. n + 1 \in 1..n + 1 /\ \A i \in 1..n + 1 : i # n + 1 => i \in 1..n
        OBVIOUS
      <4>2. \A i \in 1..n : i \in 1..n + 1 /\ i # n + 1
        OBVIOUS
      <4> QED
        BY <4>1, <4>2
    <3>3. G[1..n + 1] = Hand(G[(1..n + 1) \ {Max(1..n + 1)}], lines[Max(1..n + 1)])
      <4> HIDE DEF Hand
      <4> QED
        BY <1>8, <2>1, <3>2, Zenon
    <3> QED
      BY <3>1, <3>2, <3>3, Zenon
  <2> QED
    BY <2>1, <2>2
<1>11. h[Len(lines)] = G[D]
  BY <1>1
<1> HIDE DEF h
<1> QED
  BY <1>2, <1>9, <1>10, <1>11

\* After n records of a segment s of them were passed over, and the others
\* follow what was delivered before (replayFile).
Handed(g, got, lines, from, n, s) ==
  /\ g \in Seq(Line) /\ Len(g) = Len(got) + (n - s)
  /\ \A i \in 1..s : lines[i].seq < from
  /\ \A i \in s + 1..n : lines[i].seq >= from
  /\ \A i \in 1..Len(got) : g[i] = got[i]
  /\ \A i \in s + 1..n : g[Len(got) + (i - s)] = lines[i]

\* One record more.
LEMMA HandOn ==
  ASSUME NEW from \in Nat, NEW got \in Seq(Line), NEW lines \in Seq(Line), NEW b \in Nat,
         \A i \in 1..Len(lines) : lines[i].seq = b + i - 1,
         NEW n \in Nat, n + 1 <= Len(lines), NEW s \in 0..n, NEW g,
         Handed(g, got, lines, from, n, s)
  PROVE  /\ lines[n + 1].seq < from => Handed(g, got, lines, from, n + 1, n + 1)
         /\ ~(lines[n + 1].seq < from) =>
               Handed(Append(g, lines[n + 1]), got, lines, from, n + 1, s)
<1>1. Len(lines) \in Nat /\ Len(got) \in Nat /\ lines[n + 1] \in Line /\ lines[n + 1].seq \in Nat
  <2>1. n + 1 \in 1..Len(lines)
    OBVIOUS
  <2>2. \A i \in 1..Len(lines) : lines[i] \in Line
    OBVIOUS
  <2>3. \A l \in Line : l.seq \in Nat
    BY DEF Line
  <2> QED
    BY <2>1, <2>2, <2>3
<1>2. g \in Seq(Line) /\ Len(g) = Len(got) + (n - s)
  BY DEF Handed
<1>3. CASE lines[n + 1].seq < from
  <2>1. s = n
    <3>1. SUFFICES ASSUME s # n PROVE FALSE
      OBVIOUS
    <3>2. n \in s + 1..n /\ n \in 1..Len(lines) /\ n + 1 \in 1..Len(lines)
      BY <1>1, <3>1
    <3>3. lines[n].seq >= from
      BY <3>2 DEF Handed
    <3>4. lines[n].seq = b + n - 1 /\ lines[n + 1].seq = b + (n + 1) - 1
      BY <3>2
    <3> QED
      BY <1>3, <3>3, <3>4
  <2>2. ASSUME NEW i \in 1..n + 1 PROVE lines[i].seq < from
    <3>1. i = n + 1 \/ i \in 1..s
      BY <2>1
    <3> QED
      BY <1>3, <3>1 DEF Handed
  <2>3. (n + 1) + 1..n + 1 = {} /\ Len(g) = Len(got) + ((n + 1) - (n + 1))
    BY <1>1, <1>2, <2>1
  <2>4. \A i \in 1..Len(got) : g[i] = got[i]
    BY DEF Handed
  <2> QED
    BY <1>2, <1>3, <2>2, <2>3, <2>4 DEF Handed
<1>4. CASE ~(lines[n + 1].seq < from)
  <2> DEFINE a == Append(g, lines[n + 1])
  <2>1. /\ a \in Seq(Line) /\ Len(a) = Len(g) + 1
        /\ \A i \in 1..Len(g) : a[i] = g[i]
        /\ a[Len(g) + 1] = lines[n + 1]
    BY <1>1, <1>2
  <2> HIDE DEF a
  <2>2. Len(a) = Len(got) + ((n + 1) - s)
    BY <1>1, <1>2, <2>1
  <2>3. ASSUME NEW i \in s + 1..n + 1 PROVE lines[i].seq >= from
    <3>1. i = n + 1 \/ i \in s + 1..n
      OBVIOUS
    <3>2. lines[n + 1].seq >= from
      BY <1>1, <1>4
    <3> QED
      BY <3>1, <3>2 DEF Handed
  <2>4. ASSUME NEW i \in 1..Len(got) PROVE a[i] = got[i]
    <3>1. i \in 1..Len(g)
      BY <1>1, <1>2
    <3>2. g[i] = got[i]
      BY DEF Handed
    <3> QED
      BY <2>1, <3>1, <3>2
  <2>5. ASSUME NEW i \in s + 1..n + 1 PROVE a[Len(got) + (i - s)] = lines[i]
    <3>1. CASE i = n + 1
      <4>1. Len(got) + (i - s) = Len(g) + 1
        BY <1>1, <1>2, <3>1
      <4> QED
        BY <2>1, <3>1, <4>1
    <3>2. CASE i # n + 1
      <4>1. i \in s + 1..n /\ Len(got) + (i - s) \in 1..Len(g)
        BY <1>1, <1>2, <3>2
      <4>2. g[Len(got) + (i - s)] = lines[i]
        BY <4>1 DEF Handed
      <4> QED
        BY <2>1, <4>1, <4>2
    <3> QED
      BY <3>1, <3>2
  <2>6. \A i \in 1..s : lines[i].seq < from
    BY DEF Handed
  <2>7. Handed(a, got, lines, from, n + 1, s)
    BY <2>1, <2>2, <2>3, <2>4, <2>5, <2>6 DEF Handed
  <2> QED
    BY <1>4, <2>7 DEF a
<1> QED
  BY <1>3, <1>4

\* What a segment delivers: all of it from the first record wanted on, as
\* written, after what was delivered before (replayFile).
LEMMA DeliveredIs ==
  ASSUME NEW from \in Nat, NEW got \in Seq(Line), NEW lines \in Seq(Line), NEW b \in Nat,
         \A i \in 1..Len(lines) : lines[i].seq = b + i - 1
  PROVE  \E s \in 0..Len(lines) :
           Handed(Delivered(from, got, lines), got, lines, from, Len(lines), s)
<1> DEFINE d == Delivered(from, got, lines)
<1>1. PICK h : /\ h[0] = got
               /\ \A n \in Nat : n + 1 <= Len(lines) =>
                    h[n + 1] = IF lines[n + 1].seq < from THEN h[n]
                               ELSE Append(h[n], lines[n + 1])
               /\ d = h[Len(lines)]
  BY DeliverTurns, Zenon
<1>2. Len(lines) \in Nat /\ Len(got) \in Nat
  OBVIOUS
<1> HIDE DEF d
<1> DEFINE T == {n \in Nat : n <= Len(lines) =>
                               \E s \in 0..n : Handed(h[n], got, lines, from, n, s)}
<1>3. 0 \in T
  <2>1. Handed(got, got, lines, from, 0, 0)
    BY <1>2 DEF Handed
  <2> QED
    BY <1>1, <2>1
<1>4. ASSUME NEW n \in Nat, n \in T PROVE n + 1 \in T
  <2>1. SUFFICES ASSUME n + 1 <= Len(lines)
                 PROVE  \E s \in 0..n + 1 : Handed(h[n + 1], got, lines, from, n + 1, s)
    BY DEF T
  <2>2. n <= Len(lines)
    BY <1>2, <2>1
  <2>3. PICK s \in 0..n : Handed(h[n], got, lines, from, n, s)
    BY <1>4, <2>2
  <2>4. /\ lines[n + 1].seq < from => Handed(h[n], got, lines, from, n + 1, n + 1)
        /\ ~(lines[n + 1].seq < from) =>
              Handed(Append(h[n], lines[n + 1]), got, lines, from, n + 1, s)
    BY <2>1, <2>3, HandOn
  <2>5. h[n + 1] = IF lines[n + 1].seq < from THEN h[n] ELSE Append(h[n], lines[n + 1])
    BY <1>1, <2>1
  <2>6. n + 1 \in 0..n + 1 /\ s \in 0..n + 1
    OBVIOUS
  <2> QED
    BY <2>4, <2>5, <2>6
<1> HIDE DEF T
<1>5. Len(lines) \in T
  BY <1>2, <1>3, <1>4, Induction DEF Inductive
<1>6. \E s \in 0..Len(lines) : Handed(h[Len(lines)], got, lines, from, Len(lines), s)
  BY <1>2, <1>5 DEF T
<1> QED
  BY <1>1, <1>6 DEF d

\* A segment that is empty although its number is taken: the one that was
\* created after a failed write.
Lost(c) == c = Newest /\ LenOf(c) = 0 /\ disk = "failing"

ReaderType ==
  [pc : {"none", "reading", "done"}, from : Nat, floor : Nat, todo : SUBSET Nat, got : Seq(Line)]

\* The segments still to read, unless they were pruned with all before them,
\* are among the files, and no other file comes between them.
TodoInv ==
  \A c \in reader.todo :
    /\ Bases # {} /\ c <= Newest
    /\ \A x \in Bases : x < c => c \in Bases
    /\ \A x \in Bases : x > c => x \in reader.todo \/ \A y \in reader.todo : x > y

\* What was delivered is consecutive, and goes on in the next segment.
GotInv ==
  /\ \A i \in 1..Len(reader.got) : reader.got[i].seq >= reader.from
  /\ \A i \in 2..Len(reader.got) : reader.got[i].seq = reader.got[i - 1].seq + 1
  /\ Len(reader.got) # 0 /\ reader.todo # {} =>
       \/ reader.got[Len(reader.got)].seq + 1 = Min(reader.todo)
       \/ Lost(Min(reader.todo))

\* What was promised is delivered, or in a segment still to read.
OwedInv ==
  \A t \in told : reader.from <= t.seq /\ kept <= t.seq /\ t.seq <= reader.floor =>
    \/ t \in Range(reader.got)
    \/ \E b \in reader.todo \cap Bases : t \in Range(files[b].lines)

ReplayInv ==
  /\ Gapless /\ reader \in ReaderType
  /\ reader.pc # "none" =>
       /\ Up /\ reader.floor <= last
       /\ reader.pc = "done" => reader.todo = {}
       /\ TodoInv /\ GotInv /\ OwedInv

\* The segments that are wanted: the one that holds the first number wanted,
\* and every later one (Replay).
LEMMA WantedIs ==
  ASSUME JournalInv, NEW n \in Nat
  PROVE  /\ Wanted(n) \subseteq Bases
         /\ \A c \in Wanted(n), x \in Bases : x > c => x \in Wanted(n)
         /\ \A b \in Bases : (\A c \in Bases : c <= b \/ c > n) => b \in Wanted(n)
<1>1. /\ JournalTypeOK /\ \A b \in Bases : b \in Nat \ {0} /\ b <= Newest
      /\ Bases # {} => Newest \in Bases
  BY BasesAre DEF JournalInv
<1>2. \A b \in Bases : /\ b = Newest => NextBase(b) = 0
                       /\ b # Newest => /\ NextBase(b) \in Bases /\ b < NextBase(b)
                                        /\ \A c \in Bases : c <= b \/ NextBase(b) <= c
  BY <1>1, NextBaseIs
<1>3. ASSUME NEW c \in Wanted(n), NEW x \in Bases, x > c, x \notin Wanted(n) PROVE FALSE
  <2>1. c \in Bases /\ ~(NextBase(c) # 0 /\ NextBase(c) <= n)
    BY DEF Wanted
  <2>2. NextBase(x) # 0 /\ NextBase(x) <= n
    BY <1>3 DEF Wanted
  <2>3. NextBase(x) \in Bases /\ x < NextBase(x)
    BY <1>2, <2>2
  <2>4. c # Newest
    BY <1>1, <1>3, <2>1
  <2>5. NextBase(c) \in Bases /\ NextBase(c) <= x
    BY <1>1, <1>2, <1>3, <2>1, <2>4
  <2> QED
    BY <1>1, <2>1, <2>2, <2>3, <2>5
<1>4. ASSUME NEW b \in Bases, \A c \in Bases : c <= b \/ c > n, b \notin Wanted(n) PROVE FALSE
  <2>1. NextBase(b) # 0 /\ NextBase(b) <= n
    BY <1>4 DEF Wanted
  <2>2. NextBase(b) \in Bases /\ b < NextBase(b)
    BY <1>2, <2>1
  <2> QED
    BY <1>1, <1>4, <2>1, <2>2
<1> QED
  BY <1>3, <1>4 DEF Wanted

\* The record a number was promised for is in the segment it falls into.
LEMMA ToldIsThere ==
  ASSUME JournalInv, NEW t \in told, kept <= t.seq
  PROVE  \E b \in Bases : /\ b <= t.seq /\ t \in Range(files[b].lines)
                          /\ \A c \in Bases : c <= b \/ c > t.seq
<1>1. (\A b \in Bases : b \in Nat) /\ t.seq \in Nat /\ kept \in Nat
  BY BasesAre DEF JournalInv
<1> DEFINE S == {b \in Bases : b <= t.seq}
<1>2. S \in SUBSET Nat /\ S # {} /\ \A b \in S : b <= t.seq
  BY <1>1 DEF JournalInv, FilesInv, ToldHeld
<1> HIDE DEF S
<1>3. PICK g \in S : \A b \in S : b <= g
  BY <1>1, <1>2, Greatest
<1>4. g \in Bases /\ g <= t.seq /\ \A c \in Bases : c <= g \/ c > t.seq
  BY <1>1, <1>3 DEF S
<1>5. Held(t, g)
  BY <1>4 DEF JournalInv, FilesInv, ToldHeld
<1>6. t.seq - g + 1 \in DOMAIN files[g].lines
  <2>1. /\ DOMAIN files[g].lines = 1..LenOf(g) /\ LenOf(g) \in Nat
        /\ files[g].synced \in Nat /\ files[g].synced <= LenOf(g)
    BY <1>4, BasesAre DEF JournalInv
  <2> QED
    BY <2>1, <1>5 DEF Held
<1>7. t \in Range(files[g].lines)
  BY <1>5, <1>6 DEF Held, Range
<1> QED
  BY <1>4, <1>7

\* A replay begins: it will read every segment that holds what it was promised
\* (Replay).
LEMMA ListReplays ==
  ASSUME JournalInv, Gapless, NEW n \in 1..MaxSeq, ListSegments(n)
  PROVE  ReplayInv'
<1>1. /\ reader'.pc = "reading" /\ reader'.from = n /\ reader'.floor = Promised
      /\ reader'.todo = Wanted(n) /\ reader'.got = <<>>
      /\ UNCHANGED <<files, pc, last, disk, told, kept>> /\ Up
      /\ reader' = [pc |-> "reading", from |-> n, floor |-> Promised, todo |-> Wanted(n),
                    got |-> <<>>]
  BY DEF ListSegments, Promised, open, history, Up
<1>2. Promised = last /\ Promised \in Nat /\ n \in Nat
  BY <1>1, PromisedIs, BasesAre DEF JournalInv
<1>3. \A b \in Bases : b \in Nat /\ b <= Newest
  BY BasesAre DEF JournalInv
<1>4. /\ Wanted(n) \subseteq Bases
      /\ \A c \in Wanted(n), x \in Bases : x > c => x \in Wanted(n)
      /\ \A b \in Bases : (\A c \in Bases : c <= b \/ c > n) => b \in Wanted(n)
  BY <1>2, WantedIs
<1>5. reader' \in ReaderType
  <2>1. Wanted(n) \in SUBSET Nat /\ <<>> \in Seq(Line)
    BY <1>3, <1>4
  <2> QED
    BY <1>1, <1>2, <2>1 DEF ReaderType
<1>6. Bases' = Bases /\ Newest' = Newest /\ \A b : LenOf(b)' = LenOf(b)
  BY <1>1 DEF Bases, Newest, LenOf
<1>7. TodoInv'
  <2> HIDE DEF Bases
  <2> QED
    BY <1>1, <1>3, <1>4, <1>6 DEF TodoInv
<1>8. GotInv'
  BY <1>1 DEF GotInv
<1>9. OwedInv'
  <2>1. SUFFICES ASSUME NEW t \in told, n <= t.seq, kept <= t.seq
                 PROVE  \E b \in Wanted(n) \cap Bases : t \in Range(files[b].lines)
    BY <1>1, <1>6 DEF OwedInv
  <2>2. PICK b \in Bases : /\ b <= t.seq /\ t \in Range(files[b].lines)
                           /\ \A c \in Bases : c <= b \/ c > t.seq
    BY <2>1, ToldIsThere
  <2>3. t.seq \in Nat
    BY BasesAre DEF JournalInv
  <2>4. b \in Wanted(n)
    <3>1. ASSUME NEW c \in Bases PROVE c <= b \/ c > n
      BY <1>2, <1>3, <2>1, <2>2, <2>3
    <3> QED
      BY <1>4, <3>1
  <2> QED
    BY <2>2, <2>4
<1>10. Gapless'
  BY <1>6 DEF Gapless
<1> QED
  BY <1>1, <1>2, <1>5, <1>7, <1>8, <1>9, <1>10 DEF ReplayInv, Up

\* An append does not disturb a replay: what is added is after what the replay
\* owes (Append).
LEMMA ProceedReplays ==
  ASSUME JournalInv, JournalInv', ReplayInv, Proceeds
  PROVE  ReplayInv'
<1>1. /\ JournalTypeOK /\ JournalTypeOK' /\ Grown /\ reader' = reader /\ kept' = kept
      /\ Bases' = Bases /\ Newest' = Newest /\ Up'
  BY DEF JournalInv, Proceeds, Grown, Newest
<1>2. Gapless'
  BY <1>1, GrownGapless DEF ReplayInv
<1>3. CASE reader.pc = "none"
  BY <1>1, <1>2, <1>3 DEF ReplayInv
<1>4. CASE reader.pc # "none"
  <2>0. /\ reader.floor \in Nat /\ last \in Nat /\ reader.floor <= last
        /\ TodoInv /\ GotInv /\ OwedInv /\ reader.todo \in SUBSET Nat
    BY <1>1, <1>4, BasesAre DEF ReplayInv, ReaderType
  <2>1. TodoInv'
    <3> HIDE DEF Bases, Newest
    <3> QED
      BY <1>1, <2>0 DEF TodoInv
  <2>2. GotInv'
    <3>1. ASSUME NEW c \in reader.todo, Lost(c) PROVE Lost(c)'
      <4>1. Bases # {} /\ Newest \in Bases
        BY <1>1, <2>0, BasesAre DEF TodoInv
      <4>2. LenOf(c)' = LenOf(c) /\ disk' = "failing"
        BY <3>1, <4>1 DEF Lost, Proceeds
      <4> QED
        BY <1>1, <3>1, <4>2 DEF Lost
    <3>2. reader.todo # {} => Min(reader.todo) \in reader.todo
      BY <2>0, MinOf
    <3> QED
      BY <1>1, <2>0, <3>1, <3>2 DEF GotInv
  <2>3. OwedInv'
    <3> SUFFICES ASSUME NEW t \in told', reader.from <= t.seq, kept <= t.seq,
                        t.seq <= reader.floor
                 PROVE  \/ t \in Range(reader.got)
                        \/ \E b \in reader.todo \cap Bases : t \in Range(files'[b].lines)
      BY <1>1 DEF OwedInv
    <3>1. t \in told
      <4>1. SUFFICES ASSUME t \in told' \ told PROVE FALSE
        OBVIOUS
      <4>2. t.seq > last
        BY <4>1 DEF Proceeds
      <4>3. t.seq \in Nat
        BY <1>1, JournalBounds DEF JournalTypeOK
      <4> QED
        BY <2>0, <4>2, <4>3
    <3>2. \/ t \in Range(reader.got)
          \/ \E b \in reader.todo \cap Bases : t \in Range(files[b].lines)
      BY <2>0, <3>1 DEF OwedInv
    <3> QED
      BY <1>1, <3>2, LineStays
  <2>4. reader'.floor <= last'
    BY <1>1, <2>0 DEF Proceeds
  <2> QED
    BY <1>1, <1>2, <1>4, <2>1, <2>2, <2>3, <2>4 DEF ReplayInv
<1> QED
  BY <1>3, <1>4

\* Nor does a new segment, which comes after all the replay listed
\* (ensureSegment).
LEMMA CreateReplays ==
  ASSUME JournalInv, JournalInv', ReplayInv, Creates
  PROVE  ReplayInv'
<1>1. /\ JournalTypeOK /\ JournalTypeOK' /\ Up' /\ last \in Nat
      /\ UNCHANGED <<reader, kept, last, told, disk>>
      /\ Bases' = Bases \cup {last + 1} /\ last + 1 \notin Bases
      /\ \A b \in Bases : /\ files'[b] = files[b] /\ b \in Nat /\ b <= Newest
                          /\ LenOf(b) \in Nat
      /\ Bases # {} => Newest \in Bases /\ Newest <= last /\ LenOf(Newest) # 0
  BY BasesAre DEF JournalInv, Creates
<1>2. Gapless'
  BY <1>1, CreateGapless DEF ReplayInv
<1>3. CASE reader.pc = "none"
  BY <1>1, <1>2, <1>3 DEF ReplayInv
<1>4. CASE reader.pc # "none"
  <2>0. /\ TodoInv /\ GotInv /\ OwedInv /\ reader.todo \in SUBSET Nat
    BY <1>4 DEF ReplayInv, ReaderType
  <2>1. Newest' = last + 1
    <3>1. Bases' \in SUBSET Nat /\ last + 1 \in Bases' /\ \A b \in Bases' : b <= last + 1
      BY <1>1
    <3> HIDE DEF Bases
    <3>2. Max(Bases') = last + 1
      BY <3>1, MaxIs
    <3> QED
      BY <3>2 DEF Newest
  <2>2. TodoInv'
    <3> SUFFICES ASSUME NEW c \in reader.todo
                 PROVE  /\ Bases' # {} /\ c <= Newest'
                        /\ \A x \in Bases' : x < c => c \in Bases'
                        /\ \A x \in Bases' : x > c => \/ x \in reader.todo
                                                      \/ \A y \in reader.todo : x > y
      BY <1>1 DEF TodoInv
    <3>1. /\ Bases # {} /\ Newest \in Nat /\ Newest <= last
          /\ \A y \in reader.todo : y \in Nat /\ y <= Newest
      BY <1>1, <2>0 DEF TodoInv
    <3>2. \A x \in Bases : x < c => c \in Bases
      BY <2>0 DEF TodoInv
    <3>3. \A x \in Bases : x > c => x \in reader.todo \/ \A y \in reader.todo : x > y
      BY <2>0 DEF TodoInv
    <3>4. c < last + 1 /\ \A y \in reader.todo : last + 1 > y
      BY <1>1, <3>1
    <3> QED
      BY <1>1, <2>1, <3>1, <3>2, <3>3, <3>4
  <2>3. GotInv'
    <3>1. ASSUME NEW c \in reader.todo, Lost(c) PROVE FALSE
      <4>1. Bases # {}
        BY <2>0 DEF TodoInv
      <4> QED
        BY <1>1, <3>1, <4>1 DEF Lost
    <3>2. reader.todo # {} => Min(reader.todo) \in reader.todo
      BY <2>0, MinOf
    <3> QED
      BY <1>1, <2>0, <3>1, <3>2 DEF GotInv
  <2>4. OwedInv'
    BY <1>1, <2>0 DEF OwedInv
  <2> QED
    BY <1>1, <1>2, <1>4, <2>2, <2>3, <2>4 DEF ReplayInv
<1> QED
  BY <1>3, <1>4

\* What a pruning takes from a replay it did not owe (Prune).
LEMMA PruneReplays ==
  ASSUME JournalInv, JournalInv', ReplayInv, NEW k \in 1..MaxSeq, Prune(k)
  PROVE  ReplayInv'
<1>1. /\ JournalTypeOK /\ Up /\ Up' /\ UNCHANGED <<reader, last, told, disk>>
      /\ kept' \in Nat /\ k <= kept' /\ kept <= kept' /\ kept \in Nat /\ k \in Nat
      /\ Bases' \subseteq Bases /\ Newest' = Newest /\ Newest \in Bases'
      /\ \A b \in Bases' : files'[b] = files[b]
      /\ \A b \in Bases', c \in Bases : b < c => c \in Bases'
      /\ \A b \in Bases \ Bases' : /\ NextBase(b) \in Bases /\ b < NextBase(b)
                                   /\ NextBase(b) <= k
      /\ last \in Nat
  BY PruneIs, BasesAre DEF JournalInv
<1>2. Gapless'
  BY PruneGapless DEF ReplayInv
<1>3. CASE reader.pc = "none"
  BY <1>1, <1>2, <1>3 DEF ReplayInv
<1>4. CASE reader.pc # "none"
  <2>0. /\ TodoInv /\ GotInv /\ OwedInv /\ reader.todo \in SUBSET Nat
    BY <1>4 DEF ReplayInv, ReaderType
  <2>1. TodoInv'
    <3> SUFFICES ASSUME NEW c \in reader.todo
                 PROVE  /\ Bases' # {} /\ c <= Newest
                        /\ \A x \in Bases' : x < c => c \in Bases'
                        /\ \A x \in Bases' : x > c => \/ x \in reader.todo
                                                      \/ \A y \in reader.todo : x > y
      BY <1>1 DEF TodoInv
    <3>1. c <= Newest /\ \A x \in Bases : x < c => c \in Bases
      BY <2>0 DEF TodoInv
    <3>2. \A x \in Bases : x > c => x \in reader.todo \/ \A y \in reader.todo : x > y
      BY <2>0 DEF TodoInv
    <3> QED
      BY <1>1, <3>1, <3>2
  <2>2. GotInv'
    <3>1. \A c \in reader.todo : Lost(c) => Lost(c)'
      BY <1>1 DEF Lost, LenOf
    <3>2. reader.todo # {} => Min(reader.todo) \in reader.todo
      BY <2>0, MinOf
    <3> QED
      BY <1>1, <2>0, <3>1, <3>2 DEF GotInv
  <2>3. OwedInv'
    <3> SUFFICES ASSUME NEW t \in told, reader.from <= t.seq, kept' <= t.seq,
                        t.seq <= reader.floor, t \notin Range(reader.got)
                 PROVE  \E b \in reader.todo \cap Bases' : t \in Range(files'[b].lines)
      BY <1>1 DEF OwedInv
    <3>0. t.seq \in Nat /\ t.seq <= last
      BY <1>1, BasesAre DEF JournalInv, Positioned
    <3>1. PICK b \in reader.todo \cap Bases : t \in Range(files[b].lines)
      BY <1>1, <2>0, <3>0 DEF OwedInv
    <3>2. b \in Bases'
      <4> SUFFICES ASSUME b \notin Bases' PROVE FALSE
        OBVIOUS
      <4> DEFINE c == NextBase(b)
      <4>1. c \in Bases /\ b < c /\ c <= k /\ b \in Nat /\ c \in Nat /\ LenOf(b) \in Nat
            /\ DOMAIN files[b].lines = 1..LenOf(b) /\ LenOf(c) \in Nat
        BY <1>1, <3>1, BasesAre
      <4> HIDE DEF c
      <4>2. PICK i \in 1..LenOf(b) : files[b].lines[i] = t
        BY <3>1, <4>1 DEF Range
      <4>3. t.seq = b + i - 1
        BY <3>1, <4>2 DEF JournalInv, FilesInv, Numbered
      <4>4. \/ b + LenOf(b) <= c
            \/ c = Newest /\ LenOf(c) = 0 /\ b + LenOf(b) = c + 1
        BY <3>1, <4>1 DEF JournalInv, FilesInv, Chained
      <4>5. k <= t.seq
        BY <1>1, <3>0
      <4>6. CASE b + LenOf(b) <= c
        BY <4>1, <4>2, <4>3, <4>5, <4>6
      <4>7. CASE c = Newest /\ LenOf(c) = 0 /\ b + LenOf(b) = c + 1
        <5>1. Newest + LenOf(Newest) \in {last + 1, last + 2} /\ Newest <= last + 1
          BY <1>1, <4>1 DEF JournalInv, Positioned
        <5>2. c = last + 1
          BY <1>1, <4>1, <4>7, <5>1
        <5> QED
          BY <1>1, <3>0, <4>1, <4>5, <5>2
      <4> QED
        BY <4>4, <4>6, <4>7
    <3> QED
      BY <1>1, <3>1, <3>2
  <2> QED
    BY <1>1, <1>2, <1>4, <2>1, <2>2, <2>3 DEF ReplayInv
<1> QED
  BY <1>3, <1>4

\* A list of consecutive records, none before the first one wanted.
Runs(g, from) ==
  /\ \A i \in 1..Len(g) : g[i].seq >= from
  /\ \A i \in 2..Len(g) : g[i].seq = g[i - 1].seq + 1

NumberedFrom(lines, b) == \A i \in 1..Len(lines) : lines[i].seq = b + i - 1

\* It holds what another one holds and what is wanted of the lines of a segment.
Takes(g, got, lines, from, b) ==
  /\ Len(lines) # 0 /\ Len(g) # 0 => g[Len(g)].seq + 1 = b + Len(lines)
  /\ Range(got) \subseteq Range(g)
  /\ \A i \in 1..Len(lines) : lines[i].seq >= from => lines[i] \in Range(g)

\* What a segment adds goes on from what was delivered before it, and nothing
\* of it that is wanted is left out (replayFile).
LEMMA HandedRuns ==
  ASSUME NEW from \in Nat, NEW got \in Seq(Line), NEW lines \in Seq(Line), NEW b \in Nat,
         NumberedFrom(lines, b), Runs(got, from),
         Len(got) # 0 => got[Len(got)].seq + 1 = b \/ Len(lines) = 0,
         NEW s \in 0..Len(lines), NEW g, Handed(g, got, lines, from, Len(lines), s)
  PROVE  Runs(g, from) /\ Takes(g, got, lines, from, b)
<1> DEFINE n == Len(lines)
           m == Len(got)
<1>1. n \in Nat /\ m \in Nat /\ DOMAIN got = 1..m
  OBVIOUS
<1>2. /\ g \in Seq(Line) /\ Len(g) = m + (n - s) /\ DOMAIN g = 1..Len(g)
      /\ \A i \in 1..s : lines[i].seq < from
      /\ \A i \in s + 1..n : lines[i].seq >= from
      /\ \A i \in 1..m : g[i] = got[i]
      /\ \A i \in s + 1..n : g[m + (i - s)] = lines[i]
  BY DEF Handed
<1>3. \A i \in 1..n : lines[i].seq = b + i - 1
  BY DEF NumberedFrom
<1>4. m # 0 => got[m].seq + 1 = b \/ n = 0
  OBVIOUS
<1>5. /\ \A i \in 1..m : got[i].seq >= from
      /\ \A i \in 2..m : got[i].seq = got[i - 1].seq + 1
      /\ \A i \in 1..m : got[i].seq \in Nat
  <2>1. \A i \in 1..m : got[i] \in Line
    OBVIOUS
  <2>2. \A l \in Line : l.seq \in Nat
    BY DEF Line
  <2> QED
    BY <2>1, <2>2 DEF Runs
<1> HIDE DEF n, m
<1>6. m # 0 => s = 0
  <2>1. SUFFICES ASSUME m # 0, s # 0 PROVE FALSE
    OBVIOUS
  <2>2. 1 \in 1..s /\ 1 \in 1..n /\ n # 0
    BY <1>1, <2>1 DEF n
  <2>3. m \in 1..m
    BY <1>1, <2>1
  <2>4. got[m].seq + 1 = b /\ got[m].seq >= from /\ lines[1].seq < from /\ lines[1].seq = b + 1 - 1
    BY <1>2, <1>3, <1>4, <1>5, <2>1, <2>2, <2>3
  <2> QED
    BY <1>5, <2>3, <2>4
<1>7. \A i \in 1..Len(g) : i <= m \/ (i > m /\ i - m + s \in s + 1..n /\ i - m + s \in 1..n
                                      /\ g[i] = lines[i - m + s])
  <2> SUFFICES ASSUME NEW i \in 1..Len(g), i > m
               PROVE  i - m + s \in s + 1..n /\ i - m + s \in 1..n /\ g[i] = lines[i - m + s]
    BY <1>1
  <2>1. i - m + s \in s + 1..n /\ i - m + s \in 1..n
    BY <1>1, <1>2 DEF n
  <2>2. m + ((i - m + s) - s) = i
    BY <1>1
  <2> QED
    BY <1>2, <2>1, <2>2
<1>8. ASSUME NEW i \in 1..Len(g) PROVE g[i].seq >= from
  <2>1. CASE i <= m
    <3>1. i \in 1..m
      BY <1>1, <2>1
    <3> QED
      BY <1>2, <1>5, <3>1
  <2>2. CASE ~(i <= m)
    BY <1>2, <1>7, <2>2
  <2> QED
    BY <2>1, <2>2
<1>9. ASSUME NEW i \in 2..Len(g) PROVE g[i].seq = g[i - 1].seq + 1
  <2>0. Len(g) \in Nat /\ i \in 1..Len(g) /\ i - 1 \in 1..Len(g)
    BY <1>2
  <2>1. CASE i <= m
    <3>1. i \in 2..m /\ i \in 1..m /\ i - 1 \in 1..m
      BY <1>1, <2>1
    <3> QED
      BY <1>2, <1>5, <3>1
  <2>2. CASE i = m + 1
    <3>1. m # 0 /\ s = 0 /\ i - 1 = m /\ m \in 1..m
      BY <1>1, <1>6, <2>0, <2>2
    <3>2. ~(i <= m)
      BY <1>1, <2>2
    <3>3. i - m + s = 1 /\ 1 \in 1..n /\ g[i] = lines[1]
      <4>1. i - m + s = 1
        BY <1>1, <2>2, <3>1
      <4> QED
        BY <1>7, <2>0, <3>2, <4>1
    <3>4. g[i].seq = b + 1 - 1
      BY <1>3, <3>3
    <3>5. n # 0
      BY <1>1, <3>3
    <3>6. g[i - 1] = got[m] /\ got[m].seq + 1 = b
      BY <1>2, <1>4, <3>1, <3>5
    <3> QED
      BY <3>4, <3>6
  <2>3. CASE i > m + 1
    <3>1. ~(i <= m) /\ ~(i - 1 <= m)
      BY <1>1, <2>3
    <3>2. i - m + s \in 1..n /\ g[i] = lines[i - m + s]
      BY <1>7, <2>0, <3>1
    <3>3. (i - 1) - m + s \in 1..n /\ g[i - 1] = lines[(i - 1) - m + s]
      BY <1>7, <2>0, <3>1
    <3>4. g[i].seq = b + (i - m + s) - 1 /\ g[i - 1].seq = b + ((i - 1) - m + s) - 1
      BY <1>3, <3>2, <3>3
    <3> QED
      BY <1>1, <3>4
  <2> QED
    BY <1>1, <2>1, <2>2, <2>3
<1>10. ASSUME n # 0, Len(g) # 0 PROVE g[Len(g)].seq + 1 = b + n
  <2>1. s # n
    <3>1. CASE m = 0
      BY <1>2, <1>10, <3>1
    <3>2. CASE m # 0
      BY <1>6, <1>10, <3>2
    <3> QED
      BY <3>1, <3>2
  <2>2. n \in s + 1..n /\ n \in 1..n
    BY <1>1, <1>10, <2>1 DEF n
  <2>3. g[Len(g)] = lines[n] /\ lines[n].seq = b + n - 1
    BY <1>2, <1>3, <2>2
  <2> QED
    BY <1>1, <2>3
<1>12. \A i \in 1..m : i \in 1..Len(g)
  BY <1>1, <1>2 DEF n
<1>13. Range(got) \subseteq Range(g)
  BY <1>1, <1>2, <1>12 DEF Range
<1>14. ASSUME NEW i \in 1..n, lines[i].seq >= from PROVE lines[i] \in Range(g)
  <2>1. lines[i].seq = b + i - 1
    BY <1>3
  <2>2. ~(i \in 1..s)
    BY <1>2, <1>14, <2>1
  <2>3. i \in s + 1..n /\ m + (i - s) \in 1..Len(g)
    BY <1>1, <1>2, <2>2 DEF n
  <2> QED
    BY <1>2, <2>3 DEF Range
<1> QED
  BY <1>8, <1>9, <1>10, <1>13, <1>14 DEF n, m, Runs, Takes

\* A segment is read: what it adds goes on from what was delivered, and the
\* next segment goes on from it (Replay, replayFile).
LEMMA ReadReplays ==
  ASSUME JournalInv, ReplayInv, ReadSegment
  PROVE  ReplayInv'
<1> DEFINE b == Min(reader.todo)
           lines == files[b].lines
           got == reader.got
           g == Delivered(reader.from, got, lines)
           rest == reader.todo \ {b}
<1>1. /\ reader.pc = "reading" /\ reader.todo # {} /\ b \in Bases
      /\ reader' = [reader EXCEPT !.todo = rest, !.got = g]
      /\ UNCHANGED <<files, pc, last, disk, told, kept>>
  BY DEF ReadSegment, open, history
<1>2. /\ JournalTypeOK /\ Gapless /\ Up /\ reader.floor <= last /\ reader \in ReaderType
      /\ reader.todo \in SUBSET Nat /\ got \in Seq(Line) /\ reader.from \in Nat
      /\ TodoInv /\ GotInv /\ OwedInv
  BY <1>1 DEF ReplayInv, ReaderType, JournalInv
<1>3. /\ reader'.pc = reader.pc /\ reader'.from = reader.from /\ reader'.floor = reader.floor
      /\ reader'.todo = rest /\ reader'.got = g
      /\ Bases' = Bases /\ Newest' = Newest /\ Up' /\ \A x : LenOf(x)' = LenOf(x)
  BY <1>1, <1>2 DEF ReaderType, Bases, Newest, LenOf, Up
<1>4. /\ b \in Nat /\ lines \in Seq(Line) /\ Len(lines) \in Nat /\ Len(got) \in Nat
      /\ \A i \in 1..Len(lines) : lines[i].seq = b + i - 1
      /\ DOMAIN lines = 1..Len(lines)
      /\ NumberedFrom(lines, b)
  BY <1>1, <1>2, BasesAre DEF JournalInv, FilesInv, Numbered, LenOf, NumberedFrom
<1>5. \A y \in reader.todo : b <= y
  BY <1>1, <1>2, MinOf
<1>6. b \in reader.todo
  BY <1>1, <1>2, MinOf
<1>7. PICK s \in 0..Len(lines) : Handed(g, got, lines, reader.from, Len(lines), s)
  <2> HIDE DEF b, lines, got
  <2> QED
    BY <1>2, <1>4, DeliveredIs
<1>8. /\ Runs(got, reader.from)
      /\ Len(got) # 0 => got[Len(got)].seq + 1 = b \/ Lost(b)
  BY <1>1, <1>2 DEF GotInv, Runs
<1> HIDE DEF b, lines, got, g, rest
<1>9. Len(got) # 0 => got[Len(got)].seq + 1 = b \/ Len(lines) = 0
  BY <1>8 DEF Lost, LenOf, lines
<1>10. Runs(g, reader.from) /\ Takes(g, got, lines, reader.from, b)
  BY <1>2, <1>4, <1>7, <1>8, <1>9, HandedRuns
<1>11. g \in Seq(Line) /\ Len(g) \in Nat
  BY <1>7 DEF Handed
<1>12. rest \in SUBSET Nat /\ rest \subseteq reader.todo /\ \A x \in reader.todo : x = b \/ x \in rest
  BY <1>2 DEF rest
<1>13. TodoInv'
  <2> SUFFICES ASSUME NEW c \in rest
               PROVE  /\ Bases # {} /\ c <= Newest
                      /\ \A x \in Bases : x < c => c \in Bases
                      /\ \A x \in Bases : x > c => x \in rest \/ \A y \in rest : x > y
    BY <1>3 DEF TodoInv
  <2>1. /\ Bases # {} /\ c <= Newest
        /\ \A x \in Bases : x < c => c \in Bases
        /\ \A x \in Bases : x > c => x \in reader.todo \/ \A y \in reader.todo : x > y
    BY <1>2, <1>12 DEF TodoInv
  <2>2. b <= c /\ c \in Nat
    BY <1>5, <1>12
  <2>3. ASSUME NEW x \in Bases, x > c PROVE x # b
    BY <1>4, <2>2, <2>3
  <2> QED
    BY <1>12, <2>1, <2>3
<1>14. GotInv'
  <2> DEFINE c == Min(rest)
  <2>1. SUFFICES ASSUME Len(g) # 0, rest # {}
                 PROVE  g[Len(g)].seq + 1 = c \/ Lost(c)
    BY <1>1, <1>3, <1>10 DEF GotInv, Lost, Runs
  <2>2. c \in rest /\ \A y \in rest : c <= y
    BY <1>12, <2>1, MinOf
  <2> HIDE DEF c
  <2>3. c \in Nat /\ b < c
    <3>1. b <= c /\ c # b /\ c \in Nat
      BY <1>5, <1>12, <2>2 DEF rest
    <3> QED
      BY <1>4, <3>1
  <2>4. c \in Bases /\ c <= Newest /\ \A x \in Bases : x \in Nat /\ x <= Newest
    BY <1>1, <1>2, <1>12, <2>2, <2>3, BasesAre DEF TodoInv
  <2>5. \A x \in Bases : x <= b \/ c <= x
    <3> SUFFICES ASSUME NEW x \in Bases, x > b PROVE c <= x
      BY <1>4, <2>4
    <3>1. x \in reader.todo \/ \A y \in reader.todo : x > y
      BY <1>2, <1>6 DEF TodoInv
    <3>2. CASE x \in reader.todo
      <4>1. x # b
        BY <1>4
      <4> QED
        BY <1>12, <2>2, <3>2, <4>1
    <3>3. CASE \A y \in reader.todo : x > y
      BY <1>12, <2>2, <2>3, <2>4, <3>3
    <3> QED
      BY <3>1, <3>2, <3>3
  <2>6. c <= b + LenOf(b)
    BY <1>1, <1>2, <2>3, <2>4, <2>5 DEF Gapless
  <2>7. LenOf(b) = Len(lines) /\ Len(lines) # 0
    <3>1. LenOf(b) = Len(lines)
      BY DEF LenOf, lines
    <3> QED
      BY <3>1, <1>4, <2>3, <2>6
  <2>8. g[Len(g)].seq + 1 = b + LenOf(b)
    BY <1>10, <2>1, <2>7 DEF Takes
  <2>9. \/ b + LenOf(b) <= c
        \/ c = Newest /\ LenOf(c) = 0 /\ disk = "failing"
    <3>1. Chained
      BY DEF JournalInv, FilesInv
    <3>2. b \in Bases /\ c \in Bases /\ b < c
      BY <1>1, <2>3, <2>4
    <3> QED
      BY <3>1, <3>2, Zenon DEF Chained
  <2>10. CASE b + LenOf(b) <= c
    <3>1. b + LenOf(b) = c
      BY <1>4, <2>3, <2>6, <2>7, <2>10
    <3> QED
      BY <2>8, <3>1
  <2>11. CASE c = Newest /\ LenOf(c) = 0 /\ disk = "failing"
    BY <2>11 DEF Lost
  <2> QED
    BY <2>9, <2>10, <2>11
<1>15. OwedInv'
  <2> SUFFICES ASSUME NEW t \in told, reader.from <= t.seq, kept <= t.seq,
                      t.seq <= reader.floor, t \notin Range(g)
               PROVE  \E x \in rest \cap Bases : t \in Range(files[x].lines)
    BY <1>1, <1>3 DEF OwedInv
  <2>1. t \notin Range(got)
    BY <1>10 DEF Takes
  <2>2. PICK x \in reader.todo \cap Bases : t \in Range(files[x].lines)
    BY <1>2, <2>1 DEF OwedInv, got
  <2>3. x # b
    <3> SUFFICES ASSUME x = b PROVE FALSE
      OBVIOUS
    <3>1. t \in Range(lines)
      BY <2>2 DEF lines
    <3>2. PICK i \in 1..Len(lines) : lines[i] = t
      BY <1>4, <3>1 DEF Range
    <3>3. t.seq \in Nat /\ ~(t.seq < reader.from)
      BY <1>2, BasesAre
    <3>4. lines[i].seq >= reader.from
      BY <1>2, <3>2, <3>3
    <3> QED
      BY <1>10, <3>2, <3>4 DEF Takes
  <2> QED
    BY <1>12, <2>2, <2>3
<1>16. reader' \in ReaderType
  BY <1>1, <1>2, <1>11, <1>12 DEF ReaderType
<1>17. Gapless'
  BY <1>2, <1>3 DEF Gapless
<1>18. reader'.floor <= last' /\ reader'.pc # "done"
  BY <1>1, <1>2, <1>3
<1> QED
  BY <1>3, <1>13, <1>14, <1>15, <1>16, <1>17, <1>18 DEF ReplayInv

\* No replay is under way, and the segments leave no gap.
LEMMA NoReplay ==
  ASSUME Gapless', reader' \in ReaderType, reader'.pc = "none"
  PROVE  ReplayInv'
BY DEF ReplayInv

\* A replay that ends has nothing left to read (Replay).
LEMMA EndReplays ==
  ASSUME ReplayInv, EndReplay
  PROVE  ReplayInv'
<1>1. /\ reader.pc = "reading" /\ reader.todo = {} /\ reader \in ReaderType
      /\ reader' = [reader EXCEPT !.pc = "done"]
      /\ UNCHANGED <<files, pc, last, disk, told, kept>>
      /\ Gapless /\ Up /\ reader.floor <= last /\ TodoInv /\ GotInv /\ OwedInv
  BY DEF EndReplay, ReplayInv, open, history
<1>2. /\ reader' \in ReaderType /\ reader'.from = reader.from /\ reader'.floor = reader.floor
      /\ reader'.todo = {} /\ reader'.got = reader.got
      /\ Bases' = Bases /\ \A b : LenOf(b)' = LenOf(b)
  BY <1>1 DEF ReaderType, Bases, LenOf
<1>3. Gapless' /\ TodoInv' /\ Up'
  BY <1>1, <1>2 DEF Gapless, TodoInv, Up
<1>4. GotInv'
  BY <1>1, <1>2 DEF GotInv
<1>5. OwedInv'
  BY <1>1, <1>2 DEF OwedInv
<1> QED
  BY <1>1, <1>2, <1>3, <1>4, <1>5 DEF ReplayInv

\* Every step keeps what a replay relies on.
LEMMA ReplayStep ==
  ASSUME OrderlyAssumption, JournalInv, JournalInv', ReplayInv, [JournalNext]_vars
  PROVE  ReplayInv'
<1>0. Gapless' /\ JournalTypeOK /\ reader \in ReaderType
  BY GaplessStep DEF ReplayInv, JournalInv
<1>1. NoReader \in ReaderType /\ NoReader.pc = "none"
  BY DEF NoReader, ReaderType
<1>2. CASE \E r \in Records, n \in 1..MaxSeq : MakeRoom(r, n)
  <2>1. Proceeds \/ Creates
    BY <1>2, RoomSteps
  <2> QED
    BY <2>1, ProceedReplays, CreateReplays
<1>3. CASE \E k \in 1..MaxSeq : Prune(k)
  BY <1>3, PruneReplays
<1>4. CASE SyncDir
  <2>1. /\ files' = files /\ Up /\ Up' /\ UNCHANGED <<reader, kept, last, told>>
        /\ disk = "failing" => disk' = "failing"
    BY <1>4 DEF SyncDir, Up, open, history
  <2>2. Proceeds
    BY <1>0, <2>1, IdleProceeds
  <2> QED
    BY <2>2, ProceedReplays
<1>5. CASE Write \/ Sync \/ FailAppend
  <2>1. Proceeds
    BY <1>5, WriteProceeds, SyncProceeds, FailProceeds
  <2> QED
    BY <2>1, ProceedReplays
<1>6. CASE Open
  <2>1. ~Up /\ reader' = reader
    BY <1>6 DEF Open, Up
  <2>2. reader.pc = "none"
    BY <2>1 DEF ReplayInv
  <2> QED
    BY <1>0, <2>1, <2>2, NoReplay
<1>7. CASE Kill \/ PowerCut \/ LeaveReplay
  <2>1. reader' = NoReader
    BY <1>7 DEF Kill, PowerCut, Down, LeaveReplay
  <2> QED
    BY <1>0, <1>1, <2>1, NoReplay
<1>8. CASE \E n \in 1..MaxSeq : ListSegments(n)
  BY <1>8, ListReplays DEF ReplayInv
<1>9. CASE ReadSegment
  BY <1>9, ReadReplays
<1>10. CASE EndReplay
  BY <1>10, EndReplays
<1>11. CASE UNCHANGED vars
  <2>1. UNCHANGED <<files, pc, last, disk, told, kept, reader>>
    BY <1>11 DEF vars
  <2>2. CASE Up
    <3>1. Proceeds
      BY <1>0, <2>1, <2>2, IdleProceeds DEF Up
    <3> QED
      BY <3>1, ProceedReplays
  <2>3. CASE ~Up
    <3>1. reader.pc = "none"
      BY <2>3 DEF ReplayInv
    <3> QED
      BY <1>0, <2>1, <3>1, NoReplay
  <2> QED
    BY <2>2, <2>3
<1> QED
  BY <1>2, <1>3, <1>4, <1>5, <1>6, <1>7, <1>8, <1>9, <1>10, <1>11 DEF JournalNext

\* No files, no replay.
LEMMA ReplayInit == JournalInit => ReplayInv
<1> SUFFICES ASSUME JournalInit PROVE ReplayInv
  OBVIOUS
<1>1. reader \in ReaderType /\ reader.pc = "none"
  BY DEF JournalInit, NoReader, ReaderType
<1>2. Bases = {}
  BY DEF JournalInit, Bases
<1> QED
  BY <1>1, <1>2 DEF ReplayInv, Gapless

\* "Replay calls fn for every record with Seq >= from": a replay that ends
\* without an error delivered every record from the first one wanted to the
\* last one promised when it began, once, in order and as written, although it
\* takes no lock: whatever was appended, rotated and pruned while it read, and
\* whatever crashes and failed writes the segments had been through.
THEOREM ReplaysAreExact ==
  ASSUME OrderlyAssumption
  PROVE  JournalSpec => []ReplayIsExact
<1>1. JournalInv /\ ReplayInv => ReplayIsExact
  <2> SUFFICES ASSUME JournalInv, ReplayInv, reader.pc = "done"
               PROVE  /\ \A i \in 2..Len(reader.got) :
                           reader.got[i].seq = reader.got[i - 1].seq + 1
                      /\ \A t \in told : t.seq \in Max({reader.from, kept})..reader.floor
                                           => t \in Range(reader.got)
                      /\ \A l \in Range(reader.got) : l.seq >= reader.from
    BY DEF ReplayIsExact
  <2>1. /\ reader.from \in Nat /\ reader.floor \in Nat /\ kept \in Nat
        /\ reader.got \in Seq(Line) /\ GotInv /\ OwedInv /\ reader.todo = {}
        /\ \A t \in told : t.seq \in Nat
    BY BasesAre DEF ReplayInv, ReaderType, JournalInv
  <2>2. reader.from <= Max({reader.from, kept}) /\ kept <= Max({reader.from, kept})
        /\ Max({reader.from, kept}) \in Nat
    <3>1. /\ {reader.from, kept} \in SUBSET Nat /\ {reader.from, kept} # {}
          /\ reader.from + kept \in Nat
          /\ \A y \in {reader.from, kept} : y <= reader.from + kept
      BY <2>1
    <3>2. Max({reader.from, kept}) \in {reader.from, kept}
          /\ \A y \in {reader.from, kept} : y <= Max({reader.from, kept})
      BY <3>1, MaxOf
    <3> QED
      BY <2>1, <3>2
  <2>3. ASSUME NEW t \in told, t.seq \in Max({reader.from, kept})..reader.floor
        PROVE  t \in Range(reader.got)
    <3>1. reader.from <= t.seq /\ kept <= t.seq /\ t.seq <= reader.floor
      BY <2>1, <2>2, <2>3
    <3> QED
      BY <2>1, <3>1 DEF OwedInv
  <2>4. \A l \in Range(reader.got) : l.seq >= reader.from
    BY <2>1 DEF GotInv, Range
  <2> QED
    BY <2>1, <2>3, <2>4 DEF GotInv
<1>2. JournalInv /\ JournalInv' /\ ReplayInv /\ [JournalNext]_vars => ReplayInv'
  BY ReplayStep
<1> QED
  BY <1>1, <1>2, ReplayInit, JournalInvariant, PTL DEF JournalSpec

=============================================================================
