---------------------------- MODULE TanaMultipart ----------------------------
(***************************************************************************)
(* Multipart uploads of internal/store/multipart.go over the object store. *)
(* An open upload is one record in the index that names the blob of every  *)
(* part; the parts hold references like objects do, which is what keeps    *)
(* the collector away from them, but nothing journals them.  Storing a     *)
(* part, completing and discarding an upload are sequences of separate     *)
(* index transactions.                                                     *)
(***************************************************************************)
EXTENDS TanaStore

CONSTANTS
  Uploads,   \* upload ids; they are random, so each is used once
  Numbers,   \* part numbers
  Whole,     \* the content of any object of more than one part
  Mishaps    \* what else may happen to uploads

\* "parallel": two requests work on one upload at the same time; "tornPart": a
\* crash or a failing transaction while a part holds a reference that its record
\* does not name yet; "tornDiscard": a crash or a failing transaction while some
\* parts of a discarded upload are released and its record is still there;
\* "rebuildOpen": the index is rebuilt while an upload is open.
ASSUME MishapsAssumption ==
  Mishaps \subseteq {"parallel", "tornPart", "tornDiscard", "rebuildOpen"}
ASSUME WholeAssumption == Whole \in Hashes
ASSUME MultipartFinite == IsFiniteSet(Uploads) /\ IsFiniteSet(Numbers) /\ IsFiniteSet(Clients)

VARIABLES
  uploads,  \* the record of every upload, in the index file
  mp,       \* one multipart request per client
  acked     \* history: the part last acknowledged, by upload and number

multi == <<uploads, mp, acked>>
mpVars == <<vars, multi>>

NoParts == [n \in Numbers |-> None]
Absent == [status |-> "new", key |-> None, parts |-> NoParts]
Gone == [Absent EXCEPT !.status = "gone"]
OpenUpload == [status : {"open"}, key : Keys, parts : [Numbers -> Hashes \cup {None}]]

IdlePart == [pc |-> "idle", upload |-> None, number |-> 0, hash |-> None,
             parts |-> NoParts, todo |-> {}, since |-> 0]

MultipartState ==
  [pc : {"idle", "loaded", "stored", "held", "released", "listed", "putting", "discarding"},
   upload : Uploads \cup {None}, number : Numbers \cup {0}, hash : Hashes \cup {None},
   parts : [Numbers -> Hashes \cup {None}], todo : SUBSET Numbers, since : Nat]

MultipartTypeOK ==
  /\ TypeOK
  /\ uploads \in [Uploads -> {Absent, Gone} \cup OpenUpload]
  /\ mp \in [Clients -> MultipartState]
  /\ acked \in [Uploads -> [Numbers -> Hashes \cup {None}]]

MultipartInit ==
  /\ Init
  /\ uploads = [u \in Uploads |-> Absent]
  /\ mp = [c \in Clients |-> IdlePart]
  /\ acked = [u \in Uploads |-> NoParts]

-----------------------------------------------------------------------------
Free(c) == mode = "serving" /\ handler[c].pc = "idle" /\ mp[c].pc = "idle"

\* loadUpload, for a request that will work on the record it reads.
Load(c, u, m) ==
  /\ Free(c)
  /\ uploads[u].status = "open"
  /\ "parallel" \in Mishaps \/ \A d \in Clients : mp[d].upload # u
  /\ mp' = [mp EXCEPT ![c] = [m EXCEPT !.upload = u, !.parts = uploads[u].parts,
                                       !.since = clock]]

Moves(c, pc) == mp' = [mp EXCEPT ![c].pc = pc]

EndRequest(c) == mp' = [mp EXCEPT ![c] = IdlePart]

\* A transaction that moves one reference and nothing else.
MoveRef(h, delta) == index' = [index EXCEPT !.refs = AdjustRef(@, h, delta, clock)]

CreateUpload(c, u, k) ==
  /\ Free(c)
  /\ uploads[u] = Absent
  /\ uploads' = [uploads EXCEPT ![u] = [status |-> "open", key |-> k, parts |-> NoParts]]
  /\ UNCHANGED <<vars, mp, acked>>

(***************************************************************************)
(* UploadPart: blob durable -> reference -> replaced part released ->      *)
(* record saved -> ack.                                                    *)
(***************************************************************************)
BeginPart(c, u, n) ==
  /\ Load(c, u, [IdlePart EXCEPT !.pc = "loaded", !.number = n])
  /\ UNCHANGED <<vars, uploads, acked>>

\* blob.Put of new content, or of content that something references.  Unless
\* "reupload" is set, content nothing references any more does not come again:
\* the collector could take the file Put finds before it is referenced.
PutBlob(h) ==
  /\ h \in sent => index.refs[h].count > 0 \/ "reupload" \in Environment
  /\ stored' = stored \cup {h}
  /\ mtime' = IF h \in stored THEN mtime ELSE [mtime EXCEPT ![h] = clock]
  /\ sent' = sent \cup {h}

PutPart(c, h) ==
  /\ mp[c].pc = "loaded"
  /\ PutBlob(h)
  /\ mp' = [mp EXCEPT ![c].pc = "stored", ![c].hash = h]
  /\ UNCHANGED <<journal, index, mode, replay, handler, gc, clock, uploads, acked>>

\* The upload broke off, or nothing could be referenced: the blob is left to
\* the collector.  Once the part holds its reference, a transaction that fails
\* leaves it behind: nobody gives it back.
RefusePart(c) ==
  /\ mp[c].pc \in {"loaded", "stored", "listed", "held", "released"}
  /\ mp[c].pc \in {"held", "released"} => "tornPart" \in Mishaps
  /\ EndRequest(c)
  /\ UNCHANGED <<vars, uploads, acked>>

\* Faulty: the part is not referenced; its blob is young, after all.
HoldNothing(c) ==
  /\ mp[c].pc = "stored"
  /\ Moves(c, "held")
  /\ UNCHANGED <<vars, uploads, acked>>

HoldPart(c) ==
  /\ mp[c].pc = "stored"
  /\ MoveRef(mp[c].hash, 1)
  /\ Moves(c, "held")
  /\ UNCHANGED <<journal, disk, mode, replay, handler, gc, sent, clock, uploads, acked>>

Replaced(c) == mp[c].parts[mp[c].number]

ReleaseReplaced(c) ==
  /\ mp[c].pc = "held"
  /\ Replaced(c) # None
  /\ MoveRef(Replaced(c), -1)
  /\ Moves(c, "released")
  /\ UNCHANGED <<journal, disk, mode, replay, handler, gc, sent, clock, uploads, acked>>

\* Faulty: the record is built anew around the part.
SavePartAlone(c) ==
  LET m == mp[c] IN
  /\ m.pc \in {"held", "released"}
  /\ m.pc = "held" => Replaced(c) = None
  /\ uploads' = [uploads EXCEPT ![m.upload].parts = [NoParts EXCEPT ![m.number] = m.hash]]
  /\ acked' = [acked EXCEPT ![m.upload][m.number] = m.hash]
  /\ EndRequest(c)
  /\ UNCHANGED vars

\* saveUpload writes the record that was loaded, with this part in it.
SavePart(c) ==
  LET m == mp[c] IN
  /\ m.pc \in {"held", "released"}
  /\ m.pc = "held" => Replaced(c) = None
  /\ uploads' = [uploads EXCEPT ![m.upload].status = "open",
                                ![m.upload].parts = [m.parts EXCEPT ![m.number] = m.hash]]
  /\ acked' = [acked EXCEPT ![m.upload][m.number] = m.hash]
  /\ EndRequest(c)
  /\ UNCHANGED vars

(***************************************************************************)
(* CompleteUpload: the listed parts are checked and opened, their          *)
(* concatenation goes through an ordinary PUT, and then every part of the  *)
(* upload is released, listed or not.                                      *)
(***************************************************************************)
\* One part alone is its own concatenation.
Assembled(m) ==
  IF Cardinality(m.todo) = 1 THEN m.parts[CHOOSE n \in m.todo : TRUE] ELSE Whole

\* The client lists parts under the tags it was told.
BeginComplete(c, u, list) ==
  /\ Load(c, u, [IdlePart EXCEPT !.pc = "listed", !.todo = list])
  /\ \A n \in list : uploads[u].parts[n] # None /\ uploads[u].parts[n] = acked[u][n]
  /\ UNCHANGED <<vars, uploads, acked>>

PutAssembled(c) ==
  LET m == mp[c]
      k == uploads[m.upload].key IN
  /\ m.pc = "listed"
  /\ \A n \in m.todo : m.parts[n] \in stored
  /\ MayChange(k)
  /\ PutBlob(Assembled(m))
  /\ Becomes(c, "stored", k, Assembled(m), 0)
  /\ Moves(c, "putting")
  /\ UNCHANGED <<journal, index, mode, replay, gc, clock, uploads, acked>>

Held(parts) == {n \in Numbers : parts[n] # None}

\* Faulty: only what the completion listed is released.
DiscardListed(c) ==
  mp' = [mp EXCEPT ![c].pc = "discarding"]

\* discardUpload begins: every part of the record that was loaded.
Discard(c) ==
  mp' = [mp EXCEPT ![c].pc = "discarding", ![c].todo = Held(mp[c].parts)]

\* The PUT of the object, its last transaction included, is that of TanaStore;
\* so are its failures, of which a failing commit is left to that module's runs.
CommitObject(c) ==
  /\ CommitPut(c)
  /\ IF mp[c].pc = "putting" THEN Discard(c) ELSE UNCHANGED mp
  /\ UNCHANGED <<uploads, acked>>

RefuseObject(c) ==
  /\ Refuse(c)
  /\ IF mp[c].pc = "putting" THEN EndRequest(c) ELSE UNCHANGED mp
  /\ UNCHANGED <<uploads, acked>>

BeginAbort(c, u) ==
  /\ Load(c, u, [IdlePart EXCEPT !.pc = "discarding", !.todo = Held(uploads[u].parts)])
  /\ UNCHANGED <<vars, uploads, acked>>

ReleasePart(c, n) ==
  /\ mp[c].pc = "discarding" /\ n \in mp[c].todo
  /\ MoveRef(mp[c].parts[n], -1)
  /\ mp' = [mp EXCEPT ![c].todo = @ \ {n}]
  /\ UNCHANGED <<journal, disk, mode, replay, handler, gc, sent, clock, uploads, acked>>

\* One of the transactions fails: the record stays, names every part, and the
\* next completion or abort releases all of them, the released ones again.
FailDiscard(c) ==
  /\ mp[c].pc = "discarding"
  /\ mp[c].todo = Held(mp[c].parts) \/ "tornDiscard" \in Mishaps
  /\ EndRequest(c)
  /\ UNCHANGED <<vars, uploads, acked>>

DeleteUpload(c) ==
  /\ mp[c].pc = "discarding" /\ mp[c].todo = {}
  /\ uploads' = [uploads EXCEPT ![mp[c].upload] = Gone]
  /\ acked' = [acked EXCEPT ![mp[c].upload] = NoParts]
  /\ EndRequest(c)
  /\ UNCHANGED vars

-----------------------------------------------------------------------------
(***************************************************************************)
(* The store underneath.                                                   *)
(***************************************************************************)
InFlight(h) == Cardinality({c \in Clients : mp[c].pc \in {"held", "released"} /\ mp[c].hash = h})

\* What a request has done by itself stays done: the reference of a part that no
\* record names, the parts of a discarded upload that were released.
CrashAll ==
  /\ Crash
  /\ \A c \in Clients :
       /\ mp[c].pc \in {"held", "released"} => "tornPart" \in Mishaps
       /\ mp[c].pc = "discarding" =>
            mp[c].todo = Held(mp[c].parts) \/ "tornDiscard" \in Mishaps
  /\ mp' = [c \in Clients |-> IdlePart]
  /\ UNCHANGED <<uploads, acked>>

\* A rebuild drops every reference record, those that open uploads hold
\* included, and restores what the journal says; the records of the uploads stay.
RebuildAll ==
  /\ "rebuildOpen" \in Mishaps \/ \A u \in Uploads : uploads[u].status # "open"
  /\ DropNamespaces \/ ResetIndex
  /\ UNCHANGED multi

TickAll ==
  /\ Tick
  /\ \A c \in Clients : mp[c].pc # "idle" => clock + 1 - mp[c].since < Grace
  /\ UNCHANGED multi

StoreStep ==
  /\ \/ \E c \in Clients :
          \/ mp[c].pc = "idle" /\ Request(c)
          \/ JournalPut(c) \/ JournalDelete(c) \/ CommitDelete(c) \/ OpenBlob(c)
     \/ Collect \/ Recovery
  /\ UNCHANGED multi

MultipartNext ==
  \/ StoreStep \/ CrashAll \/ RebuildAll \/ TickAll
  \/ \E c \in Clients :
       \/ \E u \in Uploads :
            \/ \E k \in Keys : CreateUpload(c, u, k)
            \/ \E n \in Numbers : BeginPart(c, u, n)
            \/ \E list \in (SUBSET Numbers) \ {{}} : BeginComplete(c, u, list)
            \/ BeginAbort(c, u)
       \/ \E h \in Hashes \ {Whole} : PutPart(c, h)
       \/ RefusePart(c) \/ HoldPart(c) \/ ReleaseReplaced(c) \/ SavePart(c)
       \/ PutAssembled(c) \/ CommitObject(c) \/ RefuseObject(c)
       \/ \E n \in Numbers : ReleasePart(c, n)
       \/ FailDiscard(c) \/ DeleteUpload(c)

MultipartSpec == MultipartInit /\ [][MultipartNext]_mpVars

-----------------------------------------------------------------------------
(***************************************************************************)
(* Safety.                                                                 *)
(***************************************************************************)
\* The parts of an open upload whose reference was not given back yet.
Owing(u, h) ==
  {n \in Numbers :
     /\ uploads[u].parts[n] = h
     /\ \A c \in Clients : mp[c].upload = u =>
          /\ ~(mp[c].pc = "discarding" /\ n \notin mp[c].todo)
          /\ ~(mp[c].pc = "released" /\ n = mp[c].number)}

Owed(h) == {part \in Uploads \X Numbers : part[2] \in Owing(part[1], h)}

\* The state is well typed, and the count of every blob is what objects, open
\* uploads and parts under way hold of it: never less, so nothing that is held is
\* collected, and never more, so what is discarded is ("reference-counted like
\* anything else").
PartsCounted ==
  /\ MultipartTypeOK
  /\ mode # "dropped" => \A h \in Hashes :
       index.refs[h].count =
         Cardinality(Bound(index, h)) + InFlight(h) + Cardinality(Owed(h))

\* However long an upload stays open, the collector leaves its parts alone: a
\* completion that lists parts under the tags it was told finds them.
PartsKept ==
  \A u \in Uploads : uploads[u].status = "open" =>
    \A h \in Hashes : Owing(u, h) # {} => h \in stored

\* A part that was acknowledged is the one the record names, until the upload
\* is completed or aborted.
AckedPartKept ==
  \A u \in Uploads, n \in Numbers :
    uploads[u].status = "open" /\ acked[u][n] # None => uploads[u].parts[n] = acked[u][n]

=============================================================================
