------------------------------ MODULE TanaFront ------------------------------
(***************************************************************************)
(* The S3 front end for one bucket (internal/s3/server.go) and a client    *)
(* that lists or reads it (internal/s3client), while other clients write   *)
(* and delete and the configuration is reloaded.                           *)
(*                                                                         *)
(* A page of a listing is one read transaction; a GET looks the object up  *)
(* twice, first for the headers and then for the bytes; every call of the  *)
(* store asks the tenant table again.  Keys are numbered in key order and  *)
(* a content is known by its size.                                         *)
(***************************************************************************)
EXTENDS TanaConfig, FiniteSetsExt

CONSTANTS
  Bucket,    \* the bucket under test
  Keys,      \* the keys of it, 1..n in key order
  Matching,  \* those with the prefix a listing asks for
  Group,     \* [Keys -> the common prefix of a key, or None]
  Versions,  \* contents, as their sizes
  PageSize,  \* max-keys
  None,
  MaxChanges \* bound: writes and deletions of other clients, and edits

ASSUME FrontBounds ==
  /\ IsFiniteSet(Keys) /\ Keys = 1..Cardinality(Keys) /\ Matching \subseteq Keys
  /\ Versions \subseteq Nat /\ Versions # {} /\ IsFiniteSet(Versions) /\ None \notin Versions
  /\ PageSize \in Nat \ {0} /\ MaxChanges \in Nat
\* A common prefix is not listed as a key is, and the keys it covers are adjacent.
ASSUME GroupsApart == \A k \in Keys : Group[k] \notin Keys
ASSUME GroupsAreIntervals ==
  \A i, j \in Keys : i < j /\ Group[i] = Group[j] /\ Group[i] # None =>
    \A k \in i..j : Group[k] = Group[i]

VARIABLES
  object,  \* [Keys -> Versions \cup {None}], the index of the bucket
  request, \* the client's request
  changes

frontVars == <<object, request, changes>>
vars == <<document, running, loadError, tenants, watch, edits, object, request, changes>>

NoRequest == [op |-> "none", pc |-> "idle"]

FrontInit ==
  /\ ConfigInit
  /\ object \in [Keys -> {None, Max(Versions)}]
  /\ request = NoRequest
  /\ changes = 0

Served == \E b \in tenants : b.name = Bucket

Present == {k \in Keys : object[k] # None}

-----------------------------------------------------------------------------
(***************************************************************************)
(* Other clients.                                                          *)
(***************************************************************************)
\* What the request remembers of a key that has changed under it.
Touched(k) ==
  CASE request.op = "list" -> [request EXCEPT !.steady = @ \ {k}]
    [] request.op = "get" /\ request.key = k -> [request EXCEPT !.calm = FALSE]
    [] OTHER -> request

PutObject(k, v) ==
  /\ changes + edits < MaxChanges
  /\ Served /\ object[k] # v
  /\ object' = [object EXCEPT ![k] = v]
  /\ request' = IF object[k] = None /\ request.op = "list" THEN request ELSE Touched(k)
  /\ changes' = changes + 1
  /\ UNCHANGED configVars

DeleteObject(k) ==
  /\ changes + edits < MaxChanges
  /\ Served /\ object[k] # None
  /\ object' = [object EXCEPT ![k] = None]
  /\ request' = Touched(k)
  /\ changes' = changes + 1
  /\ UNCHANGED configVars

-----------------------------------------------------------------------------
(***************************************************************************)
(* Listing.                                                                *)
(***************************************************************************)
\* What a key is listed as.
Item(k, delimited) == IF delimited /\ Group[k] # None THEN Group[k] ELSE k

\* Faulty: the listing resumes at the key of the token.
CandidatesFrom(after) == {k \in Present \cap Matching : k >= after}

\* Faulty: the token is not looked at.
CandidatesAll(after) == Present \cap Matching

Candidates(after) == {k \in Present \cap Matching : k > after}

\* The keys the callback goes through before the page is full.
Taken(after, delimited) ==
  LET from == Candidates(after)
  IN  {k \in from : Cardinality({Item(j, delimited) : j \in {i \in from : i < k}}) < PageSize}

\* Faulty: only a key that is listed itself is remembered to resume after.
LastListed(taken, delimited) ==
  Max({0} \cup {k \in taken : Item(k, delimited) = k})

LastTaken(taken, delimited) == Max({0} \cup taken)

\* steady: the keys that were there all the time; repeated: what was listed on
\* a page and again on a later one; split: the groups a full page ended in.
BeginList(delimited) ==
  /\ request.op = "none"
  /\ request' = [op |-> "list", pc |-> "asking", delimited |-> delimited, after |-> 0,
                 listed |-> {}, repeated |-> {}, split |-> {}, disorder |-> FALSE,
                 steady |-> Present \cap Matching]
  /\ UNCHANGED <<object, changes, configVars>>

\* One page: the request, the transaction, and what Client.List does with it.
ListPage ==
  /\ request.op = "list" /\ request.pc = "asking" /\ Served
  /\ LET d     == request.delimited
         taken == Taken(request.after, d)
         items == {Item(k, d) : k \in taken}
         full  == taken # Candidates(request.after)
         last  == LastTaken(taken, d)
     IN  request' = [request EXCEPT
           !.pc       = IF full /\ last # 0 THEN "asking" ELSE "done",
           !.after    = last,
           !.listed   = @ \cup items,
           !.repeated = @ \cup (items \cap request.listed),
           !.split    = IF full THEN @ \cup ({Item(k, d) : k \in taken \cap {last}} \ Keys)
                        ELSE @,
           !.disorder = @ \/ \E k \in taken : k < request.after \/ Cardinality(items) > PageSize]
  /\ UNCHANGED <<object, changes, configVars>>

Refuse ==
  /\ request.op # "none" /\ request.pc \notin {"done", "refused"} /\ ~Served
  /\ request' = [request EXCEPT !.pc = "refused"]
  /\ UNCHANGED <<object, changes, configVars>>

-----------------------------------------------------------------------------
(***************************************************************************)
(* GET and HEAD.                                                           *)
(***************************************************************************)
\* The Range headers: none, first-last, first-, -n.
Edges == 0..Max(Versions) + 1
Ranges == [kind : {"none"}] \cup [kind : {"from"}, first : Edges] \cup
          [kind : {"span"}, first : Edges, last : Edges] \cup [kind : {"suffix"}, n : Edges]

Unsatisfiable == [offset |-> 0, length |-> -1, partial |-> FALSE]
Slice(first, last) == [offset |-> first, length |-> last - first + 1, partial |-> TRUE]
Smaller(a, b) == IF a < b THEN a ELSE b

\* Faulty: the last byte is compared with the size.
ParseRangePast(h, size) ==
  CASE h.kind = "none" -> [offset |-> 0, length |-> size, partial |-> FALSE]
    [] h.kind = "suffix" ->
         IF h.n = 0 THEN Unsatisfiable ELSE Slice(size - Smaller(h.n, size), size - 1)
    [] h.kind = "from" ->
         IF h.first >= size THEN Unsatisfiable ELSE Slice(h.first, size - 1)
    [] h.kind = "span" ->
         IF h.first >= size \/ h.last < h.first THEN Unsatisfiable
         ELSE Slice(h.first, Smaller(h.last, size))

ParseRange(h, size) ==
  CASE h.kind = "none" -> [offset |-> 0, length |-> size, partial |-> FALSE]
    [] h.kind = "suffix" ->
         IF h.n = 0 THEN Unsatisfiable ELSE Slice(size - Smaller(h.n, size), size - 1)
    [] h.kind = "from" ->
         IF h.first >= size THEN Unsatisfiable ELSE Slice(h.first, size - 1)
    [] h.kind = "span" ->
         IF h.first >= size \/ h.last < h.first THEN Unsatisfiable
         ELSE Slice(h.first, Smaller(h.last, size - 1))

\* publicRead, for a request without credentials.
Anonymous(k) == \E b \in tenants : b.name = Bucket /\ b.public /\ k \notin b.protected

\* route: who the client is decides whether it is answered at all.
BeginGet(k, anonymous, body) ==
  /\ request.op = "none"
  /\ Served /\ (anonymous => Anonymous(k))
  /\ request' = [op |-> "get", pc |-> "routed", key |-> k, body |-> body, calm |-> TRUE,
                 size |-> None, reply |-> None]
  /\ UNCHANGED <<object, changes, configVars>>

\* The first lookup: the headers, and all there is to a HEAD.
HeadObject ==
  /\ request.op = "get" /\ request.pc = "routed" /\ Served
  /\ request' =
       IF object[request.key] = None THEN [request EXCEPT !.pc = "refused"]
       ELSE [request EXCEPT !.pc = IF request.body THEN "headed" ELSE "done",
                            !.size = object[request.key]]
  /\ UNCHANGED <<object, changes, configVars>>

\* The second lookup, and the bytes of what it finds in the range of what the
\* first one found; no more than promised leaves the server.
Reply(h) ==
  LET range == ParseRange(h, request.size)
      found == object[request.key]
      rest  == Smaller(range.length, found - range.offset)
  IN  [asked |-> h, version |-> found, range |-> range,
       sent |-> IF range.length <= 0 \/ rest <= 0 THEN {}
                ELSE range.offset .. range.offset + rest - 1]

GetObject(h) ==
  /\ request.op = "get" /\ request.pc = "headed" /\ Served
  /\ request' =
       IF object[request.key] = None THEN [request EXCEPT !.pc = "refused"]
       ELSE [request EXCEPT !.pc = "done", !.reply = Reply(h)]
  /\ UNCHANGED <<object, changes, configVars>>

Leave ==
  /\ request.pc \in {"done", "refused"}
  /\ request' = NoRequest
  /\ UNCHANGED <<object, changes, configVars>>

-----------------------------------------------------------------------------
FrontNext ==
  \/ \E k \in Keys : DeleteObject(k) \/ \E v \in Versions : PutObject(k, v)
  \/ \E delimited \in BOOLEAN : BeginList(delimited)
  \/ ListPage \/ Refuse \/ HeadObject \/ Leave
  \/ \E k \in Keys, anonymous, body \in BOOLEAN : BeginGet(k, anonymous, body)
  \/ \E h \in Ranges : GetObject(h)
  \/ ConfigNext /\ edits' + changes <= MaxChanges /\ UNCHANGED frontVars

\* The client asks for the next page as soon as it has one; the server answers.
FrontSpec == FrontInit /\ [][FrontNext]_vars /\ WF_vars(ListPage) /\ WF_vars(Refuse)

-----------------------------------------------------------------------------
\* A listing goes through the keys in order and never lists more than a page
\* holds; it lists nothing twice, but for a group a full page ended in.
ListedOnce ==
  request.op = "list" => ~request.disorder /\ request.repeated \subseteq request.split

\* A listing that reaches its end has every key, or its group, that was there
\* from the first page to the last, whatever changed around it.
NothingMissed ==
  request.op = "list" /\ request.pc = "done" =>
    {Item(k, request.delimited) : k \in request.steady} \subseteq request.listed

\* The bytes of an object of a given size that a Range header asks for.
BytesAsked(h, size) ==
  CASE h.kind = "none"   -> 0 .. size - 1
    [] h.kind = "from"   -> h.first .. size - 1
    [] h.kind = "span"   -> (0 .. size - 1) \cap (h.first .. h.last)
    [] h.kind = "suffix" -> {i \in 0 .. size - 1 : i >= size - h.n}

\* A reply promises exactly the bytes the header asks for of the size it
\* reports, a partial one some of them, and sends them if the object was not
\* replaced between the lookups.
ReplyMatches ==
  request.op = "get" /\ request.pc = "done" /\ request.body =>
    LET r     == request.reply
        asked == BytesAsked(r.asked, request.size)
        promised == IF r.range.length <= 0 THEN {}
                    ELSE r.range.offset .. r.range.offset + r.range.length - 1
    IN  /\ promised = asked
        /\ r.range.partial => promised # {}
        /\ request.calm => r.version = request.size /\ r.sent = asked

\* A listing ends, whatever is written meanwhile.
ListingEnds == request.op = "list" /\ request.pc = "asking" ~> request.pc # "asking"

=============================================================================
