------------------------------ MODULE TanaConfig ------------------------------
(***************************************************************************)
(* The configuration of one daemon (internal/config): what Load makes of a *)
(* file, and how a file that changes becomes the configuration that runs   *)
(* and the tenant table the store answers from.                            *)
(*                                                                         *)
(* A file is one of Documents: either not YAML, or the declarations that   *)
(* Load tells apart.  Of the fields that are checked and nothing else is   *)
(* done with (addresses, credentials, the name rules) a declaration keeps  *)
(* whether they are in order.  A path is the sequence of its elements.     *)
(***************************************************************************)
EXTENDS Integers, Sequences, FiniteSets, SequencesExt

CONSTANTS
  Documents,   \* the files an operator may write
  Garbage,     \* the one that is not YAML
  Invalid,     \* what Load returns for a file it refuses
  DefaultKeep, \* the default of cache.keep_below
  MaxEdits     \* bound: times the file is written

ASSUME ConfigBounds == MaxEdits \in Nat /\ DefaultKeep \in Nat /\ Garbage \in Documents
\* What a file declares is two lists.
ASSUME ConfigFiles ==
  \A d \in Documents \ {Garbage} :
    d.buckets \in Seq(ToSet(d.buckets)) /\ d.sites \in Seq(ToSet(d.sites))

VARIABLES
  document,  \* the file as it is
  running,   \* Manager.current
  loadError, \* Manager.reloadErr is set
  tenants,   \* Store.buckets
  watch,     \* the watch goroutine
  edits

configVars == <<document, running, loadError, tenants, watch, edits>>

-----------------------------------------------------------------------------
(***************************************************************************)
(* Load.                                                                   *)
(***************************************************************************)
\* under, for cleaned paths.
Under(child, parent) == IsPrefix(parent, child)

\* One turn of validateStore's loop; an entry that is not kept takes no name.
KeepBucket(st, b) ==
  IF b.usable /\ b.name \notin st.names
  THEN [kept |-> Append(st.kept, b), names |-> st.names \cup {b.name}]
  ELSE st

KeptBuckets(d) == FoldLeft(KeepBucket, [kept |-> <<>>, names |-> {}], d.buckets).kept

ReplicaUsable(r) ==
  CASE r.mode = "off"       -> TRUE
    [] r.mode = "primary"   -> r.secret
    [] r.mode = "secondary" -> r.secret /\ r.from
    [] OTHER                -> FALSE

\* applyDefaults, for the field whose default can make a site unusable.
KeepBelow(s) == IF s.keep = 0 THEN DefaultKeep ELSE s.keep

\* checkSite, but for what it compares with the sites before.
SiteUsable(s) ==
  /\ s.sound
  /\ ~Under(s.backing, s.uploads) /\ ~Under(s.uploads, s.backing)
  /\ s.max > 0 => KeepBelow(s) <= s.max

SitePaths(s) == {s.uploads, s.backing}

\* Faulty: only the path WordPress sees is remembered.
KeepSiteUploads(st, s) ==
  IF SiteUsable(s) /\ s.name \notin st.names /\ SitePaths(s) \cap st.paths = {}
  THEN [kept |-> Append(st.kept, s), names |-> st.names \cup {s.name},
        paths |-> st.paths \cup {s.uploads}]
  ELSE st

\* One turn of validateAgent's loop.
KeepSite(st, s) ==
  IF SiteUsable(s) /\ s.name \notin st.names /\ SitePaths(s) \cap st.paths = {}
  THEN [kept |-> Append(st.kept, s), names |-> st.names \cup {s.name},
        paths |-> st.paths \cup SitePaths(s)]
  ELSE st

KeptSites(d) == FoldLeft(KeepSite, [kept |-> <<>>, names |-> {}, paths |-> {}], d.sites).kept

StoreUsable(d) == KeptBuckets(d) # <<>> /\ ReplicaUsable(d.replica)

\* What a role does not need is neither checked nor dropped.
Load(d) ==
  IF d = Garbage THEN Invalid
  ELSE IF \/ d.roles = {} \/ ~(d.roles \subseteq {"store", "agent"})
          \/ "store" \in d.roles /\ ~StoreUsable(d)
          \/ "agent" \in d.roles /\ KeptSites(d) = <<>>
  THEN Invalid
  ELSE [roles   |-> d.roles,
        buckets |-> IF "store" \in d.roles THEN KeptBuckets(d) ELSE d.buckets,
        sites   |-> IF "agent" \in d.roles THEN KeptSites(d) ELSE d.sites]

Loaded == [d \in Documents |-> Load(d)]

-----------------------------------------------------------------------------
(***************************************************************************)
(* The manager.  The daemon loads the file, starts what it runs, and then  *)
(* watches the file; each event is a reload: the file is read, the         *)
(* configuration swapped, and the store told.                              *)
(***************************************************************************)
ConfigInit ==
  /\ document \in {d \in Documents : Loaded[d] # Invalid /\ "store" \in Loaded[d].roles}
  /\ running = Loaded[document]
  /\ loadError = FALSE
  /\ tenants = ToSet(running.buckets)
  /\ watch = [pc |-> "starting", event |-> FALSE, lost |-> FALSE, loaded |-> Invalid]
  /\ edits = 0

StartWatch ==
  /\ watch.pc = "starting"
  /\ watch' = [watch EXCEPT !.pc = "idle"]
  /\ UNCHANGED <<document, running, loadError, tenants, edits>>

\* The operator replaces the file; nobody is told until it is watched.
Edit(d) ==
  /\ edits < MaxEdits /\ d # document
  /\ document' = d
  /\ edits' = edits + 1
  /\ watch' = IF watch.pc = "starting" THEN [watch EXCEPT !.lost = TRUE]
              ELSE [watch EXCEPT !.event = TRUE]
  /\ UNCHANGED <<running, loadError, tenants>>

\* The kernel's queue of events overflows: an error is logged.
LoseEvent ==
  /\ watch.event
  /\ watch' = [watch EXCEPT !.event = FALSE, !.lost = TRUE]
  /\ UNCHANGED <<document, running, loadError, tenants, edits>>

ReadDocument ==
  /\ watch.pc = "idle" /\ watch.event
  /\ watch' = [pc |-> "loaded", event |-> FALSE, lost |-> FALSE, loaded |-> Loaded[document]]
  /\ UNCHANGED <<document, running, loadError, tenants, edits>>

KeepRunning ==
  /\ watch.pc = "loaded" /\ watch.loaded = Invalid
  /\ loadError' = TRUE
  /\ watch' = [watch EXCEPT !.pc = "idle"]
  /\ UNCHANGED <<document, running, tenants, edits>>

\* Faulty: the error of the last failure stays.
SwapRunningOnly ==
  /\ watch.pc = "loaded" /\ watch.loaded # Invalid
  /\ running' = watch.loaded
  /\ watch' = [watch EXCEPT !.pc = "swapped", !.loaded = Invalid]
  /\ UNCHANGED <<document, loadError, tenants, edits>>

SwapRunning ==
  /\ watch.pc = "loaded" /\ watch.loaded # Invalid
  /\ loadError' = FALSE
  /\ running' = watch.loaded
  /\ watch' = [watch EXCEPT !.pc = "swapped", !.loaded = Invalid]
  /\ UNCHANGED <<document, tenants, edits>>

Configure ==
  /\ watch.pc = "swapped"
  /\ tenants' = ToSet(running.buckets)
  /\ watch' = [watch EXCEPT !.pc = "idle"]
  /\ UNCHANGED <<document, running, loadError, edits>>

Reload == ReadDocument \/ KeepRunning \/ SwapRunning \/ Configure

ConfigNext == StartWatch \/ (\E d \in Documents : Edit(d)) \/ LoseEvent \/ Reload

-----------------------------------------------------------------------------
\* What runs is a configuration: every role has something to do, no two
\* tenants or sites share a name, no two sites a path, no site nests its own
\* two; and of a usable entry that was dropped a kept one has a name or a path.
KeptApart ==
  LET bs == running.buckets
      ss == running.sites
      Clash(s, t) == s.name = t.name \/ SitePaths(s) \cap SitePaths(t) # {}
  IN  /\ running # Invalid /\ running.roles # {}
      /\ "store" \in running.roles =>
           /\ bs # <<>>
           /\ \A i, j \in DOMAIN bs : i # j => bs[i].name # bs[j].name
           /\ \A d \in Documents \ {Garbage} : Loaded[d] = running =>
                \A i \in DOMAIN d.buckets : d.buckets[i].usable =>
                  \E j \in DOMAIN bs : bs[j].name = d.buckets[i].name
      /\ "agent" \in running.roles =>
           /\ ss # <<>>
           /\ \A i, j \in DOMAIN ss : i # j => ~Clash(ss[i], ss[j])
           /\ \A i \in DOMAIN ss : ~Under(ss[i].backing, ss[i].uploads)
                                   /\ ~Under(ss[i].uploads, ss[i].backing)
           /\ \A d \in Documents \ {Garbage} : Loaded[d] = running =>
                \A i \in DOMAIN d.sites : SiteUsable(d.sites[i]) =>
                  \E j \in DOMAIN ss : Clash(ss[j], d.sites[i])

\* Whenever the watcher rests, the store answers from the configuration that
\* runs; and if it has missed no change since its last reload, that is the file,
\* or the file is refused, the error says so, and what ran before runs on.
SettledRuns ==
  watch.pc = "idle" =>
    /\ tenants = ToSet(running.buckets)
    /\ ~watch.event /\ ~watch.lost =>
         /\ loadError <=> Loaded[document] = Invalid
         /\ ~loadError => running = Loaded[document]

=============================================================================
