----------------------------- MODULE MCTanaFront -----------------------------
(***************************************************************************)
(* Model-checking instance of TanaFront: a bucket of four keys, three of   *)
(* them in two directories for a listing with a delimiter, and files an    *)
(* operator might write: duplicates, unusable entries, colliding and       *)
(* nested sites, a file that is cut short, one that drops the bucket.      *)
(***************************************************************************)
EXTENDS TanaFront

CONSTANTS a, b, other, garbage

MCGroup == (1 :> a) @@ (2 :> b) @@ (3 :> b) @@ (4 :> None)

Off == [mode |-> "off", secret |-> FALSE, from |-> FALSE]
Lone == [mode |-> "secondary", secret |-> TRUE, from |-> FALSE]

Decl(name, usable) == [name |-> name, usable |-> usable, public |-> TRUE, protected |-> {4}]
Site(name, uploads, backing, max) ==
  [name |-> name, uploads |-> uploads, backing |-> backing, sound |-> TRUE,
   max |-> max, keep |-> 0]

Plain == [roles |-> {"store"}, replica |-> Off, sites |-> <<>>,
          buckets |-> <<Decl(Bucket, TRUE)>>]
Clashing ==
  [roles |-> {"store", "agent"}, replica |-> Off,
   buckets |-> <<Decl(Bucket, FALSE), Decl(other, TRUE), Decl(Bucket, TRUE), Decl(other, TRUE)>>,
   sites |-> <<Site(1, <<"u">>, <<"u", "b">>, 0), Site(1, <<"u">>, <<"b">>, 4),
               Site(2, <<"b">>, <<"c">>, 4), Site(3, <<"d">>, <<"b">>, 4),
               Site(4, <<"d">>, <<"e">>, 1), Site(4, <<"d">>, <<"f">>, 2)>>]
Moved == [Plain EXCEPT !.buckets = <<Decl(other, TRUE), Decl(Bucket, FALSE)>>]
Orphan == [Plain EXCEPT !.replica = Lone]

MCDocuments == {Plain, Clashing, Moved, Orphan, garbage}

=============================================================================
