------------------------------ MODULE Website ------------------------------
(***************************************************************************)
(* The package list and the search of the website, on a local store: a     *)
(* request lists all objects, then reads the manifest of one package after *)
(* the other, without a lock, while other calls store and delete objects.  *)
(***************************************************************************)
EXTENDS LocalDriver

CONSTANTS
  Manifests,  \* the keys that are manifests
  Queries,    \* what a visitor searches for
  Every,      \* the package list: everything with a latest version scores 1
  Score,      \* query, manifest, its content -> scorePackage; 0: not a hit,
              \* or no servable latest version
  Limit       \* hits that a search returns

ASSUME ManifestsAssumption == Manifests \subseteq Keys
ASSUME ScoreAssumption ==
  /\ Score \in [(Queries \cup {Every}) \X Manifests \X Contents -> Nat]
  /\ Limit \in Nat \ {0}

VARIABLES page  \* for each List: the request it is part of

NoPage == [at |-> "none", unread |-> {}, read |-> {}, failed |-> {}, query |-> Every,
           always |-> {}, ever |-> {}]

pageVars == <<vars, page>>

(* What a reader of the store can see: manifests and their contents.       *)
Entries(f) == { <<k, f[k]>> : k \in Manifests \cap DOMAIN f }

PagedInit == Init /\ page = [c \in Calls |-> NoPage]

----------------------------------------------------------------------------
IsPage(c) == arg[c].op = "list" /\ arg[c].prefix = AllKeys

(* History: what was there, unchanged, all the time since the request      *)
(* began, and what was there at some time.                                 *)
Watched(p, f) == [p EXCEPT !.always = @ \cap Entries(f), !.ever = @ \cup Entries(f)]

ListEnds(c) == pc[c] = "walk" /\ pc'[c] = "done"
Crashes == \E c \in Calls : pc[c] # "dropped" /\ pc'[c] = "dropped"

(* A walk that fails ends the request, and so does the end of the process. *)
Lost(c) == Crashes \/ (pc[c] = "walk" /\ pc'[c] = "failed")

(* When the walk of the whole store ends the request goes on to the        *)
(* manifests found.                                                        *)
PageAfter(c) ==
  CASE page[c].at = "none" /\ pc[c] = "ready" /\ pc'[c] = "walk" ->
         [NoPage EXCEPT !.at = "list", !.always = Entries(files), !.ever = Entries(files)]
    [] page[c].at = "list" /\ ListEnds(c) ->
         [page[c] EXCEPT !.at = "read", !.unread = found'[c] \cap Manifests]
    [] page[c].at \in {"list", "read"} /\ ~ListEnds(c) /\ Lost(c) -> NoPage
    [] page[c].at \in {"list", "read"} /\ ~ListEnds(c) /\ ~Lost(c) -> Watched(page[c], files')
    [] OTHER -> page[c]

Drive ==
  /\ Next
  /\ page' = [c \in Calls |-> IF IsPage(c) THEN PageAfter(c) ELSE page[c]]

(* Mutant: a package that is gone ends the list.                           *)
ReadLatest_Stops(c, k) ==
  IF k \in DOMAIN files
  THEN [page[c] EXCEPT !.unread = @ \ {k}, !.read = @ \cup {<<k, files[k]>>}]
  ELSE [page[c] EXCEPT !.unread = {}]

(* latestVersion: a manifest that is gone is left out.                     *)
ReadLatest(c, k) ==
  [page[c] EXCEPT !.unread = @ \ {k},
                  !.read = @ \cup { e \in Entries(files) : e[1] = k }]

(* The names are sorted.  Any other error skips the entry and no more.     *)
ReadManifest(c) ==
  /\ page[c].at = "read"
  /\ \E k \in page[c].unread :
       /\ IsFirst(k, page[c].unread)
       /\ \/ page' = [page EXCEPT ![c] = ReadLatest(c, k)]
          \/ page' = [page EXCEPT ![c].unread = @ \ {k}, ![c].failed = @ \cup {k}]
  /\ UNCHANGED vars

ScoreOf(q, e) == Score[<<q, e[1], e[2]>>]
Before(q, d, e) == \/ ScoreOf(q, d) > ScoreOf(q, e)
                   \/ ScoreOf(q, d) = ScoreOf(q, e) /\ Rank[d[1]] < Rank[e[1]]

Hits(q, E) == { e \in E : ScoreOf(q, e) > 0 }

(* Mutant: the worst hits are kept.                                        *)
Best_Worst(q, E) ==
  { e \in Hits(q, E) : Cardinality({ d \in Hits(q, E) : Before(q, e, d) }) < Limit }

Best(q, E) ==
  { e \in Hits(q, E) :
      q = Every \/ Cardinality({ d \in Hits(q, E) : Before(q, d, e) }) < Limit }

Answer(c) ==
  /\ page[c].at = "read"
  /\ page[c].unread = {}
  /\ \E q \in Queries \cup {Every} :
       page' = [page EXCEPT ![c].at = "answered", ![c].query = q,
                            ![c].read = Best(q, @)]
  /\ UNCHANGED vars

PagedNext == Drive \/ \E c \in Calls : ReadManifest(c) \/ Answer(c)

PagedSpec == PagedInit /\ [][PagedNext]_pageVars

----------------------------------------------------------------------------
(* packages.go:15 "package list for the latest version of every local      *)
(* package", search.go:16 "Top hits are returned": whatever is published   *)
(* and unpublished meanwhile, nothing is shown that was not in the store   *)
(* during the request; and a package that did not change meanwhile, and    *)
(* whose manifest could be read, is missing from a page whose listing was  *)
(* not cut short only when a search has Limit better hits.                 *)
PageIsTrue ==
  \A c \in Calls : page[c].at = "answered" =>
    LET q == page[c].query
    IN  /\ page[c].read \subseteq Hits(q, page[c].ever)
        /\ ~history[c].cut =>
             \A e \in Hits(q, page[c].always) \ page[c].read :
               \/ e[1] \in page[c].failed
               \/ /\ q # Every
                  /\ Cardinality(page[c].read) = Limit
                  /\ \A d \in page[c].read : Before(q, d, e)
=============================================================================
