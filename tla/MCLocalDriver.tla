--------------------------- MODULE MCLocalDriver ---------------------------
(***************************************************************************)
(* Two packages, one with two files, three calls, and pages that show one  *)
(* or both packages.  Searching finds both, y before x, or only y.         *)
(***************************************************************************)
EXTENDS Website, LocalDriverRefinement, TLC

CONSTANTS x, x1, x2, y, y1, both, single

MCKeys == {x1, x2, y1}
MCDirs == {x, y}
MCDirOf == (x1 :> x) @@ (x2 :> x) @@ (y1 :> y)
MCRank == (x1 :> 1) @@ (x2 :> 2) @@ (y1 :> 3) @@ (x :> 4) @@ (y :> 5)
MCManifests == {x1, y1}
MCQueries == {both, single}
MCScore == [t \in (Queries \cup {Every}) \X {x1, y1} \X Contents |->
              CASE t[1] = Every -> 1
                [] t[1] = both -> IF t[2] = x1 THEN 1 ELSE 2
                [] t[1] = single -> IF t[2] = x1 THEN 0 ELSE 1]

(* Calls that only read the store cannot tell whether others do, so one    *)
(* List or Get at a time is enough, beside two calls that write.           *)
Readers == { c \in Calls : arg[c].op \in {"list", "get"} }
OneReaderInit == PagedInit /\ Cardinality(Readers) <= 1
OneReaderSpec == OneReaderInit /\ [][PagedNext]_pageVars

CallSymmetry == Permutations(Calls)
=============================================================================
