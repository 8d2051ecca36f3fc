----------------------------- MODULE MCRestore -----------------------------
(***************************************************************************)
(* Three restores of different archives over two packages: one with a      *)
(* package and the audit log, one with the other package and no audit log, *)
(* and one of the time before the first publish.                           *)
(***************************************************************************)
EXTENDS Restore, TLC

CONSTANTS first, second, empty, x, y

MCArchived == (first :> {x}) @@ (second :> {y}) @@ (empty :> {})
=============================================================================
