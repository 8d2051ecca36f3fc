---------------------------- MODULE MCRetention ----------------------------
(***************************************************************************)
(* Four firings, two archives to keep, one copy made by an operator.       *)
(***************************************************************************)
EXTENDS Retention

CONSTANTS copy
MCCopies == {copy}
=============================================================================
