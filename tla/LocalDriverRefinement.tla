----------------------- MODULE LocalDriverRefinement -----------------------
(***************************************************************************)
(* The local driver implements the atomic store.  A Put takes effect when  *)
(* its temporary file is renamed; creating, filling and removing that file *)
(* is invisible, and so is a walk.                                         *)
(***************************************************************************)
EXTENDS LocalDriver

Outcome(c) == IF pc[c] \in {"done", "failed", "dropped"} THEN pc[c] ELSE "open"

Atomic == INSTANCE AtomicStore WITH
            objects <- Restrict(files, Stored),
            outcome <- [c \in Calls |-> Outcome(c)]

(* "Written atomically" (local.go:15): Put, Delete and Get are atomic,     *)
(* whatever other calls run, fail or die meanwhile.  It is what Registry   *)
(* and Archive assume of a blob call.                                      *)
ImplementsAtomicStore == Atomic!Spec
=============================================================================
