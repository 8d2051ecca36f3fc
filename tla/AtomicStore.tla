---------------------------- MODULE AtomicStore ----------------------------
(***************************************************************************)
(* What the local blob driver promises of single objects: a call has effect*)
(* in one step, between its start and its end, or, when it fails or the    *)
(* process dies under it, none at all. There are no files, directories or  *)
(* temporary names here: the store is a map from keys to contents.  Of a   *)
(* listing nothing is said but that it ends.                               *)
(***************************************************************************)

CONSTANTS
  Calls,       \* the calls
  Keys,        \* object keys
  Contents,    \* what may be stored
  Operations   \* what a call may be asked to do

VARIABLES
  objects,     \* the stored objects: key -> content
  arg,         \* what each call is asked to do
  outcome,     \* "open", or how the call ended
  result       \* Get: what was read

vars == <<objects, arg, outcome, result>>

Init ==
  /\ objects \in UNION { [K -> Contents] : K \in SUBSET Keys }
  /\ arg \in [Calls -> Operations]
  /\ outcome = [c \in Calls |-> "open"]
  /\ result = [c \in Calls |-> {}]

Ends(c, op, how) ==
  /\ arg[c].op = op
  /\ outcome[c] = "open"
  /\ outcome' = [outcome EXCEPT ![c] = how]

Put(c) ==
  /\ Ends(c, "put", "done")
  /\ objects' = [k \in DOMAIN objects \cup {arg[c].key} |->
                   IF k = arg[c].key THEN arg[c].data ELSE objects[k]]
  /\ UNCHANGED <<arg, result>>

Fails(c) == Ends(c, arg[c].op, "failed") /\ UNCHANGED <<objects, arg, result>>

Delete(c) ==
  /\ Ends(c, "delete", "done")
  /\ objects' = [k \in DOMAIN objects \ {arg[c].key} |-> objects[k]]
  /\ UNCHANGED <<arg, result>>

Get(c) ==
  /\ Ends(c, "get", "done")
  /\ result' = [result EXCEPT ![c] = { objects[k] : k \in DOMAIN objects \cap {arg[c].key} }]
  /\ UNCHANGED <<objects, arg>>

List(c) == Ends(c, "list", "done") /\ UNCHANGED <<objects, arg, result>>

(* The process dies under some of the open calls, which stay without an    *)
(* effect.                                                                 *)
Crash ==
  /\ \E D \in SUBSET { c \in Calls : outcome[c] = "open" } :
       outcome' = [c \in Calls |-> IF c \in D THEN "dropped" ELSE outcome[c]]
  /\ UNCHANGED <<objects, arg, result>>

Next == \/ \E c \in Calls : Put(c) \/ Fails(c) \/ Delete(c) \/ Get(c) \/ List(c)
        \/ Crash

Spec == Init /\ [][Next]_vars
=============================================================================
