--------------------------- MODULE AtomicRegistry ---------------------------
(***************************************************************************)
(* What the registry promises its clients: publish and unpublish take      *)
(* effect in one step, at a moment between the call and the answer, or not *)
(* at all.  There is no lock, no revision, no file and no log here: the    *)
(* package is the set of releases it lists, and an unpublish removes them  *)
(* only if they are exactly the ones its client was shown.                 *)
(***************************************************************************)
EXTENDS Packument

VARIABLES
  catalog,  \* the listed releases: version -> entry
  cmd,      \* the command each client runs
  phase,    \* where the command is
  shown,    \* the releases the client was shown
  outcome   \* the answer the client got

vars == <<catalog, cmd, phase, shown, outcome>>

NoReleases == [v \in {} |-> v]

Publishes(c)   == cmd[c].op = "publish"
Unpublishes(c) == cmd[c].op = "unpublish"

Init ==
  /\ catalog = NoReleases
  /\ cmd \in [Clients -> [op : {"publish"}, body : Bodies]
                          \cup [op : {"unpublish"}]
                          \cup [op : {"install"}, version : Versions]]
  /\ phase = [c \in Clients |-> "ready"]
  /\ shown = [c \in Clients |-> NoReleases]
  /\ outcome = [c \in Clients |-> "none"]

Move(c, from, to) == phase[c] \in from /\ phase' = [phase EXCEPT ![c] = to]

Answer(c, from, code) ==
  /\ Move(c, from, "answered")
  /\ outcome' = [outcome EXCEPT ![c] = code]

(* A client looks at the package.                                          *)
Look(c) ==
  /\ ~Publishes(c)
  /\ catalog # NoReleases
  /\ Move(c, {"ready"}, "shown")
  /\ shown' = [shown EXCEPT ![c] = catalog]
  /\ UNCHANGED <<catalog, cmd, outcome>>

Sends(c) == IF Publishes(c) THEN {"ready"}
            ELSE IF Unpublishes(c) THEN {"shown"} ELSE {}

Call(c) ==
  /\ Move(c, Sends(c), "called")
  /\ UNCHANGED <<catalog, cmd, shown, outcome>>

(* Answers that change nothing: each says something true of the package at *)
(* the moment it is decided.                                               *)
NotFound(c) ==
  /\ ~Publishes(c)
  /\ catalog = NoReleases
  /\ Answer(c, {"ready", "called"}, "notFound")

Conflict(c) ==
  /\ \/ Publishes(c) /\ cmd[c].body.version \in DOMAIN catalog
     \/ Unpublishes(c) /\ catalog # NoReleases /\ catalog # shown[c]
  /\ Answer(c, {"called"}, "conflict")

Denied(c) == \E code \in {"forbidden", "rejected"} : Answer(c, Sends(c), code)

(* The download that ends an install, and its failures.                    *)
Downloaded(c) ==
  /\ ~Publishes(c) /\ ~Unpublishes(c)
  /\ \E code \in {"served", "notFound"} : Answer(c, {"shown"}, code)

ReadFailed(c) ==
  /\ ~Publishes(c)
  /\ Answer(c, {"ready"} \cup (IF Unpublishes(c) THEN {} ELSE {"shown"}), "error")

(* "error" promises nothing: the command may have taken effect or not.     *)
Failed(c) == Answer(c, {"called", "done"}, "error")

Succeeded(c) == Answer(c, {"done"}, IF Publishes(c) THEN "created" ELSE "removed")

AnswerOnly(c) ==
  /\ \/ NotFound(c) \/ Conflict(c) \/ Denied(c) \/ Downloaded(c)
     \/ ReadFailed(c) \/ Failed(c) \/ Succeeded(c)
  /\ UNCHANGED <<catalog, cmd, shown>>

Effect(c) ==
  \/ /\ Publishes(c)
     /\ cmd[c].body.version \notin DOMAIN catalog
     /\ catalog' = Bind(catalog, cmd[c].body.version, Entry(cmd[c].body, c))
  \/ /\ Unpublishes(c)
     /\ catalog # NoReleases
     /\ catalog = shown[c]
     /\ catalog' = NoReleases

(* The command takes effect, once; its answer may already be an error.     *)
TakeEffect(c) ==
  /\ Effect(c)
  /\ \/ Move(c, {"called"}, "done") /\ UNCHANGED outcome
     \/ Answer(c, {"called"}, "error")
  /\ UNCHANGED <<cmd, shown>>

(* The server goes down: every command in it stays without an answer.      *)
Lose ==
  /\ phase' = [c \in Clients |->
                 IF phase[c] \in {"called", "done"} THEN "lost" ELSE phase[c]]
  /\ UNCHANGED <<catalog, cmd, shown, outcome>>

Next == \/ \E c \in Clients : Look(c) \/ Call(c) \/ AnswerOnly(c) \/ TakeEffect(c)
        \/ Lose

Spec == Init /\ [][Next]_vars
=============================================================================
