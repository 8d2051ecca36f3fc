------------------------- MODULE RegistryRefinement -------------------------
(***************************************************************************)
(* The registry implements the atomic one.  A publish takes effect when    *)
(* its manifest is stored, an unpublish when the manifest key is deleted,  *)
(* wherever that key comes in the listing; all other steps under the lock  *)
(* are invisible to clients.                                               *)
(***************************************************************************)
EXTENDS RegistryProperties

(* The command has changed the catalog, and its handler goes on.           *)
TookEffect(c) == \/ pc[c] \in {"recordEvent", "recordAudit", "reply"}
                 \/ pc[c] = "deleteKeys" /\ ManifestKey \notin todo[c]

Phase(c) == CASE pc[c] = "idle"    -> "ready"
              [] pc[c] = "fetched" -> "shown"
              [] pc[c] = "done"    -> "answered"
              [] pc[c] = "dropped" -> "lost"
              [] OTHER -> IF TookEffect(c) THEN "done" ELSE "called"

Atomic == INSTANCE AtomicRegistry WITH
            catalog <- VersionsOf(manifest),
            cmd     <- cmd,
            phase   <- [c \in Clients |-> Phase(c)],
            shown   <- [c \in Clients |-> VersionsOf(seen[c])],
            outcome <- status

(* Publish and unpublish are atomic for every client, whatever the other   *)
(* requests, the failing blob calls and the crashes in between: the lock,  *)
(* the revision and the order of the writes implement AtomicRegistry.      *)
ImplementsAtomicRegistry == Atomic!Spec
=============================================================================
