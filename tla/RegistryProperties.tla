------------------------- MODULE RegistryProperties -------------------------
(***************************************************************************)
(* What the publish, unpublish and read handlers promise about a package.  *)
(***************************************************************************)
EXTENDS Registry

(* Every variable holds what the code may store in it: a manifest that is  *)
(* served or stored is always a whole document, with a revision above 0.   *)
TypeOK ==
  /\ manifest \in Manifests \cup {NoManifest}
  /\ tarballs \in PartialFunctions(Files, Contents)
  /\ lock \in Clients \cup {NoClient}
  /\ cmd \in [Clients -> Commands]
  /\ pc \in [Clients -> Points]
  /\ seen \in [Clients -> Manifests \cup {NoManifest}]
  /\ view \in [Clients -> Manifests \cup {NoManifest}]
  /\ doc \in [Clients -> Manifests \cup {NoManifest}]
  /\ todo \in [Clients -> SUBSET Keys]
  /\ status \in [Clients -> Statuses]
  /\ got \in [Clients -> SUBSET Contents]
  /\ feed \subseteq Records
  /\ audit \subseteq Records

Lists(m, v, e) == v \in DOMAIN VersionsOf(m) /\ VersionsOf(m)[v] = e
Listed(v, e)   == Lists(manifest, v, e)
Stored(e)      == e.file \in DOMAIN tarballs /\ tarballs[e.file] = e.sha

(* An unpublish whose client had been served the very release (v, e) has   *)
(* passed the revision check: the release is, or may be, gone.             *)
Withdrawn(v, e) ==
  \E u \in Clients : /\ Unpublishes(u)
                     /\ view[u] # NoManifest
                     /\ Lists(seen[u], v, e)

Release(c) == Entry(cmd[c].body, c)

(* The manifest a handler decided on is still the stored one when it acts  *)
(* on the decision: a publisher overwrites the document it merged into, an *)
(* unpublish deletes the revision it compared.  Clients read without the   *)
(* lock and other requests queue, so this rests on Storage.Lock alone.     *)
DecisionIsCurrent ==
  \A c \in Clients :
    /\ pc[c] \in {"putTarball", "putManifest", "listKeys"} => manifest = view[c]
    /\ pc[c] = "deleteKeys" => manifest \in {view[c], NoManifest}

Documents == ({manifest} \cup { seen[c] : c \in Clients }
               \cup { doc[c] : c \in Clients }) \ {NoManifest}

(* A revision names one state of the package for ever, although its number *)
(* starts again from 1 after an unpublish: the revision check of unpublish *)
(* cannot take a republished package for the one the client looked at.     *)
RevisionNamesManifest ==
  \A m1, m2 \in Documents : m1.rev = m2.rev => m1 = m2

(* Every version in the manifest can be installed: its tarball is stored   *)
(* and has the sha1 of its dist.  The one exception is a tarball deleted by*)
(* an unpublish of that very release which has not finished, or never did. *)
Installable ==
  \A v \in DOMAIN VersionsOf(manifest) :
    LET e == VersionsOf(manifest)[v]
    IN  Stored(e) \/ (e.file \notin DOMAIN tarballs /\ Withdrawn(v, e))

(* A publish that was answered 201, or that left an event or an audit line,*)
(* is in the manifest until someone unpublishes that very release: no      *)
(* concurrent publish, crash or failed request makes it disappear.         *)
AnnouncedReleaseStays ==
  \A c \in Clients :
    Publishes(c) /\ (status[c] = "created" \/ RecordOf(c) \in feed \cup audit)
      => \/ Listed(cmd[c].body.version, Release(c))
         \/ Withdrawn(cmd[c].body.version, Release(c))

(* An unpublish that was answered 200, or recorded, is final: none of the  *)
(* releases its client saw is listed again, by a publish that had read the *)
(* manifest before or by any later one.                                    *)
AnnouncedRemovalIsFinal ==
  \A u \in Clients :
    Unpublishes(u) /\ (status[u] = "removed" \/ RecordOf(u) \in feed \cup audit)
      => \A v \in DOMAIN seen[u].versions : ~Listed(v, seen[u].versions[v])

(* An install that was served a manifest and then asks for a tarball gets  *)
(* the bytes that manifest promised, unless the release it picked was      *)
(* unpublished in between: it may then get 404 or a later release's bytes. *)
InstallIsHonest ==
  \A c \in Clients :
    LET v == cmd[c].version
        e == seen[c].versions[v]
    IN  Installs(c) /\ seen[c] # NoManifest /\ v \in DOMAIN seen[c].versions
          /\ status[c] \in {"served", "notFound"}
          => got[c] = {e.sha} \/ Withdrawn(v, e)

(* A stored tarball that no version lists was left by a publish that did   *)
(* not reach its manifest, or by an unpublish that did not reach the key.  *)
(* A publish or an unpublish that succeeds leaves nothing behind.          *)
NoOrphanTarballs ==
  \A f \in DOMAIN tarballs :
    \/ \E v \in DOMAIN VersionsOf(manifest) : VersionsOf(manifest)[v].file = f
    \/ \E c \in Clients : /\ Publishes(c)
                          /\ cmd[c].body.file = f
                          /\ \/ pc[c] \in {"putManifest", "dropped"}
                             \/ status[c] = "error"
    \/ \E u \in Clients : /\ f \in todo[u]
                          /\ pc[u] # "done" \/ status[u] = "error"

(* Every dist-tag points to a listed version and "latest" is set: a package*)
(* without that is left out of the package list and the search (packages.go*)
(* :63) and its page answers 404 (web.go:33), although it is stored.  It   *)
(* needs bodies that tag only the version they carry.                      *)
TagsResolve ==
  manifest # NoManifest =>
    /\ Latest \in DOMAIN manifest.tags
    /\ \A t \in DOMAIN manifest.tags :
         manifest.tags[t] \in DOMAIN manifest.versions

(* A release that is listed has its audit line, unless its publisher has   *)
(* not got that far, died on the way or was told that it failed (or the    *)
(* line itself could not be written).                                      *)
AuditGapIsAFailure ==
  \A v \in DOMAIN VersionsOf(manifest) :
    LET p == VersionsOf(manifest)[v].by
    IN  \/ RecordOf(p) \in audit
        \/ pc[p] \in InLock \cup {"dropped"}
        \/ status[p] = "error"
        \/ "record" \in Faults

(* Releases are immutable: a step that rewrites the manifest keeps every   *)
(* version object it had and raises the revision number.                   *)
ReleasesAreImmutable ==
  [][manifest # NoManifest /\ manifest' # NoManifest /\ manifest' # manifest
       => /\ manifest'.rev.n > manifest.rev.n
          /\ \A v \in DOMAIN manifest.versions :
               Lists(manifest', v, manifest.versions[v])]_vars

(* A listed release loses its tarball, or its place in the manifest, only  *)
(* to an unpublish whose client was served exactly the manifest as it is.  *)
OnlyTheSeenIsRemoved ==
  [][\A v \in DOMAIN VersionsOf(manifest), e \in Range(VersionsOf(manifest)) :
       (Listed(v, e) /\ Stored(e)) /\ ~(Listed(v, e) /\ Stored(e))'
         => \E u \in Clients : pc[u] = "deleteKeys" /\ seen[u] = manifest]_vars

(* A request that queued on the package lock is answered, unless the server*)
(* goes down: no early return keeps the lock.                              *)
RequestsAreAnswered ==
  \A c \in Clients : pc[c] = "waiting" ~> pc[c] \in Ended
=============================================================================
