--------------------------- MODULE ReleaseProofs ---------------------------
(***************************************************************************)
(* What becomes of a release, for every set of clients, versions, files    *)
(* and bodies, every key order and every fault: it is immutable, can be    *)
(* installed, and goes only by an unpublish of the very manifest its client*)
(* saw.  Most facts about what is stored as a tarball assume what npm does *)
(* and no handler enforces (FileNamesVersion).  Last, the handlers are     *)
(* shown to implement the single-step operations of AtomicRegistry.        *)
(***************************************************************************)
EXTENDS RegistryProofs, RegistryRefinement, FiniteSetTheorems, WellFoundedInduction

CoreInv == TypeOK /\ RoleInv /\ LockInv /\ DecisionIsCurrent /\ DraftInv /\ OriginInv

LEMMA CoreInit == Init => CoreInv
  BY InitTyped DEF Init, CoreInv, DecisionIsCurrent, DraftInv, OriginInv, Origin

LEMMA CoreStep == CoreInv /\ [Next]_vars => CoreInv'
  BY TypeStep, RoleStep, LockStep, DecisionStep, DraftStep, OriginStep DEF CoreInv

(* Two documents with the same revision are one.                           *)
LEMMA OneDocument ==
  ASSUME CoreInv, NEW c \in Clients,
         manifest # NoManifest, seen[c] # NoManifest, manifest.rev = seen[c].rev
  PROVE  manifest = seen[c]
  BY DEF CoreInv, OriginInv, Origin

----------------------------------------------------------------------------
(* Steps, by what they change.                                             *)

(* A client is moved by its own steps, or by a crash.                      *)
LEMMA OwnMove ==
  ASSUME TypeOK, LockInv, [Next]_vars, NEW d \in Clients, pc'[d] # pc[d]
  PROVE  ClientStep(d) \/ LockPackage(d) \/ HandlerStep(d) \/ Crash
<1>1. ASSUME NEW c \in Clients, ClientStep(c) \/ LockPackage(c) \/ HandlerStep(c)
      PROVE  c = d
  BY <1>1, ClientsMove DEF Moves, TypeOK
<1>2. CASE UNCHANGED vars
  BY <1>2 DEF vars
<1> QED
  BY <1>1, <1>2 DEF Next

(* What is stored changes in three ways, and each is the lock holder's.    *)
PutsTarball(c) ==
  /\ PutTarball(c) \/ PutTarballFails(c)
  /\ pc[c] = "putTarball"
  /\ manifest' = manifest
  /\ tarballs' = TarballsAfterPut(c)

PutsManifest(c) ==
  /\ PutManifest(c) \/ PutManifestFails(c)
  /\ pc[c] = "putManifest"
  /\ tarballs' = tarballs
  /\ manifest' = doc[c]

Deletes(c, k) ==
  /\ DeleteKey(c) \/ DeleteKeyFails(c)
  /\ pc[c] = "deleteKeys"
  /\ IsNextKey(c, k)
  /\ Delete(k)

LEMMA StoreChanges ==
  ASSUME [Next]_vars
  PROVE  \/ UNCHANGED store
         \/ \E c \in Clients : PutsTarball(c)
         \/ \E c \in Clients : PutsManifest(c)
         \/ \E c \in Clients, k \in Keys : Deletes(c, k)
<1>1. ASSUME NEW c \in Clients, PutTarball(c) \/ PutTarballFails(c)
      PROVE  UNCHANGED store \/ PutsTarball(c)
  BY <1>1 DEF PutsTarball, PutTarball, PutTarballFails, Goto, store
<1>2. ASSUME NEW c \in Clients, PutManifest(c) \/ PutManifestFails(c)
      PROVE  UNCHANGED store \/ PutsManifest(c)
  BY <1>2 DEF PutsManifest, PutManifest, PutManifestFails, Goto, store
<1>3. ASSUME NEW c \in Clients, DeleteKey(c) \/ DeleteKeyFails(c)
      PROVE  UNCHANGED store \/ \E k \in Keys : Deletes(c, k)
  BY <1>3 DEF Deletes, DeleteKey, DeleteKeyFails, store
<1> QED
  BY <1>1, <1>2, <1>3
     DEF Next, ClientStep, HandlerStep, PublishStep, UnpublishStep, vars, store,
         FetchManifest, Send, RefusePublish, RefuseUnpublish, LockPackage,
         GetFails, CheckFails, PublishCheck, UnpublishCheck, ListKeys,
         ListKeysFails, RecordEvent, RecordAudit, Reply, FetchTarball, Crash

(* Nobody else is between lock and unlock then.                            *)
LEMMA Alone ==
  ASSUME LockInv, NEW c \in Clients, NEW d \in Clients,
         pc[c] \in InLock, pc[d] \in InLock
  PROVE  c = d
  BY DEF LockInv

----------------------------------------------------------------------------
(* The checks: what has been read, and what it was compared with.          *)

Unchecked == {"idle", "fetched", "waiting", "locked"}

CheckInv ==
  \A c \in Clients :
    /\ pc[c] \in Unchecked => view[c] = NoManifest
    /\ pc[c] = "idle" => seen[c] = NoManifest
    /\ pc[c] \in {"putTarball", "putManifest"} =>
         cmd[c].body.version \notin DOMAIN VersionsOf(view[c])
    /\ pc[c] \in {"listKeys", "deleteKeys"} => view[c] # NoManifest
    /\ Unpublishes(c) /\ view[c] # NoManifest => view[c] = seen[c]

(* Nobody comes back to a point before the check, and nobody passes it     *)
(* without it.                                                             *)
LEMMA ChecksComeFirst ==
  ASSUME TypeOK, LockInv, RoleInv, [Next]_vars, NEW d \in Clients
  PROVE  /\ pc'[d] \in Unchecked =>
              pc[d] \in Unchecked /\ ~PublishCheck(d) /\ ~UnpublishCheck(d)
         /\ pc'[d] = "idle" => pc[d] = "idle" /\ ~FetchManifest(d)
         /\ pc'[d] \in {"putTarball", "putManifest"} =>
              pc[d] \in {"putTarball", "putManifest"} \/ PublishCheck(d)
         /\ pc'[d] \in {"listKeys", "deleteKeys"} =>
              pc[d] \in {"listKeys", "deleteKeys"} \/ UnpublishCheck(d)
<1> USE DEF Goto, Return, TypeOK, Unchecked
<1>1. CASE pc'[d] = pc[d]
  BY <1>1 DEF PublishCheck, UnpublishCheck, FetchManifest
<1>2. CASE ClientStep(d) \/ LockPackage(d)
  BY <1>2 DEF ClientStep, FetchManifest, Send, Sends, RefusePublish,
              RefuseUnpublish, Deny, GetFails, FetchTarball, LockPackage,
              PublishCheck, UnpublishCheck
<1>3. CASE PublishCheck(d) \/ UnpublishCheck(d)
  BY <1>3 DEF PublishCheck, UnpublishCheck
<1>4. CASE PutTarball(d) \/ PutTarballFails(d) \/ PutManifest(d) \/ PutManifestFails(d)
  BY <1>4 DEF PutTarball, PutTarballFails, PutManifest, PutManifestFails
<1>5. CASE ListKeys(d) \/ ListKeysFails(d) \/ DeleteKey(d) \/ DeleteKeyFails(d)
  BY <1>5 DEF ListKeys, ListKeysFails, DeleteKey, DeleteKeyFails
<1>6. CASE CheckFails(d) \/ RecordEvent(d) \/ RecordAudit(d) \/ Reply(d)
  BY <1>6 DEF CheckFails, RecordEvent, RecordAudit, Reply
<1>7. CASE Crash
  BY <1>1, <1>7 DEF Crash
<1> HIDE DEF Goto, Return, TypeOK, Unchecked
<1> QED
  BY <1>1, <1>2, <1>3, <1>4, <1>5, <1>6, <1>7, OwnMove
     DEF HandlerStep, PublishStep, UnpublishStep

LEMMA CheckStep == CoreInv /\ CheckInv /\ [Next]_vars => CheckInv'
<1> SUFFICES ASSUME CoreInv, CheckInv, [Next]_vars, NEW c \in Clients
             PROVE  /\ pc'[c] \in Unchecked => view'[c] = NoManifest
                    /\ pc'[c] = "idle" => seen'[c] = NoManifest
                    /\ pc'[c] \in {"putTarball", "putManifest"} =>
                         cmd'[c].body.version \notin DOMAIN VersionsOf(view'[c])
                    /\ pc'[c] \in {"listKeys", "deleteKeys"} => view'[c] # NoManifest
                    /\ Unpublishes(c)' /\ view'[c] # NoManifest => view'[c] = seen'[c]
  BY DEF CheckInv, VersionsOf
<1> USE CommandsFixed
<1>0. TypeOK /\ LockInv /\ RoleInv
  BY DEF CoreInv
<1>1. CASE PublishCheck(c)
  <2>1. view'[c] = manifest /\ Publishes(c) /\ pc'[c] \notin Unchecked
        /\ pc'[c] \notin {"listKeys", "deleteKeys"}
    BY <1>0, <1>1 DEF PublishCheck, Goto, Return, TypeOK, Unchecked
  <2>2. pc'[c] \in {"putTarball", "putManifest"} =>
          cmd[c].body.version \notin DOMAIN VersionsOf(manifest)
    BY <1>0, <1>1 DEF PublishCheck, Return, TypeOK
  <2> QED
    BY <2>1, <2>2 DEF Publishes, Unpublishes, Unchecked
<1>2. CASE UnpublishCheck(c)
  <2>1. pc[c] = "locked" /\ seen' = seen /\ seen[c] # NoManifest /\ view[c] = NoManifest
    BY <1>0, <1>2 DEF UnpublishCheck, CheckInv, Unchecked, RoleInv, InServer, InLock
  <2>2. \/ pc'[c] = "done" /\ view'[c] = NoManifest
        \/ /\ pc'[c] = "listKeys" /\ view'[c] = manifest
           /\ manifest # NoManifest /\ manifest.rev = seen[c].rev
    BY <1>0, <1>2, <2>1 DEF UnpublishCheck, Goto, Return, TypeOK
  <2> QED
    BY <2>1, <2>2, OneDocument DEF Unchecked
<1>3. CASE ~PublishCheck(c) /\ ~UnpublishCheck(c)
  <2>1. view'[c] = view[c]
    BY <1>0, <1>3, ViewChanges
  <2>2. pc'[c] \in Unchecked => view[c] = NoManifest
    BY <1>0, ChecksComeFirst DEF CheckInv
  <2>3. pc'[c] = "idle" => seen'[c] = NoManifest
    BY <1>0, ChecksComeFirst, SeenChanges DEF CheckInv
  <2>4. pc'[c] \in {"putTarball", "putManifest"} =>
          cmd[c].body.version \notin DOMAIN VersionsOf(view[c])
    BY <1>0, <1>3, ChecksComeFirst DEF CheckInv
  <2>5. pc'[c] \in {"listKeys", "deleteKeys"} => view[c] # NoManifest
    BY <1>0, <1>3, ChecksComeFirst DEF CheckInv
  <2>6. view[c] # NoManifest => seen'[c] = seen[c]
    BY <1>0, SeenChanges DEF FetchManifest, Goto, Return, CheckInv, Unchecked
  <2> QED
    BY <2>1, <2>2, <2>3, <2>4, <2>5, <2>6 DEF CheckInv, Unpublishes
<1> QED
  BY <1>1, <1>2, <1>3

LEMMA CheckInit == Init => CheckInv
  BY DEF Init, CheckInv, Unchecked

(***************************************************************************)
(* A rewrite of the manifest merges one new version into the stored one.   *)
(***************************************************************************)
LEMMA Rewrites ==
  ASSUME CoreInv, CheckInv, NEW c \in Clients, PutsManifest(c)
  PROVE  /\ Publishes(c)
         /\ cmd[c].body.version \notin DOMAIN VersionsOf(manifest)
         /\ manifest' = Merge(manifest, cmd[c].body, c)
         /\ manifest' # NoManifest
         /\ manifest'.rev.n = RevNumber(manifest) + 1
         /\ VersionsOf(manifest') = Bind(VersionsOf(manifest), cmd[c].body.version, Release(c))
<1>1. Publishes(c) /\ view[c] = manifest /\ doc[c] = Merge(view[c], cmd[c].body, c)
  BY DEF PutsManifest, CoreInv, RoleInv, DecisionIsCurrent, DraftInv
<1>2. cmd[c].body.version \notin DOMAIN VersionsOf(manifest)
  BY <1>1 DEF PutsManifest, CheckInv
<1>3. manifest' = Merge(manifest, cmd[c].body, c)
  BY <1>1 DEF PutsManifest
<1>4. cmd[c].body \in Bodies /\ manifest \in Manifests \cup {NoManifest}
  BY <1>1, BodyOfPublish DEF CoreInv, TypeOK
<1> QED
  BY <1>1, <1>2, <1>3, <1>4, MergeValues DEF Release

LEMMA RewriteKeeps ==
  ASSUME CoreInv, CheckInv, NEW c \in Clients, PutsManifest(c), NEW v, NEW e, Listed(v, e)
  PROVE  Listed(v, e)'
<1>1. v \in DOMAIN VersionsOf(manifest) /\ VersionsOf(manifest)[v] = e
  BY DEF Listed, Lists
<1>2. v # cmd[c].body.version
        /\ VersionsOf(manifest') = Bind(VersionsOf(manifest), cmd[c].body.version, Release(c))
  BY <1>1, Rewrites
<1>3. v \in DOMAIN VersionsOf(manifest') /\ VersionsOf(manifest')[v] = e
  BY <1>1, <1>2 DEF Bind
<1> QED
  BY <1>3 DEF Listed, Lists, VersionsOf

ImmutableStep ==
  manifest # NoManifest /\ manifest' # NoManifest /\ manifest' # manifest
    => /\ manifest'.rev.n > manifest.rev.n
       /\ \A v \in DOMAIN manifest.versions : Lists(manifest', v, manifest.versions[v])

LEMMA ImmutableSteps == CoreInv /\ CheckInv /\ [Next]_vars => ImmutableStep
<1> SUFFICES ASSUME CoreInv, CheckInv, [Next]_vars, manifest # NoManifest,
                    manifest' # NoManifest, manifest' # manifest
             PROVE  /\ manifest'.rev.n > manifest.rev.n
                    /\ \A v \in DOMAIN manifest.versions :
                         Lists(manifest', v, manifest.versions[v])
  BY DEF ImmutableStep
<1>1. PICK c \in Clients : PutsManifest(c)
  BY StoreChanges DEF store, PutsTarball, Deletes, Delete
<1>2. manifest.rev.n \in Nat
  BY DEF CoreInv, TypeOK, Manifests, Revisions
<1>3. manifest'.rev.n > manifest.rev.n
  BY <1>1, <1>2, Rewrites DEF RevNumber
<1>4. ASSUME NEW v \in DOMAIN manifest.versions
      PROVE  Lists(manifest', v, manifest.versions[v])
  <2>1. \A e : e = manifest.versions[v] => Listed(v, e)'
    BY <1>1, <1>4, RewriteKeeps DEF Listed, Lists, VersionsOf
  <2> QED
    BY <2>1 DEF Listed, Lists, VersionsOf
<1> QED
  BY <1>3, <1>4

(* handlePublish answers 409 for a version that is present and merges into *)
(* the document it read under the lock: no publish changes a release.      *)
THEOREM ReleasesStay == Spec => ReleasesAreImmutable
<1>1. Init => CoreInv /\ CheckInv
  BY CoreInit, CheckInit
<1>2. (CoreInv /\ CheckInv) /\ [Next]_vars => (CoreInv /\ CheckInv)'
  BY CoreStep, CheckStep
<1>3. (CoreInv /\ CheckInv) /\ [Next]_vars => [ImmutableStep]_vars
  BY ImmutableSteps
<1>4. ReleasesAreImmutable <=> [][ImmutableStep]_vars
  BY DEF ReleasesAreImmutable, ImmutableStep
<1> QED
  BY <1>1, <1>2, <1>3, <1>4, PTL DEF Spec

----------------------------------------------------------------------------
(* Unpublishing.                                                           *)

(* Who deletes has compared the stored manifest with the one it was served.*)
LEMMA DeleterSaw ==
  ASSUME CoreInv, CheckInv, NEW c \in Clients, pc[c] = "deleteKeys",
         manifest # NoManifest
  PROVE  /\ manifest = seen[c]
         /\ \A v, e : Listed(v, e) => Withdrawn(v, e)
<1>1. manifest = view[c] /\ Unpublishes(c) /\ view[c] # NoManifest /\ view[c] = seen[c]
  BY DEF CoreInv, DecisionIsCurrent, RoleInv, CheckInv
<1> QED
  BY <1>1 DEF Withdrawn, Listed

(* A check that was passed stays passed, with what was served before it.   *)
LEMMA WithdrawnStays ==
  ASSUME CoreInv, CheckInv, [Next]_vars, NEW v, NEW e, Withdrawn(v, e)
  PROVE  Withdrawn(v, e)'
<1>1. PICK u \in Clients : Unpublishes(u) /\ view[u] # NoManifest /\ Lists(seen[u], v, e)
  BY DEF Withdrawn
<1>2. seen'[u] = seen[u]
  BY <1>1, SeenChanges DEF CoreInv, FetchManifest, Goto, Return, CheckInv, Unchecked
<1>3. view'[u] = view[u]
  BY <1>1, ViewChanges DEF CoreInv, PublishCheck, UnpublishCheck, Goto, CheckInv, Unchecked
<1>4. Unpublishes(u)'
  BY <1>1, CommandsFixed DEF Unpublishes
<1> QED
  BY <1>1, <1>2, <1>3, <1>4 DEF Withdrawn, Lists, VersionsOf

(* A listed release stays listed, or has been withdrawn.                   *)
LEMMA ListedStays ==
  ASSUME CoreInv, CheckInv, [Next]_vars, NEW v, NEW e, Listed(v, e)
  PROVE  Listed(v, e)' \/ Withdrawn(v, e)'
<1>1. CASE manifest' = manifest
  BY <1>1 DEF Listed, Lists, VersionsOf
<1>2. CASE \E c \in Clients : PutsManifest(c)
  BY <1>2, RewriteKeeps
<1>3. CASE \E c \in Clients, k \in Keys : Deletes(c, k) /\ manifest' # manifest
  <2>1. PICK c \in Clients : pc[c] = "deleteKeys"
    BY <1>3 DEF Deletes
  <2>2. manifest # NoManifest
    BY DEF Listed, Lists, VersionsOf
  <2> QED
    BY <2>1, <2>2, DeleterSaw, WithdrawnStays
<1> QED
  BY <1>1, <1>2, <1>3, StoreChanges DEF store, PutsTarball

----------------------------------------------------------------------------
(* Where a version object comes from.                                      *)

(* Each one was stamped by the publish of that very version.               *)
Genuine(m) ==
  \A v \in DOMAIN VersionsOf(m) :
    LET p == VersionsOf(m)[v].by
    IN  /\ p \in Clients
        /\ Publishes(p)
        /\ cmd[p].body.version = v
        /\ VersionsOf(m)[v] = Release(p)

(* A manifest's tags name its versions, and "latest" is one of them.       *)
Tagged(m) ==
  m # NoManifest => /\ Latest \in DOMAIN m.tags
                    /\ \A t \in DOMAIN m.tags : m.tags[t] \in DOMAIN m.versions

SourceInv == \A c \in Clients : Genuine(doc[c])
TagInv == \A c \in Clients : Tagged(doc[c])

(* Every stored, served or read manifest was a document first.             *)
LEMMA DocumentsFirst ==
  ASSUME CoreInv, NEW m \in {manifest} \cup { seen[c] : c \in Clients }
                            \cup { view[c] : c \in Clients },
         m # NoManifest
  PROVE  \E c \in Clients : m = doc[c]
<1>1. m \in Manifests /\ Origin(m)
  BY DEF CoreInv, TypeOK, OriginInv
<1> QED
  BY <1>1 DEF Origin, Manifests, Revisions

LEMMA GenuineManifests ==
  ASSUME CoreInv, SourceInv
  PROVE  /\ Genuine(manifest)
         /\ \A c \in Clients : Genuine(seen[c]) /\ Genuine(view[c])
<1>1. Genuine(NoManifest)
  BY DEF Genuine, VersionsOf
<1> QED
  BY <1>1, DocumentsFirst DEF SourceInv

LEMMA MergeIsGenuine ==
  ASSUME NEW m \in Manifests \cup {NoManifest}, Genuine(m), TypeOK,
         NEW c \in Clients, Publishes(c)
  PROVE  Genuine(Merge(m, cmd[c].body, c))
<1>1. VersionsOf(Merge(m, cmd[c].body, c))
        = Bind(VersionsOf(m), cmd[c].body.version, Release(c))
  BY BodyOfPublish, MergeValues DEF Release
<1>2. Release(c).by = c
  BY DEF Release, Entry
<1> QED
  BY <1>1, <1>2 DEF Genuine, Bind

LEMMA MergeIsTagged ==
  ASSUME NEW m \in Manifests \cup {NoManifest}, Tagged(m),
         NEW b \in Bodies, NEW c \in Clients, TagsOwnVersion
  PROVE  Tagged(Merge(m, b, c))
<1> DEFINE tags == Overlay(TagsOf(m), b.tags)
           after == TagsAfter(m, b)
           n == Merge(m, b, c)
<1>1. n.tags = after /\ DOMAIN n.versions = DOMAIN VersionsOf(m) \cup {b.version}
  BY DEF Merge, Bind
<1>2. \A t \in DOMAIN b.tags : b.tags[t] = b.version
  BY DEF TagsOwnVersion
<1>3. DOMAIN tags = DOMAIN TagsOf(m) \cup DOMAIN b.tags
  BY DEF Overlay
<1>4. \A t \in DOMAIN tags : tags[t] \in DOMAIN VersionsOf(m) \cup {b.version}
  BY <1>2, <1>3 DEF Overlay, Tagged, TagsOf, VersionsOf
<1>5. CASE m = NoManifest /\ Latest \notin DOMAIN tags
  <2>1. after = Bind(tags, Latest, b.version)
    BY <1>5 DEF TagsAfter
  <2>2. /\ Latest \in DOMAIN after
        /\ \A t \in DOMAIN after : after[t] \in DOMAIN VersionsOf(m) \cup {b.version}
    BY <1>4, <2>1 DEF Bind
  <2> QED
    BY <1>1, <2>2 DEF Tagged
<1>6. CASE m # NoManifest \/ Latest \in DOMAIN tags
  <2>1. after = tags
    BY <1>6 DEF TagsAfter
  <2>2. Latest \in DOMAIN tags
    BY <1>3, <1>6 DEF Tagged, TagsOf
  <2> QED
    BY <1>1, <1>4, <2>1, <2>2 DEF Tagged
<1> QED
  BY <1>5, <1>6

LEMMA SourceStep == CoreInv /\ SourceInv /\ [Next]_vars => SourceInv'
<1> SUFFICES ASSUME CoreInv, SourceInv, [Next]_vars, NEW c \in Clients
             PROVE  Genuine(doc[c])'
  BY DEF SourceInv
<1>0. cmd' = cmd
  BY CommandsFixed
<1>1. Genuine(doc'[c])
  <2>1. CASE PutTarball(c)
    <3>1. Publishes(c) /\ doc'[c] = Merge(view[c], cmd[c].body, c)
      BY <2>1 DEF PutTarball, Goto, CoreInv, RoleInv, TypeOK
    <3> QED
      BY <3>1, GenuineManifests, MergeIsGenuine DEF CoreInv, TypeOK
  <2>2. CASE ~PutTarball(c)
    BY <2>2, DocChanges DEF CoreInv, SourceInv
  <2> QED
    BY <2>1, <2>2
<1> QED
  BY <1>0, <1>1 DEF Genuine, VersionsOf, Publishes, Release, Entry

LEMMA TagStep ==
  ASSUME TagsOwnVersion
  PROVE  CoreInv /\ TagInv /\ [Next]_vars => TagInv'
<1> SUFFICES ASSUME CoreInv, TagInv, [Next]_vars, NEW c \in Clients
             PROVE  Tagged(doc'[c])
  BY DEF TagInv, Tagged
<1>1. CASE PutTarball(c)
  <2>1. Publishes(c) /\ doc'[c] = Merge(view[c], cmd[c].body, c)
    BY <1>1 DEF PutTarball, Goto, CoreInv, RoleInv, TypeOK
  <2>2. Tagged(view[c])
    BY DocumentsFirst DEF TagInv, Tagged
  <2> QED
    BY <2>1, <2>2, MergeIsTagged, BodyOfPublish DEF CoreInv, TypeOK
<1>2. CASE ~PutTarball(c)
  BY <1>2, DocChanges DEF CoreInv, TagInv
<1> QED
  BY <1>1, <1>2

(* The list, the search and the package page take "latest" for granted: it *)
(* is there, and no tag outlives its version, if bodies tag only their own *)
(* version, as npm's do.                                                   *)
THEOREM TagsAlwaysResolve == TagsOwnVersion => (Spec => []TagsResolve)
<1> SUFFICES ASSUME TagsOwnVersion PROVE Spec => []TagsResolve
  OBVIOUS
<1>1. Init => CoreInv /\ TagInv
  BY CoreInit DEF Init, TagInv, Tagged
<1>2. (CoreInv /\ TagInv) /\ [Next]_vars => (CoreInv /\ TagInv)'
  BY CoreStep, TagStep
<1>3. CoreInv /\ TagInv => TagsResolve
  BY DocumentsFirst DEF TagInv, Tagged, TagsResolve
<1> QED
  BY <1>1, <1>2, <1>3, PTL DEF Spec

(***************************************************************************)
(* Tarballs, named after their version.                                    *)
(***************************************************************************)

(* Whoever is about to store the manifest has stored the tarball.          *)
StoredInv == \A c \in Clients : pc[c] = "putManifest" => Stored(Release(c))

ReleaseInv == CoreInv /\ CheckInv /\ SourceInv

LEMMA ReleaseInit == Init => ReleaseInv
<1>1. Init => SourceInv
  BY DEF Init, SourceInv, Genuine, VersionsOf
<1> QED
  BY <1>1, CoreInit, CheckInit DEF ReleaseInv

LEMMA ReleaseStep == ReleaseInv /\ [Next]_vars => ReleaseInv'
  BY CoreStep, CheckStep, SourceStep DEF ReleaseInv

(* A publish stores its own file and no other.                             *)
LEMMA PutKeepsOthers ==
  ASSUME NEW c \in Clients, tarballs' = TarballsAfterPut(c)
  PROVE  /\ DOMAIN tarballs' = DOMAIN tarballs \cup {cmd[c].body.file}
         /\ tarballs'[cmd[c].body.file] = cmd[c].body.sha
         /\ \A f \in DOMAIN tarballs : f # cmd[c].body.file => tarballs'[f] = tarballs[f]
  BY DEF TarballsAfterPut, Bind

LEMMA DeleteKeepsOthers ==
  ASSUME NEW k, Delete(k)
  PROVE  /\ DOMAIN tarballs' = DOMAIN tarballs \ {k}
         /\ \A f \in DOMAIN tarballs' : tarballs'[f] = tarballs[f]
  BY DEF Delete, Restrict

(* The file of a listed release is not the one a publish writes: the       *)
(* publish would be of a version that is listed.                           *)
LEMMA FileIsFresh ==
  ASSUME FileNamesVersion, ReleaseInv, NEW c \in Clients, pc[c] = "putTarball",
         NEW v, NEW e, Listed(v, e)
  PROVE  e.file # cmd[c].body.file
<1>1. Publishes(c) /\ manifest = view[c]
  BY DEF ReleaseInv, CoreInv, RoleInv, DecisionIsCurrent
<1>2. v # cmd[c].body.version
  BY <1>1 DEF ReleaseInv, CheckInv, Listed, Lists
<1>3. PICK p \in Clients : Publishes(p) /\ cmd[p].body.version = v /\ e = Release(p)
  BY GenuineManifests DEF ReleaseInv, Genuine, Listed, Lists
<1>4. cmd[p].body \in Bodies /\ cmd[c].body \in Bodies
  BY <1>1, <1>3, BodyOfPublish DEF ReleaseInv, CoreInv
<1>5. e.file = cmd[p].body.file
  BY <1>3 DEF Release, Entry
<1> QED
  BY <1>2, <1>3, <1>4, <1>5 DEF FileNamesVersion

LEMMA StoredStep == ReleaseInv /\ StoredInv /\ [Next]_vars => StoredInv'
<1> SUFFICES ASSUME ReleaseInv, StoredInv, [Next]_vars,
                    NEW c \in Clients, pc'[c] = "putManifest"
             PROVE  Stored(Release(c))'
  BY DEF StoredInv
<1>0. TypeOK /\ LockInv /\ RoleInv /\ cmd' = cmd
  BY CommandsFixed DEF ReleaseInv, CoreInv
<1>1. CASE PutTarball(c)
  BY <1>0, <1>1, PutKeepsOthers DEF PutTarball, Stored, Release, Entry
<1>2. CASE ~PutTarball(c)
  <2>1. pc[c] = "putManifest"
    BY <1>0, <1>2, ProgressIsForward
  <2>2. UNCHANGED tarballs
    <3>1. ASSUME NEW d \in Clients, PutsTarball(d) PROVE FALSE
      BY <1>0, <2>1, <3>1, Alone DEF PutsTarball, InLock
    <3>2. ASSUME NEW d \in Clients, NEW k \in Keys, Deletes(d, k) PROVE FALSE
      BY <1>0, <2>1, <3>2, Alone DEF Deletes, InLock
    <3> QED
      BY <3>1, <3>2, StoreChanges DEF store, PutsManifest
  <2> QED
    BY <1>0, <2>1, <2>2 DEF StoredInv, Stored, Release, Entry
<1> QED
  BY <1>1, <1>2

(* A listed release keeps its place and its tarball, unless the holder of  *)
(* the lock deletes the manifest it was served.                            *)
LEMMA KeptOrSeen ==
  ASSUME FileNamesVersion, ReleaseInv, [Next]_vars, NEW v, NEW e, Listed(v, e)
  PROVE  \/ /\ Listed(v, e)'
            /\ Stored(e) => Stored(e)'
            /\ e.file \notin DOMAIN tarballs => e.file \notin DOMAIN tarballs'
         \/ \E u \in Clients, k \in Keys :
              Deletes(u, k) /\ pc[u] = "deleteKeys" /\ seen[u] = manifest
<1>0. CoreInv /\ CheckInv
  BY DEF ReleaseInv
<1>1. CASE UNCHANGED store
  BY <1>1 DEF store, Listed, Lists, VersionsOf, Stored
<1>2. ASSUME NEW c \in Clients, PutsTarball(c)
      PROVE  /\ Listed(v, e)'
             /\ Stored(e) => Stored(e)'
             /\ e.file \notin DOMAIN tarballs => e.file \notin DOMAIN tarballs'
  <2>1. e.file # cmd[c].body.file
    BY <1>2, FileIsFresh DEF PutsTarball
  <2> QED
    BY <1>2, <2>1, PutKeepsOthers DEF PutsTarball, Listed, Lists, VersionsOf, Stored
<1>3. ASSUME NEW c \in Clients, PutsManifest(c)
      PROVE  /\ Listed(v, e)'
             /\ Stored(e) => Stored(e)'
             /\ e.file \notin DOMAIN tarballs => e.file \notin DOMAIN tarballs'
  BY <1>0, <1>3, RewriteKeeps DEF PutsManifest, Stored
<1>4. ASSUME NEW c \in Clients, NEW k \in Keys, Deletes(c, k)
      PROVE  pc[c] = "deleteKeys" /\ seen[c] = manifest
  BY <1>0, <1>4, DeleterSaw DEF Deletes, Listed, Lists, VersionsOf
<1> QED
  BY <1>1, <1>2, <1>3, <1>4, StoreChanges

LEMMA InstallableStep ==
  ASSUME FileNamesVersion
  PROVE  ReleaseInv /\ StoredInv /\ Installable /\ [Next]_vars => Installable'
<1> SUFFICES ASSUME ReleaseInv, StoredInv, Installable, [Next]_vars,
                    NEW v \in DOMAIN VersionsOf(manifest'),
                    NEW e, e = VersionsOf(manifest')[v]
             PROVE  Stored(e)' \/ (e.file \notin DOMAIN tarballs' /\ Withdrawn(v, e)')
  BY DEF Installable, VersionsOf, Withdrawn, Lists
<1>0. CoreInv /\ CheckInv
  BY DEF ReleaseInv
<1>1. CASE Listed(v, e)
  <2>1. Stored(e) \/ (e.file \notin DOMAIN tarballs /\ Withdrawn(v, e))
    BY <1>1 DEF Installable, Listed, Lists
  <2>2. CASE \E u \in Clients, k \in Keys :
               Deletes(u, k) /\ pc[u] = "deleteKeys" /\ seen[u] = manifest
    <3>1. PICK u \in Clients, k \in Keys : Deletes(u, k) /\ pc[u] = "deleteKeys"
      BY <2>2
    <3>2. Withdrawn(v, e)
      BY <1>0, <1>1, <3>1, DeleterSaw DEF Listed, Lists, VersionsOf
    <3>3. Withdrawn(v, e)'
      BY <1>0, <3>2, WithdrawnStays
    <3>4. e.file \notin DOMAIN tarballs' \/ Stored(e)'
      BY <2>1, <3>1, DeleteKeepsOthers DEF Deletes, Stored
    <3> QED
      BY <3>3, <3>4
  <2>3. CASE /\ Stored(e) => Stored(e)'
             /\ e.file \notin DOMAIN tarballs => e.file \notin DOMAIN tarballs'
    BY <1>0, <2>1, <2>3, WithdrawnStays
  <2> QED
    BY <1>1, <2>2, <2>3, KeptOrSeen
<1>2. CASE ~Listed(v, e)
  <2>1. manifest' # manifest /\ manifest' # NoManifest
    BY <1>2 DEF Listed, Lists, VersionsOf
  <2>2. PICK c \in Clients : PutsManifest(c)
    BY <2>1, StoreChanges DEF store, PutsTarball, Deletes, Delete
  <2>3. VersionsOf(manifest') = Bind(VersionsOf(manifest), cmd[c].body.version, Release(c))
    BY <1>0, <2>2, Rewrites
  <2>4. e = Release(c)
    BY <1>2, <2>3 DEF Bind, Listed, Lists
  <2>5. Stored(Release(c)) /\ tarballs' = tarballs
    BY <2>2 DEF PutsManifest, StoredInv
  <2> QED
    BY <2>4, <2>5 DEF Stored
<1> QED
  BY <1>1, <1>2

(* PutTarball comes before PutManifest, and DeletePackage stops anywhere:  *)
(* a version that is listed has its tarball, unless someone unpublished it.*)
THEOREM ListedIsInstallable == FileNamesVersion => (Spec => []Installable)
<1> SUFFICES ASSUME FileNamesVersion PROVE Spec => []Installable
  OBVIOUS
<1>1. Init => ReleaseInv /\ StoredInv /\ Installable
  BY ReleaseInit DEF Init, StoredInv, Installable, VersionsOf
<1>2. (ReleaseInv /\ StoredInv /\ Installable) /\ [Next]_vars
        => (ReleaseInv /\ StoredInv /\ Installable)'
  BY ReleaseStep, StoredStep, InstallableStep
<1> QED
  BY <1>1, <1>2, PTL DEF Spec

RemovalStep ==
  \A v \in DOMAIN VersionsOf(manifest), e \in Range(VersionsOf(manifest)) :
    (Listed(v, e) /\ Stored(e)) /\ ~(Listed(v, e) /\ Stored(e))'
      => \E u \in Clients : pc[u] = "deleteKeys" /\ seen[u] = manifest

LEMMA RemovalSteps ==
  ASSUME FileNamesVersion
  PROVE  ReleaseInv /\ [Next]_vars => RemovalStep
<1> SUFFICES ASSUME ReleaseInv, [Next]_vars, NEW v, NEW e, Listed(v, e), Stored(e),
                    ~(Listed(v, e) /\ Stored(e))'
             PROVE  \E u \in Clients : pc[u] = "deleteKeys" /\ seen[u] = manifest
  BY DEF RemovalStep
<1> QED
  BY KeptOrSeen

(* handleUnpublish compares the revision under the lock, and a revision    *)
(* names one manifest: a release goes only by an unpublish that saw it.    *)
THEOREM RemovalsAreSeen == FileNamesVersion => (Spec => OnlyTheSeenIsRemoved)
<1> SUFFICES ASSUME FileNamesVersion PROVE Spec => OnlyTheSeenIsRemoved
  OBVIOUS
<1>1. OnlyTheSeenIsRemoved <=> [][RemovalStep]_vars
  BY DEF OnlyTheSeenIsRemoved, RemovalStep
<1>2. ReleaseInv /\ [Next]_vars => [RemovalStep]_vars
  BY RemovalSteps
<1> QED
  BY <1>1, <1>2, ReleaseInit, ReleaseStep, PTL DEF Spec

(***************************************************************************)
(* What was announced: answers, event rows and audit lines.                *)
(***************************************************************************)
Late == {"recordEvent", "recordAudit", "reply"}
Settled == Late \cup {"done", "dropped"}

(* Each version object was written by a publish that got to its manifest.  *)
Mature(m) ==
  \A v \in DOMAIN VersionsOf(m) : pc[VersionsOf(m)[v].by] \in Settled

Announced(c) ==
  \/ pc[c] \in Late
  \/ status[c] \in {"created", "removed"}
  \/ RecordOf(c) \in feed \cup audit

(* How far a request is that has been answered or recorded.                *)
PhaseInv ==
  \A c \in Clients :
    /\ status[c] # "none" => pc[c] = "done"
    /\ Announced(c) => pc[c] \in Settled
    /\ Publishes(c) /\ pc[c] = "reply" => RecordOf(c) \in audit \/ "record" \in Faults
    /\ pc[c] \notin {"deleteKeys", "done", "dropped"} => todo[c] = {}

MatureInv == Mature(manifest) /\ \A c \in Clients : Mature(seen[c])

(* Only its own request moves on, answers and records.                     *)
LEMMA SettledStays ==
  ASSUME TypeOK, LockInv, [Next]_vars, NEW d \in Clients, pc[d] \in Settled
  PROVE  pc'[d] \in Settled
<1> USE DEF Goto, Return, TypeOK, Settled, Late
<1>1. CASE ClientStep(d) \/ LockPackage(d)
  BY <1>1 DEF ClientStep, FetchManifest, Send, Sends, RefusePublish,
              RefuseUnpublish, Deny, GetFails, FetchTarball, LockPackage
<1>2. CASE PublishStep(d)
  BY <1>2 DEF PublishStep, PublishCheck, PutTarball, PutTarballFails,
              PutManifest, PutManifestFails
<1>3. CASE UnpublishStep(d)
  BY <1>3 DEF UnpublishStep, UnpublishCheck, ListKeys, ListKeysFails,
              DeleteKey, DeleteKeyFails
<1>4. CASE CheckFails(d) \/ RecordEvent(d) \/ RecordAudit(d) \/ Reply(d)
  BY <1>4 DEF CheckFails, RecordEvent, RecordAudit, Reply
<1>5. CASE Crash
  BY <1>5 DEF Crash
<1> QED
  BY <1>1, <1>2, <1>3, <1>4, <1>5, OwnMove DEF HandlerStep

(* What a step of c does to what another client d has been told.           *)
LEMMA OthersAreNotAnswered ==
  ASSUME TypeOK, RoleInv, NEW c \in Clients, NEW d \in Clients, d # c,
         ClientStep(c) \/ LockPackage(c) \/ HandlerStep(c)
  PROVE  /\ status'[d] = status[d]
         /\ todo'[d] = todo[d]
         /\ got'[d] = got[d]
         /\ RecordOf(d) \in feed' <=> RecordOf(d) \in feed
         /\ RecordOf(d) \in audit' <=> RecordOf(d) \in audit
<1> USE DEF Goto, Return, TypeOK, local, answer, logs
<1>1. RecordOf(d) # RecordOf(c) /\ RecordOf(d) # [by |-> c, action |-> "denied"]
  BY DEF RecordOf
<1>2. CASE ClientStep(c) \/ LockPackage(c)
  BY <1>1, <1>2 DEF ClientStep, FetchManifest, Send, Sends, RefusePublish,
              RefuseUnpublish, Deny, GetFails, FetchTarball, LockPackage
<1>3. CASE PublishStep(c)
  BY <1>3 DEF PublishStep, PublishCheck, PutTarball, PutTarballFails,
              PutManifest, PutManifestFails
<1>4. CASE UnpublishStep(c)
  BY <1>4 DEF UnpublishStep, UnpublishCheck, ListKeys, ListKeysFails,
              DeleteKey, DeleteKeyFails
<1>5. CASE CheckFails(c) \/ RecordEvent(c) \/ RecordAudit(c) \/ Reply(c)
  BY <1>1, <1>5 DEF CheckFails, RecordEvent, RecordAudit, Reply
<1> QED
  BY <1>2, <1>3, <1>4, <1>5 DEF HandlerStep

LEMMA PhaseStep ==
  TypeOK /\ RoleInv /\ LockInv /\ PhaseInv /\ [Next]_vars => PhaseInv'
<1> DEFINE Reached(d) ==
      /\ status[d] # "none" => pc[d] = "done"
      /\ Announced(d) => pc[d] \in Settled
      /\ Publishes(d) /\ pc[d] = "reply" => RecordOf(d) \in audit \/ "record" \in Faults
      /\ pc[d] \notin {"deleteKeys", "done", "dropped"} => todo[d] = {}
<1> SUFFICES ASSUME TypeOK, RoleInv, LockInv, PhaseInv, [Next]_vars, NEW d \in Clients
             PROVE  Reached(d)'
  BY DEF PhaseInv
<1>0. Reached(d) /\ cmd' = cmd
  BY CommandsFixed DEF PhaseInv
<1>1. ASSUME NEW c \in Clients, c # d, ClientStep(c) \/ LockPackage(c) \/ HandlerStep(c)
      PROVE  Reached(d)'
  <2>1. pc'[d] = pc[d]
    BY <1>1, ClientsMove DEF Moves, TypeOK
  <2> QED
    BY <1>0, <1>1, <2>1, OthersAreNotAnswered
       DEF Announced, Publishes, Unpublishes, RecordOf
<1>2. CASE UNCHANGED vars
  BY <1>0, <1>2 DEF vars, Announced, Publishes, RecordOf
<1>3. CASE Crash
  BY <1>0, <1>3
     DEF Crash, Announced, Publishes, RecordOf, InServer, InLock, Settled, Late,
         TypeOK, logs, answer, local
<1> USE DEF Goto, Return, TypeOK, Announced, RecordOf, Publishes, Unpublishes,
            Settled, Late, local, answer, logs
<1>4. CASE ClientStep(d) \/ LockPackage(d)
  BY <1>0, <1>4 DEF ClientStep, FetchManifest, Send, Sends, RefusePublish,
              RefuseUnpublish, Deny, GetFails, FetchTarball, LockPackage
<1>5. CASE PublishStep(d)
  BY <1>0, <1>5 DEF PublishStep, PublishCheck, PutTarball, PutTarballFails,
              PutManifest, PutManifestFails
<1>6. CASE UnpublishStep(d)
  <2>1. CASE UnpublishCheck(d) \/ ListKeys(d) \/ ListKeysFails(d) \/ DeleteKeyFails(d)
    BY <1>0, <2>1 DEF UnpublishCheck, ListKeys, ListKeysFails, DeleteKeyFails, RoleInv
  <2>2. CASE DeleteKey(d)
    <3>1. PICK k \in todo[d] :
            /\ todo' = [todo EXCEPT ![d] = @ \ {k}]
            /\ pc' = [pc EXCEPT ![d] = IF todo[d] = {k} THEN "recordEvent" ELSE @]
      BY <2>2 DEF DeleteKey, IsNextKey
    <3> QED
      BY <1>0, <2>2, <3>1 DEF DeleteKey, RoleInv
  <2> QED
    BY <1>6, <2>1, <2>2 DEF UnpublishStep
<1>7. CASE CheckFails(d) \/ RecordEvent(d) \/ Reply(d)
  BY <1>0, <1>7 DEF CheckFails, RecordEvent, Reply
<1>8. CASE RecordAudit(d)
  BY <1>0, <1>8 DEF RecordAudit, Written
<1> HIDE DEF Reached, Goto, Return, TypeOK, Announced, RecordOf, Publishes, Unpublishes,
            Settled, Late, local, answer, logs
<1> QED
  BY <1>1, <1>2, <1>3, <1>4, <1>5, <1>6, <1>7, <1>8 DEF Next, HandlerStep

(* A request is announced from the step that completed its change on.      *)
LEMMA AnnouncedFrom ==
  ASSUME TypeOK, RoleInv, LockInv, [Next]_vars, NEW d \in Clients, Announced(d)'
  PROVE  \/ Announced(d)
         \/ PutManifest(d)
         \/ DeleteKey(d) /\ pc'[d] = "recordEvent"
<1>0. cmd' = cmd
  BY CommandsFixed
<1>1. ASSUME NEW c \in Clients, c # d, ClientStep(c) \/ LockPackage(c) \/ HandlerStep(c)
      PROVE  Announced(d)
  <2>1. pc'[d] = pc[d]
    BY <1>1, ClientsMove DEF Moves, TypeOK
  <2> QED
    BY <1>0, <1>1, <2>1, OthersAreNotAnswered DEF Announced, RecordOf
<1>2. CASE UNCHANGED vars
  BY <1>2 DEF vars, Announced, RecordOf
<1>3. CASE Crash
  BY <1>0, <1>3
     DEF Crash, Announced, RecordOf, InServer, InLock, Late, TypeOK, logs, answer
<1> USE DEF Goto, Return, TypeOK, Announced, RecordOf, Publishes, Unpublishes,
            Late, answer, logs
<1>4. CASE ClientStep(d) \/ LockPackage(d)
  BY <1>0, <1>4 DEF ClientStep, FetchManifest, Send, Sends, RefusePublish,
              RefuseUnpublish, Deny, GetFails, FetchTarball, LockPackage
<1>5. CASE PublishStep(d)
  BY <1>0, <1>5 DEF PublishStep, PublishCheck, PutTarball, PutTarballFails,
              PutManifestFails
<1>6. CASE UnpublishStep(d)
  BY <1>0, <1>6 DEF UnpublishStep, UnpublishCheck, ListKeys, ListKeysFails,
              DeleteKey, DeleteKeyFails
<1>7. CASE CheckFails(d) \/ RecordEvent(d) \/ RecordAudit(d) \/ Reply(d)
  BY <1>0, <1>7 DEF CheckFails, RecordEvent, RecordAudit, Reply
<1> HIDE DEF Goto, Return, TypeOK, Announced, RecordOf, Publishes, Unpublishes,
            Late, answer, logs
<1> QED
  BY <1>1, <1>2, <1>3, <1>4, <1>5, <1>6, <1>7 DEF Next, HandlerStep

LEMMA MatureStays ==
  ASSUME ReleaseInv, [Next]_vars, NEW m, Genuine(m), Mature(m)
  PROVE  Mature(m)'
<1>1. ASSUME NEW v \in DOMAIN VersionsOf(m)
      PROVE  pc'[VersionsOf(m)[v].by] \in Settled
  BY SettledStays DEF Genuine, Mature, ReleaseInv, CoreInv
<1> QED
  BY <1>1 DEF Mature, VersionsOf

LEMMA MatureStep == ReleaseInv /\ MatureInv /\ [Next]_vars => MatureInv'
<1> SUFFICES ASSUME ReleaseInv, MatureInv, [Next]_vars PROVE MatureInv'
  OBVIOUS
<1>0. CoreInv /\ CheckInv /\ TypeOK /\ LockInv
  BY DEF ReleaseInv, CoreInv
<1>1. \A m \in {manifest} \cup { seen[c] : c \in Clients } : Mature(m)'
  BY GenuineManifests, MatureStays DEF MatureInv, ReleaseInv
<1>2. ASSUME NEW c \in Clients PROVE Mature(seen[c])'
  <2>1. seen'[c] \in {seen[c], manifest}
    BY <1>0, SeenChanges
  <2> QED
    BY <1>1, <2>1 DEF Mature, VersionsOf
<1>3. Mature(manifest)'
  <2>1. CASE manifest' \in {manifest, NoManifest}
    BY <1>1, <2>1 DEF Mature, VersionsOf
  <2>2. ASSUME NEW c \in Clients, PutsManifest(c) PROVE Mature(manifest)'
    <3>1. VersionsOf(manifest') = Bind(VersionsOf(manifest), cmd[c].body.version, Release(c))
      BY <1>0, <2>2, Rewrites
    <3>2. pc'[c] \in Settled
      BY <1>0, <2>2
         DEF PutsManifest, PutManifest, PutManifestFails, Goto, Return, TypeOK, Settled, Late
    <3>3. ASSUME NEW v \in DOMAIN VersionsOf(manifest')
          PROVE  pc'[VersionsOf(manifest')[v].by] \in Settled
      <4>1. \/ VersionsOf(manifest')[v] = Release(c)
            \/ /\ v \in DOMAIN VersionsOf(manifest)
               /\ VersionsOf(manifest')[v] = VersionsOf(manifest)[v]
        BY <3>1, <3>3 DEF Bind
      <4> QED
        BY <1>0, <3>2, <4>1, GenuineManifests, SettledStays
           DEF Release, Entry, ReleaseInv, Genuine, MatureInv, Mature
    <3> QED
      BY <3>3 DEF Mature, VersionsOf
  <2> QED
    BY <2>1, <2>2, StoreChanges DEF store, PutsTarball, Deletes, Delete
<1> QED
  BY <1>2, <1>3 DEF MatureInv

HistoryInv == ReleaseInv /\ PhaseInv /\ MatureInv

LEMMA HistoryInit == Init => HistoryInv
<1>1. Init => PhaseInv /\ MatureInv
  BY DEF Init, PhaseInv, Announced, Late, MatureInv, Mature, VersionsOf
<1> QED
  BY <1>1, ReleaseInit DEF HistoryInv

LEMMA HistoryStep == HistoryInv /\ [Next]_vars => HistoryInv'
  BY ReleaseStep, PhaseStep, MatureStep DEF HistoryInv, ReleaseInv, CoreInv

LEMMA HistoryBasics ==
  ASSUME HistoryInv
  PROVE  /\ ReleaseInv /\ CoreInv /\ CheckInv /\ PhaseInv /\ MatureInv
         /\ TypeOK /\ RoleInv /\ LockInv
  BY DEF HistoryInv, ReleaseInv, CoreInv

(* Listed, or withdrawn by an unpublish that saw it: once so, always so.   *)
Stands(v, e) == Listed(v, e) \/ Withdrawn(v, e)

LEMMA StandsStays ==
  ASSUME HistoryInv, [Next]_vars, NEW v, NEW e, Stands(v, e)
  PROVE  Stands(v, e)'
  BY HistoryBasics, ListedStays, WithdrawnStays DEF Stands

AnnouncedInv ==
  \A c \in Clients :
    Publishes(c) /\ Announced(c) => Stands(cmd[c].body.version, Release(c))

LEMMA AnnouncedStep == HistoryInv /\ AnnouncedInv /\ [Next]_vars => AnnouncedInv'
<1> SUFFICES ASSUME HistoryInv, AnnouncedInv, [Next]_vars, NEW c \in Clients,
                    Publishes(c), Announced(c)',
                    NEW v, NEW e, v = cmd[c].body.version, e = Release(c)
             PROVE  Stands(v, e)'
  BY CommandsFixed DEF AnnouncedInv, Publishes, Stands, Listed, Lists, Withdrawn,
                       Release, Entry, Unpublishes
<1> USE HistoryBasics
<1>1. CASE Announced(c)
  BY <1>1, StandsStays DEF AnnouncedInv
<1>2. CASE PutManifest(c)
  <2>1. PutsManifest(c)
    BY <1>2 DEF PutsManifest, PutManifest, Goto
  <2>2. VersionsOf(manifest') = Bind(VersionsOf(manifest), v, e)
    BY <2>1, Rewrites
  <2> QED
    BY <2>2 DEF Bind, Stands, Listed, Lists, VersionsOf
<1>3. CASE DeleteKey(c)
  BY <1>3 DEF DeleteKey, RoleInv, Publishes, Unpublishes
<1> QED
  BY <1>1, <1>2, <1>3, AnnouncedFrom

(* The event row, the audit line and the 201 come after PutManifest, under *)
(* the same lock: what they announce is there, until it is unpublished.    *)
THEOREM AnnouncementsHold == Spec => []AnnouncedReleaseStays
<1>1. Init => HistoryInv /\ AnnouncedInv
  BY HistoryInit DEF Init, AnnouncedInv, Announced, Late
<1>2. (HistoryInv /\ AnnouncedInv) /\ [Next]_vars => (HistoryInv /\ AnnouncedInv)'
  BY HistoryStep, AnnouncedStep
<1>3. AnnouncedInv => AnnouncedReleaseStays
  BY DEF AnnouncedInv, AnnouncedReleaseStays, Announced, Stands
<1> QED
  BY <1>1, <1>2, <1>3, PTL DEF Spec

----------------------------------------------------------------------------
(* What a deletion has still to delete is what is stored.                  *)
KeysInv == \A c \in Clients : pc[c] = "deleteKeys" => StoredKeys = todo[c]

LEMMA DeleteShrinks ==
  ASSUME NEW k \in Keys, Delete(k)
  PROVE  StoredKeys' = StoredKeys \ {k}
  BY DeleteKeepsOthers, ManifestKeyAssumption DEF Delete, StoredKeys, Restrict, Keys

LEMMA KeysStep == HistoryInv /\ KeysInv /\ [Next]_vars => KeysInv'
<1> SUFFICES ASSUME HistoryInv, KeysInv, [Next]_vars, NEW c \in Clients,
                    pc'[c] = "deleteKeys"
             PROVE  StoredKeys' = todo'[c]
  BY DEF KeysInv
<1> USE HistoryBasics
<1>1. CASE ListKeys(c)
  BY <1>1 DEF ListKeys, StoredKeys, store, TypeOK
<1>2. CASE DeleteKey(c)
  <2>1. PICK k \in Keys : Delete(k) /\ todo' = [todo EXCEPT ![c] = @ \ {k}] /\ k \in todo[c]
    BY <1>2 DEF DeleteKey, IsNextKey
  <2>2. StoredKeys = todo[c]
    BY <1>2 DEF DeleteKey, KeysInv
  <2> QED
    BY <2>1, <2>2, DeleteShrinks DEF TypeOK
<1>3. CASE ~ListKeys(c) /\ ~DeleteKey(c)
  <2>1. pc[c] = "deleteKeys"
    BY <1>3, ChecksComeFirst, DecidingComesFrom, OwnMove
       DEF ClientStep, FetchManifest, Send, RefusePublish, RefuseUnpublish, Deny,
           GetFails, FetchTarball, LockPackage, HandlerStep, PublishStep,
           UnpublishStep, PublishCheck, UnpublishCheck, PutTarball, PutTarballFails,
           PutManifest, PutManifestFails, ListKeysFails, DeleteKeyFails, CheckFails,
           RecordEvent, RecordAudit, Reply, Crash, Goto, Return, TypeOK
  <2>2. ~DeleteKeyFails(c)
    BY DEF DeleteKeyFails, Return, TypeOK
  <2>3. UNCHANGED store
    BY <1>3, <2>1, <2>2, StoreChanges, Alone
       DEF PutsTarball, PutsManifest, Deletes, InLock
  <2>4. todo'[c] = todo[c]
    <3>1. ASSUME NEW d \in Clients, d # c, ClientStep(d) \/ LockPackage(d) \/ HandlerStep(d)
          PROVE  todo'[c] = todo[c]
      BY <3>1, OthersAreNotAnswered
    <3>2. CASE ClientStep(c) \/ LockPackage(c) \/ HandlerStep(c)
      BY <1>3, <2>1, <2>2, <3>2
         DEF ClientStep, FetchManifest, Send, Sends, RefusePublish, RefuseUnpublish,
             GetFails, FetchTarball, LockPackage, HandlerStep, PublishStep,
             UnpublishStep, PublishCheck, UnpublishCheck, PutTarball, PutTarballFails,
             PutManifest, PutManifestFails, ListKeysFails, CheckFails,
             RecordEvent, RecordAudit, Reply, Goto
    <3> QED
      BY <3>1, <3>2 DEF Next, Crash, vars, local
  <2>5. StoredKeys' = StoredKeys
    BY <2>3 DEF StoredKeys, store
  <2> QED
    BY <2>1, <2>4, <2>5 DEF KeysInv
<1> QED
  BY <1>1, <1>2, <1>3

RemovedInv ==
  \A u \in Clients :
    Unpublishes(u) /\ Announced(u) =>
      /\ seen[u] # NoManifest
      /\ \A v, e : Lists(seen[u], v, e) => ~Listed(v, e)

LEMMA RemovedStep ==
  HistoryInv /\ KeysInv /\ RemovedInv /\ [Next]_vars => RemovedInv'
<1> SUFFICES ASSUME HistoryInv, KeysInv, RemovedInv, [Next]_vars, NEW u \in Clients,
                    Unpublishes(u), Announced(u)'
             PROVE  /\ seen'[u] # NoManifest
                    /\ \A v, e : Lists(seen'[u], v, e) => ~Listed(v, e)'
  BY CommandsFixed DEF RemovedInv, Unpublishes, Lists, Listed, VersionsOf
<1> USE HistoryBasics
<1>0. pc[u] # "idle" => seen'[u] = seen[u]
  BY SeenChanges DEF FetchManifest, Goto, Return
<1>1. CASE Announced(u)
  <2>1. /\ seen'[u] = seen[u] /\ seen[u] # NoManifest
        /\ \A v, e : Lists(seen[u], v, e) => ~Listed(v, e)
    BY <1>0, <1>1 DEF PhaseInv, Settled, Late, RemovedInv
  <2>2. ASSUME NEW v, NEW e, Lists(seen[u], v, e), Listed(v, e)'
        PROVE  FALSE
    <3>1. manifest' # manifest /\ manifest' # NoManifest
      BY <2>1, <2>2 DEF Listed, Lists, VersionsOf
    <3>2. PICK c \in Clients : PutsManifest(c)
      BY <3>1, StoreChanges DEF store, PutsTarball, Deletes, Delete
    <3>3. VersionsOf(manifest') = Bind(VersionsOf(manifest), cmd[c].body.version, Release(c))
      BY <3>2, Rewrites
    <3>4. e = Release(c)
      BY <2>1, <2>2, <3>3 DEF Bind, Listed, Lists, VersionsOf
    <3>5. e.by = c
      BY <3>4 DEF Release, Entry
    <3>6. pc[c] \in Settled
      BY <2>2, <3>5 DEF MatureInv, Mature, Lists
    <3> QED
      BY <3>2, <3>6 DEF PutsManifest, Settled, Late
  <2> QED
    BY <2>1, <2>2
<1>2. CASE PutManifest(u)
  BY <1>2 DEF PutManifest, Goto, RoleInv, Publishes, Unpublishes
<1>3. CASE DeleteKey(u) /\ pc'[u] = "recordEvent"
  <2>1. PICK k \in Keys : Delete(k) /\ todo[u] = {k}
    BY <1>3 DEF DeleteKey, TypeOK
  <2>2. StoredKeys = todo[u]
    BY <1>3 DEF DeleteKey, KeysInv
  <2>3. StoredKeys' = {}
    BY <2>1, <2>2, DeleteShrinks
  <2>4. manifest' = NoManifest
    BY <2>3 DEF StoredKeys
  <2>5. seen[u] # NoManifest /\ pc[u] # "idle"
    BY <1>3 DEF DeleteKey, RoleInv, InServer, InLock
  <2> QED
    BY <1>0, <2>4, <2>5 DEF Listed, Lists, VersionsOf
<1> QED
  BY <1>1, <1>2, <1>3, AnnouncedFrom

(* DeletePackage has deleted everything before the 200 and the records, and*)
(* a later publish brings its own release: what was removed stays removed. *)
THEOREM RemovalsAreFinal == Spec => []AnnouncedRemovalIsFinal
<1>1. Init => HistoryInv /\ KeysInv /\ RemovedInv
  BY HistoryInit DEF Init, KeysInv, RemovedInv, Announced, Late
<1>2. (HistoryInv /\ KeysInv /\ RemovedInv) /\ [Next]_vars
        => (HistoryInv /\ KeysInv /\ RemovedInv)'
  BY HistoryStep, KeysStep, RemovedStep
<1>3. RemovedInv => AnnouncedRemovalIsFinal
  BY DEF RemovedInv, AnnouncedRemovalIsFinal, Announced, Lists, VersionsOf
<1> QED
  BY <1>1, <1>2, <1>3, PTL DEF Spec

----------------------------------------------------------------------------
(* Answers are given once, and every failure is answered or dropped.       *)
LEMMA DoneStays ==
  ASSUME TypeOK, RoleInv, LockInv, [Next]_vars, NEW d \in Clients,
         pc[d] \in Ended
  PROVE  /\ pc'[d] = pc[d]
         /\ UNCHANGED <<status[d], got[d], todo[d], seen[d]>>
<1>1. ASSUME NEW c \in Clients, ClientStep(c) \/ LockPackage(c) \/ HandlerStep(c)
      PROVE  c # d
  BY <1>1, ClientsMove DEF Moves, Ended, InLock
<1>2. pc'[d] = pc[d] /\ UNCHANGED <<status[d], got[d], todo[d]>>
  <2>1. ASSUME NEW c \in Clients, ClientStep(c) \/ LockPackage(c) \/ HandlerStep(c)
        PROVE  pc'[d] = pc[d] /\ UNCHANGED <<status[d], got[d], todo[d]>>
    BY <1>1, <2>1, ClientsMove, OthersAreNotAnswered DEF Moves, TypeOK
  <2> QED
    BY <2>1 DEF Next, vars, Crash, Ended, InServer, InLock, TypeOK, answer, local
<1>3. seen'[d] = seen[d]
  BY SeenChanges DEF FetchManifest, Goto, Ended
<1> QED
  BY <1>2, <1>3

(* A publish that has stored its tarball and got no further.               *)
Unlisted(c, f) ==
  /\ Publishes(c)
  /\ cmd[c].body.file = f
  /\ pc[c] \in {"putManifest", "dropped"} \/ status[c] = "error"

(* An unpublish that has not got to the key.                               *)
Undeleted(u, f) == f \in todo[u] /\ (pc[u] # "done" \/ status[u] = "error")

LEMMA UnlistedStays ==
  ASSUME HistoryInv, [Next]_vars, NEW c \in Clients, NEW f, Unlisted(c, f)
  PROVE  Unlisted(c, f)' \/ PutManifest(c)
<1> USE HistoryBasics, CommandsFixed DEF Unlisted, Publishes
<1>1. CASE pc[c] \in Ended
  BY <1>1, DoneStays DEF Ended
<1>2. CASE pc[c] = "putManifest" /\ pc'[c] # pc[c]
  <2>1. PutManifest(c) \/ PutManifestFails(c) \/ Crash
    BY <1>2, OwnMove
       DEF ClientStep, FetchManifest, Send, Sends, RefusePublish, RefuseUnpublish,
           GetFails, FetchTarball, LockPackage, HandlerStep, PublishStep,
           UnpublishStep, PublishCheck, UnpublishCheck, PutTarball, PutTarballFails,
           ListKeys, ListKeysFails, DeleteKey, DeleteKeyFails, CheckFails,
           RecordEvent, RecordAudit, Reply, Goto
  <2> QED
    BY <1>2, <2>1 DEF PutManifestFails, Return, Crash, InServer, InLock, TypeOK
<1>3. pc[c] \in Ended \/ pc[c] = "putManifest"
  BY DEF PhaseInv, Ended
<1> QED
  BY <1>1, <1>2, <1>3

LEMMA UndeletedStays ==
  ASSUME HistoryInv, [Next]_vars, NEW u \in Clients, NEW f, Undeleted(u, f)
  PROVE  Undeleted(u, f)' \/ f \notin DOMAIN tarballs'
<1> USE HistoryBasics DEF Undeleted
<1>1. CASE pc[u] \in Ended
  BY <1>1, DoneStays DEF Ended
<1>2. ASSUME pc[u] = "deleteKeys", NEW c \in Clients,
             ClientStep(c) \/ LockPackage(c) \/ HandlerStep(c)
      PROVE  Undeleted(u, f)' \/ f \notin DOMAIN tarballs'
  <2>1. CASE c # u
    <3>1. pc'[u] = pc[u] /\ todo'[u] = todo[u]
      BY <1>2, <2>1, ClientsMove, OthersAreNotAnswered DEF Moves, TypeOK
    <3> QED
      BY <1>2, <3>1
  <2>2. CASE c = u
    <3>1. DeleteKey(u) \/ DeleteKeyFails(u)
      BY <1>2, <2>2
         DEF ClientStep, FetchManifest, Send, Sends, RefusePublish, RefuseUnpublish,
             GetFails, FetchTarball, LockPackage, HandlerStep, PublishStep,
             UnpublishStep, PublishCheck, UnpublishCheck, PutTarball, PutTarballFails,
             PutManifest, PutManifestFails, ListKeys, ListKeysFails, CheckFails,
             RecordEvent, RecordAudit, Reply, Goto
    <3>2. CASE DeleteKeyFails(u)
      BY <3>2 DEF DeleteKeyFails, Return, TypeOK, local
    <3>3. CASE DeleteKey(u)
      <4>1. PICK k \in Keys :
              /\ Delete(k)
              /\ todo' = [todo EXCEPT ![u] = @ \ {k}]
              /\ pc' = [pc EXCEPT ![u] = IF todo[u] = {k} THEN "recordEvent" ELSE @]
        BY <3>3 DEF DeleteKey
      <4>2. k \notin DOMAIN tarballs'
        BY <4>1, DeleteKeepsOthers
      <4> QED
        BY <1>2, <4>1, <4>2 DEF TypeOK
    <3> QED
      BY <3>1, <3>2, <3>3
  <2> QED
    BY <2>1, <2>2
<1>3. CASE pc[u] = "deleteKeys" /\ (Crash \/ UNCHANGED vars)
  BY <1>3 DEF Crash, vars, local, InServer, InLock, TypeOK
<1>4. pc[u] \in Ended \/ pc[u] = "deleteKeys"
  BY DEF PhaseInv, Ended
<1> QED
  BY <1>1, <1>2, <1>3, <1>4 DEF Next

(* The file of a listed version.                                           *)
HasVersion(f) == \E v, e : Listed(v, e) /\ e.file = f

LEMMA HasVersionStays ==
  ASSUME HistoryInv, KeysInv, [Next]_vars, NEW f \in Files, f \in DOMAIN tarballs',
         HasVersion(f)
  PROVE  HasVersion(f)' \/ \E u \in Clients : Undeleted(u, f)'
<1> USE HistoryBasics
<1>1. CASE manifest' = manifest
  BY <1>1 DEF HasVersion, Listed, Lists, VersionsOf
<1>2. CASE \E c \in Clients : PutsManifest(c)
  BY <1>2, RewriteKeeps DEF HasVersion
<1>3. ASSUME NEW u \in Clients, NEW k \in Keys, Deletes(u, k)
      PROVE  HasVersion(f)' \/ Undeleted(u, f)'
  <2>1. f \in todo[u] /\ f # k
    BY <1>3, DeleteKeepsOthers DEF Deletes, KeysInv, StoredKeys
  <2>2. CASE DeleteKeyFails(u)
    BY <2>1, <2>2 DEF DeleteKeyFails, Return, TypeOK, local, Undeleted
  <2>3. CASE DeleteKey(u)
    <3>1. PICK j \in Keys :
            /\ IsNextKey(u, j)
            /\ todo' = [todo EXCEPT ![u] = @ \ {j}]
            /\ Delete(j)
            /\ pc[u] = "deleteKeys"
            /\ pc' = [pc EXCEPT ![u] = IF todo[u] = {j} THEN "recordEvent" ELSE @]
      BY <2>3 DEF DeleteKey
    <3>2. f # j
      BY <3>1, DeleteKeepsOthers
    <3> QED
      BY <2>1, <3>1, <3>2 DEF Undeleted, TypeOK
  <2> QED
    BY <1>3, <2>2, <2>3 DEF Deletes
<1> QED
  BY <1>1, <1>2, <1>3, StoreChanges DEF store, PutsTarball

OrphanInv ==
  \A f \in DOMAIN tarballs :
    \/ HasVersion(f)
    \/ \E c \in Clients : Unlisted(c, f)
    \/ \E u \in Clients : Undeleted(u, f)

LEMMA OrphanStep == HistoryInv /\ KeysInv /\ OrphanInv /\ [Next]_vars => OrphanInv'
<1> SUFFICES ASSUME HistoryInv, KeysInv, OrphanInv, [Next]_vars,
                    NEW f \in DOMAIN tarballs'
             PROVE  \/ HasVersion(f)'
                    \/ \E c \in Clients : Unlisted(c, f)'
                    \/ \E u \in Clients : Undeleted(u, f)'
  BY DEF OrphanInv
<1> USE HistoryBasics
<1>0. f \in Files
  <2>1. PICK D \in SUBSET Files : tarballs' \in [D -> Contents]
    BY TypeStep, PartialFunctionsDef DEF TypeOK
  <2> QED
    BY <2>1
<1>1. CASE f \in DOMAIN tarballs
  <2>1. CASE HasVersion(f)
    BY <1>0, <2>1, HasVersionStays
  <2>2. ASSUME NEW c \in Clients, Unlisted(c, f)
        PROVE  HasVersion(f)' \/ Unlisted(c, f)'
    <3>1. CASE PutManifest(c)
      <4>1. PutsManifest(c)
        BY <3>1 DEF PutsManifest, PutManifest, Goto
      <4>2. VersionsOf(manifest') = Bind(VersionsOf(manifest), cmd[c].body.version, Release(c))
        BY <4>1, Rewrites
      <4>3. \A v, e : v = cmd[c].body.version /\ e = Release(c) => Listed(v, e)'
        BY <4>2 DEF Bind, Listed, Lists, VersionsOf
      <4>4. Release(c).file = f
        BY <2>2 DEF Unlisted, Release, Entry
      <4> QED
        BY <4>3, <4>4 DEF HasVersion
    <3> QED
      BY <2>2, <3>1, UnlistedStays
  <2>3. ASSUME NEW u \in Clients, Undeleted(u, f) PROVE Undeleted(u, f)'
    BY <2>3, UndeletedStays
  <2> QED
    BY <1>1, <2>1, <2>2, <2>3 DEF OrphanInv
<1>2. CASE f \notin DOMAIN tarballs
  <2>1. PICK c \in Clients : PutsTarball(c)
    BY <1>2, StoreChanges, DeleteKeepsOthers DEF store, PutsManifest, Deletes
  <2>2. f = cmd[c].body.file /\ Publishes(c)
    BY <1>2, <2>1, PutKeepsOthers DEF PutsTarball, RoleInv
  <2>3. pc'[c] = "putManifest" \/ status'[c] = "error"
    BY <2>1 DEF PutsTarball, PutTarball, PutTarballFails, Goto, Return, TypeOK
  <2> QED
    BY <2>2, <2>3, CommandsFixed DEF Unlisted, Publishes
<1> QED
  BY <1>1, <1>2

(* PutTarball and PutManifest are two writes and DeletePackage is one per  *)
(* key: only a request that failed or died leaves a tarball nobody lists.  *)
THEOREM OnlyFailuresLeaveTarballs == Spec => []NoOrphanTarballs
<1>1. Init => HistoryInv /\ KeysInv /\ OrphanInv
  BY HistoryInit DEF Init, KeysInv, OrphanInv
<1>2. (HistoryInv /\ KeysInv /\ OrphanInv) /\ [Next]_vars
        => (HistoryInv /\ KeysInv /\ OrphanInv)'
  BY HistoryStep, KeysStep, OrphanStep
<1>3. OrphanInv => NoOrphanTarballs
  <2> SUFFICES ASSUME OrphanInv, NEW f \in DOMAIN tarballs
               PROVE  \/ \E v \in DOMAIN VersionsOf(manifest) : VersionsOf(manifest)[v].file = f
                      \/ \E c \in Clients : Unlisted(c, f)
                      \/ \E u \in Clients : Undeleted(u, f)
    BY DEF NoOrphanTarballs, Unlisted, Undeleted
  <2> QED
    BY DEF OrphanInv, HasVersion, Listed, Lists
<1> QED
  BY <1>1, <1>2, <1>3, PTL DEF Spec

----------------------------------------------------------------------------
(* What a client was served was listed then, and stands since.             *)
SeenStands == \A c \in Clients : \A v, e : Lists(seen[c], v, e) => Stands(v, e)

LEMMA SeenStandsStep == HistoryInv /\ SeenStands /\ [Next]_vars => SeenStands'
<1> SUFFICES ASSUME HistoryInv, SeenStands, [Next]_vars, NEW c \in Clients,
                    NEW v, NEW e, Lists(seen'[c], v, e)
             PROVE  Stands(v, e)'
  BY DEF SeenStands, Lists, VersionsOf
<1>1. seen'[c] \in {seen[c], manifest}
  BY HistoryBasics, SeenChanges
<1>2. Stands(v, e)
  BY <1>1 DEF SeenStands, Stands, Listed
<1> QED
  BY <1>2, StandsStays

(* An install is answered by a read of the manifest that finds none, or by *)
(* its read of the tarball.                                                *)
LEMMA InstallAnswers ==
  ASSUME HistoryInv, [Next]_vars, NEW d \in Clients, Installs(d),
         status'[d] # status[d], status'[d] \in {"served", "notFound"}
  PROVE  FetchTarball(d) \/ (pc[d] = "idle" /\ seen' = seen)
<1> USE HistoryBasics
<1>1. ClientStep(d) \/ LockPackage(d) \/ HandlerStep(d)
  BY OthersAreNotAnswered DEF Next, vars, Crash, answer
<1> USE DEF Goto, Return, TypeOK, Installs, Publishes, Unpublishes
<1>2. CASE ClientStep(d) \/ LockPackage(d)
  BY <1>2 DEF ClientStep, FetchManifest, Send, Sends, RefusePublish,
              RefuseUnpublish, Deny, GetFails, LockPackage, answer
<1>3. CASE PublishStep(d)
  BY <1>3 DEF PublishStep, PublishCheck, PutTarball, PutTarballFails,
              PutManifest, PutManifestFails, answer
<1>4. CASE UnpublishStep(d)
  BY <1>4 DEF UnpublishStep, UnpublishCheck, ListKeys, ListKeysFails,
              DeleteKey, DeleteKeyFails, RoleInv, answer
<1>5. CASE CheckFails(d) \/ RecordEvent(d) \/ RecordAudit(d) \/ Reply(d)
  BY <1>5 DEF CheckFails, RecordEvent, RecordAudit, Reply, answer
<1> HIDE DEF Goto, Return, TypeOK, Installs, Publishes, Unpublishes
<1> QED
  BY <1>1, <1>2, <1>3, <1>4, <1>5 DEF HandlerStep

LEMMA InstallStep ==
  HistoryInv /\ SeenStands /\ Installable /\ InstallIsHonest /\ [Next]_vars
    => InstallIsHonest'
<1> SUFFICES ASSUME HistoryInv, SeenStands, Installable, InstallIsHonest,
                    [Next]_vars, NEW d \in Clients, Installs(d),
                    NEW v, NEW e, v = cmd[d].version, Lists(seen'[d], v, e),
                    status'[d] \in {"served", "notFound"}
             PROVE  got'[d] = {e.sha} \/ Withdrawn(v, e)'
  BY CommandsFixed DEF InstallIsHonest, Installs, Lists, VersionsOf, Withdrawn, Unpublishes
<1> USE HistoryBasics
<1>1. Withdrawn(v, e) => Withdrawn(v, e)'
  BY WithdrawnStays
<1>2. CASE status'[d] = status[d]
  <2>1. pc[d] \in Ended
    BY <1>2 DEF PhaseInv, Ended
  <2>2. seen'[d] = seen[d] /\ got'[d] = got[d]
    BY <2>1, DoneStays
  <2>3. got[d] = {e.sha} \/ Withdrawn(v, e)
    BY <1>2, <2>2 DEF InstallIsHonest, Lists, VersionsOf
  <2> QED
    BY <1>1, <2>2, <2>3
<1>3. CASE pc[d] = "idle" /\ seen' = seen
  BY <1>3 DEF CheckInv, Lists, VersionsOf
<1>4. CASE FetchTarball(d)
  <2>1. seen' = seen /\ seen[d].versions[v] = e /\ v \in DOMAIN seen[d].versions
    BY <1>4 DEF FetchTarball, Lists, VersionsOf
  <2>2. Listed(v, e) \/ Withdrawn(v, e)
    BY <2>1 DEF SeenStands, Stands
  <2>3. Stored(e) \/ Withdrawn(v, e)
    BY <2>2 DEF Installable, Listed, Lists
  <2>4. Stored(e) => got'[d] = {e.sha}
    BY <1>4, <2>1 DEF FetchTarball, Stored, TypeOK
  <2> QED
    BY <1>1, <2>3, <2>4
<1> QED
  BY <1>2, <1>3, <1>4, InstallAnswers

(* npm downloads what its manifest names: the bytes it gets are the ones   *)
(* the manifest promised, unless that release was unpublished meanwhile.   *)
THEOREM InstallsAreHonest == FileNamesVersion => (Spec => []InstallIsHonest)
<1> SUFFICES ASSUME FileNamesVersion PROVE Spec => []InstallIsHonest
  OBVIOUS
<1> DEFINE Inv == HistoryInv /\ StoredInv /\ Installable /\ SeenStands /\ InstallIsHonest
<1>1. Init => Inv
  BY HistoryInit
     DEF Init, StoredInv, Installable, SeenStands, InstallIsHonest, Lists, VersionsOf
<1>2. Inv /\ [Next]_vars => Inv'
  BY HistoryStep, StoredStep, InstallableStep, SeenStandsStep, InstallStep
     DEF HistoryInv
<1> QED
  BY <1>1, <1>2, PTL DEF Spec

----------------------------------------------------------------------------
(* A listed release has its audit line, or its publisher was not told that *)
(* it succeeded.                                                           *)
Accounted(p) ==
  \/ RecordOf(p) \in audit
  \/ pc[p] \in InLock \cup {"dropped"}
  \/ status[p] = "error"
  \/ "record" \in Faults

LEMMA AccountedStays ==
  ASSUME HistoryInv, [Next]_vars, NEW p \in Clients, Publishes(p),
         pc[p] \in Settled, Accounted(p)
  PROVE  Accounted(p)'
<1> USE HistoryBasics
<1>0. cmd' = cmd
  BY CommandsFixed
<1>1. CASE RecordOf(p) \in audit
  BY <1>0, <1>1
     DEF Next, ClientStep, HandlerStep, PublishStep, UnpublishStep, vars, logs,
         FetchManifest, Send, RefusePublish, RefuseUnpublish, Deny, LockPackage,
         GetFails, CheckFails, PublishCheck, PutTarball, PutTarballFails,
         PutManifest, PutManifestFails, UnpublishCheck, ListKeys, ListKeysFails,
         DeleteKey, DeleteKeyFails, RecordEvent, RecordAudit, Reply, FetchTarball,
         Crash, Accounted, RecordOf
<1>2. CASE pc[p] \in Ended
  BY <1>0, <1>1, <1>2, DoneStays DEF Accounted, Ended, InLock
<1>3. CASE pc[p] \in Late /\ ~(Reply(p) /\ RecordOf(p) \notin audit)
  <2>1. pc'[p] \in Settled
    BY SettledStays
  <2>2. CASE pc'[p] = "done"
    <3>1. Reply(p)
      BY <1>3, <2>2, OwnMove
         DEF ClientStep, FetchManifest, Send, Sends, RefusePublish, RefuseUnpublish,
             Deny, GetFails, FetchTarball, LockPackage, HandlerStep, PublishStep,
             UnpublishStep, PublishCheck, UnpublishCheck, PutTarball, PutTarballFails,
             PutManifest, PutManifestFails, ListKeys, ListKeysFails, DeleteKey,
             DeleteKeyFails, CheckFails, RecordEvent, RecordAudit, Crash,
             Goto, Return, TypeOK, Late, InServer, InLock
    <3> QED
      BY <1>1, <1>3, <3>1
  <2> QED
    BY <2>1, <2>2 DEF Accounted, Settled, Late, InLock
<1>4. CASE Reply(p)
  BY <1>0, <1>1, <1>4 DEF Reply, PhaseInv, Accounted
<1> QED
  BY <1>2, <1>3, <1>4 DEF Settled, Ended

AuditInv == \A v \in DOMAIN VersionsOf(manifest) : Accounted(VersionsOf(manifest)[v].by)

LEMMA AuditStep == HistoryInv /\ AuditInv /\ [Next]_vars => AuditInv'
<1> SUFFICES ASSUME HistoryInv, AuditInv, [Next]_vars,
                    NEW v \in DOMAIN VersionsOf(manifest'),
                    NEW p, p = VersionsOf(manifest')[v].by
             PROVE  Accounted(p)'
  BY DEF AuditInv, VersionsOf, Accounted, RecordOf
<1> USE HistoryBasics
<1>1. ASSUME v \in DOMAIN VersionsOf(manifest), VersionsOf(manifest)[v].by = p
      PROVE  Accounted(p)'
  <2>1. p \in Clients /\ Publishes(p)
    BY <1>1, GenuineManifests DEF Genuine, Release, Entry, ReleaseInv
  <2> QED
    BY <1>1, <2>1, AccountedStays DEF AuditInv, MatureInv, Mature
<1>2. CASE manifest' \in {manifest, NoManifest}
  BY <1>1, <1>2 DEF VersionsOf
<1>3. ASSUME NEW c \in Clients, PutsManifest(c) PROVE Accounted(p)'
  <2>1. VersionsOf(manifest') = Bind(VersionsOf(manifest), cmd[c].body.version, Release(c))
    BY <1>3, Rewrites
  <2>2. Accounted(c)'
    BY <1>3 DEF PutsManifest, PutManifest, PutManifestFails, Goto, Return, TypeOK,
                Accounted, InLock
  <2>3. Release(c).by = c
    BY DEF Release, Entry
  <2> QED
    BY <1>1, <2>1, <2>2, <2>3 DEF Bind
<1> QED
  BY <1>2, <1>3, StoreChanges DEF store, PutsTarball, Deletes, Delete

(* The audit line is written before the 201, under the lock: a release     *)
(* without one is that of a publish that failed, died or is still at work. *)
THEOREM AuditGaps == Spec => []AuditGapIsAFailure
<1>1. Init => HistoryInv /\ AuditInv
  BY HistoryInit DEF Init, AuditInv, VersionsOf
<1>2. (HistoryInv /\ AuditInv) /\ [Next]_vars => (HistoryInv /\ AuditInv)'
  BY HistoryStep, AuditStep
<1>3. AuditInv => AuditGapIsAFailure
  BY DEF AuditInv, AuditGapIsAFailure, Accounted
<1> QED
  BY <1>1, <1>2, <1>3, PTL DEF Spec

(***************************************************************************)
(* The registry implements AtomicRegistry.                                 *)
(***************************************************************************)

(* The documents grow along their revision numbers: each one lists its own *)
(* release, and of the others only those of documents with a lower number. *)
ChainInv ==
  \A q \in Clients : doc[q] # NoManifest =>
    /\ \E v \in DOMAIN doc[q].versions : doc[q].versions[v].by = q
    /\ \A v \in DOMAIN doc[q].versions :
         LET p == doc[q].versions[v].by
         IN  /\ p \in Clients
             /\ doc[p] # NoManifest
             /\ p = q \/ doc[p].rev.n < doc[q].rev.n

LEMMA ChainStep == HistoryInv /\ ChainInv /\ [Next]_vars => ChainInv'
<1> SUFFICES ASSUME HistoryInv, ChainInv, [Next]_vars,
                    NEW q \in Clients, doc'[q] # NoManifest
             PROVE  /\ \E v \in DOMAIN doc'[q].versions : doc'[q].versions[v].by = q
                    /\ \A v \in DOMAIN doc'[q].versions :
                         LET p == doc'[q].versions[v].by
                         IN  /\ p \in Clients
                             /\ doc'[p] # NoManifest
                             /\ p = q \/ doc'[p].rev.n < doc'[q].rev.n
  BY DEF ChainInv
<1> USE HistoryBasics
<1>1. \A p \in Clients : doc[p] # NoManifest => doc'[p] = doc[p]
  BY DocChanges DEF PutTarball, Goto, CoreInv, DraftInv, Before
<1>2. CASE doc'[q] = doc[q]
  BY <1>1, <1>2 DEF ChainInv
<1>3. CASE PutTarball(q)
  <2>1. Publishes(q) /\ doc'[q] = Merge(view[q], cmd[q].body, q)
    BY <1>3 DEF PutTarball, Goto, RoleInv, TypeOK
  <2>2. view[q] \in Manifests \cup {NoManifest} /\ cmd[q].body \in Bodies
    BY <2>1, BodyOfPublish DEF TypeOK
  <2>3. /\ doc'[q].versions = Bind(VersionsOf(view[q]), cmd[q].body.version, Release(q))
        /\ doc'[q].rev.n = RevNumber(view[q]) + 1
    BY <2>1 DEF Merge, NextRev, Release
  <2>4. Release(q).by = q
    BY DEF Release, Entry
  <2>5. ASSUME NEW v \in DOMAIN VersionsOf(view[q]), NEW p, p = VersionsOf(view[q])[v].by
        PROVE  p \in Clients /\ doc'[p] # NoManifest /\ doc'[p].rev.n < doc'[q].rev.n
    <3>1. view[q] # NoManifest /\ v \in DOMAIN view[q].versions /\ p = view[q].versions[v].by
      BY <2>5 DEF VersionsOf
    <3>2. PICK r \in Clients : view[q] = doc[r]
      BY <3>1, DocumentsFirst
    <3>3. p \in Clients /\ doc[p] # NoManifest /\ (p = r \/ doc[p].rev.n < doc[r].rev.n)
      BY <3>1, <3>2 DEF ChainInv
    <3>4. doc[p] \in Manifests /\ doc[r] \in Manifests
      BY <3>1, <3>2, <3>3 DEF TypeOK
    <3>5. doc[p].rev.n \in Nat /\ doc[r].rev.n \in Nat
      BY <3>4 DEF Manifests, Revisions
    <3> QED
      BY <1>1, <2>3, <3>1, <3>2, <3>3, <3>5 DEF RevNumber
  <2> QED
    BY <2>3, <2>4, <2>5 DEF Bind
<1> QED
  BY <1>2, <1>3, DocChanges

(* So the listed releases name the document.                               *)
LEMMA ReleasesNameDocument ==
  ASSUME HistoryInv, ChainInv, NEW c \in Clients,
         manifest # NoManifest, seen[c] # NoManifest,
         VersionsOf(manifest) = VersionsOf(seen[c])
  PROVE  manifest = seen[c]
<1> USE HistoryBasics
<1>1. PICK p \in Clients : manifest = doc[p]
  BY DocumentsFirst
<1>2. PICK q \in Clients : seen[c] = doc[q]
  BY DocumentsFirst
<1>3. doc[p].versions = doc[q].versions
  BY <1>1, <1>2 DEF VersionsOf
<1>4. p = q \/ doc[p].rev.n < doc[q].rev.n
  BY <1>1, <1>2, <1>3 DEF ChainInv
<1>5. p = q \/ doc[q].rev.n < doc[p].rev.n
  BY <1>1, <1>2, <1>3 DEF ChainInv
<1>6. doc[p].rev.n \in Nat /\ doc[q].rev.n \in Nat
  BY <1>1, <1>2 DEF TypeOK, Manifests, Revisions
<1> QED
  BY <1>1, <1>2, <1>4, <1>5, <1>6

(* A package lists a release or is not there at all.                       *)
LEMMA ManifestsListReleases ==
  ASSUME HistoryInv, ChainInv
  PROVE  /\ VersionsOf(manifest) = Atomic!NoReleases <=> manifest = NoManifest
         /\ \A c \in Clients : VersionsOf(seen[c]) = Atomic!NoReleases <=> seen[c] = NoManifest
<1>1. ASSUME NEW m, m \in {manifest} \cup { seen[c] : c \in Clients }, m # NoManifest
      PROVE  DOMAIN VersionsOf(m) # {}
  BY <1>1, HistoryBasics, DocumentsFirst DEF ChainInv, VersionsOf
<1>2. DOMAIN Atomic!NoReleases = {} /\ VersionsOf(NoManifest) = Atomic!NoReleases
  BY DEF Atomic!NoReleases, VersionsOf
<1> QED
  BY <1>1, <1>2

(* The phase of a client by its program point.                             *)
Calling == {"waiting", "locked", "putTarball", "putManifest", "listKeys"}

LEMMA Phases ==
  ASSUME NEW c \in Clients
  PROVE  /\ pc[c] = "idle" => Phase(c) = "ready"
         /\ pc[c] = "fetched" => Phase(c) = "shown"
         /\ pc[c] = "done" => Phase(c) = "answered"
         /\ pc[c] = "dropped" => Phase(c) = "lost"
         /\ pc[c] \in Calling => Phase(c) = "called"
         /\ pc[c] \in Late => Phase(c) = "done"
         /\ pc[c] = "deleteKeys" =>
              Phase(c) = IF ManifestKey \in todo[c] THEN "called" ELSE "done"
  BY DEF Phase, TookEffect, Calling, Late

LEMMA PhasesAfter ==
  ASSUME NEW c \in Clients
  PROVE  /\ pc'[c] = "idle" => Phase(c)' = "ready"
         /\ pc'[c] = "fetched" => Phase(c)' = "shown"
         /\ pc'[c] = "done" => Phase(c)' = "answered"
         /\ pc'[c] = "dropped" => Phase(c)' = "lost"
         /\ pc'[c] \in Calling => Phase(c)' = "called"
         /\ pc'[c] \in Late => Phase(c)' = "done"
         /\ pc'[c] = "deleteKeys" =>
              Phase(c)' = IF ManifestKey \in todo'[c] THEN "called" ELSE "done"
  BY DEF Phase, TookEffect, Calling, Late

(* A step of c is a step of c there, or none.                              *)
PhaseOf == [c \in Clients |-> Phase(c)]
Shown == [c \in Clients |-> VersionsOf(seen[c])]

LEMMA OnePhaseMoves ==
  ASSUME HistoryInv, NEW c \in Clients, ClientStep(c) \/ LockPackage(c) \/ HandlerStep(c)
  PROVE  /\ PhaseOf[c] = Phase(c)
         /\ PhaseOf' = [PhaseOf EXCEPT ![c] = Phase(c)']
         /\ Phase(c)' = Phase(c) => PhaseOf' = PhaseOf
<1> USE HistoryBasics
<1>1. ASSUME NEW d \in Clients, d # c PROVE Phase(d)' = Phase(d)
  <2>1. pc'[d] = pc[d]
    BY <1>1, ClientsMove DEF Moves, TypeOK
  <2>2. todo'[d] = todo[d]
    BY <1>1, OthersAreNotAnswered
  <2> QED
    BY <2>1, <2>2 DEF Phase, TookEffect
<1> QED
  BY <1>1 DEF PhaseOf

(* What a step of c is there.                                              *)
Implemented(c) ==
  \/ Atomic!Look(c) \/ Atomic!Call(c) \/ Atomic!AnswerOnly(c) \/ Atomic!TakeEffect(c)
  \/ UNCHANGED Atomic!vars

LEMMA Invisible ==
  ASSUME HistoryInv, NEW c \in Clients, ClientStep(c) \/ LockPackage(c) \/ HandlerStep(c),
         Phase(c)' = Phase(c), UNCHANGED <<manifest, seen, cmd, status>>
  PROVE  Implemented(c)
<1>1. PhaseOf' = PhaseOf
  BY OnePhaseMoves
<1> QED
  BY <1>1 DEF Implemented, Atomic!vars, PhaseOf, VersionsOf

(* An answer that changes nothing else.                                    *)
Answers(c, code) ==
  /\ Return(c, code)
  /\ UNCHANGED <<manifest, seen, cmd>>

LEMMA AnswersAre ==
  ASSUME HistoryInv, NEW c \in Clients, ClientStep(c) \/ LockPackage(c) \/ HandlerStep(c),
         NEW code, Answers(c, code), NEW from, Phase(c) \in from
  PROVE  /\ Atomic!Answer(c, from, code)
         /\ UNCHANGED <<VersionsOf(manifest), cmd, Shown>>
<1>1. pc'[c] = "done" /\ status' = [status EXCEPT ![c] = code]
  BY HistoryBasics DEF Answers, Return, TypeOK
<1>2. PhaseOf[c] \in from /\ PhaseOf' = [PhaseOf EXCEPT ![c] = "answered"]
  BY <1>1, OnePhaseMoves, PhasesAfter
<1>3. UNCHANGED <<VersionsOf(manifest), cmd, Shown>>
  BY DEF Answers, VersionsOf, Shown
<1> QED
  BY <1>1, <1>2, <1>3 DEF Atomic!Answer, Atomic!Move, PhaseOf

LEMMA ClientStepImplements ==
  ASSUME HistoryInv, ChainInv, NEW c \in Clients, ClientStep(c) \/ LockPackage(c)
  PROVE  Implemented(c)
<1> USE HistoryBasics
<1>1. Atomic!Publishes(c) = Publishes(c) /\ Atomic!Unpublishes(c) = Unpublishes(c)
  BY DEF Atomic!Publishes, Atomic!Unpublishes, Publishes, Unpublishes
<1>2. CASE FetchManifest(c)
  <2>1. ~Publishes(c) /\ Phase(c) = "ready"
    BY <1>2, Phases DEF FetchManifest
  <2>2. CASE manifest = NoManifest
    <3>1. Answers(c, "notFound")
      BY <1>2, <2>2 DEF FetchManifest, Answers, store
    <3>2. Atomic!NotFound(c)
      BY <1>1, <1>2, <2>1, <2>2, <3>1, AnswersAre, ManifestsListReleases
         DEF Atomic!NotFound, ClientStep
    <3> QED
      BY <1>2, <2>1, <3>1, <3>2, AnswersAre DEF Implemented, Atomic!AnswerOnly, ClientStep, Shown
  <2>3. CASE manifest # NoManifest
    <3>1. /\ pc'[c] = "fetched"
          /\ seen' = [seen EXCEPT ![c] = manifest]
          /\ UNCHANGED <<manifest, status, cmd>>
      BY <1>2, <2>3 DEF FetchManifest, Goto, TypeOK, store
    <3>2. PhaseOf[c] = "ready" /\ PhaseOf' = [PhaseOf EXCEPT ![c] = "shown"]
      BY <1>2, <2>1, <3>1, OnePhaseMoves, PhasesAfter DEF ClientStep
    <3>3. Shown' = [Shown EXCEPT ![c] = VersionsOf(manifest)]
      BY <3>1 DEF Shown, VersionsOf, TypeOK
    <3>4. VersionsOf(manifest) # Atomic!NoReleases
      BY <2>3, ManifestsListReleases
    <3>5. UNCHANGED VersionsOf(manifest)
      BY <3>1 DEF VersionsOf
    <3>6. Atomic!Look(c)
      BY <1>1, <2>1, <3>1, <3>2, <3>3, <3>4, <3>5
         DEF Atomic!Look, Atomic!Move, PhaseOf, Shown
    <3> QED
      BY <3>6 DEF Implemented
  <2> QED
    BY <2>2, <2>3
<1>3. CASE Send(c)
  <2>1. Phase(c) \in Atomic!Sends(c)
    BY <1>1, <1>3, Phases DEF Send, Sends, Atomic!Sends, Publishes, Unpublishes
  <2>2. pc'[c] = "waiting" /\ UNCHANGED <<manifest, seen, status, cmd>>
    BY <1>3 DEF Send, TypeOK, store, answer
  <2>3. PhaseOf[c] = Phase(c) /\ PhaseOf' = [PhaseOf EXCEPT ![c] = "called"]
    BY <1>3, <2>2, OnePhaseMoves, PhasesAfter DEF ClientStep, Calling
  <2>4. UNCHANGED <<VersionsOf(manifest), Shown>>
    BY <2>2 DEF VersionsOf, Shown
  <2>5. Atomic!Call(c)
    BY <2>1, <2>2, <2>3, <2>4 DEF Atomic!Call, Atomic!Move, PhaseOf, Shown
  <2> QED
    BY <2>5 DEF Implemented
<1>4. CASE RefusePublish(c) \/ RefuseUnpublish(c)
  <2>1. Phase(c) \in Atomic!Sends(c)
    BY <1>1, <1>4, Phases
       DEF RefusePublish, RefuseUnpublish, Sends, Atomic!Sends, Publishes, Unpublishes
  <2>2. PICK code \in {"forbidden", "rejected"} : Answers(c, code)
    BY <1>4 DEF RefusePublish, RefuseUnpublish, Deny, Answers, store
  <2>3. Atomic!Answer(c, Atomic!Sends(c), code) /\ UNCHANGED <<VersionsOf(manifest), cmd, Shown>>
    BY <1>4, <2>1, <2>2, AnswersAre DEF ClientStep
  <2>4. Atomic!AnswerOnly(c)
    BY <2>3 DEF Atomic!AnswerOnly, Atomic!Denied, Shown
  <2> QED
    BY <2>4 DEF Implemented
<1>5. CASE GetFails(c)
  <2> DEFINE from == {"ready"} \cup (IF Atomic!Unpublishes(c) THEN {} ELSE {"shown"})
  <2>1. ~Publishes(c) /\ Phase(c) \in from
    BY <1>1, <1>5, Phases DEF GetFails, Installs, Unpublishes
  <2>2. Answers(c, "error")
    BY <1>5 DEF GetFails, Answers, store
  <2>3. Atomic!Answer(c, from, "error") /\ UNCHANGED <<VersionsOf(manifest), cmd, Shown>>
    BY <1>5, <2>1, <2>2, AnswersAre DEF ClientStep
  <2>4. Atomic!AnswerOnly(c)
    BY <1>1, <2>1, <2>3 DEF Atomic!AnswerOnly, Atomic!ReadFailed, Shown
  <2> QED
    BY <2>4 DEF Implemented
<1>6. CASE FetchTarball(c)
  <2>1. ~Publishes(c) /\ ~Unpublishes(c) /\ Phase(c) \in {"shown"}
    BY <1>6, Phases DEF FetchTarball, Installs, Publishes, Unpublishes
  <2>2. PICK code \in {"served", "notFound"} : Answers(c, code)
    BY <1>6 DEF FetchTarball, Answers, store
  <2>3. Atomic!Answer(c, {"shown"}, code) /\ UNCHANGED <<VersionsOf(manifest), cmd, Shown>>
    BY <1>6, <2>1, <2>2, AnswersAre DEF ClientStep
  <2>4. Atomic!AnswerOnly(c)
    BY <1>1, <2>1, <2>3 DEF Atomic!AnswerOnly, Atomic!Downloaded, Shown
  <2> QED
    BY <2>4 DEF Implemented
<1>7. CASE LockPackage(c)
  <2>1. Phase(c) = "called" /\ Phase(c)' = "called"
    BY <1>7, Phases, PhasesAfter DEF LockPackage, Goto, TypeOK, Calling
  <2> QED
    BY <1>7, <2>1, Invisible DEF LockPackage, store, answer
<1> QED
  BY <1>2, <1>3, <1>4, <1>5, <1>6, <1>7 DEF ClientStep

(* A command that takes effect: the catalog changes, its answer is an error*)
(* or still to come.                                                       *)
LEMMA EffectIsTaken ==
  ASSUME HistoryInv, NEW c \in Clients, HandlerStep(c), Phase(c) = "called",
         Atomic!Effect(c), UNCHANGED <<seen, cmd>>,
         \/ Phase(c)' = "done" /\ status' = status
         \/ Phase(c)' = "answered" /\ status' = [status EXCEPT ![c] = "error"]
  PROVE  Implemented(c)
<1>1. PhaseOf[c] = "called" /\ PhaseOf' = [PhaseOf EXCEPT ![c] = Phase(c)']
  BY OnePhaseMoves
<1>2. Shown' = Shown
  BY DEF Shown, VersionsOf
<1>3. Atomic!TakeEffect(c)
  BY <1>1, <1>2 DEF Atomic!TakeEffect, Atomic!Answer, Atomic!Move, PhaseOf, Shown
<1> QED
  BY <1>3 DEF Implemented

(* A handler that fails without an effect.                                 *)
LEMMA FailureImplements ==
  ASSUME HistoryInv, NEW c \in Clients, HandlerStep(c), pc[c] \in InLock,
         Answers(c, "error")
  PROVE  Implemented(c)
<1>1. Phase(c) \in {"called", "done"}
  BY Phases DEF InLock, Calling, Late
<1>2. Atomic!Answer(c, {"called", "done"}, "error") /\ UNCHANGED <<VersionsOf(manifest), cmd, Shown>>
  BY <1>1, AnswersAre
<1> QED
  BY <1>2 DEF Implemented, Atomic!AnswerOnly, Atomic!Failed, Shown

LEMMA PublishImplements ==
  ASSUME HistoryInv, ChainInv, NEW c \in Clients, PublishStep(c)
  PROVE  Implemented(c)
<1> USE HistoryBasics
<1>0. /\ Atomic!Publishes(c) = Publishes(c) /\ Atomic!Unpublishes(c) = Unpublishes(c)
      /\ HandlerStep(c)
  BY DEF Atomic!Publishes, Atomic!Unpublishes, Publishes, Unpublishes, HandlerStep
<1>1. CASE PublishCheck(c)
  <2>1. Publishes(c) /\ Phase(c) \in {"called"}
    BY <1>1, Phases DEF PublishCheck, Calling
  <2>2. CASE cmd[c].body.version \in DOMAIN VersionsOf(manifest)
    <3>1. Answers(c, "conflict")
      BY <1>1, <2>2 DEF PublishCheck, Answers, store
    <3>2. Atomic!Answer(c, {"called"}, "conflict") /\ UNCHANGED <<VersionsOf(manifest), cmd, Shown>>
      BY <1>0, <2>1, <3>1, AnswersAre
    <3> QED
      BY <1>0, <2>1, <2>2, <3>2 DEF Implemented, Atomic!AnswerOnly, Atomic!Conflict, Shown
  <2>3. CASE cmd[c].body.version \notin DOMAIN VersionsOf(manifest)
    <3>1. Phase(c)' = "called" /\ UNCHANGED <<manifest, seen, cmd, status>>
      BY <1>1, <2>3, PhasesAfter DEF PublishCheck, Goto, TypeOK, Calling, store
    <3> QED
      BY <1>0, <2>1, <3>1, Invisible
  <2> QED
    BY <2>2, <2>3
<1>2. CASE PutTarball(c)
  <2>1. Phase(c) = "called" /\ Phase(c)' = "called"
    BY <1>2, Phases, PhasesAfter DEF PutTarball, Goto, TypeOK, Calling
  <2> QED
    BY <1>0, <1>2, <2>1, Invisible DEF PutTarball, answer
<1>3. CASE PutTarballFails(c)
  BY <1>0, <1>3, FailureImplements DEF PutTarballFails, Answers, InLock
<1>4. ASSUME PutManifest(c) \/ PutManifestFails(c), manifest' = doc[c]
      PROVE  Implemented(c)
  <2>1. PutsManifest(c)
    BY <1>4 DEF PutsManifest, PutManifest, PutManifestFails, Goto
  <2>2. /\ Publishes(c)
        /\ cmd[c].body.version \notin DOMAIN VersionsOf(manifest)
        /\ VersionsOf(manifest') = Bind(VersionsOf(manifest), cmd[c].body.version, Release(c))
    BY <2>1, Rewrites
  <2>3. Atomic!Effect(c)
    BY <1>0, <2>2
       DEF Atomic!Effect, Release, VersionsOf, Atomic!Bind, Bind, Atomic!Entry, Entry
  <2>4. Phase(c) = "called"
    BY <2>1, Phases DEF PutsManifest, Calling
  <2>5. CASE PutManifest(c)
    BY <1>0, <2>3, <2>4, <2>5, EffectIsTaken, PhasesAfter
       DEF PutManifest, Goto, TypeOK, Late, local, answer
  <2>6. CASE PutManifestFails(c)
    BY <1>0, <2>3, <2>4, <2>6, EffectIsTaken, PhasesAfter
       DEF PutManifestFails, Return, TypeOK
  <2> QED
    BY <1>4, <2>5, <2>6
<1>5. CASE PutManifestFails(c) /\ manifest' = manifest
  BY <1>0, <1>5, FailureImplements DEF PutManifestFails, Answers, InLock
<1> QED
  BY <1>1, <1>2, <1>3, <1>4, <1>5 DEF PublishStep, PutManifest, PutManifestFails

(* The manifest's key is deleted: the unpublish takes effect.              *)
LEMMA RemovalImplements ==
  ASSUME HistoryInv, KeysInv, ChainInv, NEW c \in Clients,
         DeleteKey(c) \/ DeleteKeyFails(c), IsNextKey(c, ManifestKey), Delete(ManifestKey)
  PROVE  Implemented(c)
<1> USE HistoryBasics
<1>1. pc[c] = "deleteKeys" /\ HandlerStep(c) /\ ManifestKey \in todo[c]
  BY DEF DeleteKey, DeleteKeyFails, HandlerStep, UnpublishStep, IsNextKey
<1>2. Phase(c) = "called"
  BY <1>1, Phases
<1>3. Unpublishes(c) /\ ~Publishes(c) /\ manifest # NoManifest /\ manifest = seen[c]
  <2>1. ManifestKey \in StoredKeys
    BY <1>1 DEF KeysInv
  <2>2. manifest # NoManifest
    BY <2>1, ManifestKeyAssumption, PartialFunctionsDef DEF StoredKeys, TypeOK
  <2> QED
    BY <1>1, <2>2, DeleterSaw DEF RoleInv, Unpublishes, Publishes
<1>4. VersionsOf(manifest') = Atomic!NoReleases
  BY DEF Delete, VersionsOf, Atomic!NoReleases
<1>5. Atomic!Effect(c)
  BY <1>3, <1>4, ManifestsListReleases
     DEF Atomic!Effect, Atomic!Publishes, Atomic!Unpublishes, Publishes, Unpublishes, VersionsOf
<1>6. CASE DeleteKey(c)
  <2>1. ManifestKey \notin todo'[c] /\ pc'[c] \in {"deleteKeys", "recordEvent"}
    <3>1. PICK k \in Keys :
            /\ IsNextKey(c, k)
            /\ todo' = [todo EXCEPT ![c] = @ \ {k}]
            /\ pc' = [pc EXCEPT ![c] = IF todo[c] = {k} THEN "recordEvent" ELSE @]
      BY <1>6 DEF DeleteKey
    <3>2. k = ManifestKey
      BY <3>1, RankAssumption DEF IsNextKey, Keys
    <3> QED
      BY <1>1, <3>1, <3>2 DEF TypeOK
  <2>2. Phase(c)' = "done"
    BY <2>1, PhasesAfter DEF Late
  <2> QED
    BY <1>1, <1>2, <1>5, <1>6, <2>2, EffectIsTaken DEF DeleteKey, answer
<1>7. CASE DeleteKeyFails(c)
  BY <1>1, <1>2, <1>5, <1>7, EffectIsTaken, PhasesAfter DEF DeleteKeyFails, Return, TypeOK
<1> QED
  BY <1>6, <1>7

LEMMA UnpublishImplements ==
  ASSUME HistoryInv, KeysInv, ChainInv, NEW c \in Clients, UnpublishStep(c)
  PROVE  Implemented(c)
<1> USE HistoryBasics
<1>0. /\ Atomic!Publishes(c) = Publishes(c) /\ Atomic!Unpublishes(c) = Unpublishes(c)
      /\ HandlerStep(c)
  BY DEF Atomic!Publishes, Atomic!Unpublishes, Publishes, Unpublishes, HandlerStep
<1>1. CASE UnpublishCheck(c)
  <2>1. Unpublishes(c) /\ ~Publishes(c) /\ Phase(c) = "called" /\ seen[c] # NoManifest
    BY <1>1, Phases
       DEF UnpublishCheck, Calling, RoleInv, InServer, InLock, Unpublishes, Publishes
  <2>2. CASE manifest = NoManifest
    <3>1. Answers(c, "notFound")
      BY <1>1, <2>2 DEF UnpublishCheck, Answers, store
    <3>2. Atomic!Answer(c, {"ready", "called"}, "notFound")
            /\ UNCHANGED <<VersionsOf(manifest), cmd, Shown>>
      BY <1>0, <2>1, <3>1, AnswersAre
    <3> QED
      BY <1>0, <2>1, <2>2, <3>2, ManifestsListReleases
         DEF Implemented, Atomic!AnswerOnly, Atomic!NotFound, Shown
  <2>3. CASE manifest # NoManifest /\ manifest.rev # seen[c].rev
    <3>1. Answers(c, "conflict")
      BY <1>1, <2>3 DEF UnpublishCheck, Answers, store
    <3>2. Atomic!Answer(c, {"called"}, "conflict") /\ UNCHANGED <<VersionsOf(manifest), cmd, Shown>>
      BY <1>0, <2>1, <3>1, AnswersAre
    <3>3. /\ VersionsOf(manifest) # Atomic!NoReleases
          /\ VersionsOf(manifest) # VersionsOf(seen[c])
      BY <2>1, <2>3, ManifestsListReleases, ReleasesNameDocument
    <3> QED
      BY <1>0, <2>1, <3>2, <3>3
         DEF Implemented, Atomic!AnswerOnly, Atomic!Conflict, Shown
  <2>4. CASE manifest # NoManifest /\ manifest.rev = seen[c].rev
    <3>1. Phase(c)' = "called" /\ UNCHANGED <<manifest, seen, cmd, status>>
      BY <1>1, <2>4, PhasesAfter DEF UnpublishCheck, Goto, TypeOK, Calling, store
    <3> QED
      BY <1>0, <2>1, <3>1, Invisible
  <2> QED
    BY <2>2, <2>3, <2>4
<1>2. CASE ListKeys(c)
  <2>1. manifest # NoManifest
    BY <1>2 DEF ListKeys, Goto, CoreInv, DecisionIsCurrent, CheckInv
  <2>2. pc'[c] = "deleteKeys" /\ ManifestKey \in todo'[c]
    BY <1>2, <2>1 DEF ListKeys, Goto, StoredKeys, TypeOK
  <2>3. Phase(c) = "called" /\ Phase(c)' = "called"
    BY <1>2, <2>2, Phases, PhasesAfter DEF ListKeys, Goto, Calling
  <2> QED
    BY <1>0, <1>2, <2>3, Invisible DEF ListKeys, store, answer
<1>3. CASE ListKeysFails(c)
  BY <1>0, <1>3, FailureImplements DEF ListKeysFails, Answers, InLock, store
<1>4. CASE DeleteKey(c) /\ ~IsNextKey(c, ManifestKey)
  <2>1. PICK k \in Keys :
          /\ k # ManifestKey
          /\ k \in todo[c]
          /\ manifest' = manifest
          /\ todo' = [todo EXCEPT ![c] = @ \ {k}]
          /\ pc' = [pc EXCEPT ![c] = IF todo[c] = {k} THEN "recordEvent" ELSE @]
    BY <1>4 DEF DeleteKey, IsNextKey, Delete
  <2>2. pc[c] = "deleteKeys"
    BY <1>4 DEF DeleteKey
  <2>3. Phase(c)' = Phase(c)
    <3>1. CASE todo[c] = {k}
      <4>1. pc'[c] = "recordEvent"
        BY <2>1, <3>1 DEF TypeOK
      <4> QED
        BY <2>1, <2>2, <3>1, <4>1, Phases, PhasesAfter DEF Late
    <3>2. CASE todo[c] # {k}
      <4>1. pc'[c] = "deleteKeys"
        BY <2>1, <2>2, <3>2 DEF TypeOK
      <4>2. ManifestKey \in todo'[c] <=> ManifestKey \in todo[c]
        BY <2>1 DEF TypeOK
      <4> QED
        BY <2>2, <4>1, <4>2, Phases, PhasesAfter
    <3> QED
      BY <3>1, <3>2
  <2> QED
    BY <1>0, <1>4, <2>1, <2>3, Invisible DEF DeleteKey, answer
<1>5. CASE DeleteKeyFails(c) /\ manifest' = manifest
  BY <1>0, <1>5, FailureImplements DEF DeleteKeyFails, Answers, InLock
<1>6. CASE DeleteKeyFails(c) /\ manifest' # manifest
  <2>1. IsNextKey(c, ManifestKey) /\ Delete(ManifestKey)
    BY <1>6 DEF DeleteKeyFails, Delete, store
  <2> QED
    BY <1>6, <2>1, RemovalImplements
<1>7. CASE DeleteKey(c) /\ IsNextKey(c, ManifestKey)
  <2>1. PICK k \in Keys : IsNextKey(c, k) /\ Delete(k)
    BY <1>7 DEF DeleteKey
  <2>2. k = ManifestKey
    BY <1>7, <2>1, RankAssumption DEF IsNextKey, Keys
  <2> QED
    BY <1>7, <2>1, <2>2, RemovalImplements
<1> QED
  BY <1>1, <1>2, <1>3, <1>4, <1>5, <1>6, <1>7 DEF UnpublishStep

LEMMA HandlerImplements ==
  ASSUME HistoryInv, KeysInv, ChainInv, NEW c \in Clients, HandlerStep(c)
  PROVE  Implemented(c)
<1> USE HistoryBasics
<1>1. CASE CheckFails(c)
  BY <1>1, FailureImplements DEF CheckFails, Answers, InLock, store
<1>2. CASE RecordEvent(c) \/ RecordAudit(c)
  <2>1. pc[c] \in Late /\ pc'[c] \in Late /\ UNCHANGED <<manifest, seen, cmd, status>>
    BY <1>2 DEF RecordEvent, RecordAudit, Goto, TypeOK, Late, store, answer
  <2> QED
    BY <2>1, Phases, PhasesAfter, Invisible
<1>3. CASE Reply(c)
  <2> DEFINE code == IF Publishes(c) THEN "created" ELSE "removed"
  <2>1. Phase(c) \in {"done"}
    BY <1>3, Phases DEF Reply, Late
  <2>2. Answers(c, code)
    BY <1>3 DEF Reply, Answers, store
  <2>3. Atomic!Answer(c, {"done"}, code) /\ UNCHANGED <<VersionsOf(manifest), cmd, Shown>>
    BY <2>1, <2>2, AnswersAre
  <2>4. Atomic!AnswerOnly(c)
    BY <2>3 DEF Atomic!AnswerOnly, Atomic!Succeeded, Atomic!Publishes, Publishes, Shown
  <2> QED
    BY <2>4 DEF Implemented
<1> QED
  BY <1>1, <1>2, <1>3, PublishImplements, UnpublishImplements DEF HandlerStep

LEMMA CrashImplements ==
  ASSUME HistoryInv, Crash
  PROVE  Atomic!Lose
<1>1. ASSUME NEW c \in Clients
      PROVE  Phase(c)' = IF Phase(c) \in {"called", "done"} THEN "lost" ELSE Phase(c)
  <2>1. pc'[c] = IF pc[c] \in InServer THEN "dropped" ELSE pc[c]
    BY DEF Crash
  <2>2. pc[c] \in InServer => Phase(c) \in {"called", "done"}
    BY Phases DEF InServer, InLock, Calling, Late
  <2>3. pc[c] \notin InServer => Phase(c) \in {"ready", "shown", "answered", "lost"}
    BY HistoryBasics, Phases DEF TypeOK, Points, Ended
  <2>4. pc[c] \notin InServer => Phase(c)' = Phase(c)
    BY <2>1, HistoryBasics, Phases, PhasesAfter DEF TypeOK, Points, Ended
  <2> QED
    BY <2>1, <2>2, <2>3, <2>4, PhasesAfter
<1>2. UNCHANGED <<VersionsOf(manifest), cmd, Shown, status>>
  BY DEF Crash, VersionsOf, Shown, store, answer
<1> QED
  BY <1>1, <1>2 DEF Atomic!Lose, Shown

LEMMA StepImplements ==
  HistoryInv /\ KeysInv /\ ChainInv /\ [Next]_vars => [Atomic!Next]_(Atomic!vars)
<1> SUFFICES ASSUME HistoryInv, KeysInv, ChainInv, [Next]_vars
             PROVE  Atomic!Next \/ UNCHANGED Atomic!vars
  OBVIOUS
<1>1. ASSUME NEW c \in Clients, ClientStep(c) \/ LockPackage(c) \/ HandlerStep(c)
      PROVE  Atomic!Next \/ UNCHANGED Atomic!vars
  BY <1>1, ClientStepImplements, HandlerImplements DEF Implemented, Atomic!Next
<1>2. CASE Crash
  BY <1>2, CrashImplements DEF Atomic!Next
<1>3. CASE UNCHANGED vars
  BY <1>3 DEF vars, Atomic!vars, Phase, TookEffect, VersionsOf
<1> QED
  BY <1>1, <1>2, <1>3 DEF Next

LEMMA InitImplements == Init => Atomic!Init
<1> SUFFICES ASSUME Init PROVE Atomic!Init
  OBVIOUS
<1>1. \A c \in Clients : Phase(c) = "ready"
  BY Phases DEF Init
<1> QED
  BY <1>1 DEF Init, Atomic!Init, Atomic!NoReleases, VersionsOf, Commands

(* The lock, the revisions and the order of the writes make publish and    *)
(* unpublish atomic, for any commands, faults and crashes.                 *)
THEOREM RegistryIsAtomic == Spec => ImplementsAtomicRegistry
<1>1. Init => HistoryInv /\ KeysInv /\ ChainInv
  BY HistoryInit DEF Init, KeysInv, ChainInv
<1>2. (HistoryInv /\ KeysInv /\ ChainInv) /\ [Next]_vars
        => (HistoryInv /\ KeysInv /\ ChainInv)'
  BY HistoryStep, KeysStep, ChainStep
<1> QED
  BY <1>1, <1>2, InitImplements, StepImplements, PTL
     DEF Spec, ImplementsAtomicRegistry, Atomic!Spec

----------------------------------------------------------------------------
(* How long the lock is held.                                              *)

LEMMA LeastNatural ==
  ASSUME NEW S \in SUBSET Nat, S # {}
  PROVE  \E x \in S : \A y \in S : x <= y
<1> DEFINE R == OpToRel(<, Nat)
<1>1. R = { ss \in Nat \X Nat : ss[1] < ss[2] }
  BY DEF OpToRel
<1>2. IsWellFoundedOn(R, Nat)
  BY NatLessThanWellFounded
<1> HIDE DEF R
<1>3. PICK x \in S : \A y \in S : ~(<<y, x>> \in R)
  BY <1>2, WFMin
<1>4. \A y \in S : ~(y < x)
  BY <1>1, <1>3
<1> QED
  BY <1>4

(* What a handler has at most still to do before it returns the lock.      *)
Effort(c) ==
  CASE pc[c] = "locked"      -> 6 + Cardinality(StoredKeys)
    [] pc[c] = "listKeys"    -> 5 + Cardinality(StoredKeys)
    [] pc[c] = "deleteKeys"  -> 3 + Cardinality(StoredKeys)
    [] pc[c] = "putTarball"  -> 5
    [] pc[c] = "putManifest" -> 4
    [] pc[c] = "recordEvent" -> 3
    [] pc[c] = "recordAudit" -> 2
    [] pc[c] = "reply"       -> 1
    [] OTHER -> 0

(* Finitely many keys are stored, and a deletion that goes on has one left.*)
BusyInv ==
  /\ IsFiniteSet(StoredKeys)
  /\ \A c \in Clients : pc[c] = "deleteKeys" => todo[c] # {}

(* The way of a handler through its program.                               *)
LEMMA HandlerPath ==
  ASSUME TypeOK, NEW c \in Clients, HandlerStep(c)
  PROVE  /\ pc[c] \in InLock
         /\ \/ pc'[c] = "done"
            \/ /\ pc[c] = "locked"
               /\ pc'[c] \in {"putTarball", "listKeys"}
               /\ UNCHANGED store
            \/ pc[c] = "putTarball" /\ pc'[c] = "putManifest"
            \/ pc[c] = "putManifest" /\ pc'[c] = "recordEvent"
            \/ /\ pc[c] = "listKeys"
               /\ pc'[c] = "deleteKeys"
               /\ UNCHANGED store
               /\ todo'[c] = StoredKeys
            \/ /\ pc[c] = "deleteKeys"
               /\ \E k \in Keys :
                    /\ IsNextKey(c, k)
                    /\ Delete(k)
                    /\ todo'[c] = todo[c] \ {k}
                    /\ pc'[c] = IF todo[c] = {k} THEN "recordEvent" ELSE "deleteKeys"
            \/ pc[c] = "recordEvent" /\ pc'[c] = "recordAudit"
            \/ pc[c] = "recordAudit" /\ pc'[c] = "reply"
<1> USE DEF Goto, Return, TypeOK, InLock
<1>1. CASE PublishCheck(c) \/ UnpublishCheck(c)
  BY <1>1 DEF PublishCheck, UnpublishCheck
<1>2. CASE PutTarball(c) \/ PutManifest(c)
  BY <1>2 DEF PutTarball, PutManifest
<1>3. CASE \/ PutTarballFails(c) \/ PutManifestFails(c) \/ ListKeysFails(c)
           \/ DeleteKeyFails(c) \/ CheckFails(c) \/ Reply(c)
  BY <1>3 DEF PutTarballFails, PutManifestFails, ListKeysFails, DeleteKeyFails,
              CheckFails, Reply
<1>4. CASE ListKeys(c)
  BY <1>4 DEF ListKeys
<1>5. CASE DeleteKey(c)
  BY <1>5 DEF DeleteKey
<1>6. CASE RecordEvent(c) \/ RecordAudit(c)
  BY <1>6 DEF RecordEvent, RecordAudit
<1> QED
  BY <1>1, <1>2, <1>3, <1>4, <1>5, <1>6 DEF HandlerStep, PublishStep, UnpublishStep

(* Nobody but the process itself disturbs a handler.                       *)
LEMMA HolderIsAlone ==
  ASSUME TypeOK, LockInv, [Next]_vars, NEW c \in Clients, pc[c] \in InLock,
         ~HandlerStep(c), ~Crash
  PROVE  pc'[c] = pc[c] /\ UNCHANGED store /\ todo'[c] = todo[c]
<1>1. ASSUME NEW d \in Clients, HandlerStep(d)  PROVE FALSE
  BY <1>1, HandlerPath, Alone
<1>2. ASSUME NEW d \in Clients, LockPackage(d)  PROVE FALSE
  BY <1>2, NoClientAssumption DEF LockPackage, LockInv
<1>3. ASSUME NEW d \in Clients, ClientStep(d)
      PROVE  pc'[c] = pc[c] /\ UNCHANGED store /\ todo'[c] = todo[c]
  <2>1. pc[d] \in {"idle", "fetched"}
    BY <1>3 DEF ClientStep, FetchManifest, Send, Sends, RefusePublish, RefuseUnpublish,
                GetFails, FetchTarball, Goto
  <2>2. d # c
    BY <2>1 DEF InLock
  <2>3. UNCHANGED store /\ UNCHANGED local
    BY <1>3 DEF ClientStep, FetchManifest, Send, RefusePublish, RefuseUnpublish,
                GetFails, FetchTarball, local
  <2>4. \E p : pc' = [pc EXCEPT ![d] = p]
    BY <1>3 DEF ClientStep, FetchManifest, Send, RefusePublish, RefuseUnpublish, Deny,
                GetFails, FetchTarball, Goto, Return
  <2> QED
    BY <2>2, <2>3, <2>4 DEF local, TypeOK
<1>4. CASE UNCHANGED vars
  BY <1>4 DEF vars, store
<1> QED
  BY <1>1, <1>2, <1>3, <1>4 DEF Next

LEMMA BusyStep == HistoryInv /\ KeysInv /\ BusyInv /\ [Next]_vars => BusyInv'
<1> SUFFICES ASSUME HistoryInv, KeysInv, BusyInv, [Next]_vars PROVE BusyInv'
  OBVIOUS
<1> USE HistoryBasics
<1>1. IsFiniteSet(StoredKeys)'
  <2>1. IsFiniteSet(StoredKeys)
    BY DEF BusyInv
  <2>2. CASE UNCHANGED store
    BY <2>1, <2>2 DEF StoredKeys, store
  <2>3. ASSUME NEW c \in Clients, PutsTarball(c)  PROVE IsFiniteSet(StoredKeys')
    <3>1. StoredKeys' = StoredKeys \cup {cmd[c].body.file}
      BY <2>3, PutKeepsOthers DEF PutsTarball, StoredKeys
    <3> QED
      BY <2>1, <3>1, FS_AddElement
  <2>4. ASSUME NEW c \in Clients, PutsManifest(c)  PROVE IsFiniteSet(StoredKeys')
    <3>1. StoredKeys' \in SUBSET (StoredKeys \cup {ManifestKey})
      BY <2>4 DEF PutsManifest, StoredKeys
    <3> QED
      BY <2>1, <3>1, FS_AddElement, FS_Subset
  <2>5. ASSUME NEW c \in Clients, NEW k \in Keys, Deletes(c, k)
        PROVE  IsFiniteSet(StoredKeys')
    <3>1. StoredKeys' \in SUBSET StoredKeys
      BY <2>5, DeleteShrinks DEF Deletes
    <3> QED
      BY <2>1, <3>1, FS_Subset
  <2> QED
    BY <2>2, <2>3, <2>4, <2>5, StoreChanges
<1>2. ASSUME NEW c \in Clients, pc'[c] = "deleteKeys"  PROVE todo'[c] # {}
  <2>1. CASE HandlerStep(c)
    <3>1. CASE pc[c] = "listKeys" /\ todo'[c] = StoredKeys
      <4>1. manifest # NoManifest
        BY <3>1 DEF CoreInv, DecisionIsCurrent, CheckInv
      <4> QED
        BY <3>1, <4>1 DEF StoredKeys
    <3>2. CASE pc[c] = "deleteKeys"
      <4>1. PICK k \in Keys : /\ IsNextKey(c, k)
                              /\ todo'[c] = todo[c] \ {k}
                              /\ todo[c] # {k}
        BY <1>2, <2>1, <3>2, HandlerPath
      <4> QED
        BY <4>1 DEF IsNextKey
    <3> QED
      BY <1>2, <2>1, <3>1, <3>2, HandlerPath
  <2>2. CASE ~HandlerStep(c)
    <3>1. ~Crash
      BY <1>2 DEF Crash, InServer, InLock
    <3>2. pc[c] \in InLock
      <4>1. pc[c] = "deleteKeys" \/ UnpublishCheck(c) \/ pc[c] = "listKeys"
        BY <1>2, ChecksComeFirst
      <4> QED
        BY <2>2, <4>1 DEF InLock, HandlerStep, UnpublishStep
    <3> QED
      BY <1>2, <2>2, <3>1, <3>2, HolderIsAlone DEF BusyInv
  <2> QED
    BY <2>1, <2>2
<1> QED
  BY <1>1, <1>2 DEF BusyInv

LEMMA EffortIsNat ==
  ASSUME BusyInv, TypeOK, NEW c \in Clients
  PROVE  Effort(c) \in Nat /\ (pc[c] \in InLock <=> Effort(c) > 0)
<1>1. Cardinality(StoredKeys) \in Nat
  BY FS_CardinalityType DEF BusyInv
<1> QED
  BY <1>1 DEF Effort, InLock

LEMMA NextKeyIsThere ==
  ASSUME BusyInv, TypeOK, NEW c \in Clients, pc[c] = "deleteKeys"
  PROVE  \E k \in Keys : IsNextKey(c, k)
<1> DEFINE S == { Rank[k] : k \in todo[c] }
<1>1. todo[c] \in SUBSET Keys /\ todo[c] # {}
  BY DEF BusyInv, TypeOK
<1>2. S \in SUBSET Nat /\ S # {}
  BY <1>1, RankAssumption
<1> HIDE DEF S
<1>3. PICK x \in S : \A y \in S : x <= y
  BY <1>2, LeastNatural
<1>4. PICK k \in todo[c] : x = Rank[k]
  BY <1>3 DEF S
<1>5. \A j \in todo[c] : Rank[j] \in S
  BY DEF S
<1> QED
  BY <1>1, <1>3, <1>4, <1>5 DEF IsNextKey

LEMMA EffortShrinks ==
  ASSUME HistoryInv, KeysInv, BusyInv, [Next]_vars, BusyInv', TypeOK',
         NEW c \in Clients, pc[c] \in InLock
  PROVE  /\ HandlerStep(c) => Effort(c)' < Effort(c)
         /\ Effort(c)' <= Effort(c)
<1> USE HistoryBasics
<1>1. Effort(c) \in Nat /\ Effort(c) > 0 /\ Cardinality(StoredKeys) \in Nat
  BY EffortIsNat, FS_CardinalityType DEF BusyInv
<1>2. CASE HandlerStep(c)
  <2>1. ASSUME pc'[c] = "done"  PROVE Effort(c)' < Effort(c)
    BY <1>1, <2>1 DEF Effort
  <2>2. ASSUME pc[c] \in {"locked", "listKeys"}, pc'[c] # "done"
        PROVE  Effort(c)' < Effort(c)
    <3>1. /\ UNCHANGED store
          /\ \/ pc[c] = "locked" /\ pc'[c] \in {"putTarball", "listKeys"}
             \/ pc[c] = "listKeys" /\ pc'[c] = "deleteKeys"
      BY <1>2, <2>2, HandlerPath
    <3>2. StoredKeys' = StoredKeys
      BY <3>1 DEF StoredKeys, store
    <3> QED
      BY <1>1, <3>1, <3>2 DEF Effort
  <2>3. ASSUME pc[c] = "deleteKeys", pc'[c] # "done"
        PROVE  Effort(c)' < Effort(c)
    <3>1. PICK k \in Keys :
            /\ k \in todo[c]
            /\ Delete(k)
            /\ pc'[c] = IF todo[c] = {k} THEN "recordEvent" ELSE "deleteKeys"
      BY <1>2, <2>3, HandlerPath DEF IsNextKey
    <3>2. StoredKeys' = StoredKeys \ {k} /\ k \in StoredKeys
      BY <2>3, <3>1, DeleteShrinks DEF KeysInv
    <3>3. Cardinality(StoredKeys') = Cardinality(StoredKeys) - 1
      BY <3>2, FS_RemoveElement DEF BusyInv
    <3>4. Cardinality(StoredKeys) > 0
      BY <3>2, FS_EmptySet, FS_CardinalityType DEF BusyInv
    <3> QED
      BY <1>1, <2>3, <3>1, <3>3, <3>4 DEF Effort
  <2>4. ASSUME pc[c] \in {"putTarball", "putManifest", "recordEvent", "recordAudit", "reply"},
               pc'[c] # "done"
        PROVE  Effort(c)' < Effort(c)
    <3>1. \/ pc[c] = "putTarball" /\ pc'[c] = "putManifest"
          \/ pc[c] = "putManifest" /\ pc'[c] = "recordEvent"
          \/ pc[c] = "recordEvent" /\ pc'[c] = "recordAudit"
          \/ pc[c] = "recordAudit" /\ pc'[c] = "reply"
      BY <1>2, <2>4, HandlerPath
    <3> QED
      BY <3>1 DEF Effort
  <2>5. Effort(c)' < Effort(c)
    BY <2>1, <2>2, <2>3, <2>4 DEF InLock
  <2>6. Effort(c)' \in Nat
    <3>1. Cardinality(StoredKeys') \in Nat
      BY FS_CardinalityType DEF BusyInv
    <3> QED
      BY <3>1 DEF Effort
  <2> QED
    BY <1>1, <2>5, <2>6
<1>3. CASE Crash
  <2>1. pc'[c] = "dropped"
    BY <1>3 DEF Crash, InServer
  <2> QED
    <3>1. ~HandlerStep(c)
      BY <2>1, HandlerPath
    <3> QED
      BY <1>1, <2>1, <3>1 DEF Effort
<1>4. CASE ~HandlerStep(c) /\ ~Crash
  <2>1. pc'[c] = pc[c] /\ StoredKeys' = StoredKeys
    BY <1>4, HolderIsAlone DEF StoredKeys, store
  <2> QED
    BY <1>1, <1>4, <2>1 DEF Effort
<1> QED
  BY <1>2, <1>3, <1>4

(* The safety half of RequestsAreAnswered: whoever holds the lock has      *)
(* something to do, no step of another client adds to it, and every step of*)
(* its own brings the deferred unlock nearer (publish.go:155 and           *)
(* unpublish.go:44).                                                       *)
THEOREM LockIsReturned ==
  Spec => /\ [](\A c \in Clients :
                  /\ Effort(c) \in Nat
                  /\ pc[c] \in InLock <=> Effort(c) > 0
                  /\ pc[c] = "deleteKeys" => \E k \in Keys : IsNextKey(c, k))
          /\ [][\A c \in Clients :
                  pc[c] \in InLock =>
                    /\ HandlerStep(c) => Effort(c)' < Effort(c)
                    /\ Effort(c)' <= Effort(c)]_vars
<1>1. Init => HistoryInv /\ KeysInv /\ BusyInv
  <2>1. Init => StoredKeys = {} /\ IsFiniteSet({})
    BY FS_EmptySet DEF Init, StoredKeys
  <2> QED
    BY <2>1, HistoryInit DEF Init, KeysInv, BusyInv
<1>2. (HistoryInv /\ KeysInv /\ BusyInv) /\ [Next]_vars => (HistoryInv /\ KeysInv /\ BusyInv)'
  BY HistoryStep, KeysStep, BusyStep
<1>3. HistoryInv /\ KeysInv /\ BusyInv =>
        \A c \in Clients :
          /\ Effort(c) \in Nat
          /\ pc[c] \in InLock <=> Effort(c) > 0
          /\ pc[c] = "deleteKeys" => \E k \in Keys : IsNextKey(c, k)
  BY HistoryBasics, EffortIsNat, NextKeyIsThere
<1>4. ASSUME HistoryInv, KeysInv, BusyInv, HistoryInv', KeysInv', BusyInv', [Next]_vars
      PROVE  [\A c \in Clients :
                pc[c] \in InLock =>
                  /\ HandlerStep(c) => Effort(c)' < Effort(c)
                  /\ Effort(c)' <= Effort(c)]_vars
  <2>1. TypeOK'
    BY <1>4 DEF HistoryInv, ReleaseInv, CoreInv
  <2> QED
    BY <1>4, <2>1, EffortShrinks
<1> QED
  BY <1>1, <1>2, <1>3, <1>4, PTL DEF Spec
=============================================================================
