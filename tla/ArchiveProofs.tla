---------------------------- MODULE ArchiveProofs ----------------------------
(***************************************************************************)
(* A backup beside the package handlers, for any clients, releases, keys   *)
(* and faults: what the archive holds, if no entry of the directory was    *)
(* gone under its walk.  The handlers' own theorems go on holding, because *)
(* the backup changes nothing of theirs.                                   *)
(***************************************************************************)
EXTENDS Archive, ReleaseProofs

(* To the handlers a step of the backup is no step.                        *)
LEMMA BackupOnlyReads == [ArchiveNext]_allVars => [Next]_vars
<1>1. BackupStep => UNCHANGED vars
  BY DEF BackupStep, SnapshotDatabase, CopyAudit, ReadDirectory, VisitEntry,
         ReadObject, Upload, BackupFails
<1> QED
  BY <1>1 DEF ArchiveNext, HandlersStep, CrashAll, Next, allVars

(* The invariants of the handlers that the archive rests on.               *)
HandlersInv == HistoryInv /\ AnnouncedInv /\ StoredInv /\ Installable

LEMMA HandlersHold ==
  ASSUME FileNamesVersion
  PROVE  /\ Init => HandlersInv
         /\ HandlersInv /\ [Next]_vars => HandlersInv'
<1>1. Init => HandlersInv
  BY HistoryInit
     DEF Init, HandlersInv, AnnouncedInv, Announced, Late, StoredInv, Installable, VersionsOf
<1>2. HandlersInv /\ [Next]_vars => HandlersInv'
  BY HistoryStep, AnnouncedStep, StoredStep, InstallableStep
     DEF HandlersInv, HistoryInv
<1> QED
  BY <1>1, <1>2

----------------------------------------------------------------------------
(* An entry is still to be visited, to be read, or read: one of the three. *)
WalkInv ==
  /\ ArchiveTypeOK
  /\ step # "walk" => entries = {} /\ objects = {}
  /\ step \in {"idle", "audit", "list"} => DOMAIN zip.tarballs = {} /\ cut = FALSE
  /\ entries # {} => DOMAIN zip.tarballs = {}
  /\ entries \cap objects = {}

LEMMA StoredAreKeys ==
  ASSUME TypeOK
  PROVE  StoredKeys \subseteq Keys /\ \A f \in DOMAIN tarballs : f \in Files /\ tarballs[f] \in Contents
BY PartialFunctionsDef DEF TypeOK, StoredKeys, Keys

LEMMA EmptyZipTyped ==
  EmptyZip \in [feed : SUBSET Records, audit : SUBSET Records,
               manifest : Manifests \cup {NoManifest},
               tarballs : PartialFunctions(Files, Contents)]
  /\ DOMAIN EmptyZip.tarballs = {}
  BY EmptyIsPartial DEF EmptyZip

(* An object that is there is added under its own name.                    *)
LEMMA AddedIs ==
  ASSUME TypeOK, WalkInv, NEW p \in Keys \cup Temps, Exists(p)
  PROVE  /\ Added(p) \in [feed : SUBSET Records, audit : SUBSET Records,
                          manifest : Manifests \cup {NoManifest},
                          tarballs : PartialFunctions(Files, Contents)]
         /\ Added(p).feed = zip.feed /\ Added(p).audit = zip.audit
         /\ Added(p).manifest = IF p = ManifestKey THEN manifest ELSE zip.manifest
         /\ DOMAIN Added(p).tarballs \subseteq DOMAIN zip.tarballs \cup {p}
         /\ \A f \in DOMAIN zip.tarballs : f # p =>
              f \in DOMAIN Added(p).tarballs /\ Added(p).tarballs[f] = zip.tarballs[f]
         /\ p \in DOMAIN tarballs =>
              p \in DOMAIN Added(p).tarballs /\ Added(p).tarballs[p] = tarballs[p]
<1> DEFINE Zips == [feed : SUBSET Records, audit : SUBSET Records,
                    manifest : Manifests \cup {NoManifest},
                    tarballs : PartialFunctions(Files, Contents)]
<1>0. zip \in Zips /\ manifest \in Manifests \cup {NoManifest}
  BY DEF WalkInv, ArchiveTypeOK, TypeOK
<1>1. ManifestKey \notin Temps /\ ManifestKey \notin Files /\ ManifestKey \in Keys
  BY TempsAssumption, ManifestKeyAssumption DEF Keys
<1>2. DOMAIN tarballs \subseteq Files /\ DOMAIN tarballs \cap Temps = {}
  BY StoredAreKeys, TempsAssumption DEF Keys
<1>3. CASE p \in Temps
  BY <1>0, <1>1, <1>2, <1>3 DEF Added
<1>4. CASE p = ManifestKey
  BY <1>0, <1>1, <1>2, <1>4 DEF Added
<1>5. CASE p \notin Temps /\ p # ManifestKey
  <2>1. p \in DOMAIN tarballs
    BY <1>5 DEF Exists, StoredKeys
  <2>2. p \in Files /\ tarballs[p] \in Contents
    BY <2>1, StoredAreKeys
  <2>3. Bind(zip.tarballs, p, tarballs[p]) \in PartialFunctions(Files, Contents)
    BY <1>0, <2>2, BindIsPartial
  <2>4. Added(p) = [zip EXCEPT !.tarballs = Bind(zip.tarballs, p, tarballs[p])]
    BY <1>5 DEF Added
  <2> QED
    BY <1>0, <1>5, <2>1, <2>3, <2>4 DEF Bind
<1> QED
  BY <1>3, <1>4, <1>5

LEMMA WalkStep == TypeOK /\ WalkInv /\ [ArchiveNext]_allVars => WalkInv'
<1> SUFFICES ASSUME TypeOK, WalkInv, [ArchiveNext]_allVars PROVE WalkInv'
  OBVIOUS
<1> USE DEF WalkInv, ArchiveTypeOK, Steps, Advance
<1>1. CASE UNCHANGED job
  BY <1>1 DEF job
<1>2. ASSUME step' \in {"failed", "dropped"}, Discard PROVE WalkInv'
  BY <1>2, EmptyZipTyped, NoManifestAssumption DEF Discard
<1>3. CASE SnapshotDatabase \/ CopyAudit
  <2>1. feed \in SUBSET Records /\ audit \in SUBSET Records
    BY DEF TypeOK
  <2> QED
    BY <1>3, <2>1 DEF SnapshotDatabase, CopyAudit
<1>4. CASE ReadDirectory
  BY <1>4, StoredAreKeys DEF ReadDirectory, TypeOK
<1>5. CASE VisitEntry
  BY <1>5 DEF VisitEntry, IsNextEntry
<1>6. CASE ReadObject
  <2>1. PICK p \in objects :
          \/ /\ Exists(p)
             /\ objects' = objects \ {p}
             /\ zip' = Added(p)
             /\ UNCHANGED <<step, entries, before, cut>>
          \/ step' = "failed" /\ Discard
    BY <1>6 DEF ReadObject
  <2>2. CASE Exists(p) /\ objects' = objects \ {p} /\ zip' = Added(p)
             /\ UNCHANGED <<step, entries, before, cut>>
    <3>1. /\ zip' \in [feed : SUBSET Records, audit : SUBSET Records,
                      manifest : Manifests \cup {NoManifest},
                      tarballs : PartialFunctions(Files, Contents)]
          /\ DOMAIN zip'.tarballs \subseteq DOMAIN zip.tarballs \cup {p}
      BY <2>2, AddedIs
    <3>2. step = "walk" /\ entries = {}
      BY <1>6 DEF ReadObject
    <3> QED
      BY <2>2, <3>1, <3>2
  <2> QED
    BY <1>2, <2>1, <2>2
<1>7. CASE Upload
  BY <1>7 DEF Upload
<1> QED
  BY <1>1, <1>2, <1>3, <1>4, <1>5, <1>6, <1>7
     DEF ArchiveNext, HandlersStep, BackupStep, BackupFails, CrashAll, allVars, job

LEMMA WalkInit == ArchiveInit => WalkInv
  BY EmptyZipTyped, NoManifestAssumption DEF ArchiveInit, WalkInv, ArchiveTypeOK, Steps

(* The walk reads each object it listed once, and the upload ends it.      *)
THEOREM ArchiveTyped == ArchiveSpec => []ArchiveTypeOK
<1>1. ArchiveInit => CoreInv /\ WalkInv
  BY CoreInit, WalkInit DEF ArchiveInit
<1>2. (CoreInv /\ WalkInv) /\ [ArchiveNext]_allVars => (CoreInv /\ WalkInv)'
  BY CoreStep, WalkStep, BackupOnlyReads DEF CoreInv
<1>3. WalkInv => ArchiveTypeOK
  BY DEF WalkInv
<1> QED
  BY <1>1, <1>2, <1>3, PTL DEF ArchiveSpec

----------------------------------------------------------------------------
(* What was listed when the walk began.                                    *)

Walked == step \in {"walk", "stored"} /\ ~cut

(* The tarball and the manifest are on their way into the archive, or there*)
(* already; the walk reads them in an order of its own.                    *)
TarballComes(e) ==
  \/ e.file \in entries \cup objects
  \/ e.file \in DOMAIN zip.tarballs /\ zip.tarballs[e.file] = e.sha

ManifestComes(v, e) ==
  ManifestKey \in entries \cup objects \/ Lists(zip.manifest, v, e)

HoldInv ==
  Walked => \A v, e : Lists(before, v, e) =>
    \/ Withdrawn(v, e)
    \/ Listed(v, e) /\ TarballComes(e) /\ ManifestComes(v, e)

LEMMA ListedFiles ==
  ASSUME TypeOK, NEW v, NEW e, Listed(v, e)
  PROVE  e.file \in Files /\ e.file # ManifestKey /\ e.file \notin Temps
           /\ ManifestKey \notin Temps /\ manifest # NoManifest
<1>1. manifest \in Manifests /\ v \in DOMAIN manifest.versions /\ manifest.versions[v] = e
  BY DEF Listed, Lists, VersionsOf, TypeOK
<1>2. e \in Entries
  BY <1>1, PartialFunctionsDef DEF Manifests
<1> QED
  BY <1>1, <1>2, NoManifestAssumption, ManifestKeyAssumption, TempsAssumption
     DEF Entries, Keys

LEMMA HoldStep ==
  HandlersInv /\ WalkInv /\ HoldInv /\ [ArchiveNext]_allVars => HoldInv'
<1> SUFFICES ASSUME HandlersInv, WalkInv, HoldInv, [ArchiveNext]_allVars,
                    Walked', NEW v, NEW e, Lists(before', v, e)
             PROVE  \/ Withdrawn(v, e)'
                    \/ Listed(v, e)' /\ TarballComes(e)' /\ ManifestComes(v, e)'
  BY DEF HoldInv, Lists, VersionsOf
<1>0. HistoryInv /\ TypeOK /\ CoreInv /\ CheckInv /\ Installable /\ [Next]_vars
  BY HistoryBasics, BackupOnlyReads DEF HandlersInv
<1>1. CASE UNCHANGED job
  <2>1. Walked /\ Lists(before, v, e)
    BY <1>1 DEF job, Walked
  <2>2. Withdrawn(v, e) \/ (Listed(v, e) /\ TarballComes(e) /\ ManifestComes(v, e))
    BY <2>1 DEF HoldInv
  <2>3. Stands(v, e)'
    BY <1>0, <2>2, StandsStays DEF Stands
  <2>4. Withdrawn(v, e) => Withdrawn(v, e)'
    BY <1>0, WithdrawnStays
  <2>5. TarballComes(e) /\ ManifestComes(v, e) => (TarballComes(e) /\ ManifestComes(v, e))'
    BY <1>1 DEF job, TarballComes, ManifestComes, Lists, VersionsOf
  <2> QED
    BY <2>2, <2>3, <2>4, <2>5 DEF Stands
<1>2. CASE ReadDirectory
  <2>1. /\ Listed(v, e)
        /\ StoredKeys \subseteq entries'
        /\ UNCHANGED vars
    BY <1>2 DEF ReadDirectory, Listed
  <2>2. manifest # NoManifest /\ ManifestKey \in entries'
    BY <1>0, <2>1, ListedFiles DEF StoredKeys
  <2>3. Stored(e) \/ Withdrawn(v, e)
    BY <1>0, <2>1 DEF Installable, Listed, Lists
  <2>4. Stored(e) => e.file \in entries'
    BY <2>1 DEF Stored, StoredKeys
  <2>5. Listed(v, e)' /\ (Withdrawn(v, e) => Withdrawn(v, e)')
    BY <2>1 DEF vars, Listed, Lists, VersionsOf, Withdrawn, Unpublishes
  <2> QED
    BY <2>2, <2>3, <2>4, <2>5 DEF TarballComes, ManifestComes
<1> DEFINE Held == Listed(v, e) /\ TarballComes(e) /\ ManifestComes(v, e)
<1>3. ASSUME Walked, UNCHANGED vars, before' = before,
             Held /\ ~Withdrawn(v, e) => TarballComes(e)' /\ ManifestComes(v, e)'
      PROVE  \/ Withdrawn(v, e)'
             \/ Listed(v, e)' /\ TarballComes(e)' /\ ManifestComes(v, e)'
  <2>1. Withdrawn(v, e) \/ Held
    BY <1>3 DEF HoldInv
  <2>2. (Listed(v, e) => Listed(v, e)') /\ (Withdrawn(v, e) => Withdrawn(v, e)')
    BY <1>3 DEF vars, Listed, Lists, VersionsOf, Withdrawn, Unpublishes
  <2> QED
    BY <1>3, <2>1, <2>2
<1>4. CASE VisitEntry
  <2>1. /\ Walked /\ UNCHANGED <<vars, before, zip>>
        /\ entries' \cup objects' = entries \cup objects
    BY <1>4 DEF VisitEntry, IsNextEntry, Walked
  <2>2. TarballComes(e) /\ ManifestComes(v, e) => TarballComes(e)' /\ ManifestComes(v, e)'
    BY <2>1 DEF TarballComes, ManifestComes, Lists, VersionsOf
  <2> QED
    BY <1>3, <2>1, <2>2 DEF vars
<1>5. CASE ReadObject
  <2>1. PICK p \in objects :
          /\ Exists(p)
          /\ objects' = objects \ {p}
          /\ zip' = Added(p)
          /\ UNCHANGED <<step, entries, before, cut>>
    BY <1>5 DEF ReadObject, Walked
  <2>2. Walked /\ entries = {} /\ entries' = {} /\ UNCHANGED <<vars, before>>
    BY <1>5, <2>1 DEF ReadObject, Walked
  <2>3. p \in Keys \cup Temps
    BY DEF WalkInv, ArchiveTypeOK
  <2>4. ASSUME Held, ~Withdrawn(v, e)
        PROVE  TarballComes(e)' /\ ManifestComes(v, e)'
    <3>1. Stored(e) /\ e.file # ManifestKey
      BY <1>0, <2>4, ListedFiles DEF Installable, Listed, Lists
    <3>2. TarballComes(e)'
      <4>1. CASE p = e.file
        BY <1>0, <2>1, <2>3, <3>1, <4>1, AddedIs DEF TarballComes, Stored
      <4>2. CASE p # e.file
        BY <1>0, <2>1, <2>2, <2>3, <2>4, <4>2, AddedIs DEF TarballComes
      <4> QED
        BY <4>1, <4>2
    <3>3. ManifestComes(v, e)'
      <4>1. CASE p = ManifestKey
        <5>1. zip'.manifest = manifest
          BY <1>0, <2>1, <2>3, <4>1, AddedIs
        <5> QED
          BY <2>4, <5>1 DEF ManifestComes, Listed, Lists, VersionsOf
      <4>2. CASE p # ManifestKey
        <5>1. zip'.manifest = zip.manifest
          BY <1>0, <2>1, <2>3, <4>2, AddedIs
        <5> QED
          BY <2>1, <2>2, <2>4, <4>2, <5>1 DEF ManifestComes, Lists, VersionsOf
      <4> QED
        BY <4>1, <4>2
    <3> QED
      BY <3>2, <3>3
  <2> QED
    BY <1>3, <2>2, <2>4 DEF vars
<1>6. CASE Upload
  <2>1. Walked /\ UNCHANGED <<vars, before, zip, entries, objects>>
    BY <1>6 DEF Upload, Advance, Walked
  <2>2. TarballComes(e) /\ ManifestComes(v, e) => TarballComes(e)' /\ ManifestComes(v, e)'
    BY <2>1 DEF TarballComes, ManifestComes, Lists, VersionsOf
  <2> QED
    BY <1>3, <2>1, <2>2 DEF vars
<1> QED
  BY <1>1, <1>2, <1>4, <1>5, <1>6
     DEF ArchiveNext, HandlersStep, BackupStep, SnapshotDatabase, CopyAudit,
         BackupFails, CrashAll, Advance, Walked, allVars, job

HoldingInv == HandlersInv /\ WalkInv /\ HoldInv

LEMMA HoldingHolds ==
  ASSUME FileNamesVersion
  PROVE  /\ ArchiveInit => HoldingInv
         /\ HoldingInv /\ [ArchiveNext]_allVars => HoldingInv'
<1>1. ArchiveInit => HoldingInv
  BY HandlersHold, WalkInit DEF ArchiveInit, HoldingInv, HoldInv, Walked
<1>2. HandlersInv => TypeOK
  BY HistoryBasics DEF HandlersInv
<1>3. HoldingInv /\ [ArchiveNext]_allVars => HoldingInv'
  BY <1>2, HandlersHold, BackupOnlyReads, WalkStep, HoldStep DEF HoldingInv
<1> QED
  BY <1>1, <1>3

(* The archive at its end: everything that was to come has come.           *)
LEMMA StoredArchiveHolds ==
  ASSUME HoldingInv, Archived, ~cut, NEW v, NEW e, Lists(before, v, e)
  PROVE  Holds(v, e) \/ Withdrawn(v, e)
<1>1. entries = {} /\ objects = {}
  BY DEF HoldingInv, WalkInv, Archived
<1>2. Withdrawn(v, e) \/ (TarballComes(e) /\ ManifestComes(v, e))
  BY DEF HoldingInv, HoldInv, Walked, Archived
<1> QED
  BY <1>1, <1>2 DEF TarballComes, ManifestComes, Holds

(* A publish beside the walk, however it is interleaved with it, takes     *)
(* nothing out of the archive; only an unpublish does.                     *)
THEOREM UncutArchivesHold ==
  FileNamesVersion => (ArchiveSpec => []UncutArchiveHoldsReleases)
<1> SUFFICES ASSUME FileNamesVersion PROVE ArchiveSpec => []UncutArchiveHoldsReleases
  OBVIOUS
<1>1. HoldingInv => UncutArchiveHoldsReleases
  BY StoredArchiveHolds DEF UncutArchiveHoldsReleases, Lists
<1> QED
  BY <1>1, HoldingHolds, PTL DEF ArchiveSpec

----------------------------------------------------------------------------
(* What the archive records was announced before the walk began.           *)
RecordedIn(c) == Publishes(c) /\ RecordOf(c) \in zip.feed \cup zip.audit

RecordsInv ==
  /\ step = "idle" => zip.feed = {} /\ zip.audit = {}
  /\ \A c \in Clients : RecordedIn(c) =>
       /\ step \in {"audit", "list"} => Stands(cmd[c].body.version, Release(c))
       /\ step \in {"walk", "stored"} =>
            \/ Lists(before, cmd[c].body.version, Release(c))
            \/ Withdrawn(cmd[c].body.version, Release(c))

LEMMA RecordsStep ==
  HoldingInv /\ RecordsInv /\ [ArchiveNext]_allVars => RecordsInv'
<1> SUFFICES ASSUME HoldingInv, RecordsInv, [ArchiveNext]_allVars PROVE RecordsInv'
  OBVIOUS
<1>0. /\ HistoryInv /\ TypeOK /\ CoreInv /\ CheckInv /\ AnnouncedInv /\ WalkInv
      /\ [Next]_vars /\ cmd' = cmd
  BY HistoryBasics, BackupOnlyReads, CommandsFixed DEF HandlersInv, HoldingInv
<1>1. step' = "idle" => zip'.feed = {} /\ zip'.audit = {}
  BY DEF ArchiveNext, HandlersStep, BackupStep, SnapshotDatabase, CopyAudit,
         ReadDirectory, VisitEntry, ReadObject, Upload, BackupFails, CrashAll,
         Advance, RecordsInv, allVars, job
<1>2. ASSUME NEW c \in Clients, RecordedIn(c)',
             NEW v, v = cmd[c].body.version, NEW e, e = Release(c)
      PROVE  /\ step' \in {"audit", "list"} => Stands(v, e)'
             /\ step' \in {"walk", "stored"} => Lists(before', v, e) \/ Withdrawn(v, e)'
  <2>0. Publishes(c)
    BY <1>0, <1>2 DEF RecordedIn, Publishes
  <2>1. /\ Stands(v, e) => Stands(v, e)'
        /\ Withdrawn(v, e) => Withdrawn(v, e)'
    BY <1>0, StandsStays, WithdrawnStays
  <2>2. RecordOf(c) \in feed \cup audit => Stands(v, e)
    BY <1>0, <1>2, <2>0 DEF AnnouncedInv, Announced
  <2>3. RecordedIn(c) =>
          /\ step \in {"audit", "list"} => Stands(v, e)
          /\ step \in {"walk", "stored"} => Lists(before, v, e) \/ Withdrawn(v, e)
    BY <1>2 DEF RecordsInv
  <2>4. RecordOf(c)' = RecordOf(c)
    BY <1>0 DEF RecordOf
  <2>5. zip \in [feed : SUBSET Records, audit : SUBSET Records,
                manifest : Manifests \cup {NoManifest},
                tarballs : PartialFunctions(Files, Contents)]
    BY <1>0 DEF WalkInv, ArchiveTypeOK
  <2>6. CASE UNCHANGED job
    BY <1>2, <2>0, <2>1, <2>3, <2>4, <2>6 DEF job, RecordedIn
  <2>7. CASE SnapshotDatabase \/ CopyAudit
    <3>1. step' \in {"audit", "list"} /\ step \in {"idle", "audit"}
      BY <2>7 DEF SnapshotDatabase, CopyAudit, Advance
    <3>2. RecordOf(c) \in feed \cup audit \/ RecordedIn(c)
      BY <1>2, <2>0, <2>4, <2>5, <2>7 DEF SnapshotDatabase, CopyAudit, RecordedIn
    <3>3. RecordedIn(c) => step = "audit"
      BY <3>1 DEF RecordsInv, RecordedIn
    <3> QED
      BY <2>1, <2>2, <2>3, <3>1, <3>2, <3>3
  <2>8. CASE ReadDirectory
    <3>1. step = "list" /\ step' = "walk" /\ zip' = zip /\ before' = manifest
      BY <2>8 DEF ReadDirectory, Advance
    <3>2. Stands(v, e)
      BY <1>2, <2>0, <2>3, <2>4, <3>1 DEF RecordedIn
    <3> QED
      BY <2>1, <3>1, <3>2 DEF Stands, Listed
  <2>9. CASE VisitEntry \/ Upload
    BY <1>2, <2>0, <2>1, <2>3, <2>4, <2>9 DEF VisitEntry, Upload, Advance, RecordedIn
  <2>10. CASE ReadObject /\ step' = "walk"
    <3>1. PICK p \in objects : Exists(p) /\ zip' = Added(p) /\ before' = before
      BY <2>10 DEF ReadObject
    <3>2. zip'.feed = zip.feed /\ zip'.audit = zip.audit
      BY <1>0, <3>1, AddedIs DEF WalkInv, ArchiveTypeOK
    <3>3. step = "walk"
      BY <2>10 DEF ReadObject
    <3> QED
      BY <1>2, <2>0, <2>1, <2>3, <2>4, <2>10, <3>1, <3>2, <3>3 DEF RecordedIn
  <2>11. CASE step' \in {"failed", "dropped"}
    BY <2>11
  <2> QED
    BY <2>6, <2>7, <2>8, <2>9, <2>10, <2>11
       DEF ArchiveNext, HandlersStep, BackupStep, BackupFails, ReadObject, CrashAll,
           allVars, job
<1> QED
  BY <1>0, <1>1, <1>2
     DEF RecordsInv, RecordedIn, Publishes, Release, Entry, Stands, Listed, Lists,
         VersionsOf, Withdrawn, Unpublishes

(* Database and audit log are copied before the walk: a restored registry  *)
(* has the releases its records speak of.                                  *)
THEOREM RecordsHaveReleases ==
  FileNamesVersion => (ArchiveSpec => []ArchivedRecordsHaveReleases)
<1> SUFFICES ASSUME FileNamesVersion PROVE ArchiveSpec => []ArchivedRecordsHaveReleases
  OBVIOUS
<1>1. ArchiveInit => RecordsInv
  BY DEF ArchiveInit, EmptyZip, RecordsInv, RecordedIn
<1>2. HoldingInv /\ RecordsInv => ArchivedRecordsHaveReleases
  <2> SUFFICES ASSUME HoldingInv, RecordsInv, Archived, ~cut,
                      NEW c \in Clients, RecordedIn(c)
               PROVE  \/ Lists(zip.manifest, cmd[c].body.version, Release(c))
                      \/ Withdrawn(cmd[c].body.version, Release(c))
    BY DEF ArchivedRecordsHaveReleases, RecordedIn
  <2>1. \/ Lists(before, cmd[c].body.version, Release(c))
        \/ Withdrawn(cmd[c].body.version, Release(c))
    BY DEF RecordsInv, Archived
  <2> QED
    BY <2>1, StoredArchiveHolds DEF Holds
<1> QED
  BY <1>1, <1>2, HoldingHolds, RecordsStep, PTL DEF ArchiveSpec

(* An archive lists a version it cannot serve (ArchiveIsInstallable fails) *)
(* only when the package was written between the walk and the read of its  *)
(* manifest, or the walk was cut (buildZip, backup.go:251).                *)
THEOREM QuietArchivesInstall ==
  FileNamesVersion =>
    (ArchiveSpec => [](~cut /\ zip.manifest = before => ArchiveIsInstallable))
<1> SUFFICES ASSUME FileNamesVersion
             PROVE  ArchiveSpec => [](~cut /\ zip.manifest = before => ArchiveIsInstallable)
  OBVIOUS
<1>1. HoldingInv => (~cut /\ zip.manifest = before => ArchiveIsInstallable)
  BY StoredArchiveHolds DEF ArchiveIsInstallable, Lists
<1> QED
  BY <1>1, HoldingHolds, PTL DEF ArchiveSpec

(* A running backup takes nothing from the handlers: publish and unpublish *)
(* stay atomic, releases immutable, and announcements true.                *)
THEOREM BackupsOnlyRead ==
  ArchiveSpec => /\ Spec
                 /\ ImplementsAtomicRegistry
                 /\ ReleasesAreImmutable
                 /\ []AnnouncedReleaseStays
                 /\ []AnnouncedRemovalIsFinal
<1>1. ArchiveInit => Init
  BY DEF ArchiveInit
<1>2. ArchiveSpec => Spec
  BY <1>1, BackupOnlyReads, PTL DEF ArchiveSpec, Spec
<1> QED
  BY <1>2, RegistryIsAtomic, ReleasesStay, AnnouncementsHold, RemovalsAreFinal, PTL
=============================================================================
