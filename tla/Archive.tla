------------------------------ MODULE Archive ------------------------------
(***************************************************************************)
(* backup.Service.Create on the local backend, beside the package handlers:*)
(* database snapshot, audit log, a walk over the package's directory, one  *)
(* read per listed object, and the upload of the zip.  Nothing excludes    *)
(* publishes and unpublishes while it runs.                                *)
(*                                                                         *)
(* While a handler stores a file the directory also holds its temporary    *)
(* file (see LocalDriver), which the walk may list and look up.            *)
(***************************************************************************)
EXTENDS RegistryProperties

VARIABLES
  step,      \* where the backup is
  entries,   \* what the walk found in the directory and has still to visit
  objects,   \* the listed objects that have still to be read
  zip,       \* the archive being built
  before,    \* history: the manifest when the walk began
  cut        \* history: the walk met an entry that was gone

job == <<step, entries, objects, zip, before, cut>>
allVars == <<vars, job>>

(* The temporary file of a handler that is storing a tarball or a manifest.*)
Temps == Clients \X {"putTarball", "putManifest"}

(* os.CreateTemp picks a name that no file of the package has.             *)
ASSUME TempsAssumption == Temps \cap Keys = {}

TempExists(t) == pc[t[1]] = t[2]

Exists(p) == IF p \in Temps THEN TempExists(p) ELSE p \in StoredKeys

EmptyZip == [feed |-> {}, audit |-> {}, manifest |-> NoManifest,
             tarballs |-> [f \in {} |-> f]]

Steps == {"idle", "audit", "list", "walk", "stored", "failed", "dropped"}
Running == {"audit", "list", "walk"}

ArchiveInit ==
  /\ Init
  /\ step = "idle"
  /\ entries = {}
  /\ objects = {}
  /\ zip = EmptyZip
  /\ before = NoManifest
  /\ cut = FALSE

----------------------------------------------------------------------------
(* What a backup had built goes with its temporary directory.              *)
Discard ==
  /\ entries' = {}
  /\ objects' = {}
  /\ zip' = EmptyZip
  /\ before' = NoManifest
  /\ cut' = FALSE

Advance(from, to) == step = from /\ step' = to

(* VACUUM INTO: the events of one moment.                                  *)
SnapshotDatabase ==
  /\ Advance("idle", "audit")
  /\ zip' = [zip EXCEPT !.feed = feed]
  /\ UNCHANGED <<vars, entries, objects, before, cut>>

CopyAudit ==
  /\ Advance("audit", "list")
  /\ zip' = [zip EXCEPT !.audit = audit]
  /\ UNCHANGED <<vars, entries, objects, before, cut>>

(* The walk reads the directory: the stored keys, and the temporary files  *)
(* of the handlers that happen to be writing.                              *)
ReadDirectory ==
  /\ Advance("list", "walk")
  /\ \E T \in SUBSET { t \in Temps : TempExists(t) } :
       entries' = StoredKeys \cup T
  /\ before' = manifest
  /\ UNCHANGED <<vars, objects, zip, cut>>

(* Names of temporary files start with a dot and come first.               *)
IsNextEntry(p, S) ==
  p \in S /\ (p \in Temps \/ (S \cap Temps = {}
                                /\ \A k \in S : Rank[p] <= Rank[k]))

(* Each entry is looked up again.  One that is gone ends the listing, which*)
(* is returned without an error.                                           *)
VisitEntry ==
  /\ step = "walk"
  /\ \E p \in entries :
       /\ IsNextEntry(p, entries)
       /\ IF Exists(p)
          THEN /\ entries' = entries \ {p}
               /\ objects' = objects \cup {p}
               /\ UNCHANGED cut
          ELSE /\ entries' = {}
               /\ cut' = TRUE
               /\ UNCHANGED objects
  /\ UNCHANGED <<vars, step, zip, before>>

Added(p) ==
  IF p \in Temps THEN zip
  ELSE IF p = ManifestKey THEN [zip EXCEPT !.manifest = manifest]
  ELSE [zip EXCEPT !.tarballs = Bind(@, p, tarballs[p])]

(* Mutants: a missing object ends the archive; an object is read twice.    *)
ReadObject_StopsAtGone ==
  /\ step = "walk"
  /\ entries = {}
  /\ \E p \in objects :
       /\ IsNextEntry(p, objects)
       /\ objects' = IF Exists(p) THEN objects \ {p} ELSE {}
       /\ zip' = IF Exists(p) THEN Added(p) ELSE zip
  /\ UNCHANGED <<vars, step, entries, before, cut>>

ReadObject_Twice ==
  /\ step = "walk"
  /\ entries = {}
  /\ \E p \in objects :
       /\ IsNextEntry(p, objects)
       /\ Exists(p)
       /\ zip' = Added(p)
  /\ UNCHANGED <<vars, step, entries, objects, before, cut>>

(* The listed objects are read in key order, whatever they hold by now.  An*)
(* object that is gone fails the backup.                                   *)
ReadObject ==
  /\ step = "walk"
  /\ entries = {}
  /\ \E p \in objects :
       /\ IsNextEntry(p, objects)
       /\ IF Exists(p)
          THEN /\ objects' = objects \ {p}
               /\ zip' = Added(p)
               /\ UNCHANGED <<step, entries, before, cut>>
          ELSE step' = "failed" /\ Discard
  /\ UNCHANGED vars

(* Mutant: the database is copied last.                                    *)
Upload_LateSnapshot ==
  /\ entries = {}
  /\ objects = {}
  /\ Advance("walk", "stored")
  /\ zip' = [zip EXCEPT !.feed = feed]
  /\ UNCHANGED <<vars, entries, objects, before, cut>>

(* The zip is complete and is put under backups/.                          *)
Upload ==
  /\ entries = {}
  /\ objects = {}
  /\ Advance("walk", "stored")
  /\ UNCHANGED <<vars, entries, objects, zip, before, cut>>

(* Any of its calls may fail (a full disk, a locked database): nothing is  *)
(* uploaded.                                                               *)
BackupFails ==
  /\ step \in Running \cup {"idle"}
  /\ step' = "failed"
  /\ Discard
  /\ UNCHANGED vars

BackupStep ==
  SnapshotDatabase \/ CopyAudit \/ ReadDirectory \/ VisitEntry
    \/ ReadObject \/ Upload \/ BackupFails

(* The process takes a running backup with it, and what it had built.      *)
CrashAll ==
  /\ Crash
  /\ \/ step \in Running /\ step' = "dropped" /\ Discard
     \/ step \notin Running /\ UNCHANGED job

HandlersStep ==
  /\ \E c \in Clients : ClientStep(c) \/ LockPackage(c) \/ HandlerStep(c)
  /\ UNCHANGED job

ArchiveNext == HandlersStep \/ BackupStep \/ CrashAll

ArchiveSpec == ArchiveInit /\ [][ArchiveNext]_allVars

----------------------------------------------------------------------------
(* An object is still to be read or in the archive, never both: the zip has*)
(* no two entries of one name.                                             *)
ArchiveTypeOK ==
  /\ step \in Steps
  /\ entries \subseteq Keys \cup Temps
  /\ objects \subseteq Keys \cup Temps
  /\ zip \in [feed : SUBSET Records, audit : SUBSET Records,
              manifest : Manifests \cup {NoManifest},
              tarballs : PartialFunctions(Files, Contents)]
  /\ objects \cap DOMAIN zip.tarballs = {}
  /\ before \in Manifests \cup {NoManifest}
  /\ cut \in BOOLEAN

Archived == step = "stored"

Holds(v, e) == /\ Lists(zip.manifest, v, e)
               /\ e.file \in DOMAIN zip.tarballs
               /\ zip.tarballs[e.file] = e.sha

(* A release that was listed when the walk began, and that no unpublish    *)
(* touches, is in the archive with its bytes, although publishes go on: if *)
(* no entry of the directory vanished under the walk.                      *)
UncutArchiveHoldsReleases ==
  Archived /\ ~cut =>
    \A v \in DOMAIN VersionsOf(before) :
      LET e == VersionsOf(before)[v] IN Holds(v, e) \/ Withdrawn(v, e)

(* A publish that is in the archive's event feed or audit log is in its    *)
(* manifest, or was unpublished: the logs are copied before the objects, so*)
(* a restored registry does not know of releases it does not have.         *)
ArchivedRecordsHaveReleases ==
  Archived /\ ~cut =>
    \A c \in Clients :
      Publishes(c) /\ RecordOf(c) \in zip.feed \cup zip.audit =>
        \/ Lists(zip.manifest, cmd[c].body.version, Release(c))
        \/ Withdrawn(cmd[c].body.version, Release(c))

(* README.md: a backup holds "the whole package storage".  A release that  *)
(* was there when the walk began, and that nobody unpublishes, is in it.   *)
ArchiveIsWhole ==
  Archived => \A v \in DOMAIN VersionsOf(before) :
                LET e == VersionsOf(before)[v] IN Holds(v, e) \/ Withdrawn(v, e)

(* README.md: "zip archives of the database and packages".  A version that *)
(* the archived manifest lists has its tarball in the archive, unless an   *)
(* unpublish deleted it.                                                   *)
ArchiveIsInstallable ==
  Archived => \A v \in DOMAIN VersionsOf(zip.manifest) :
                LET e == VersionsOf(zip.manifest)[v]
                IN  Holds(v, e) \/ Withdrawn(v, e)
=============================================================================
