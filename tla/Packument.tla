----------------------------- MODULE Packument -----------------------------
(***************************************************************************)
(* The package manifest ("packument") that the registry keeps as           *)
(* <package>/package.json, and the pure functions handlePublish applies to *)
(* it.  The JSON document is abstracted to the parts the handlers decide   *)
(* on: its revision, the version objects and the dist-tags.  "maintainers",*)
(* "time" and "_attachments" are written next to them in the same document *)
(* and never read back; they carry nothing a decision depends on.          *)
(***************************************************************************)
EXTENDS Integers

CONSTANTS
  Clients,      \* npm commands; each one runs a single command
  Versions,     \* version strings of the package
  Files,        \* attachment base names (path.Base of the attachment key)
  Contents,     \* tarball bytes, identified with their sha1
  Tags,         \* dist-tag names
  Latest,       \* the tag "latest"
  Bodies,       \* the publish bodies that pass validation
  NoManifest    \* storage.ErrNotExist: the package has no package.json

PartialFunctions(S, T) == UNION { [D -> T] : D \in SUBSET S }

(* "_rev" is "N-<suffix>".  The suffix is four random bytes: no two        *)
(* publishes of a run draw the same one, so the publishing client names it.*)
Revisions == [n : Nat \ {0}, suffix : Clients]

(* A version object: the tarball it points to, the sha1 in its dist, and   *)
(* the publish that wrote it (its stamped author and its time entry).      *)
Entries == [file : Files, sha : Contents, by : Clients]

Manifests == [rev : Revisions,
              versions : PartialFunctions(Versions, Entries),
              tags : PartialFunctions(Tags, Versions)]

ASSUME LatestAssumption == Latest \in Tags
ASSUME NoManifestAssumption == NoManifest \notin Manifests
ASSUME BodiesAssumption ==
  Bodies \subseteq [version : Versions, file : Files, sha : Contents,
                    tags : PartialFunctions(Tags, Versions)]

(* asMap: an absent document reads as empty maps and revision number 0.    *)
VersionsOf(m) == IF m = NoManifest THEN [v \in {} |-> v] ELSE m.versions
TagsOf(m)     == IF m = NoManifest THEN [t \in {} |-> t] ELSE m.tags
RevNumber(m)  == IF m = NoManifest THEN 0 ELSE m.rev.n

(* blob.FS.Put, and Go's m[k] = x: bind one key, keep the others.          *)
Bind(f, k, x) == [j \in DOMAIN f \cup {k} |-> IF j = k THEN x ELSE f[j]]

(* What the loop over body.DistTags does: the body's tags win.             *)
Overlay(f, g) ==
  [t \in DOMAIN f \cup DOMAIN g |-> IF t \in DOMAIN g THEN g[t] ELSE f[t]]

(* Mutants: the revision is a bare number; the number counts down.         *)
NextRev_NoSuffix(m, c) == [n |-> RevNumber(m) + 1,
                           suffix |-> CHOOSE x \in Clients : TRUE]
NextRev_CountsDown(m, c) == [n |-> RevNumber(m) - 1, suffix |-> c]

NextRev(m, c) == [n |-> RevNumber(m) + 1, suffix |-> c]

Entry(b, c) == [file |-> b.file, sha |-> b.sha, by |-> c]

(* Mutant: "latest" is left to the client.                                 *)
TagsAfter_NoDefault(m, b) == Overlay(TagsOf(m), b.tags)

(* The first publish gets "latest" when the body names no such tag.        *)
TagsAfter(m, b) ==
  LET tags == Overlay(TagsOf(m), b.tags)
  IN  IF m = NoManifest /\ Latest \notin DOMAIN tags
      THEN Bind(tags, Latest, b.version)
      ELSE tags

(* Mutant: the document is built from the body alone.                      *)
Merge_ForgetsVersions(m, b, c) ==
  [rev |-> NextRev(m, c),
   versions |-> [v \in {b.version} |-> Entry(b, c)],
   tags |-> TagsAfter(m, b)]

Merge(m, b, c) == [rev |-> NextRev(m, c),
                   versions |-> Bind(VersionsOf(m), b.version, Entry(b, c)),
                   tags |-> TagsAfter(m, b)]

(* The discipline of npm clients, which no handler enforces: a tarball name*)
(* belongs to one version, and a body tags only the version it carries.    *)
FileNamesVersion ==
  \A b1, b2 \in Bodies : b1.file = b2.file => b1.version = b2.version
TagsOwnVersion ==
  \A b \in Bodies : \A t \in DOMAIN b.tags : b.tags[t] = b.version
=============================================================================
