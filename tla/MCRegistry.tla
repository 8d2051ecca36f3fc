----------------------------- MODULE MCRegistry -----------------------------
(***************************************************************************)
(* Small instances of the registry for TLC.  The keys of the package sort  *)
(* the way blob.FS.List sorts them: one tarball before package.json and one*)
(* after it, so that an unpublish that stops half-way leaves either a      *)
(* manifest without a tarball or a tarball without a manifest.             *)
(***************************************************************************)
EXTENDS RegistryRefinement, TLC

CONSTANTS v1, v2, f1, f2, shaA, shaB, next

MCVersions == {v1, v2}
MCFiles == {f1, f2}
MCContents == {shaA, shaB}
MCTags == {Latest, next}
MCRank == (f1 :> 1) @@ (ManifestKey :> 2) @@ (f2 :> 3)

Body(v, f, s, tags) == [version |-> v, file |-> f, sha |-> s, tags |-> tags]

(* What npm sends: <name>-<version>.tgz, tagged "latest" or another tag.   *)
NpmBodies == {Body(v1, f1, shaA, Latest :> v1),
              Body(v1, f1, shaB, Latest :> v1),
              Body(v2, f2, shaA, next :> v2)}

OneShaBodies == { x \in NpmBodies : x.sha = shaA }

AllSymmetry == Permutations(Clients)

ASSUME Bodies = NpmBodies => FileNamesVersion /\ TagsOwnVersion
=============================================================================
