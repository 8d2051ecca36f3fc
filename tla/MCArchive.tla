----------------------------- MODULE MCArchive -----------------------------
(***************************************************************************)
(* One backup beside the registry's small instance (see MCRegistry).  The  *)
(* clients publish and unpublish; an install changes nothing a backup sees.*)
(***************************************************************************)
EXTENDS Archive, TLC

CONSTANTS v1, v2, f1, f2, shaA, shaB, next

MCVersions == {v1, v2}
MCFiles == {f1, f2}
MCContents == {shaA, shaB}
MCTags == {Latest, next}
MCRank == (f1 :> 1) @@ (ManifestKey :> 2) @@ (f2 :> 3)

Body(v, f, s, tags) == [version |-> v, file |-> f, sha |-> s, tags |-> tags]

NpmBodies == {Body(v1, f1, shaA, Latest :> v1),
              Body(v1, f1, shaB, Latest :> v1),
              Body(v2, f2, shaA, next :> v2)}

WritersInit == ArchiveInit /\ \A c \in Clients : ~Installs(c)
WritersSpec == WritersInit /\ [][ArchiveNext]_allVars

AllSymmetry == Permutations(Clients)
=============================================================================
