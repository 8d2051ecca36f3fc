SPECIFICATION Spec
CONSTANTS
  Clients = {a, b, c, d}
  Versions <- MCVersions
  Files <- MCFiles
  Contents <- MCContents
  Tags <- MCTags
  Bodies <- NpmBodies
  Rank <- MCRank
  Faults = {"crash"}
  Latest = latest
  NoManifest = NoManifest
  ManifestKey = package_json
  NoClient = NoClient
  v1 = v1
  v2 = v2
  f1 = f1
  f2 = f2
  shaA = shaA
  shaB = shaB
  next = next
SYMMETRY AllSymmetry
INVARIANTS
  DecisionIsCurrent
  RevisionNamesManifest
  InstallIsHonest
  AnnouncedRemovalIsFinal
PROPERTIES
  ReleasesAreImmutable
  OnlyTheSeenIsRemoved
CHECK_DEADLOCK FALSE
