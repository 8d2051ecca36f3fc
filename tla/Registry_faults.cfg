SPECIFICATION Spec
CONSTANTS
  Clients = {a, b, c}
  Versions <- MCVersions
  Files <- MCFiles
  Contents <- MCContents
  Tags <- MCTags
  Bodies <- NpmBodies
  Rank <- MCRank
  Faults = {"error", "ambiguous", "crash"}
  Latest = latest
  NoManifest = NoManifest
  ManifestKey = package_json
  NoClient = NoClient
  v1 = v1
  v2 = v2
  f1 = f1
  f2 = f2
  shaA = shaA
  shaB = shaB
  next = next
SYMMETRY AllSymmetry
INVARIANTS
  TypeOK
  Installable
  AnnouncedReleaseStays
  NoOrphanTarballs
  TagsResolve
  AuditGapIsAFailure
PROPERTIES
  ImplementsAtomicRegistry
CHECK_DEADLOCK FALSE
