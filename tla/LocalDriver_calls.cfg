SPECIFICATION OneReaderSpec
CONSTANTS
  x = x
  x1 = x1
  x2 = x2
  y = y
  y1 = y1
  both = both
  single = single
  Calls = {a, b, c}
  Keys <- MCKeys
  Dirs <- MCDirs
  DirOf <- MCDirOf
  Contents = {data}
  Partial = Partial
  Rank <- MCRank
  AllKeys = AllKeys
  Manifests <- MCManifests
  Queries <- MCQueries
  Every = Every
  Score <- MCScore
  Limit = 1
SYMMETRY CallSymmetry
INVARIANTS
  TypeOK
  LeftoversAreFromCrashes
  UncutListingIsComplete
  QuietListingIsExact
  PageIsTrue
PROPERTY
  ImplementsAtomicStore
CHECK_DEADLOCK FALSE
