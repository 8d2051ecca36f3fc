SPECIFICATION Spec
CONSTANTS
  NJobs = 4
  Keep = 2
  MaxTime = 2
  StableUpTo = 3
  Faults = {"error", "ambiguous", "cut", "crash"}
  copy = copy
  Copies <- MCCopies
INVARIANTS
  TypeOK
  NewestAreKept
  CopiesStay
  PrunedDown
PROPERTIES
  PruningFollowsSuccess
CHECK_DEADLOCK FALSE
