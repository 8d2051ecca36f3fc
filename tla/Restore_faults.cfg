SPECIFICATION Spec
CONSTANTS
  first = first
  second = second
  empty = empty
  x = x
  y = y
  Restores = {first, second, empty}
  Packages = {x, y}
  Archived <- MCArchived
  HasAudit = {first, empty}
  InRoot = {"db", "audit"}
  Spelled = {"db", "audit"}
  Faults = {"error", "crash"}
  Live = Live
  Partial = Partial
  NoFile = NoFile
  NoRestore = NoRestore
INVARIANTS
  TypeOK
  LogBelongsToDatabase
  KeptFilesSurvive
  TreeIsRecoverable
  SuccessMeansRestored
CHECK_DEADLOCK FALSE
