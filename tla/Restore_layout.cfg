SPECIFICATION Spec
CONSTANTS
  first = first
  second = second
  empty = empty
  x = x
  y = y
  Restores = {first, second, empty}
  Packages = {x, y}
  Archived <- MCArchived
  HasAudit = {first, empty}
  InRoot = {"db", "audit"}
  Spelled = {"audit"}
  Faults = {}
  Live = Live
  Partial = Partial
  NoFile = NoFile
  NoRestore = NoRestore
INVARIANTS
  KeptFilesSurvive
CHECK_DEADLOCK FALSE
