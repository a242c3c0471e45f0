SPECIFICATION BisectSpec
CONSTANTS
  LastCommit = 3
  MaxKills = 0
INVARIANTS
  CompileFailureSkips
CHECK_DEADLOCK FALSE
