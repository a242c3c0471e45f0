SPECIFICATION BisectSpec
CONSTANTS
  LastCommit = 3
  MaxKills = 1
INVARIANTS
  TestsJudgeThisCommit
  CulpritBracketed
PROPERTIES
  SessionEnds
CHECK_DEADLOCK FALSE
