CONSTANTS
  x = x
  y = y
  Backups = {x, y}
  NPages = 3
  Settings <- MCSettings
  MaxWrites = 3
  MaxErrors = 1
SPECIFICATION FairSpec
INVARIANT CopiedIsCurrent
PROPERTIES
  DestIsSnapshot
  Completes
CHECK_DEADLOCK FALSE
