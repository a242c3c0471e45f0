CONSTANTS
  None = None
  a = a
  b = b
  Conns = {a, b}
  NPages = 2
  Settings <- MCSettings
SPECIFICATION Spec
INVARIANTS
  SnapshotKept
  CacheCurrent
  SpilledReadBack
  NothingLost
PROPERTIES
  Isolated
