CONSTANTS
  None = None
  c1 = c1
  c2 = c2
  Conns = {c1, c2}
  Files = {1, 2}
  NPages = 2
  Settings <- MCSettings
SPECIFICATION Spec
INVARIANTS
  CacheCurrent
  NothingLost
PROPERTY Atomic
