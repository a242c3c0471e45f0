SPECIFICATION Spec
CONSTANTS
  h1 = h1
  h2 = h2
  h3 = h3
  s1 = s1
  s2 = s2
  f1 = f1
  c1 = c1
  None = None
  Handles <- MCHandles
  Names <- MCNames
  Arities <- MCArities
  Colls <- MCColls
  Stmts <- MCStmts
  Vars <- MCVars
  AuxArgs <- MCAuxArgs
  ConstArgs <- MCConstArgs
  Sql <- MCSql
SYMMETRY Symmetry
INVARIANTS
  TypeOK
  OneOwner
  LinkedCallbacksLive
  CopyFollowsOriginal
  ScratchEndsWithRun
  ZombieInUse
  ClosedHoldsNothing
PROPERTIES
  RunningKeepsCallbacks
  ImplementsOwnership
