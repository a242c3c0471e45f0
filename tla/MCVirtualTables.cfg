SPECIFICATION Spec
CONSTANTS
  m1 = m1
  m2 = m2
  v1 = v1
  v2 = v2
  v3 = v3
  t1 = t1
  t2 = t2
  s1 = s1
  s2 = s2
  Eponymous = Eponymous
  None = None
  Mods <- MCMods
  VTables <- MCVTables
  Tables <- MCTables
  Stmts <- MCStmts
SYMMETRY Symmetry
INVARIANTS
  RefsExact
  CursorsHaveInstance
  ModuleOutlivesInstances
PROPERTIES
  TransactionEndsFirst
