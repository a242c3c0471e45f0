SPECIFICATION RegistrySpec
CONSTANTS
  n1 = n1
  n2 = n2
  n3 = n3
  a1 = a1
  a2 = a2
  a3 = a3
  db1 = db1
  db2 = db2
  Os = Os
  None = None
  Names <- MCNames
  Addrs <- MCAddrs
  Files <- MCFiles
INVARIANTS
  ListMatchesMemory
  UsersKeepWrapper
PROPERTIES
  FindReturns
