CONSTANTS
  Params = {1, 2, 3}
  LastBit = 2
  Values <- MCValues
  Schemas <- MCSchemas
  Connections = {c1, c2, c3}
  Files = {f1, f2}
  Settings <- BusySettings
  c1 = c1
  c2 = c2
  c3 = c3
  f1 = f1
  f2 = f2
SPECIFICATION MCSpec
INVARIANT NoWaitCycle
PROPERTIES
  PlanFits
  StepsEnd
