SPECIFICATION Spec
CONSTANTS
  m1 = m1
  m2 = m2
  m3 = m3
  None = None
  Requests = {r1, r2}
  Models = {m1, m2, m3}
  Keep = {}
  Mem <- MCMem
  Budget = 2
INVARIANT
  ShutdownStopsAllChildren
