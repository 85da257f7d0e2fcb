SPECIFICATION Spec
CONSTANTS
  m1 = m1
  m2 = m2
  m3 = m3
  None = None
  Requests = {r1, r2, r3}
  Models = {m1, m2, m3}
  Keep = {m3}
  Mem <- MCMem
  Budget = 2
SYMMETRY MCSymmetry
INVARIANTS
  TypeOK
  OneInstancePerModel
  EveryChildAccountedFor
  AnsweredByOwnModel
  BudgetKeptWithoutOverlap
PROPERTY
  PinnedOrBusyStays
