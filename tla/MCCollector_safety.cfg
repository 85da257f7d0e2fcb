SPECIFICATION Spec
CONSTANTS
  None = None
  Nodes = {n1, n2, n3}
  Refs = {r1, r2}
  Shapes <- MCEveryManifest
SYMMETRY MCSymmetry
INVARIANTS TypeOK HeldIsKept UnheldIsReclaimed CollectorReturns RemovedModelFreesDescriptions
PROPERTIES ContentStays DeepestFirst
