SPECIFICATION Spec
CONSTANTS
  None = None
  Nodes = {n1, n2, n3, n4}
  Refs = {r1, r2}
  Shapes <- MCAttached
SYMMETRY MCSymmetry
INVARIANT SomethingRemovable
