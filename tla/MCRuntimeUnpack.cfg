SPECIFICATION Spec
CONSTANTS
  b1 = b1
  b2 = b2
  b3 = b3
  bin = bin
  lib = lib
  p1 = p1
  p2 = p2
  Link = Link
  None = None
  MaxFaults = 2
  Builds <- MCBuilds
  Layers <- MCLayers
  Config <- MCConfig
  Blobs <- MCBlobs
  Signed <- MCSigned
  Procs <- MCProcs
INVARIANTS
  EngineIsAdmitted
  EngineHasItsTree
PROPERTY
  UnpackIsRepaired
CHECK_DEADLOCK FALSE
