SPECIFICATION Spec
CONSTANTS
  m1 = m1
  m2 = m2
  m3 = m3
  w = w
  v = v
  p1 = p1
  p2 = p2
  None = None
  Blobs <- MCBlobs
  Size <- MCSize
  Attempts = 2
  MaxFaults = 2
  Images <- MCImages
  Layers <- MCLayers
  FileOf <- MCFileOf
  DirsOf <- MCDirsOf
  Outputs <- MCOutputs
  Procs <- MCProcs
  Signed <- MCSigned
  Commands <- MCCommands
INVARIANTS
  TypeOK
  AdmittedOnly
  TaggedIsPresent
  OutputIsTheModel
  RefusalTakesBack
CHECK_DEADLOCK FALSE
PROPERTY
  UndisturbedPullCompletes
