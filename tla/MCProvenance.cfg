SPECIFICATION MCSpec
CONSTANTS
  m1 = m1
  m2 = m2
  t1 = t1
  k1 = k1
  k2 = k2
  b1 = b1
  b2 = b2
  s1 = s1
  s2 = s2
  s3 = s3
  d1 = d1
  d2 = d2
  d3 = d3
  LogKey = LogKey
  Authority = Authority
  None = None
  Tags <- MCTags
  Keys <- MCKeys
  Models <- MCModels
  LayersOf <- MCLayersOf
  Bundles <- MCBundles
  Repository <- Registry
  Config <- MCConfig
  Attachments <- MCAttachments
  Routes <- MCRoutes
  Pushed = m1
  MaxEvents = 3
  MaxFaults = 1
INVARIANTS
  VerifiableTravels
  GatedImportVerifies
  AttestationCoversExactly
  InclusionProofSound
  AcceptedSignatureIsLogged
  GenuineSignatureAccepted
  WildcardsReachNoFurther
CHECK_DEADLOCK FALSE
