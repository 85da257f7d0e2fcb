SPECIFICATION FairSpec
CONSTANTS
  r1 = r1
  r2 = r2
  i1 = i1
  i2 = i2
  s1 = s1
  s2 = s2
  shared = shared
  own = own
  None = None
  Cut = Cut
  Procs = {p1, p2}
  Refs = {r1}
  Images = {i1}
  Signed = {i1}
  Layers <- MCLayersOne
  Sig <- MCSigOne
  Offers <- MCOffersOne
PROPERTY LockReleased
