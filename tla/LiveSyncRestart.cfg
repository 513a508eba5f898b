SPECIFICATION Spec
CONSTANTS
  Host = Host
  s1 = s1  s2 = s2
  l1 = l1  l2 = l2  l3 = l3
  h1 = h1  a1 = a1
  Spokes = {s1}
  Links = {l1, l2}
  Ops = {h1, a1}
  PeerOf <- Solo
  Author <- SoloAuthors
  InitTrust <- AllTrusted
  Keepers = {Host, s1}
  Window = 1
  MaxTrustEdits = 1
  MaxDrops = 0
  MaxCrashes = 1
SYMMETRY SoloSymmetry
CHECK_DEADLOCK FALSE
INVARIANTS
  TypeOK
  NoOrphans
  AckedSound
  NoLostNudge
  
  Gated
PROPERTIES
  KeepsPromise
