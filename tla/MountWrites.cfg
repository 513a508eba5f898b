SPECIFICATION FairSpec
CONSTANTS
  n1 = n1  a1 = a1  a2 = a2  p1 = p1
  Nodes = {n1}
  AppEdits = {a1, a2}
  PeerEdits = {p1}
  Binary = {a2}
  MaxCuts = 1
  MaxDrops = 1
CHECK_DEADLOCK FALSE
INVARIANTS
  MergeHolds
  WritesSurvive
  CacheCoherent
PROPERTIES
  IdleCommits
