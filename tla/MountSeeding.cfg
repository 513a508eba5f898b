SPECIFICATION Spec
CONSTANTS
  n1 = n1  a1 = a1  a2 = a2  p1 = p1
  Nodes = {n1}
  AppEdits = {a1}
  PeerEdits = {p1}
  Binary = {}
  MaxCuts = 0
  MaxDrops = 0
CHECK_DEADLOCK FALSE
INVARIANTS
  NoPeerEditLost
