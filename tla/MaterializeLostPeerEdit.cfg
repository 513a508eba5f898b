SPECIFICATION Spec
CONSTANTS
  p = p  q = q  u1 = u1  u2 = u2  t1 = t1  t2 = t2
  Paths = {p}
  UserEdits = {u1, u2}
  PeerEdits = {t1, t2}
  MaxNodes = 3
  Regimes <- OnlyHasty
CHECK_DEADLOCK FALSE
INVARIANTS
  NoPeerEditLost
