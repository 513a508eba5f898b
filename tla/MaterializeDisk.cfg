SPECIFICATION FairSpec
CONSTANTS
  p = p  q = q  u1 = u1  u2 = u2  t1 = t1  t2 = t2
  Paths = {p, q}
  UserEdits = {u1, u2}
  PeerEdits = {t1, t2}
  MaxNodes = 4
  Regimes <- AllRegimes
CHECK_DEADLOCK FALSE
INVARIANTS
  AgreeWhenQuiet
  LocalEditsSurvive
  PeerEditsSurvive
PROPERTIES
  PruneRecoverable
  Settles
