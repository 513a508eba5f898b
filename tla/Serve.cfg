SPECIFICATION Spec
CONSTANTS
  None = None  Other = Other  Err = Err
  Server = Server  p1 = p1  e1 = e1  e2 = e2
  Others = {p1}
  Editors = {e1, e2}
  KeyPaths <- Paths
  Fresh <- Secrets
  MaxPeer = 2
  MaxConns = 3
  Plans <- AllPlans
CHECK_DEADLOCK FALSE
INVARIANTS
  ResolvesAsDocumented
  NeverFallsBack
  OneIdentity
  OneHistory
  HooksPaired
  GrantsBounded
  RevokedStaysOut
