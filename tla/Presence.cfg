SPECIFICATION FairSpec
CONSTANTS
  h = h
  s1 = s1
  s2 = s2
  entry = entry
  cursor = cursor
  v1 = v1
  Host = h
  Spokes <- TwoSpokes
  Keys <- TwoKeys
  OwnerOf <- Owners
  Values = {v1}
  Alien = Alien
  Container = Container
  None = None
  Capacity = 1
  Period = 1
  Timeout = 3
  Regimes <- AllRegimes
  MaxFaults = 1
INVARIANTS TypeOK OnlyOwnersWrite NoGhosts AgreeWhenQuiet OwnEntryHolds
PROPERTY Converges
