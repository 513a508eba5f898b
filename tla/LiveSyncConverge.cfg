SPECIFICATION FairSpec
CONSTANTS
  Host = Host
  s1 = s1  s2 = s2
  l1 = l1  l2 = l2  l3 = l3
  h1 = h1  a1 = a1
  Spokes = {s1, s2}
  Links = {l1, l2}
  Ops = {h1, a1}
  PeerOf <- Relay
  Author <- SoloAuthors
  InitTrust <- OneWay
  Keepers = {Host}
  Window = 1
  MaxTrustEdits = 0
  MaxDrops = 1
  MaxCrashes = 0
CHECK_DEADLOCK FALSE
PROPERTIES
  Converges
  LinksSettle
