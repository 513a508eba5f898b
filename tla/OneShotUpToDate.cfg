SPECIFICATION FairSpec
CONSTANTS
  a = a  b = b  c = c
  Ops = {a, b, c}
  Late = {}
  Starts <- UpToDate
  Window = 8
  MaxBreaks = 0
  MaxSpoken = 1
CHECK_DEADLOCK FALSE
PROPERTIES
  PullEnds
