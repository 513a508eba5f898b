SPECIFICATION Spec
CONSTANTS
  x = x  y = y  dots = dots
  Names = {x, y}
  BadNames = {dots}
  MaxNodes = 3
  MaxPeerOps = 2
SYMMETRY Renamings
CHECK_DEADLOCK FALSE
INVARIANTS
  OneTree
  PathsAgree
PROPERTIES
  KeepsUnique
  Replaces
