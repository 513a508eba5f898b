SPECIFICATION FairSpec
CONSTANTS
  a = a  b = b  c = c
  Ops = {a, b, c}
  Late = {c}
  Starts <- AnyStart
  Window = 2
  MaxBreaks = 1
  MaxSpoken = 1
CHECK_DEADLOCK FALSE
INVARIANTS
  NeverOutOfOrder
  PullComplete
  OneShotGated
  PushConsumed
PROPERTIES
  PullEndsIfAnswered
