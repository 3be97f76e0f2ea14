CONSTANTS
  Handles = {h1, h2}
  Nets = {n1, n2}
  MaxSent = 2
  MaxNested = 2
  None = None
SPECIFICATION AccountSpec
INVARIANT DestroyedAfterShutdown
CHECK_DEADLOCK FALSE
