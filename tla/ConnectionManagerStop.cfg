SPECIFICATION FairSpec
CONSTANTS
  c1 = c1
  c2 = c2
  k1 = k1
  k2 = k2
  None = None
  NLoops = 1
  IoLoops = 1
  Conn = {c1}
  Key = {k1}
  ReuseKeys = FALSE
PROPERTIES
  StopAlwaysReturns
CHECK_DEADLOCK FALSE
