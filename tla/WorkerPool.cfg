SPECIFICATION WorkSpec
CONSTANTS
  c1 = c1
  c2 = c2
  k1 = k1
  k2 = k2
  m1 = m1
  Task = {m1}
  None = None
  NLoops = 2
  IoLoops = 2
  Conn = {c1, c2}
  Key = {k1, k2}
  ReuseKeys = FALSE
INVARIANTS
  TypeOK
  SessionLives
  MapIsSound
  StartsOnce
  Balanced
  FoundIsOpen
PROPERTIES
  GoneIsFreed
  StopReturns
  DoneIsDeleted
CHECK_DEADLOCK FALSE
