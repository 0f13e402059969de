SPECIFICATION FairSpec
CONSTANTS
  io = io
  p1 = p1
  p2 = p2
  a = a
  b = b
  s1 = s1
  s2 = s2
  NoCallback = NoCallback
  Threads <- TwoPosters
  Runner = io
  Callback <- TwoStops
  Closer = {s1, s2}
  InitialData = {"other"}
INVARIANTS
  TypeOK
  NothingLost
  NoLostWakeup
  ReinitOnlyClosed
PROPERTIES
  QueuedRunInLoop
  ImplementsQueue
  QueuedIsRun
  StopReturns
