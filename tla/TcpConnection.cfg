SPECIFICATION FairSpec
CONSTANTS
  t1 = t1
  t2 = t2
  m1 = m1
  m2 = m2
  r1 = r1
  r2 = r2
  None = None
  Senders = {t1, t2}
  Msg = {m1, m2}
  Bound = {m1}
  Req = {r1, r2}
  Pooled <- PooledOne
  Roles = {TRUE, FALSE}
  Closers = {t1}
  MaxConnects = 2
INVARIANTS
  TypeOK
  OwnedOnce
  TaskWhileUsed
  NoSendForgotten
  SentInOrder
  OKMeansOpen
  DestroyedUnheld
PROPERTIES
  ImplementsOutbox
  HandedIsTried
  CloseSafeCloses
  ClosedIsFreed
CHECK_DEADLOCK FALSE
