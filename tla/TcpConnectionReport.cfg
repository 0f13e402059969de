SPECIFICATION Spec
CONSTANTS
  t1 = t1
  t2 = t2
  m1 = m1
  m2 = m2
  r1 = r1
  r2 = r2
  None = None
  Senders = {t1}
  Msg = {m1}
  Bound = {m1}
  Req = {r1}
  Pooled <- PooledOne
  Roles = {TRUE}
  Closers = {t1}
  MaxConnects = 1
INVARIANTS
  FailureReported
CHECK_DEADLOCK FALSE
