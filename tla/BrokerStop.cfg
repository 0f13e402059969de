SPECIFICATION Spec
CONSTANTS
  None = None
  NLoops = 1
  NClients = 1
  Timer <- OneTimer
INVARIANTS
  ClearsClosed
CHECK_DEADLOCK FALSE
