SPECIFICATION FairSpec
CONSTANTS
  None = None
  NLoops = 2
  NClients = 2
  Timer <- TwoTimers
INVARIANTS
  TypeOK
  ReconnectsOnce
  WaitsForClosing
PROPERTIES
  HandleContract
  LostIsReconnected
  StopClears
CHECK_DEADLOCK FALSE
