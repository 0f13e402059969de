SPECIFICATION Spec
CONSTANTS
  Hdr = 3
  Lengths = {0, 2}
  InitCap = 5
  MaxBytes = 10
INVARIANTS
  TypeOK
  BodiesParse
  RestFollows
  NoPacketWaits
  HeadersParse
PROPERTIES
  ImplementsStream
CHECK_DEADLOCK FALSE
