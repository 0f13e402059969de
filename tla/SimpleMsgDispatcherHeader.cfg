SPECIFICATION Spec
CONSTANTS
  Hdr = 3
  Lengths = {0, 3}
  InitCap = 4
  MaxBytes = 8
INVARIANTS
  HeadersParse
CHECK_DEADLOCK FALSE
