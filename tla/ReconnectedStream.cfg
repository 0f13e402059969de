SPECIFICATION StreamsSpec
CONSTANTS
  Hdr = 2
  Lengths = {1, 2}
  InitCap = 8
  MaxBytes = 6
INVARIANTS
  DeliversOwnBytes
CHECK_DEADLOCK FALSE
