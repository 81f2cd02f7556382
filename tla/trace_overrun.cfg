CONSTANTS
  NENT = 5
  BLOCK = 2
  Accesses = 8
  FlushCalls = 0
SPECIFICATION Spec
INVARIANT EveryAccessRecorded
CHECK_DEADLOCK FALSE
