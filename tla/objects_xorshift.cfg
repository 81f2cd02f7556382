CONSTANTS
  W = 8
  PRNG = "XORSHIFT"
  WORD = 2
  LEN_MAX = 8
  WriteCount = 1
  ReadCount = 1
  Alterations = 0
SPECIFICATION Spec
INVARIANT UnalteredAccepted
CHECK_DEADLOCK FALSE
