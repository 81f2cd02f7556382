\* Words of two four-bit bytes and samples of two to four words; every seed.
CONSTANTS
  W = 8
  PRNG = "DEBUG"
  WORD = 2
  LEN_MAX = 8
  WriteCount = 2
  ReadCount = 3
  Alterations = 1
SPECIFICATION Spec
INVARIANTS
  TypeOK
  ReadJudgedRight
  EveryObjectStored
\* The task has read its objects.
CHECK_DEADLOCK FALSE
