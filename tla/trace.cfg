\* A ring of two blocks and one slot over (65536 = 321 * 204 + 52), gone round
\* more than once and a half, with every overrun and a call of trace_flush.
CONSTANTS
  NENT = 5
  BLOCK = 2
  Accesses = 8
  FlushCalls = 1
SPECIFICATION FairSpec
INVARIANTS
  TypeOK
  RecordsInOrder
  OnlyOutstanding
  ExitComplete
  NoDataRace
PROPERTIES
  FiniReturns
  BlocksReachFile
\* The worker ends after trace_fini.
CHECK_DEADLOCK FALSE
