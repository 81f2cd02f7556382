\* Seconds of a hundred nanoseconds; an unsigned holds 0 to 3.
CONSTANTS
  NSEC = 100
  DIGITS = 2
  UINTS = 4
  Options <- MCOptions
  MaxOptions = 2
  Garbage <- MCGarbage
  FdMax = 2
  Starts = {95}
  Steps = {30, 75}
  MaxTime = 250
  Leftovers = {"absent", "junk"}
  MaxFaults = 2
SPECIFICATION Spec
INVARIANTS
  TypeOK
  AsAsked
  CsvOverstates
  DescriptorsReturned
  SessionShutDown
  LeftoversReplaced
PROPERTIES
  RecordsApart
\* The task has returned.
CHECK_DEADLOCK FALSE
