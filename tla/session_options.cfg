\* One option is enough.
CONSTANTS
  NSEC = 100
  DIGITS = 2
  UINTS = 4
  Options <- MCOptions
  MaxOptions = 1
  Garbage <- MCGarbage
  FdMax = 2
  Starts = {95}
  Steps = {30}
  MaxTime = 250
  Leftovers = {"absent"}
  MaxFaults = 0
SPECIFICATION Spec
INVARIANTS OptionsChecked
CHECK_DEADLOCK FALSE
