SPECIFICATION Spec
CONSTANTS
  TaskCount = 1
  WriteCounts = {1}
  MaxWrites = 1
  ReadCount = 1
  MaxFaults = 1
  Leftovers = {"absent"}
  Workspaces = {"none"}
  Foreigners = {"none"}
  Homes = {{"other"}}
INVARIANTS UnreadNotAccepted
CHECK_DEADLOCK FALSE
