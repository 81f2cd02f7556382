SPECIFICATION Spec
CONSTANTS
  TaskCount = 1
  WriteCounts = {1}
  MaxWrites = 1
  ReadCount = 1
  MaxFaults = 0
  Leftovers = {"absent"}
  Workspaces = {"file"}
  Foreigners = {"none"}
  Homes = {{"object", "other"}}
INVARIANTS HomeKept
CHECK_DEADLOCK FALSE
