\* Every workspace and leftover, one fault anywhere; the read index goes round.
CONSTANTS
  TaskCount = 2
  WriteCounts = {0, 1, 2}
  MaxWrites = 2
  ReadCount = 3
  MaxFaults = 1
  Leftovers = {"absent", "whole", "junk", "huge"}
  Workspaces = {"none", "dir", "file"}
  Foreigners = {"none", "file", "dir"}
  Homes = {{"object"}, {"object", "other"}}
SPECIFICATION FairSpec
INVARIANTS
  TypeOK
  StartTogether
  RemovedAfterUse
  NoFalseAlarm
  WorkspaceRemoved
PROPERTIES
  WorkspaceKept
  RunEnds
\* The run has ended.
CHECK_DEADLOCK FALSE
