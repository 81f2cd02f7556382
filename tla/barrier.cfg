\* The parent and three tasks, one of them killed anywhere or none; before and
\* after them, runs with one task whose processes are killed anywhere.
CONSTANTS
  Proc = {parent, task1, task2, task3}
  Rounds = 1
  MaxKills = 1
  Other = {oparent, otask1}
  Overlap = FALSE
SPECIFICATION SharedFairSpec
INVARIANTS
  TypeOK
  NobodyEarly
  OnePermit
PROPERTIES
  Implements
  EverybodyPasses
\* Everybody has passed.
CHECK_DEADLOCK FALSE
