CONSTANTS
  Proc = {parent, task1}
  Rounds = 1
  MaxKills = 0
  Other = {oparent, otask1}
  Overlap = TRUE
SPECIFICATION SharedSpec
INVARIANTS EachRunTogether
CHECK_DEADLOCK FALSE
