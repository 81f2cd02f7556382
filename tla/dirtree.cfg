CONSTANTS
  Clients <- SharingClients
  ObjIds <- SharingObjIds
  OpenMax = 4
  MaxFaults = 1
SPECIFICATION FairSpec
INVARIANTS
  TypeOK
  CreatedOnDemand
  StaysInside
  CleanAfter
PROPERTIES
  WorkspaceKept
  DestroyReturns
\* The parent has returned.
CHECK_DEADLOCK FALSE
