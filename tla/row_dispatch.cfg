SPECIFICATION FairSpec
CONSTANTS
  Users <- MCUsers
  MaxRows = 8
  MaxCores = 4
CHECK_DEADLOCK FALSE
INVARIANTS RowsHaveOneWorker ReturnedIsComplete TasksWithinCores
PROPERTY DispatchEnds
