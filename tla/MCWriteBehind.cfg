CONSTANTS
  BatchSize = 2
  MaxQueued = 4
  MaxRecords = 9
SPECIFICATION Spec
CHECK_DEADLOCK FALSE
INVARIANTS
  WriteBehindAssumption
  TypeOK
  RecordsAreAccounted
  WaitingIsScheduled
  CloseLeavesNothing
