CONSTANTS
  Options <- MCOptions
  Limit = 2
  Backlog = 3
  MaxLog = 5
  MaxFaults = 2
  SeenMax = 1
SPECIFICATION Spec
INVARIANT HistoryNeverAnswered
CHECK_DEADLOCK FALSE
