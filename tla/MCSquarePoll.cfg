CONSTANTS
  Options <- MCOptions
  Limit = 2
  Backlog = 3
  MaxLog = 4
  MaxFaults = 2
  SeenMax = 1
SPECIFICATION FairSpec
INVARIANTS
  NoLiveMessageSkipped
  EmittedOnce
  CallsBounded
  HistoryOnlyPastSilentPage
PROPERTIES
  OnlyPagesInHandAfterStop
  LiveMessageEmitted
  StopEndsLoop
CHECK_DEADLOCK FALSE
