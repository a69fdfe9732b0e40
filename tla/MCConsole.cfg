CONSTANTS
  Texts = {"", "a", "b", "hi", "HI", "hi there"}
  NoText = ""
  NotNumber = NotNumber
  Unknown = Unknown
  CacheMax = 1
  Rooms = {"m1", "c1"}
  All = All
  None = None
  Requests = {r1, r2}
  Norm <- MCNorm
  Prefix <- MCPrefix
  Within <- MCWithin
  KindOf <- MCKindOf
  Tasks <- MCTasks
  Reports <- MCReports
  Files <- MCFiles
  Messages = {"HI", "hi there"}
SYMMETRY Symmetry
SPECIFICATION Spec
INVARIANTS ConsoleAssumption TypeOK FileLoads PolledAreAnswered DecisionsAreCurrent WorkerRunsFile
