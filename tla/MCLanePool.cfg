CONSTANTS
  LaneCount = 4
  Reserved = 3
  Spares = 1
  NoLane = NoLane
  RoundTrips = {10, 22, 40}
  Fast = 20
  Slow = 23
  TailLimit = 27
  Window = 1
  SlowSamples = 2
  PollCap = 1
  MaxRequests = 3
  MaxReplies = 4
SPECIFICATION Spec
CHECK_DEADLOCK FALSE
INVARIANTS
  HiddenLaneIsTriedOut
PROPERTIES
  PinKept
  OverloadKeepsBands
