CONSTANTS
  c1 = c1
  c2 = c2
  Clients = {c1, c2}
  NoClient = NoClient
  NoFlow = NoFlow
  MaxTokens = 2
  MaxSeq = 1
SPECIFICATION FairSpec
INVARIANTS
  OneClientHeld
  RunsOnStoredUnlessFolded
  SoleClientContinues
  LogoutSticks
PROPERTIES
  RestartReconnects
  CloseEnds
  HostIsConnection
CHECK_DEADLOCK FALSE
