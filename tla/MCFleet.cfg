SPECIFICATION FairSpec
CONSTANTS
  ann = ann
  bob = bob
  r1 = r1
  r2 = r2
  w1 = w1
  w2 = w2
  Users <- MCUsers
  Procs <- MCProcs
  Reqs <- MCReqs
  Stored <- MCStored
  Spent <- MCSpent
  First = ann
  Primary = Primary
  None = None
  PrimaryOwner = None
  Limit = 1
  MaxHosts = 3
  MaxRequests = 2
  MaxTroubles = 2
INVARIANTS OneHostPerBot RemovedBotStops OwnedBotsRun GateKeepsBusy
PROPERTIES AccountsAreAtomic NobodyWaitsForever
CHECK_DEADLOCK FALSE
