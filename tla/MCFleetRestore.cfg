SPECIFICATION Spec
CONSTANTS
  ann = ann
  bob = bob
  cyd = cyd
  r1 = r1
  w1 = w1
  w2 = w2
  Users <- MCUsers
  Procs <- MCProcs
  Reqs <- MCReqs
  Stored <- MCStored
  Spent <- MCSpent
  First = ann
  Primary = Primary
  None = None
  PrimaryOwner = None
  Limit = 1
  MaxHosts = 3
  MaxRequests = 1
  MaxTroubles = 2
INVARIANTS OwnedBotsRun
CHECK_DEADLOCK FALSE
