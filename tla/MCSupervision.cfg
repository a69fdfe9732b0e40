SPECIFICATION FairSpec
CONSTANTS
  Ids = {i1, i2}
  None = None
  Watched <- MCWatched
  LossTicks = 1
  DurationTicks = 2
  CooldownTicks = 2
  ClearAfter = 2
  MaxTrouble = 2
INVARIANTS ReadyHasStream NoOrphanStream TopRungUnreached
PROPERTIES RestartIsEarned LossIsRepaired CalmIsArmed
CHECK_DEADLOCK FALSE
