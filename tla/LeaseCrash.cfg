SPECIFICATION FairSpec
CONSTANTS
  p1 = p1
  p2 = p2
  None = None
  Procs <- TwoProcs
  LeaseTtl = 4
  BeatTtl = 3
  NumFiles = 1
  MaxPauses = 1
  MaxLost = 1
  MaxCrashes = 1
CHECK_DEADLOCK FALSE
INVARIANTS ExclusiveWhileLeased LeaseKeptAlive OnlyRacersShareTokens
PROPERTY EveryoneServed
