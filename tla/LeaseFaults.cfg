SPECIFICATION Spec
CONSTANTS
  p1 = p1
  p2 = p2
  None = None
  Procs <- TwoProcs
  LeaseTtl = 4
  BeatTtl = 3
  NumFiles = 2
  MaxPauses = 1
  MaxLost = 1
  MaxCrashes = 0
CHECK_DEADLOCK FALSE
 
PROPERTY RenewsOnlyItsOwn
