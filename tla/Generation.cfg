SPECIFICATION ChainSpec
CONSTANTS
  Elements = {a, b}
  None = None
  MaxVersion = 3
  MaxEdits = 2
  MaxRollbacks = 2
  MaxDeletes = 1
  MaxFaults = 1
  MaxMishaps = 3
SYMMETRY Interchangeable
CHECK_DEADLOCK FALSE
INVARIANTS PendingReachesModels NoMergeNoSignal
