SPECIFICATION FairSpec
CONSTANTS
  Size <- MixedSize
  Checked <- MixedChecked
  MaxRuns = 4
  MaxFaults = 2
  MaxLost = 1
  MaxMerges = 1
CHECK_DEADLOCK FALSE
INVARIANTS NoEffectTwice SuccessIsComplete RetryableIsResolved
PROPERTY RetryCompletes
