SPECIFICATION FairSpec
CONSTANTS
  Modes <- BothModes
  Body <- MixedBody
  Checked <- MixedChecked
  MaxRuns = 6
  MaxFaults = 4
CHECK_DEADLOCK FALSE
INVARIANTS NoEffectTwice SuccessIsComplete RetryableIsResolved HistoryAgrees
PROPERTIES LifecycleSpec RetryCompletes
