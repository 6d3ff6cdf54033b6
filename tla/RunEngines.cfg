SPECIFICATION FairSpec
CONSTANTS
  Engines <- AllEngines
  NumJobs = 6
  Kind <- EngineKind
  Body <- EngineBody
  Checksum <- EngineChecksum
  MaxRuns = 3
  MaxFaults = 2
CHECK_DEADLOCK FALSE
INVARIANTS TypeOK RecordedImpliesExecuted HistoryIsPrefix
PROPERTIES NeverReapplied RetrySucceeds
