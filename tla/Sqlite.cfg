SPECIFICATION FairSpec
CONSTANTS
  p1 = p1
  p2 = p2
  p3 = p3
  None = None
  Procs <- ThreeProcs
  User <- User3
  Directories <- OneOrThree
  MaxCrashes = 1
CHECK_DEADLOCK FALSE
INVARIANTS HistoryHonest AppliedOnce
PROPERTIES LockSpec 
