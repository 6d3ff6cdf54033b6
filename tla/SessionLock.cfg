SPECIFICATION Spec
CONSTANTS
  p1 = p1
  p2 = p2
  r1 = r1
  r2 = r2
  r3 = r3
  None = None
  Engines <- BothEngines
  Procs <- TwoProcs
  Runs <- ThreeRuns
  Proc <- ThreeProc
  MaxSessions = 6
  MaxRuns = 3
  MaxLosses = 1
SYMMETRY Threads
CHECK_DEADLOCK FALSE
INVARIANTS RunsAreCovered OnlyStruckOverlap NestedRefused
