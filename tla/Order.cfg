SPECIFICATION Spec
CONSTANTS
  NumVersions = 3
  Absent = 9
  DepChoices <- AllChoices
  Late = {3}
  Severity <- SomeSeverity
INVARIANTS ResolvesIfPossible ValidationAgrees DependenciesApplied NeverBlocked
CHECK_DEADLOCK FALSE
