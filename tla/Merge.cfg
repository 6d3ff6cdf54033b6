SPECIFICATION FairMergeSpec
CONSTANTS
  Base <- SomeBase
  Branches <- AllSchemas
  Models <- AllSchemas
  Irreversible <- Replacement
  MaxEarly = 1
  MaxPlans = 4
  MaxKills = 1
CHECK_DEADLOCK FALSE
INVARIANT SchemaMatchesHistory
PROPERTY DirtyIsResolved
