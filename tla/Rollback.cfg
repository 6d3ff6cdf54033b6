SPECIFICATION Spec
CONSTANTS
  Engines = {"postgresql", "mysql", "sqlite", "clickhouse"}
  NumVersions = 4
  Effects <- SomeEffects
  Marked <- SomeAuto
  Reversible = {1, 2, 4}
  Late = {2}
  Fragile = {4}
  MaxUpgrades = 5
  MaxCommands = 2
  MaxFaults = 2
INVARIANTS RevertIsAtomic FaultTearsOneFile TargetReached
PROPERTIES NewestFirst
CHECK_DEADLOCK FALSE
