SPECIFICATION Spec
CONSTANTS
  Engines = {"sqlite"}
  NumVersions = 3
  Effects <- SomeEffects
  Marked <- NoAuto
  Reversible = {1, 2, 3}
  Late = {}
  Fragile = {}
  MaxUpgrades = 3
  MaxCommands = 1
  MaxFaults = 0
PROPERTIES ReverseOrder
CHECK_DEADLOCK FALSE
