CONSTANTS
  Hours = 2
  Minutes = 2
  PlayCap = 1
  Catalog <- ModelCatalog
  DiskSets <- Files
  WideSets <- Wides
  MaxOwn = 2
SPECIFICATION Spec
CHECK_DEADLOCK FALSE
INVARIANTS
  CheckRuleExact
  NothingUncalled
  SeverestHolds
