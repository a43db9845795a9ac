SPECIFICATION Spec
CONSTANTS
  sort = sort
  table = table
  Labels <- SomeLabels
  Modules <- TwoModules
  Reach = 8
  Lengths <- SomeLengths
  MaxCode = 9
  MaxSize = 27
  Bases <- SomeBases
INVARIANTS
  ReferencesLand
  RelocsExact
CHECK_DEADLOCK FALSE
