SPECIFICATION FileSpec
CONSTANTS
  Half = 512
  Modules <- SomeModules
  Versions <- SomeVersions
INVARIANTS
  ReadsAsWritten
  FoundWhole
CHECK_DEADLOCK FALSE
