SPECIFICATION FairSpec
CONSTANTS
  Names <- AllNames
  Found <- Library
  Procs <- AllProcs
  Classes <- AllClasses
  ProgramMay <- Careful
  MaxImports = 3
INVARIANTS
  LinkedOnce
  ClosureLinked
  ReferencesLand
  PassesAgree
PROPERTY
  LinkingEnds
CHECK_DEADLOCK FALSE
