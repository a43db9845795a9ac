SPECIFICATION Spec
CONSTANTS
  Bodies <- FamilyBodies
  MaxObjects = 2
  Contexts <- Few
  MaxVariables = 2
  Variables <- SomeVariables
  Classes <- SomeClasses
INVARIANTS
  MembersApart
  VariablesApart
CHECK_DEADLOCK FALSE
