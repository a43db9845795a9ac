SPECIFICATION Spec
CONSTANTS
  Values = {0, 1}
  MaxArgs = 1
  MaxNest = 4
  MaxStack = 28
  Escapes <- NoEscapes
INVARIANTS
  StackBalanced
  ChainIsArmed
  NeverWild
PROPERTIES
  ImplementsUnwindSpec
CHECK_DEADLOCK FALSE
