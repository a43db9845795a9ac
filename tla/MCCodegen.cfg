SPECIFICATION Spec
CONSTANTS
  Sources <- SomeSources
  InputValues <- SomeValues
INVARIANT
  ComputesValue
