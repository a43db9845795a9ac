SPECIFICATION Spec
CONSTANTS
  Width = 8
  FieldWidths <- SomeWidths
INVARIANTS
  ArithmeticRight
  ReadsBack
  FieldsExact
