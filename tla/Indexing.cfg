CONSTANTS
  MaxSize = 4
  Indices <- SmallIndices
  Operands <- SmallOperands
  Preferences <- SomePreferences
SPECIFICATION Spec
INVARIANT ReadsNamed
PROPERTIES FailureKeeps WritesNamed DeletesNamed
