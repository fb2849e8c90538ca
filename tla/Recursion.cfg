SPECIFICATION Spec
CONSTANTS
  Fn = {f1}
  NoFn = none
  MaxDepth = 2
  StmtKinds <- Recursing
  Interactive = TRUE
  MaxList = 2
  MaxIter = 1
  MaxStack = 8
  MaxIntr = 0
INVARIANTS ArgsOfActivation
