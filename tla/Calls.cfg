SPECIFICATION Spec
CONSTANTS
  Fn = {f1, f2}
  NoFn = none
  MaxDepth = 2
  StmtKinds <- Calling
  Interactive = TRUE
  MaxList = 1
  MaxIter = 1
  MaxStack = 8
  MaxIntr = 1
INVARIANTS LocalsOfActivation RecursionLimited
