SPECIFICATION Spec
CONSTANTS
  Fn = {f1}
  NoFn = none
  MaxDepth = 2
  StmtKinds <- Continuing
  Interactive = TRUE
  MaxList = 2
  MaxIter = 1
  MaxStack = 6
  MaxIntr = 0
INVARIANTS CleanupWhole
