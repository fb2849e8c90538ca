SPECIFICATION Spec
CONSTANTS
  Fn = {f1}
  NoFn = none
  MaxDepth = 2
  StmtKinds <- Protecting
  Interactive = FALSE
  MaxList = 2
  MaxIter = 1
  MaxStack = 8
  MaxIntr = 0
INVARIANTS TypeOK NothingRunsWhileJumping ErrorSurvivesCleanup
PROPERTIES CleanupNeverDropped
\* The non-interactive octave quits.
CHECK_DEADLOCK FALSE
