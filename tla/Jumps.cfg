SPECIFICATION FairSpec
CONSTANTS
  Fn = {f1}
  NoFn = none
  MaxDepth = 2
  StmtKinds <- Jumps
  Interactive = TRUE
  MaxList = 1
  MaxIter = 1
  MaxStack = 6
  MaxIntr = 2
INVARIANTS UnwindBalanced BufferedOnlyInTry PromptClean
PROPERTIES PromptReturns
