SPECIFICATION FairSpec
CONSTANTS
  MaxBytes = 3
  MaxOpens = 3
  Cap = 2
INVARIANTS InOrder NothingLost
PROPERTIES Arrives
\* The thread may end.
CHECK_DEADLOCK FALSE
