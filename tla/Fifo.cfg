SPECIFICATION FairSpec
CONSTANTS
  Clients = {c1, c2}
  Names = {a, b}
  NoName = none
  Cells = {1, 2}
  Threads = {11, 12, 13}
  Ops <- AllOps
  Fails = TRUE
  Kills = TRUE
  Blocks = TRUE
  Noexit = FALSE
  MaxCalls = 3
INVARIANTS ListIntact
PROPERTIES CallReturns RemovedEnds
CHECK_DEADLOCK FALSE
