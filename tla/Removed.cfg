SPECIFICATION FairSpec
CONSTANTS
  Clients = {c1}
  Names = {a, b}
  NoName = none
  Cells = {1, 2}
  Threads = {11, 12, 13}
  Ops <- AddRemove
  Fails = TRUE
  Kills = FALSE
  Blocks = TRUE
  Noexit = TRUE
  MaxCalls = 3
PROPERTIES RemovedEnds
CHECK_DEADLOCK FALSE
