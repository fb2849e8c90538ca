SPECIFICATION Spec
CONSTANTS
  Clients = {c1, c2}
  Names = {a, b}
  NoName = none
  Cells = {1, 2}
  Threads = {11, 12, 13, 14}
  Ops <- AddRemove
  Fails = FALSE
  Kills = FALSE
  Blocks = FALSE
  Noexit = FALSE
  MaxCalls = 4
INVARIANTS FifoServed
CHECK_DEADLOCK FALSE
