SPECIFICATION Spec
CONSTANTS
  Commands <- Shell
  Immediate = FALSE
  SpawnFails = FALSE
  MaxPid = 1
  MaxIntr = 0
INVARIANTS StatusOfCommand
