SPECIFICATION FairSpec
CONSTANTS
  Commands <- Purging
  Immediate = FALSE
  SpawnFails = FALSE
  MaxPid = 1
  MaxIntr = 0
PROPERTIES FilePurged
