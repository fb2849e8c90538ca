SPECIFICATION FairSpec
CONSTANTS
  Commands <- Mixed
  Immediate = FALSE
  SpawnFails = FALSE
  MaxPid = 2
  MaxIntr = 1
INVARIANTS PlotterRegistered
PROPERTIES TempFileKept EveryCallReturns
\* A null plot_stream ends the program.
CHECK_DEADLOCK FALSE
