SPECIFICATION Spec
CONSTANTS
  Commands <- Paging
  Immediate = FALSE
  SpawnFails = TRUE
  MaxPid = 3
  MaxIntr = 1
INVARIANTS PromptQuiet PagerInUse ChildSignalRestored NoOrphanPlotter
\* A null plot_stream ends the program.
CHECK_DEADLOCK FALSE
