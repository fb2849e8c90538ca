\* What the manual says of the time stamp of a function file.
\* The clock stops at its bound.
SPECIFICATION Spec
CONSTANTS
    Path <- McPath
    System = {"sys"}
    Tables <- McTables
    Top = "top"
    Ticks = 2
    MaxTick = 3
    MaxVersions = 3
INVARIANTS Reread
CHECK_DEADLOCK FALSE
