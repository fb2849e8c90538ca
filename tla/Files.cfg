\* One user directory before the distribution's, two callers, two ticks to
\* a second.  The clock stops at its bound.
SPECIFICATION Spec
CONSTANTS
    Path <- McPath
    System = {"sys"}
    Tables <- McTables
    Top = "top"
    Ticks = 2
    MaxTick = 3
    MaxVersions = 3
INVARIANTS Fresh
PROPERTIES ReplacedByAnother
CHECK_DEADLOCK FALSE
