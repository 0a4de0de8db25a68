\* A user who opens the window while the medium is being opened.
CONSTANTS
    MaxOpens = 1
    MaxCloses = 0
    MaxCommands = 1
    None = None
SPECIFICATION TimeSpec
INVARIANTS WindowIsPaused
CHECK_DEADLOCK FALSE
