\* A user who opens, closes, pauses and opens the window at any time.
CONSTANTS
    MaxOpens = 3
    MaxCloses = 2
    MaxCommands = 2
    None = None
SPECIFICATION FairTimeSpec
INVARIANTS TypeOK LastOpenWins PlayingIsStarted StartedHasStream WindowKeepsPaused
PROPERTIES OpensSettle
CHECK_DEADLOCK FALSE
