\* A user who opens the next medium at any time.
CONSTANTS
    MaxOpens = 2
    MaxCloses = 0
    MaxCommands = 0
    None = None
SPECIFICATION TimeSpec
PROPERTIES AbortedMediaNotStarted
CHECK_DEADLOCK FALSE
