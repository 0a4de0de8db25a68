CONSTANTS
    Times <- MCTimes
    Offsets = {1}
    MaxTime = 3
    InSize = 2
    ReadAhead = 3
    QueueSize = 4
    StreamSubtitles = {2}
    StreamBatch = 2
    MaxChoices = 2
    MaxSeeks = 2
    MaxOpens = 2
SPECIFICATION FairSpec
INVARIANTS TypeOK PassFits GenerationsInOrder DueSubtitleShown
PROPERTIES LastFileArrives
CHECK_DEADLOCK FALSE
