CONSTANTS
    PieceLength = 2
    TotalSize = 5
    FileStart = 1
    FileSize = 4
    ReadSizes = {3}
    SeekSize = 2
    ReadAhead = 5
    SeekTargets <- MCSeekTargets
    Found = {0}
    Unreliable = {1}
SPECIFICATION FairSpec
INVARIANTS TypeOK ReadIsExact NoRequestLost LoopsEnd
PROPERTIES CancelEndsWait DataEndsWait CallsEnd
