CONSTANTS
    PieceLength = 2
    TotalSize = 6
    FileStart = 0
    FileSize = 6
    ReadSizes = {2}
    SeekSize = 2
    ReadAhead = 3
    SeekTargets = {5}
    Found = {}
    Unreliable = {}
SPECIFICATION Spec
PROPERTIES DataReadyIsReturned
