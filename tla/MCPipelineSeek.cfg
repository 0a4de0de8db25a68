\* Two seek calls: the second may come at any point of the first one's seek.
CONSTANTS
    MaxSeeks = 2
    FillLevel = 1
    MaxAudio = 1
    MaxSamples = 1
    VideoDelay = 1
    AudioDelay = 1
    None = None
SPECIFICATION FairSpec
INVARIANTS TypeOK FlushingIsExclusive StaleSoundBounded StalePictureBounded
PROPERTIES SeekSettles ClockFollowsSeek
