\* A second seek call while the first one waits for its sync timeout.
CONSTANTS
    MaxSeeks = 2
    FillLevel = 1
    MaxAudio = 1
    MaxSamples = 1
    VideoDelay = 0
    AudioDelay = 0
    None = None
SPECIFICATION Spec
PROPERTIES RequestNotOverwritten
