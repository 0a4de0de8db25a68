CONSTANTS
    Reader = Reader
    Resampler = Resampler
    Workers = {Reader, Resampler}
    AudioRender = AudioRender
SPECIFICATION FairSpec
INVARIANTS TypeOK ReplacedWhileQuiet TerminatedIsQuiet
PROPERTIES StopIsAcknowledged ResamplerPassesEnd ThreadsEnd WaitsEnd
CHECK_DEADLOCK FALSE
