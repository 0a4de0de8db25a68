\* A queue of two subtitles, popped by the UI thread and flushed by a seek.
CONSTANTS
    Elems = {e1}
    Render = Render
    PacketReader = PacketReader
    Readers = {Render, PacketReader}
    BufferSize = 3
    Nil = Nil
SPECIFICATION SubtitlesSpec
INVARIANTS FrontSubtitleWasQueued
