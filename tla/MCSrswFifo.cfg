\* Three usable slots, two values, one reader, a writer that never stops.
CONSTANTS
    Elems = {e1, e2}
    Readers = {rd}
    BufferSize = 4
    Nil = Nil
SPECIFICATION FairSpec
INVARIANTS TypeOK NoDataRace PushAfterRoomSucceeds
PROPERTIES FlushTerminates ImplementsFifo
