\* ValIndexSound: get_msg_val(id) after a crash during append_feed.
CONSTANTS
    x1 = x1
    x2 = x2
    None = None
    Panic = Panic
    Authors <- MC_OneAuthor
    Blobs <- MC_Blobs
    Contents <- MC_Contents
    MaxSeq = 2
    MaxCrashes = 1
    MaxUnflushed = 2
SPECIFICATION Spec
INVARIANT AppendAtomicAcrossCrash
