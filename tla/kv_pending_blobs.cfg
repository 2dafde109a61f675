\* PendingBlobsMatchReference: get_pending_blobs once a feed has been appended.
CONSTANTS
    x1 = x1
    x2 = x2
    None = None
    Panic = Panic
    Authors <- MC_OneAuthor
    Blobs <- MC_Blobs
    Contents <- MC_Contents
    MaxSeq = 2
    MaxCrashes = 0
    MaxUnflushed = 2
SPECIFICATION Spec
INVARIANT PendingBlobsMatchReference
