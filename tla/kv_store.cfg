\* The key-value store under crashes: announced messages stay durable and
\* the feeds refine FeedStore.
CONSTANTS
    x1 = x1
    x2 = x2
    None = None
    Panic = Panic
    Authors <- MC_OneAuthor
    Blobs <- MC_Blobs
    Contents <- MC_Contents
    MaxSeq = 2
    MaxCrashes = 2
    MaxUnflushed = 2
SPECIFICATION Spec
INVARIANT TypeOK AnnouncedDurable
PROPERTY FeedStoreRefined
