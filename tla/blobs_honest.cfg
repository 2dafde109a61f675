\* Two connections, two blobs with b2 already stored, honest peers whose
\* createWants number (7) never collides with ours (1, 2, ...), and four
\* peer frames: enough for one peer to open, want, announce and receive a
\* blob while the other connection forwards the want.
CONSTANTS
    c1 = c1
    c2 = c2
    b1 = b1
    b2 = b2
    json = json
    Conns <- MC_Conns
    Blobs <- MC_Blobs
    JsonBlob <- json
    InitialStore = {b2}
    PeerReqNos = {7}
    Honest = TRUE
    MaxPeerFrames = 4
SPECIFICATION Spec
INVARIANT TypeOK
PROPERTY WantsForwarded
PROPERTY HaveAnnounced
\* A connection whose peer has stopped sending waits for its next frame.
CHECK_DEADLOCK FALSE
