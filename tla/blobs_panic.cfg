\* Peers and broker events in any order: a want before createWants, a broadcast before the first Timer.
CONSTANTS
    c1 = c1
    c2 = c2
    b1 = b1
    b2 = b2
    json = json
    Conns <- MC_Conns
    Blobs <- MC_OneBlob
    JsonBlob <- json
    InitialStore = {}
    PeerReqNos = {7}
    Honest = FALSE
    MaxPeerFrames = 5
SPECIFICATION Spec
INVARIANT NoHandlerPanic
\* A connection whose peer has stopped sending waits for its next frame.
CHECK_DEADLOCK FALSE
