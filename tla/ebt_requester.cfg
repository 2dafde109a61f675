\* One requester session; another session of the node, with another peer,
\* broadcasts on the same broker.
CONSTANTS
    c1 = c1
    c2 = c2
    p1 = p1
    p2 = p2
    Conns <- MC_OneConn
    RoleOf <- MC_Requester
    PeerOf <- MC_PeerOf
    OtherConns <- MC_OtherConns
    OtherPeerOf <- MC_OtherPeerOf
    PeerReqNos = {2}
    OtherReqNos = {2}
    ForeignStreams = {}
    Versions = {3}
    Formats = {"classic", "indexed"}
    ReqArgs = {"one"}
    MaxPeerFrames = 3
    MaxOtherEvents = 2

SPECIFICATION Spec

INVARIANT TypeOK
INVARIANT WireSignMatchesRole
INVARIANT NothingAfterEof

\* A session waits for input for as long as its peer stays silent.
CHECK_DEADLOCK FALSE
