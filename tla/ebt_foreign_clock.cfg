\* A responder whose peer also sends on another stream of the connection.
CONSTANTS
    c1 = c1
    c2 = c2
    p1 = p1
    p2 = p2
    Conns <- MC_OneConn
    RoleOf <- MC_Responder
    PeerOf <- MC_PeerOf
    OtherConns <- MC_OtherConns
    OtherPeerOf <- MC_OtherPeerOf
    PeerReqNos = {2}
    OtherReqNos = {1}
    ForeignStreams = {3}
    Versions = {3}
    Formats = {"classic"}
    ReqArgs = {"one"}
    MaxPeerFrames = 3
    MaxOtherEvents = 2

SPECIFICATION Spec

INVARIANT SessionStreamIsolated

\* A session waits for input for as long as its peer stays silent.
CHECK_DEADLOCK FALSE
