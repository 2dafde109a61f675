\* A responder whose peer asks for EBT version 2, or sends an empty or
\* undecodable args array.
CONSTANTS
    c1 = c1
    c2 = c2
    p1 = p1
    p2 = p2
    Conns <- MC_OneConn
    RoleOf <- MC_Responder
    PeerOf <- MC_PeerOf
    OtherConns <- MC_OtherConns
    OtherPeerOf <- MC_OtherPeerOf
    PeerReqNos = {2}
    OtherReqNos = {1}
    ForeignStreams = {}
    Versions = {2}
    Formats = {"classic"}
    ReqArgs = {"one", "empty", "undecodable"}
    MaxPeerFrames = 3
    MaxOtherEvents = 2

SPECIFICATION Spec

INVARIANT ReplicateRequestValidated

\* A session waits for input for as long as its peer stays silent.
CHECK_DEADLOCK FALSE
