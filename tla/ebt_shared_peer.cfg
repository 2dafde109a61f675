\* Both replicators modelled: the node requested a session on c1 and
\* awaits one on c2, and the same peer is behind both connections.
CONSTANTS
    c1 = c1
    c2 = c2
    p1 = p1
    p2 = p2
    Conns <- MC_TwoConns
    RoleOf <- MC_BothRoles
    PeerOf <- MC_SharedPeerOf
    OtherConns <- MC_NoConns
    OtherPeerOf <- MC_NoPeerOf
    PeerReqNos = {2}
    OtherReqNos = {}
    ForeignStreams = {}
    Versions = {3}
    Formats = {"classic"}
    ReqArgs = {"one"}
    MaxPeerFrames = 2
    MaxOtherEvents = 2

SPECIFICATION Spec

PROPERTY ActiveRequestStable

\* A session waits for input for as long as its peer stays silent.
CHECK_DEADLOCK FALSE
