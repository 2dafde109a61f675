--------------------------- MODULE MC_EbtSession ---------------------------
(* Instances of EbtSession for TLC.  c1 and c2 are connections of this   *)
(* node, p1 and p2 the peers behind them.                                 *)
EXTENDS EbtSession

CONSTANTS c1, c2, p1, p2

(* One modelled replicator; the replicator of c2 is part of the broker    *)
(* environment.                                                            *)
MC_OneConn == {c1}
MC_Requester == c1 :> Requester
MC_Responder == c1 :> Responder
MC_PeerOf == c1 :> p1
MC_OtherConns == {c2}
MC_OtherPeerOf == c2 :> p2

(* Both replicators modelled, the same peer behind both connections: the *)
(* node dialled the peer while the peer dialled the node.                  *)
MC_TwoConns == {c1, c2}
MC_BothRoles == (c1 :> Requester) @@ (c2 :> Responder)
MC_SharedPeerOf == (c1 :> p1) @@ (c2 :> p1)
MC_NoConns == {}
MC_NoPeerOf == [c \in {} |-> p1]
====
