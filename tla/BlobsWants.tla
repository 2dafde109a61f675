----------------------------- MODULE BlobsWants -----------------------------
(***************************************************************************)
(* The blob want/have/get protocol of solar: one BlobsWantsHandler per     *)
(* connection (src/solar/src/actors/muxrpc/blobs_wants.rs), the shared     *)
(* blob store they insert into, and the broker that carries RpcBlobsWants  *)
(* and StoreBlob events between the connection actors.                     *)
(*                                                                         *)
(* Each connection actor hands its handler one input at a time (a network  *)
(* frame, a broker message or a Timer tick), so one call of handle is one  *)
(* atomic step here.  The remote peer of each connection is the            *)
(* environment: it opens its createWants stream, answers on ours, announces *)
(* haves and answers our blobs.get requests, in any order.                  *)
(*                                                                         *)
(* Blob ids are model values; the distance carried with a want is left out *)
(* (no code path reads it back).  Request numbers are the decoded numbers  *)
(* the handler sees: ours count up from 1 per connection, the peer's come  *)
(* from PeerReqNos.                                                        *)
(***************************************************************************)
EXTENDS Integers, Sequences, SequencesExt

CONSTANTS
    Conns,          \* connections, one handler and one remote peer each
    Blobs,          \* blob ids the peers talk about
    InitialStore,   \* blobs already in the local store
    PeerReqNos,     \* request numbers a peer may give its createWants call
    Honest,         \* TRUE: a peer answers blobs.get(b) with the bytes of b
    JsonBlob,       \* the id of the hash of a JSON body stored as a blob
    MaxPeerFrames   \* frames the peers send, together

ASSUME InitialStore \subseteq Blobs /\ JsonBlob \notin Blobs

VARIABLES
    initialized,        \* handler field initialized
    my_wants_req_no,    \* handler field my_wants_req_no (0 = None)
    peer_wants_req_no,  \* handler field peer_wants_req_no (0 = None)
    peer_wants,         \* handler field peer_wants: Blobs -> entry
    next_req,           \* the connection's next outgoing request number
    store,              \* ids in the blob store
    net,                \* frames from the peer, not yet handled
    inbox,              \* broker messages to the connection, not yet handled
    out,                \* frames written to the peer, in order
    panicked,           \* "none" or the unwrap that killed the handler task
    peer_no,            \* the peer's createWants number (0 = not opened)
    peer_sent           \* frames the peers have sent, together

vars == <<initialized, my_wants_req_no, peer_wants_req_no, peer_wants,
          next_req, store, net, inbox, out, panicked, peer_no, peer_sent>>

(* The Wants enum; Absent stands for a key not in the HashMap.             *)
Absent       == [st |-> "absent", req |-> 0]
Pending      == [st |-> "pending", req |-> 0]
Requested(n) == [st |-> "requested", req |-> n]
Available    == [st |-> "available", req |-> 0]

(* Frame bodies: a JSON map of blob ids, or the raw bytes of one blob.     *)
MapBody(S)   == [t |-> "map", ids |-> S]
Bytes(b)     == [t |-> "bytes", ids |-> {b}]

(* Frames from the peer, as kuska decodes them.                            *)
CreateWantsReq(n) == [kind |-> "request", req |-> n, body |-> MapBody({})]
Response(n, body) == [kind |-> "response", req |-> n, body |-> body]

(* Frames we write: our requests and our responses on a stream.            *)
Out(k, n, S) == [kind |-> k, req |-> n, ids |-> S]

(* Broker messages.                                                        *)
RpcBlobsWants(S) == [type |-> "RpcBlobsWants", ids |-> S]
StoreBlob(b)     == [type |-> "StoreBlob", ids |-> {b}]

(* Destination::Broadcast: every connection actor still running.           *)
Broadcast(m) ==
    [c \in Conns |-> IF panicked[c] = "none" THEN Append(inbox[c], m)
                                             ELSE inbox[c]]

(* BLOB_STORE.insert: hash the bytes, persist, emit StoreBlob(id).  The    *)
(* id is the hash of what arrived, whatever was asked for.                 *)
BlobIdOf(body) == IF body.t = "bytes" THEN CHOOSE b \in body.ids : TRUE
                                      ELSE JsonBlob

Running(c) == panicked[c] = "none"

(* Mutant: the request counter is not advanced.                          *)
TimerNoIncrement(c) ==
    /\ Running(c)
    /\ ~initialized[c]
    /\ my_wants_req_no' = [my_wants_req_no EXCEPT ![c] = next_req[c]]
    /\ out' = [out EXCEPT ![c] = Append(@, Out("createWants", next_req[c], {}))]
    /\ initialized' = [initialized EXCEPT ![c] = TRUE]
    /\ UNCHANGED <<next_req, peer_wants_req_no, peer_wants, store, net, inbox,
                   panicked, peer_no, peer_sent>>

-----------------------------------------------------------------------------
(* RpcInput::Timer: the first tick opens our createWants stream.           *)
Timer(c) ==
    /\ Running(c)
    /\ ~initialized[c]
    /\ my_wants_req_no' = [my_wants_req_no EXCEPT ![c] = next_req[c]]
    /\ out' = [out EXCEPT ![c] = Append(@, Out("createWants", next_req[c], {}))]
    /\ next_req' = [next_req EXCEPT ![c] = @ + 1]
    /\ initialized' = [initialized EXCEPT ![c] = TRUE]
    /\ UNCHANGED <<peer_wants_req_no, peer_wants, store, net, inbox,
                   panicked, peer_no, peer_sent>>

(* recv_create_wants: remember the first createWants number of the peer.   *)
RecvCreateWants(c, f) ==
    /\ f.kind = "request"
    /\ peer_wants_req_no' = [peer_wants_req_no EXCEPT ![c] =
                                IF @ = 0 THEN f.req ELSE @]
    /\ UNCHANGED <<initialized, my_wants_req_no, peer_wants, next_req, store,
                   inbox, out, panicked>>



(* recv_wants: answer the wants we can serve with haves on                 *)
(* peer_wants_req_no, mark the others Pending and broadcast them.  The     *)
(* unwrap of peer_wants_req_no panics when the peer has not opened its     *)
(* createWants stream.  A body that is not a JSON map fails to parse.      *)
RecvWants(c, f) ==
    LET W      == f.body.ids
        haves  == W \cap store
        unsat  == W \ store
    IN  IF f.body.t # "map"
        THEN UNCHANGED <<initialized, my_wants_req_no, peer_wants_req_no,
                         peer_wants, next_req, store, inbox, out, panicked>>
        ELSE IF peer_wants_req_no[c] = 0
        THEN /\ panicked' = [panicked EXCEPT ![c] = "peer_wants_req_no"]
             /\ UNCHANGED <<initialized, my_wants_req_no, peer_wants_req_no,
                            peer_wants, next_req, store, inbox, out>>
        ELSE /\ peer_wants' = [peer_wants EXCEPT ![c] =
                   [b \in Blobs |-> IF b \in unsat THEN Pending ELSE @[b]]]
             /\ out' = [out EXCEPT ![c] =
                   Append(@, Out("haves", peer_wants_req_no[c], haves))]
             /\ inbox' = Broadcast(RpcBlobsWants(unsat))
             /\ UNCHANGED <<initialized, my_wants_req_no, peer_wants_req_no,
                            next_req, store, panicked>>

(* recv_haves: send blobs.get for every announced blob that has an entry   *)
(* in this connection's peer_wants, in the HashMap's (arbitrary) order,    *)
(* and mark the entry Requested with the request's number.                 *)
RecvHaves(c, f) ==
    LET T == {b \in f.body.ids : peer_wants[c][b] # Absent}
    IN  IF f.body.t # "map"
        THEN UNCHANGED <<initialized, my_wants_req_no, peer_wants_req_no,
                         peer_wants, next_req, store, inbox, out, panicked>>
        ELSE \E order \in SetToSeqs(T) :
             /\ peer_wants' = [peer_wants EXCEPT ![c] =
                   [b \in Blobs |-> IF b \in T
                                    THEN Requested(next_req[c] - 1 +
                                           CHOOSE i \in DOMAIN order : order[i] = b)
                                    ELSE @[b]]]
             /\ out' = [out EXCEPT ![c] = @ \o
                   [i \in DOMAIN order |-> Out("get", next_req[c] - 1 + i, {order[i]})]]
             /\ next_req' = [next_req EXCEPT ![c] = @ + Len(order)]
             /\ UNCHANGED <<initialized, my_wants_req_no, peer_wants_req_no,
                            store, inbox, panicked>>

(* recv_blobs_get: insert the bytes (a hash mismatch is only logged) and   *)
(* mark the Requested entry Available.                                     *)
RecvBlobsGet(c, f) ==
    LET b  == CHOOSE x \in Blobs : peer_wants[c][x] = Requested(f.req)
        id == BlobIdOf(f.body)
    IN  /\ store' = store \cup {id}
        /\ inbox' = Broadcast(StoreBlob(id))
        /\ peer_wants' = [peer_wants EXCEPT ![c][b] = Available]
        /\ UNCHANGED <<initialized, my_wants_req_no, peer_wants_req_no,
                       next_req, out, panicked>>

(* handle, RpcInput::Network: a response is classified by its number.     *)
(* A frame no branch claims is consumed without effect.                    *)
IsRequested(c, n) == \E b \in Blobs : peer_wants[c][b] = Requested(n)

HandleNetwork(c) ==
    /\ Running(c)
    /\ net[c] # << >>
    /\ LET f == Head(net[c]) IN
       /\ net' = [net EXCEPT ![c] = Tail(@)]
       /\ \/ RecvCreateWants(c, f)
          \/ /\ f.kind = "response"
             /\ CASE my_wants_req_no[c] = f.req   -> RecvWants(c, f)
                  [] peer_wants_req_no[c] = f.req -> RecvHaves(c, f)
                  [] IsRequested(c, f.req)        -> RecvBlobsGet(c, f)
                  [] OTHER -> UNCHANGED <<initialized, my_wants_req_no,
                                peer_wants_req_no, peer_wants, next_req,
                                store, inbox, out, panicked>>
    /\ UNCHANGED <<peer_no, peer_sent>>

(* Mutant: the filter is inverted, forwarding only ids we have entries for.*)
EventWantsBroadcastInverted(c, m) ==
    IF my_wants_req_no[c] = 0
    THEN /\ panicked' = [panicked EXCEPT ![c] = "my_wants_req_no"]
         /\ UNCHANGED out
    ELSE /\ out' = [out EXCEPT ![c] = Append(@, Out("wants", my_wants_req_no[c],
                        {b \in m.ids : peer_wants[c][b] # Absent}))]
         /\ UNCHANGED panicked

-----------------------------------------------------------------------------
(* event_wants_broadcast: forward the ids this connection has no entry     *)
(* for on my_wants_req_no; the unwrap panics before our first Timer.       *)
EventWantsBroadcast(c, m) ==
    IF my_wants_req_no[c] = 0
    THEN /\ panicked' = [panicked EXCEPT ![c] = "my_wants_req_no"]
         /\ UNCHANGED out
    ELSE /\ out' = [out EXCEPT ![c] = Append(@, Out("wants", my_wants_req_no[c],
                        {b \in m.ids : peer_wants[c][b] = Absent}))]
         /\ UNCHANGED panicked

(* Mutant: only a Pending entry counts as wanted.                          *)
EventStoBlobAddedPendingOnly(c, m) ==
    /\ IF \E b \in m.ids : b \in Blobs /\ peer_wants[c][b] = Pending
       THEN out' = [out EXCEPT ![c] = Append(@, Out("haves", peer_wants_req_no[c], m.ids))]
       ELSE UNCHANGED out
    /\ UNCHANGED panicked

(* event_stoblob_added: announce a new blob the peer wanted.  Its unwrap   *)
(* of peer_wants_req_no cannot fail: entries are made only by recv_wants   *)
(* after the same unwrap succeeded.                                        *)
EventStoBlobAdded(c, m) ==
    /\ IF \E b \in m.ids : b \in Blobs /\ peer_wants[c][b] # Absent
       THEN out' = [out EXCEPT ![c] = Append(@, Out("haves", peer_wants_req_no[c], m.ids))]
       ELSE UNCHANGED out
    /\ UNCHANGED panicked

(* handle, RpcInput::Message.                                              *)
HandleMessage(c) ==
    /\ Running(c)
    /\ inbox[c] # << >>
    /\ LET m == Head(inbox[c]) IN
       IF m.type = "RpcBlobsWants" THEN EventWantsBroadcast(c, m)
                                   ELSE EventStoBlobAdded(c, m)
    /\ inbox' = [inbox EXCEPT ![c] = Tail(@)]
    /\ UNCHANGED <<initialized, my_wants_req_no, peer_wants_req_no, peer_wants,
                   next_req, store, net, peer_no, peer_sent>>

-----------------------------------------------------------------------------
(* The remote peer of connection c.  It opens its createWants stream once, *)
(* sends wants on our createWants stream once it has seen it, haves on its *)
(* own stream, and blob bytes for a blobs.get we sent; a dishonest peer    *)
(* may send the bytes of another blob.                                     *)
PeerSend(c, f) ==
    /\ peer_sent < MaxPeerFrames
    /\ net' = [net EXCEPT ![c] = Append(@, f)]
    /\ peer_sent' = peer_sent + 1

PeerCreateWants(c) ==
    /\ peer_no[c] = 0
    /\ \E n \in PeerReqNos :
         /\ PeerSend(c, CreateWantsReq(n))
         /\ peer_no' = [peer_no EXCEPT ![c] = n]

PeerWants(c) ==
    /\ \E o \in ToSet(out[c]) : o.kind = "createWants"
    /\ \E S \in SUBSET Blobs \ {{}} : PeerSend(c, Response(my_wants_req_no[c], MapBody(S)))
    /\ UNCHANGED peer_no

PeerHaves(c) ==
    /\ peer_no[c] # 0
    /\ \E S \in SUBSET Blobs \ {{}} : PeerSend(c, Response(peer_no[c], MapBody(S)))
    /\ UNCHANGED peer_no

PeerBlob(c) ==
    /\ \E o \in ToSet(out[c]) :
         /\ o.kind = "get"
         /\ \E b \in IF Honest THEN o.ids ELSE Blobs :
              PeerSend(c, Response(o.req, Bytes(b)))
    /\ UNCHANGED peer_no

Peer(c) ==
    /\ \/ PeerCreateWants(c) \/ PeerWants(c) \/ PeerHaves(c) \/ PeerBlob(c)
    /\ UNCHANGED <<initialized, my_wants_req_no, peer_wants_req_no, peer_wants,
                   next_req, store, inbox, out, panicked>>

-----------------------------------------------------------------------------
Init ==
    /\ initialized = [c \in Conns |-> FALSE]
    /\ my_wants_req_no = [c \in Conns |-> 0]
    /\ peer_wants_req_no = [c \in Conns |-> 0]
    /\ peer_wants = [c \in Conns |-> [b \in Blobs |-> Absent]]
    /\ next_req = [c \in Conns |-> 1]
    /\ store = InitialStore
    /\ net = [c \in Conns |-> << >>]
    /\ inbox = [c \in Conns |-> << >>]
    /\ out = [c \in Conns |-> << >>]
    /\ panicked = [c \in Conns |-> "none"]
    /\ peer_no = [c \in Conns |-> 0]
    /\ peer_sent = 0

(* One call of BlobsWantsHandler::handle on connection c.                  *)
Handle(c) == Timer(c) \/ HandleNetwork(c) \/ HandleMessage(c)

Next == \E c \in Conns : Handle(c) \/ Peer(c)

(* The connection actor keeps calling its handler while an input is        *)
(* pending; the peers owe nothing.                                         *)
Fairness == \A c \in Conns : WF_vars(Handle(c))

Spec == Init /\ [][Next]_vars /\ Fairness

-----------------------------------------------------------------------------
IsEntry(e) == e \in {Absent, Pending, Available} \/ e = Requested(e.req)

TypeOK ==
    /\ initialized \in [Conns -> BOOLEAN]
    /\ next_req \in [Conns -> Nat \ {0}]
    /\ \A c \in Conns : my_wants_req_no[c] \in 0..(next_req[c] - 1)
    /\ peer_wants_req_no \in [Conns -> Nat]
    /\ \A c \in Conns : DOMAIN peer_wants[c] = Blobs
    /\ \A c \in Conns, b \in Blobs : IsEntry(peer_wants[c][b])
    /\ \A c \in Conns, b \in Blobs :
          peer_wants[c][b].st = "requested" => peer_wants[c][b].req \in 1..(next_req[c] - 1)
    /\ store \subseteq Blobs \cup {JsonBlob}
    /\ panicked \in [Conns -> {"none", "peer_wants_req_no", "my_wants_req_no"}]

(* Frames of kind k written on connection c.                               *)
Sent(c, k) == {o \in ToSet(out[c]) : o.kind = k}

(* A connection's handler task never dies: neither the unwrap of          *)
(* my_wants_req_no in event_wants_broadcast nor that of peer_wants_req_no  *)
(* in recv_wants meets None, whatever order the inputs come in.            *)
NoHandlerPanic == \A c \in Conns : Running(c)

(* A blob one peer wants and we lack is eventually forwarded, on          *)
(* my_wants_req_no, to every other peer that has no entry for it, unless   *)
(* that connection's handler died (recv_wants broadcast, then              *)
(* event_wants_broadcast on every other connection).                       *)
WantsForwarded ==
    \A c \in Conns, b \in Blobs :
        peer_wants[c][b] = Pending ~>
            \A d \in Conns \ {c} :
                \/ ~Running(d)
                \/ peer_wants[d][b] # Absent
                \/ \E o \in Sent(d, "wants") : b \in o.ids

(* Once a blob a peer wanted is in the store, that peer is eventually     *)
(* told we have it, unless its handler died (insert emits StoreBlob,       *)
(* event_stoblob_added announces it on peer_wants_req_no).                 *)
HaveAnnounced ==
    \A c \in Conns, b \in Blobs :
        (peer_wants[c][b] # Absent /\ b \in store) ~>
            (~Running(c) \/ \E o \in Sent(c, "haves") : b \in o.ids)

====
