----------------------------- MODULE EbtSession -----------------------------
(***************************************************************************)
(* EBT replication sessions of one solar node.                            *)
(*                                                                         *)
(* One replicator loop per connection (solar/src/actors/replication/ebt/  *)
(* replicator.rs, `run`) drives one EbtReplicateHandler (solar/src/actors/ *)
(* muxrpc/ebt.rs).  The loop selects, with priority, the termination      *)
(* signal, the next decoded MUXRPC frame of its connection and the next   *)
(* broker message; hands the input to the handler; then checks the        *)
(* responder's session-wait timeout.  Replicators of different            *)
(* connections interact only through broker broadcasts, which every       *)
(* registered replicator receives, its own included.                      *)
(*                                                                         *)
(* The remote peer of each connection and the EBT manager (which answers  *)
(* ReceivedClock / SessionInitiated with SendClock / SendMessage) are the *)
(* environment.  Frames are abstracted to their kind, request number and  *)
(* a body class; vector clocks and feed messages are not modelled.        *)
(***************************************************************************)
EXTENDS Integers, Sequences, SequencesExt

CONSTANTS
    Conns,            \* connection ids, one replicator each
    PeerOf,           \* PeerOf[c]: the peer identity behind connection c
    RoleOf,           \* RoleOf[c]: the session_role `run` was started with
    PeerReqNos,       \* request numbers a peer may give its ebt.replicate
    ForeignStreams,   \* numbers of other MUXRPC streams of the connection
    OtherConns,       \* connections of the node whose replicators are not modelled
    OtherPeerOf,      \* OtherPeerOf[oc]: the peer behind such a connection
    OtherReqNos,      \* request numbers of the sessions on those connections
    Versions,         \* `version` arguments a peer may send
    Formats,          \* `format` arguments a peer may send
    ReqArgs,          \* shapes of the args of a peer's ebt.replicate
    MaxPeerFrames,    \* frames one peer sends at most
    MaxOtherEvents    \* events the manager and other sessions broadcast at most

Requester == "Requester"
Responder == "Responder"
None == "none"

VARIABLES
    pc,                \* "start", "loop", "conclude", "done" or "panicked"
    session_initiated, \* replicator.rs `session_initiated`
    active_req_no,     \* replicator.rs `active_req_no`; 0 stands for None
    active_request,    \* EbtReplicateHandler.active_request
    expired,           \* ebt_session_start.elapsed() >= session_wait_timeout
    terminate,         \* ch_terminate: "idle", "signalled" or "fired"
    net,               \* decoded frames of each connection not yet read
    inbox,             \* broker messages of each replicator not yet read
    out,               \* frames written on each connection, wire req_no
    log,               \* every broker broadcast so far
    peer_req,          \* request number of the peer's ebt.replicate, or 0
    sent,              \* frames each peer has sent
    others,            \* events the manager and other sessions have broadcast
    accepted           \* ghost: the replicate request the handler accepted

vars == <<pc, session_initiated, active_req_no, active_request, expired,
          terminate, net, inbox, out, log, peer_req, sent, others, accepted>>

-----------------------------------------------------------------------------
(* Data.                                                                   *)

Bodies == {"clock", "msg", "invalid"}

(* The args of an ebt.replicate: "one" is a one-element array, "empty"   *)
(* the array [], "undecodable" a value that is not an array of           *)
(* EbtReplicate.                                                           *)
ArgShapes == {"one", "empty", "undecodable"}

Frame(k, n, v, f, b) ==
    [kind |-> k, req |-> n, version |-> v, format |-> f, body |-> b]

Ev(t, c, n, p, r) == [type |-> t, conn |-> c, req |-> n, peer |-> p, role |-> r]

Wire(k, n) == [kind |-> k, req |-> n]

(* kuska_ssb RpcWriter: a fresh writer numbers its first request 1;       *)
(* send_response and send_error negate the number they are given;         *)
(* send_stream_eof writes it as given.                                    *)
RequesterReqNo == 1
SendResponseWire(n) == -n
SendErrorWire(n) == -n
SendEofWire(n) == n

(* Rust `!x == k` on a u32 x: its bitwise complement (2^32 - 1) - x      *)
(* equals k; arranged so that no term leaves TLC's 32-bit integers.      *)
U32NotEquals(x, k) == ((2^30 - 1) - x) + 2^30 = (k - 2^30) - 2^30

(* The outcome of one call of EbtReplicateHandler::handle: the new        *)
(* active_request, the frames written, the events broadcast and the       *)
(* result: "ok" is Ok(false), "stop" is Ok(true), "err" is Err, "panic"  *)
(* an unwrap of None that unwinds the replicator's task.                  *)
Result(ar, frames, evs, res) == [ar |-> ar, frames |-> frames, evs |-> evs, res |-> res]

Ignore(ar) == Result(ar, <<>>, <<>>, "ok")

-----------------------------------------------------------------------------
(* EbtReplicateHandler (solar/src/actors/muxrpc/ebt.rs).                  *)

RecvEbtReplicate(c, f, ar) ==
    CASE f.body = "undecodable" -> Result(ar, <<>>, <<>>, "err")
      [] f.body = "empty" -> Result(ar, <<>>, <<>>, "panic")
      [] U32NotEquals(f.version, 3) ->
            Result(ar, <<Wire("error", SendErrorWire(f.req))>>, <<>>, "err")
      [] f.format # "classic" ->
            Result(ar, <<Wire("error", SendErrorWire(f.req))>>, <<>>, "err")
      [] OTHER ->
            Result(f.req, <<>>,
                   <<Ev("SessionInitiated", c, f.req, PeerOf[c], Responder)>>, "ok")

RecvOtherRequest(c, f, ar) ==
    IF f.body = "clock"
    THEN Result(ar, <<>>, <<Ev("ReceivedClock", c, f.req, PeerOf[c], None)>>, "ok")
    ELSE Ignore(ar)

RecvRpcResponse(c, f, ar) ==
    IF ar = f.req \/ ar = -f.req
    THEN CASE f.body = "clock" ->
                Result(ar, <<>>, <<Ev("ReceivedClock", c, f.req, PeerOf[c], None)>>, "ok")
           [] f.body = "msg" ->
                Result(ar, <<>>, <<Ev("ReceivedMessage", None, 0, None, None)>>, "ok")
           [] OTHER -> Result(ar, <<>>, <<>>, "err")
    ELSE Ignore(ar)

(* Mutant: a received cancel is answered but the session goes on.        *)
RecvCancelStreamContinue(f, ar) == Result(ar, <<Wire("eof", SendEofWire(-f.req))>>, <<>>, "ok")

RecvCancelStream(f, ar) == Result(ar, <<Wire("eof", SendEofWire(-f.req))>>, <<>>, "stop")

(* Mutant: sending the cancel does not end the session.                  *)
SendCancelStreamContinue(n, ar) == Result(ar, <<Wire("eof", SendEofWire(-n))>>, <<>>, "ok")

SendCancelStream(n, ar) == Result(ar, <<Wire("eof", SendEofWire(-n))>>, <<>>, "stop")

RecvErrorResponse(ar) == Result(ar, <<>>, <<>>, "err")

HandleFrame(c, f, ar) ==
    CASE f.kind = "request"  -> RecvEbtReplicate(c, f, ar)
      [] f.kind = "other"    -> RecvOtherRequest(c, f, ar)
      [] f.kind = "response" -> RecvRpcResponse(c, f, ar)
      [] f.kind = "cancel"   -> RecvCancelStream(f, ar)
      [] f.kind = "error"    -> RecvErrorResponse(ar)

TerminateSession(c, e, ar) ==
    IF e.conn = c
    THEN SendCancelStream(IF e.role = Requester THEN ar ELSE -ar, ar)
    ELSE Ignore(ar)

(* Mutant: the requester's pre-negation is forgotten.                     *)
SendClockNoFlip(c, e, ar) ==
    IF e.conn = c
    THEN Result(ar, <<Wire("clock", SendResponseWire(e.req))>>, <<>>, "ok")
    ELSE Ignore(ar)

SendClock(c, e, ar) ==
    IF e.conn = c
    THEN Result(ar, <<Wire("clock", SendResponseWire(IF e.role = Requester
                                                      THEN -e.req ELSE e.req))>>,
                <<>>, "ok")
    ELSE Ignore(ar)

(* Mutant: the pre-negation is applied to the wrong role.                 *)
SendMessageRolesSwapped(c, e, ar) ==
    IF e.conn = c
    THEN Result(ar, <<Wire("msg", SendResponseWire(IF e.role = Responder
                                                    THEN -e.req ELSE e.req))>>,
                <<>>, "ok")
    ELSE Ignore(ar)

SendMessage(c, e, ar) ==
    IF e.conn = c
    THEN Result(ar, <<Wire("msg", SendResponseWire(IF e.role = Requester
                                                    THEN -e.req ELSE e.req))>>,
                <<>>, "ok")
    ELSE Ignore(ar)

HandleMessage(c, e, ar) ==
    CASE e.type = "TerminateSession" -> TerminateSession(c, e, ar)
      [] e.type = "SendClock"        -> SendClock(c, e, ar)
      [] e.type = "SendMessage"      -> SendMessage(c, e, ar)
      [] OTHER                       -> Ignore(ar)

(* Mutant: the loop's request number is taken with the response sign.   *)
HandleNegated(c, inp, arn) ==
    LET ar == IF arn # 0 THEN -arn ELSE active_request[c]
    IN  IF inp.src = "net" THEN HandleFrame(c, inp.frame, ar)
                           ELSE HandleMessage(c, inp.msg, ar)

(* `handle`: an active_req_no known to the loop overrides active_request.  *)
Handle(c, inp, arn) ==
    LET ar == IF arn # 0 THEN arn ELSE active_request[c]
    IN  IF inp.src = "net" THEN HandleFrame(c, inp.frame, ar)
                           ELSE HandleMessage(c, inp.msg, ar)

-----------------------------------------------------------------------------
(* The replicator loop (solar/src/actors/replication/ebt/replicator.rs).  *)

Net(f) == [src |-> "net", frame |-> f]
Msg(e) == [src |-> "msg", msg |-> e]

(* A broadcast reaches every replicator still registered.                 *)
Deliver(box, evs) == [d \in Conns |-> IF pc[d] = "done" THEN box[d] ELSE box[d] \o evs]

(* The loop adopts a SessionInitiated of a responder session of the same  *)
(* peer as its own.                                                        *)
AdoptsSessionInitiated(c, e) ==
    /\ e.type = "SessionInitiated"
    /\ e.peer = PeerOf[c]
    /\ e.role = Responder

(* One pass of the loop body after the select: the handler call, the     *)
(* Error broadcast on failure, and the responder timeout check.           *)
Process(c, inp, box, si, arn) ==
    LET h == Handle(c, inp, arn)
        timeout == /\ h.res = "ok"
                   /\ ~si
                   /\ RoleOf[c] = Responder
                   /\ expired[c]
        evs == h.evs \o (CASE h.res = "err" -> <<Ev("Error", c, 0, PeerOf[c], None)>>
                           [] timeout      -> <<Ev("SessionTimeout", c, 0, PeerOf[c], None)>>
                           [] OTHER        -> <<>>)
        initiated == \E i \in DOMAIN h.evs : h.evs[i].type = "SessionInitiated"
    IN  /\ active_request' = [active_request EXCEPT ![c] = h.ar]
        /\ session_initiated' = [session_initiated EXCEPT ![c] = si]
        /\ active_req_no' = [active_req_no EXCEPT ![c] = arn]
        /\ out' = [out EXCEPT ![c] = @ \o h.frames]
        /\ inbox' = Deliver(box, evs)
        /\ log' = log \cup ToSet(evs)
        /\ pc' = [pc EXCEPT ![c] = CASE h.res = "panic"           -> "panicked"
                                     [] h.res = "ok" /\ ~timeout -> "loop"
                                     [] OTHER                   -> "conclude"]
        /\ accepted' = IF initiated
                       THEN [accepted EXCEPT ![c] =
                               [req |-> inp.frame.req, version |-> inp.frame.version,
                                intime |-> ~expired[c]]]
                       ELSE accepted

(* A requester sends ebt.replicate before it enters the loop.             *)
Start(c) ==
    /\ pc[c] = "start"
    /\ out' = [out EXCEPT ![c] = Append(@, Wire("request", RequesterReqNo))]
    /\ active_req_no' = [active_req_no EXCEPT ![c] = RequesterReqNo]
    /\ pc' = [pc EXCEPT ![c] = "loop"]
    /\ UNCHANGED <<session_initiated, active_request, expired, terminate, net,
                   inbox, log, peer_req, sent, others, accepted>>

ReadTerminate(c) ==
    /\ pc[c] = "loop"
    /\ terminate[c] = "signalled"
    /\ terminate' = [terminate EXCEPT ![c] = "fired"]
    /\ Process(c, Msg(Ev("TerminateSession", c, 0, None, RoleOf[c])), inbox,
               session_initiated[c], active_req_no[c])
    /\ UNCHANGED <<expired, net, peer_req, sent, others>>

ReadNetwork(c) ==
    /\ pc[c] = "loop"
    /\ terminate[c] # "signalled"
    /\ net[c] # <<>>
    /\ net' = [net EXCEPT ![c] = Tail(@)]
    /\ Process(c, Net(Head(net[c])), inbox, session_initiated[c], active_req_no[c])
    /\ UNCHANGED <<expired, terminate, peer_req, sent, others>>

(* The loop's break on a SessionConcluded of its own connection          *)
(* (replicator.rs 115-119) is left out: only this replicator broadcasts  *)
(* that event, after it has left the loop.                               *)
ReadBroker(c) ==
    LET e == Head(inbox[c])
        adopt == AdoptsSessionInitiated(c, e)
    IN  /\ pc[c] = "loop"
        /\ terminate[c] # "signalled"
        /\ net[c] = <<>>
        /\ inbox[c] # <<>>
        /\ Process(c, Msg(e), [inbox EXCEPT ![c] = Tail(@)],
                   adopt \/ session_initiated[c],
                   IF adopt THEN e.req ELSE active_req_no[c])
        /\ UNCHANGED <<expired, terminate, net, peer_req, sent, others>>

Conclude(c) ==
    LET evs == <<Ev("SessionConcluded", c, 0, PeerOf[c], None)>>
    IN  /\ pc[c] = "conclude"
        /\ pc' = [pc EXCEPT ![c] = "done"]
        /\ inbox' = Deliver(inbox, evs)
        /\ log' = log \cup ToSet(evs)
        /\ UNCHANGED <<session_initiated, active_req_no, active_request, expired,
                       terminate, net, out, peer_req, sent, others, accepted>>

-----------------------------------------------------------------------------
(* Environment: the remote peers, the EBT manager, termination and time.  *)

(* The request number of the session's stream on connection c.           *)
SessionReq(c) == IF RoleOf[c] = Requester THEN RequesterReqNo ELSE peer_req[c]

(* A compliant peer: a responder's peer first sends one ebt.replicate;    *)
(* afterwards data, cancel and error frames on the session's stream or on *)
(* another stream of the connection.                                      *)
PeerFrames(c) ==
    IF RoleOf[c] = Responder /\ peer_req[c] = 0
    THEN {Frame("request", n, v, fm, a) :
            n \in PeerReqNos, v \in Versions, fm \in Formats, a \in ReqArgs}
    ELSE LET streams == {SessionReq(c)} \cup ForeignStreams
             data == IF RoleOf[c] = Requester THEN "response" ELSE "other"
         IN  {Frame(data, n, 0, None, b) : n \in streams, b \in Bodies}
             \cup {Frame(k, n, 0, None, None) : k \in {"cancel", "error"}, n \in streams}

PeerSend(c) ==
    /\ pc[c] \notin {"start", "done"}
    /\ sent[c] < MaxPeerFrames
    /\ \E f \in PeerFrames(c) :
         /\ net' = [net EXCEPT ![c] = Append(@, f)]
         /\ peer_req' = IF f.kind = "request" THEN [peer_req EXCEPT ![c] = f.req] ELSE peer_req
    /\ sent' = [sent EXCEPT ![c] = @ + 1]
    /\ UNCHANGED <<pc, session_initiated, active_req_no, active_request, expired,
                   terminate, inbox, out, log, others, accepted>>

(* Request numbers the manager has learnt for connection c.               *)
KnownReqs(c) ==
    {e.req : e \in {e \in log : e.conn = c /\ e.type \in {"SessionInitiated", "ReceivedClock"}}}

Manager(c) ==
    /\ pc[c] # "done"
    /\ others < MaxOtherEvents
    /\ \E e \in {Ev(t, c, n, None, RoleOf[c]) : t \in {"SendClock", "SendMessage"}, n \in KnownReqs(c)}
                \cup {Ev("TerminateSession", c, 0, None, RoleOf[c])} :
         /\ inbox' = Deliver(inbox, <<e>>)
         /\ log' = log \cup {e}
    /\ others' = others + 1
    /\ UNCHANGED <<pc, session_initiated, active_req_no, active_request, expired,
                   terminate, net, out, peer_req, sent, accepted>>

(* Replicators of connections outside Conns announce and conclude their  *)
(* sessions on the same broker.                                           *)
OtherEvents ==
    {Ev("SessionInitiated", oc, n, OtherPeerOf[oc], Responder) : oc \in OtherConns, n \in OtherReqNos}
    \cup {Ev("SessionConcluded", oc, 0, OtherPeerOf[oc], None) : oc \in OtherConns}

OtherSession ==
    /\ others < MaxOtherEvents
    /\ \E c \in Conns : pc[c] # "done"
    /\ \E e \in OtherEvents :
         /\ inbox' = Deliver(inbox, <<e>>)
         /\ log' = log \cup {e}
    /\ others' = others + 1
    /\ UNCHANGED <<pc, session_initiated, active_req_no, active_request, expired,
                   terminate, net, out, peer_req, sent, accepted>>

(* BrokerEvent::Terminate (ctrlc actor, Node::shutdown) signals the      *)
(* ch_terminate of every registered replicator at once.                   *)
Signal ==
    /\ \A c \in Conns : terminate[c] = "idle"
    /\ \E c \in Conns : pc[c] # "done"
    /\ terminate' = [c \in Conns |-> IF pc[c] = "done" THEN "idle" ELSE "signalled"]
    /\ UNCHANGED <<pc, session_initiated, active_req_no, active_request, expired,
                   net, inbox, out, log, peer_req, sent, others, accepted>>

(* The monotonic clock passes ebt_session_start + session_wait_timeout;   *)
(* only a responder reads it.                                             *)
Tick(c) ==
    /\ RoleOf[c] = Responder
    /\ ~expired[c]
    /\ expired' = [expired EXCEPT ![c] = TRUE]
    /\ UNCHANGED <<pc, session_initiated, active_req_no, active_request, terminate,
                   net, inbox, out, log, peer_req, sent, others, accepted>>

-----------------------------------------------------------------------------

Init ==
    /\ pc = [c \in Conns |-> IF RoleOf[c] = Requester THEN "start" ELSE "loop"]
    /\ session_initiated = [c \in Conns |-> FALSE]
    /\ active_req_no = [c \in Conns |-> 0]
    /\ active_request = [c \in Conns |-> 0]
    /\ expired = [c \in Conns |-> FALSE]
    /\ terminate = [c \in Conns |-> "idle"]
    /\ net = [c \in Conns |-> <<>>]
    /\ inbox = [c \in Conns |-> <<>>]
    /\ out = [c \in Conns |-> <<>>]
    /\ log = {}
    /\ peer_req = [c \in Conns |-> 0]
    /\ sent = [c \in Conns |-> 0]
    /\ others = 0
    /\ accepted = [c \in Conns |-> [req |-> 0, version |-> 0, intime |-> FALSE]]

(* The steps of replicator c's task.                                      *)
Replicator(c) ==
    \/ Start(c)
    \/ ReadTerminate(c)
    \/ ReadNetwork(c)
    \/ ReadBroker(c)
    \/ Conclude(c)

Environment(c) ==
    \/ PeerSend(c)
    \/ Manager(c)
    \/ Tick(c)

Next == Signal \/ OtherSession \/ \E c \in Conns : Replicator(c) \/ Environment(c)

(* The executor polls every task whose future is ready, and time passes;  *)
(* peers, the manager and the operator owe the node nothing.              *)
Fairness == \A c \in Conns : WF_vars(Replicator(c)) /\ WF_vars(Tick(c))

Spec == Init /\ [][Next]_vars /\ Fairness

-----------------------------------------------------------------------------
(* Properties.                                                             *)

(* Request numbers: positive, as a request's initiator picks them.        *)
ReqNos == {RequesterReqNo} \cup PeerReqNos \cup OtherReqNos \cup ForeignStreams

TypeOK ==
    /\ pc \in [Conns -> {"start", "loop", "conclude", "done", "panicked"}]
    /\ session_initiated \in [Conns -> BOOLEAN]
    /\ active_req_no \in [Conns -> {0} \cup ReqNos]
    /\ active_request \in [Conns -> {0} \cup ReqNos]
    /\ expired \in [Conns -> BOOLEAN]
    /\ terminate \in [Conns -> {"idle", "signalled", "fired"}]
    /\ \A c \in Conns : \A i \in DOMAIN out[c] :
         out[c][i].kind \in {"request", "error", "clock", "msg", "eof"}
    /\ peer_req \in [Conns -> {0} \cup PeerReqNos]
    /\ sent \in [Conns -> 0..MaxPeerFrames]
    /\ others \in 0..MaxOtherEvents

(* Every clock and message the node writes on a session travels in the   *)
(* session's direction: +n from the requester, -n from the responder,    *)
(* where n is the session's request number.  The handler's SendClock /   *)
(* SendMessage pre-negate for the requester because send_response        *)
(* negates again.                                                          *)
WireSignMatchesRole ==
    \A c \in Conns : \A i \in DOMAIN out[c] :
        out[c][i].kind \in {"clock", "msg"} =>
            out[c][i].req = IF RoleOf[c] = Requester THEN SessionReq(c) ELSE -SessionReq(c)

(* Once a session has a request number the handler never changes it      *)
(* (spec: active_request is constant from SessionInitiated until          *)
(* SessionConcluded); the loop overwrites it from SessionInitiated events.*)
ActiveRequestStable ==
    [][\A c \in Conns : active_request[c] # 0 => active_request'[c] = active_request[c]]_vars

(* After the node has closed a session's stream with an end-of-stream     *)
(* frame it writes nothing more on the connection: both cancel paths end  *)
(* the loop.                                                               *)
NothingAfterEof ==
    \A c \in Conns : \A i, j \in DOMAIN out[c] :
        i < j => out[c][i].kind # "eof"

(* A replicator whose termination signal fired concludes its session.    *)
TerminateConcludes ==
    \A c \in Conns : (terminate[c] = "signalled") ~> (pc[c] = "done")

(* The spec (§4.4, §8 ProtocolError, scenario 6): a responder starts a    *)
(* session only for an ebt.replicate of version 3, and a request it       *)
(* cannot use ends the session with an Error, never by killing the        *)
(* replicator's task, which then neither concludes nor acknowledges       *)
(* termination.                                                            *)
ReplicateRequestValidated ==
    \A c \in Conns : /\ accepted[c].req # 0 => accepted[c].version = 3
                    /\ pc[c] # "panicked"

(* The spec: SessionTimeout only when no valid request arrived within    *)
(* session_wait_timeout.                                                   *)
NoTimeoutOfAcceptedSession ==
    \A e \in log : e.type = "SessionTimeout" => ~accepted[e.conn].intime

(* The spec (§4.4): only frames whose |req_no| is the session's request   *)
(* belong to the session.  So no vector clock is read from another stream *)
(* (recv_other_request checks no number), and the handler closes only the  *)
(* session's own stream, which exists: recv_cancelstream answers a cancel  *)
(* of any stream and ends the session, and a TerminateSession before the   *)
(* responder has a request closes stream 0.                                *)
SessionStreamIsolated ==
    \A c \in Conns :
        /\ \A e \in log :
              e.type = "ReceivedClock" /\ e.conn = c =>
                  e.req \in {SessionReq(c), -SessionReq(c)}
        /\ \A i \in DOMAIN out[c] :
              out[c][i].kind = "eof" =>
                  /\ SessionReq(c) # 0
                  /\ out[c][i].req \in {SessionReq(c), -SessionReq(c)}

(* The spec: a responder that got no valid request in time broadcasts     *)
(* SessionTimeout and exits.                                              *)
ResponderTimesOut ==
    \A c \in Conns :
        RoleOf[c] = Responder =>
            ((expired[c] /\ ~session_initiated[c]) ~> (pc[c] = "done" \/ session_initiated[c]))


(* spec.md scenario 5, both ways: a responder broadcasts SessionTimeout   *)
(* only when no valid request arrived within session_wait_timeout, and    *)
(* when none did, it does time out (or the session ends otherwise).       *)
ResponderTimeoutAsSpecified ==
    [][NoTimeoutOfAcceptedSession']_vars /\ ResponderTimesOut

====
