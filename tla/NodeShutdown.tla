---------------------------- MODULE NodeShutdown ----------------------------
(***************************************************************************)
(* Start-up and graceful shutdown of a solar node.                         *)
(*                                                                         *)
(* Node::start (solar/src/node.rs) opens the stores, spawns the ctrlc      *)
(* actor (actors/ctrlc.rs), the TCP server (actors/network/tcp_server.rs)  *)
(* and the connection scheduler, then awaits the connection manager's      *)
(* message loop and the broker's.  Every connection runs an EBT           *)
(* replicator (replication/ebt/replicator.rs `run`), which registers with *)
(* the broker with terminate? = true.  BrokerEvent::Terminate, sent by the *)
(* ctrlc actor or Node::shutdown, makes the broker signal every actor      *)
(* registered with terminate? = true and await their acknowledgements      *)
(* (spec.md §4.1); then its message loop ends and Node::start returns.    *)
(*                                                                         *)
(* A replicator is abstracted to its registration and its exit; its        *)
(* session is the subject of EbtSession.  An exit acknowledges            *)
(* termination: `run` sends on ch_terminated, and an early return or a    *)
(* panic drops the sender, which completes the broker's wait as well.     *)
(***************************************************************************)
EXTENDS Naturals

CONSTANTS
    Inbound,          \* connections the TCP listener may accept
    Outbound,         \* connections the connection scheduler may dial
    MaxAcceptErrors   \* Err items of listener.incoming() at most

Conns == Inbound \cup Outbound

VARIABLES
    node,        \* the await point of Node::start
    ctrlc,       \* "none", "register", "wait" or "done"
    tcp,         \* "none", "register", "bind", "loop" or "failed"
    conn,        \* conn[c]: "none", "spawned", "running" or "done"
    registered,  \* actors registered with the broker
    broker,      \* the broker's message loop: "running", "awaiting", "ended"
    pending,     \* a Terminate is queued for the broker's loop
    signalled,   \* actors the broker signalled on Terminate
    cm,          \* the connection manager's message loop: "running", "ended"
    errors       \* Err items the accept loop has read

vars == <<node, ctrlc, tcp, conn, registered, broker, pending, signalled, cm, errors>>

(* register(name, terminate?): only replicators pass terminate? = true.    *)
Terminable(a) == a \in Conns

(* Once Node::start has returned, main returns and every task dies: every *)
(* task's step below is guarded by it.                                     *)
Running == node \notin {"finished", "failed"}

-----------------------------------------------------------------------------
(* Node::start (node.rs).  A `?` that fails returns Err from start.        *)

OpenKv ==
    /\ node = "open_kv"
    /\ node' \in {"open_blobs", "failed"}
    /\ UNCHANGED <<ctrlc, tcp, conn, registered, broker, pending, signalled, cm, errors>>

OpenBlobs ==
    /\ node = "open_blobs"
    /\ node' = "spawn_ctrlc"
    /\ UNCHANGED <<ctrlc, tcp, conn, registered, broker, pending, signalled, cm, errors>>

SpawnCtrlc ==
    /\ node = "spawn_ctrlc"
    /\ node' = "spawn_tcp"
    /\ ctrlc' = "register"
    /\ UNCHANGED <<tcp, conn, registered, broker, pending, signalled, cm, errors>>

(* Parsing the listen address and the identity may fail before the spawn. *)
SpawnTcp ==
    /\ node = "spawn_tcp"
    /\ \/ node' = "failed" /\ UNCHANGED tcp
       \/ node' = "spawn_scheduler" /\ tcp' = "register"
    /\ UNCHANGED <<ctrlc, conn, registered, broker, pending, signalled, cm, errors>>

SpawnScheduler ==
    /\ node = "spawn_scheduler"
    /\ node' = "await_cm"
    /\ UNCHANGED <<ctrlc, tcp, conn, registered, broker, pending, signalled, cm, errors>>

AwaitCm ==
    /\ node = "await_cm"
    /\ cm = "ended"
    /\ node' = "await_broker"
    /\ UNCHANGED <<ctrlc, tcp, conn, registered, broker, pending, signalled, cm, errors>>

(* "Gracefully finished".                                                  *)
AwaitBroker ==
    /\ node = "await_broker"
    /\ broker = "ended"
    /\ node' = "finished"
    /\ UNCHANGED <<ctrlc, tcp, conn, registered, broker, pending, signalled, cm, errors>>

(* Node::shutdown: a Terminate from whoever holds the node.                *)
Shutdown ==
    /\ Running
    /\ ~pending
    /\ broker = "running"
    /\ pending' = TRUE
    /\ UNCHANGED <<node, ctrlc, tcp, conn, registered, broker, signalled, cm, errors>>

-----------------------------------------------------------------------------
(* The ctrlc actor (actors/ctrlc.rs).                                       *)

CtrlcRegister ==
    /\ Running
    /\ ctrlc = "register"
    /\ ctrlc' = "wait"
    /\ registered' = registered \cup {"ctrlc"}
    /\ UNCHANGED <<node, tcp, conn, broker, pending, signalled, cm, errors>>

(* SIGINT arrives; the actor sends Terminate and returns.  A Terminate     *)
(* the broker's loop no longer reads changes nothing.                      *)
CtrlC ==
    /\ Running
    /\ ctrlc = "wait"
    /\ ctrlc' = "done"
    /\ pending' = (pending \/ broker = "running")
    /\ UNCHANGED <<node, tcp, conn, registered, broker, signalled, cm, errors>>

-----------------------------------------------------------------------------
(* The TCP server (actors/network/tcp_server.rs).  It registers with       *)
(* terminate? = false, so the broker never signals it, and                 *)
(* listener.incoming() never yields None: the loop's two breaks and the   *)
(* ch_terminated send after it are not reached while the broker runs.     *)

TcpRegister ==
    /\ Running
    /\ tcp = "register"
    /\ tcp' = "bind"
    /\ registered' = registered \cup {"tcp-server"}
    /\ UNCHANGED <<node, ctrlc, conn, broker, pending, signalled, cm, errors>>

(* TcpListener::bind(addr).await? may fail and end the actor.              *)
Bind ==
    /\ Running
    /\ tcp = "bind"
    /\ tcp' \in {"loop", "failed"}
    /\ UNCHANGED <<node, ctrlc, conn, registered, broker, pending, signalled, cm, errors>>

(* Some(Ok(stream)): spawn connection::actor for it.                        *)
Accept(c) ==
    /\ Running
    /\ tcp = "loop"
    /\ c \in Inbound
    /\ conn[c] = "none"
    /\ conn' = [conn EXCEPT ![c] = "spawned"]
    /\ UNCHANGED <<node, ctrlc, tcp, registered, broker, pending, signalled, cm, errors>>

(* Some(Err(_)): the loop goes on.                                          *)
AcceptError ==
    /\ Running
    /\ tcp = "loop"
    /\ errors < MaxAcceptErrors
    /\ errors' = errors + 1
    /\ UNCHANGED <<node, ctrlc, tcp, conn, registered, broker, pending, signalled, cm>>

(* The connection scheduler dials a configured peer.                       *)
Dial(c) ==
    /\ Running
    /\ node \in {"await_cm", "await_broker"}
    /\ c \in Outbound
    /\ conn[c] = "none"
    /\ conn' = [conn EXCEPT ![c] = "spawned"]
    /\ UNCHANGED <<node, ctrlc, tcp, registered, broker, pending, signalled, cm, errors>>

-----------------------------------------------------------------------------
(* A connection's replicator (replicator.rs `run`).                        *)

Register(c) ==
    /\ Running
    /\ conn[c] = "spawned"
    /\ conn' = [conn EXCEPT ![c] = "running"]
    /\ registered' = registered \cup {c}
    /\ UNCHANGED <<node, ctrlc, tcp, broker, pending, signalled, cm, errors>>

(* The session ends by itself: cancel, error, timeout, or a failed `?`.    *)
SessionEnds(c) ==
    /\ Running
    /\ conn[c] = "running"
    /\ conn' = [conn EXCEPT ![c] = "done"]
    /\ UNCHANGED <<node, ctrlc, tcp, registered, broker, pending, signalled, cm, errors>>

(* Mutant: the terminate branch of the select does not leave the loop.    *)
ReadTerminateContinue(c) ==
    /\ Running
    /\ conn[c] = "running"
    /\ c \in signalled
    /\ UNCHANGED vars

(* select_biased! reads ch_terminate first: the session is terminated,    *)
(* SessionConcluded is broadcast and ch_terminated acknowledges.          *)
ReadTerminate(c) ==
    /\ Running
    /\ conn[c] = "running"
    /\ c \in signalled
    /\ conn' = [conn EXCEPT ![c] = "done"]
    /\ UNCHANGED <<node, ctrlc, tcp, registered, broker, pending, signalled, cm, errors>>

-----------------------------------------------------------------------------
(* The broker and the connection manager (outside src/; spec.md §4.1).     *)

HandleTerminate ==
    /\ Running
    /\ broker = "running"
    /\ pending
    /\ pending' = FALSE
    /\ signalled' = {a \in registered : Terminable(a)}
    /\ broker' = "awaiting"
    /\ UNCHANGED <<node, ctrlc, tcp, conn, registered, cm, errors>>

AcksReceived ==
    /\ Running
    /\ broker = "awaiting"
    /\ \A a \in signalled : conn[a] = "done"
    /\ broker' = "ended"
    /\ UNCHANGED <<node, ctrlc, tcp, conn, registered, pending, signalled, cm, errors>>

(* The connection manager is a terminable actor of the broker: its loop   *)
(* ends once Terminate has been handled.                                   *)
CmEnds ==
    /\ Running
    /\ cm = "running"
    /\ broker # "running"
    /\ cm' = "ended"
    /\ UNCHANGED <<node, ctrlc, tcp, conn, registered, broker, pending, signalled, errors>>

(* main returns with start's result; nothing runs any more.                *)
Exited ==
    /\ ~Running
    /\ UNCHANGED vars

-----------------------------------------------------------------------------

Init ==
    /\ node = "open_kv"
    /\ ctrlc = "none"
    /\ tcp = "none"
    /\ conn = [c \in Conns |-> "none"]
    /\ registered = {}
    /\ broker = "running"
    /\ pending = FALSE
    /\ signalled = {}
    /\ cm = "running"
    /\ errors = 0

NodeStep ==
    OpenKv \/ OpenBlobs \/ SpawnCtrlc \/ SpawnTcp \/ SpawnScheduler \/ AwaitCm \/ AwaitBroker

(* Steps of tasks the executor polls as soon as they are ready.           *)
Scheduled ==
    \/ NodeStep \/ CtrlcRegister \/ TcpRegister \/ Bind
    \/ HandleTerminate \/ AcksReceived \/ CmEnds
    \/ \E c \in Conns : Register(c) \/ ReadTerminate(c)

(* Steps that wait on the operator, the network or a peer.                *)
External ==
    \/ Shutdown \/ CtrlC \/ AcceptError
    \/ \E c \in Conns : Accept(c) \/ Dial(c) \/ SessionEnds(c)

Next == Scheduled \/ External \/ Exited

Fairness ==
    /\ WF_vars(NodeStep)
    /\ WF_vars(CtrlcRegister \/ TcpRegister \/ Bind)
    /\ WF_vars(HandleTerminate \/ AcksReceived \/ CmEnds)
    /\ \A c \in Conns : WF_vars(Register(c) \/ ReadTerminate(c))

Spec == Init /\ [][Next]_vars /\ Fairness

-----------------------------------------------------------------------------
(* Properties.                                                             *)

(* A Terminate, from Ctrl-C or Node::shutdown, is followed by the return  *)
(* of Node::start, whatever the sessions, the listener and the dialled    *)
(* peers do in between.                                                    *)
ShutdownCompletes == pending ~> ~Running

====
