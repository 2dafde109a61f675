# TLA+ models of the solar replication node

This directory holds TLA+ models of the core of solar, a Secure Scuttlebutt
replication node. It holds the modules, the TLC configurations that check them,
and `PROJECT.json`. `PROJECT.json` lists every component, every run, every
mutant, the source lines each definition models, the findings and the hazards.

## 1. Inventory

### Components and the state they keep

| Component | Source | State | Operations |
|---|---|---|---|
| EBT replicator loop | `solar/src/actors/replication/ebt/replicator.rs` | `session_initiated`, `active_req_no`, `ebt_session_start`, the connection's RPC reader/writer, its broker endpoint | send `ebt.replicate` (requester), `select_biased!` over terminate / network / broker, handler call, Error broadcast, responder timeout check, `SessionConcluded` broadcast |
| EBT MUXRPC handler | `solar/src/actors/muxrpc/ebt.rs` | `active_request` | `recv_ebtreplicate` (validates version and format), `recv_other_request`, `recv_rpc_response` (clock or message), `recv_cancelstream`, `recv_error_response`, broker `TerminateSession`, `SendClock`, `SendMessage` |
| Handler interface | `solar/src/actors/muxrpc/handler.rs` | none | `RpcInput` = None / Timer / Network / Message |
| Blob wants handler | `solar/src/actors/muxrpc/blobs_wants.rs` | `initialized`, `my_wants_req_no`, `peer_wants_req_no`, `peer_wants: blob → Pending / Requested(n) / Available` | Timer opens `blobs.createWants`; `recv_create_wants`, `recv_wants`, `recv_haves`, `recv_blobs_get`, broker `RpcBlobsWants` and `StoreBlob` |
| KV store | `src/storage/kv.rs` | sled keys by prefix: latest seq, message KVT, message value, blob status, peer | `append_feed`, `set_blob`, `get_blob`, `get_pending_blobs`, `get_latest_seq`, `get_msg_kvt`, `get_msg_val`, `get_latest_msg_val`, `set_peer`, `get_peers` |
| Node | `solar/src/node.rs` | `KV_STORE`, `BLOB_STORE` (process-wide RwLocks) | `start` opens the stores and spawns the actors; `shutdown` broadcasts `Terminate` |
| Ctrl-C actors | `solar/src/actors/ctrlc.rs`, `src/actors/ctrlc.rs` | none | on SIGINT, broadcast `Terminate` |
| TCP server | `solar/src/actors/network/tcp_server.rs` | listener | registers with `terminate? = false`, binds, and loops: spawns a connection actor per accepted stream, skips accept errors |
| Client examples | `solar_client/examples/*.rs` | none | JSON-RPC queries |

Seven things are outside `src/` and are modelled from `spec.md` and their
documented behaviour (marked `spec_modelled` in the map):
- the broker: broadcast to every registered actor; `Terminate` signals the
  `ch_terminate` of every actor registered with `terminate? = true`, and the
  loop ends once all of them have acknowledged;
- the connection manager's loop, which ends once `Terminate` has been handled,
  and the connection scheduler, which dials configured peers;
- kuska_ssb's RPC writer: the first request gets number 1; `send_response` and
  `send_error` negate the number they are given; `send_stream_eof` writes its
  number unchanged;
- the EBT manager, which answers `SessionInitiated` and `ReceivedClock` with
  `SendClock` and `SendMessage`;
- sled: an insert is seen by every reader at once and is durable once flushed;
  `flush_every_ms` flushes in the background; recovery after a crash keeps the
  inserts up to the first one that did not reach disk;
- kuska_ssb's message value: an author, a sequence number and an id that
  differs for different contents.

### How the components interact

- **Broker broadcasts.** Every actor registered with the broker receives every
  broadcast, including its own.
  - A replicator publishes `SessionInitiated`, `ReceivedClock`,
    `ReceivedMessage`, `Error`, `SessionTimeout` and `SessionConcluded`.
  - The EBT manager publishes `SendClock`, `SendMessage` and `TerminateSession`.
  - Every replicator reads all of these and filters them by connection id. It
    filters `SessionInitiated` by **peer id**, not by connection id.
  - The blob wants handlers of different connections talk to each other through
    `RpcBlobsWants`. The blob store reaches them through `StoreBlob`.
- **MUXRPC streams.** Request numbers carry direction in their sign. A
  requester's frames on a duplex stream carry +n and a responder's carry −n.
- **Shared stores.** `KV_STORE` and `BLOB_STORE` are process-wide `RwLock`s.
  `append_feed` emits `IdChanged` after its flush.

### What is hard

- **Interleaving through the broker.** A replicator learns that its own session
  started only when its own `SessionInitiated` comes back through the broker.
  That event can sit in the inbox behind other events. Meanwhile
  `select_biased!` serves network frames before broker messages.
- **Timeouts.** The responder's session-wait timeout is checked only after an
  input has been handled.
- **Cross-connection state.** The same peer can be behind two connections.
- **Sign conventions.** The handler pre-negates the request number, and the RPC
  writer negates it again.
- **Unreliable peers.** A peer can send frames on other streams, send
  duplicates, cancel or err at any time, or stay silent.
- **Blob wants.** State must be present on both channels before it is read:
  there are `unwrap()`s on request numbers that may not be set yet. A blob can
  be re-requested. A blob whose hash does not match is still stored.
- **KV store.** `append_feed` checks and then writes through four separate sled
  inserts. A crash between two of the inserts leaves dangling references.
  `get_pending_blobs` range-scans past the blob prefix.

### Properties that make each component correct

- **EBT session:**
  - the wire sign of every frame matches the session role;
  - `active_request` is constant once set (fails with one peer on two
    connections);
  - nothing is written after an end-of-stream frame;
  - termination leads to `SessionConcluded`;
  - only version-3 "classic" requests start a session, and a malformed request
    ends the session with an error rather than killing the task;
  - `SessionTimeout` is only sent when no request came in time;
  - only the session's own stream is read as clocks and closed;
  - a responder without a request eventually times out.
- **Blob wants:**
  - no unwrap on an unset request number;
  - an `Available` entry is in the store (fails with a peer that sends other
    bytes; see the observations below; no run keeps it);
  - a want is forwarded to every other connection;
  - a `StoreBlob` for a wanted blob leads to a have.
- **KV store:**
  - the feeds are dense and change as an atomic append would, even across
    crashes (refinement of `FeedStore`);
  - a message announced with `IdChanged` is on disk;
  - after a crash, `get_msg_val` of every stored id returns that message, and
    `get_peers` lists every author with a stored feed;
  - `get_pending_blobs` returns exactly the unretrieved blobs.
- **Node:**
  - `Terminate` always ends `Node::start`;

## 2. Plan

1. **`EbtSession`** (done). It models the replicator loop and the EBT handler
   for a set of connections, composed through a broker model. One replicator is
   checked at a time, with the rest of the node as environment; the shared-peer
   run composes two replicators. The foreign-stream run also covers the
   cancel/error of another stream (`ebt.rs:340,359`) and the end-of-stream on
   request number 0 (`ebt.rs:98-103`).
2. **`BlobsWants`** (done). It models the blob wants handler of two
   connections, composed through the broker with the shared blob store, which
   emits `StoreBlob`. Checked: the unwraps at `blobs_wants.rs:213,273`,
   "Available ⇒ in store", and liveness of forwarding and of have
   announcements. Left: a run where the peer's createWants number collides with
   ours (`blobs_wants.rs:133-141`).
3. **`KvStore` and `FeedStore`** (done). `append_feed` as its four sled inserts
   and awaited flush, `set_blob`, and crashes that keep a prefix of the
   un-flushed inserts. The feeds are shown to refine the abstract `FeedStore`
   with `INSTANCE ... WITH`.
4. **An abstract `EbtSessionSpec`**: a session goes Opening → Active → Closed /
   TimedOut, with one request number. `EbtSession`, restricted to one
   connection with a distinct peer, is to be shown to refine it. The
   refinement is expected to fail exactly on the timeout race.
5. **`NodeShutdown`** (done). `Node::start`, the ctrlc actor, the TCP server's
   accept loop and replicator registration, composed through the broker's
   `Terminate`/acknowledgement protocol.
6. Two concurrent `append_feed` calls without the write lock
   (`kv.rs:262`), should a caller in this repository ever make them.

## 3. Modules and runs

### `EbtSession.tla`: replicator loop and EBT handler

**Variables and where they come from in the code.**
- `pc` is the position of the task. `start` is before the requester's
  `ebt_replicate_req_send`; `loop`; `conclude` is after `break`; `done` is after
  `SessionConcluded`.
- `session_initiated`, `active_req_no` and `active_request` are the code's
  variables of the same names. `None` is written as 0; a real request number is
  positive.
- `expired` stands for `ebt_session_start.elapsed() >= session_wait_timeout`.
  `Tick` makes it true; only a responder reads it.
- `terminate` is the fused `ch_terminate`.
- `net` holds the decoded frames of a connection. The decoding is kuska's and
  is not modelled.
- `inbox` is each replicator's `ch_msg`.
- `out` holds the frames written, with their wire request numbers.
- `log` is the set of everything broadcast.
- The ghosts `peer_req` and `accepted` record the peer's request and the
  request the handler accepted: its version, and whether it came before the
  timeout.

**Actions.** There is one action per input branch of the `select_biased!`:
`ReadTerminate`, `ReadNetwork` and `ReadBroker`. Their guards give the select's
priority. Each calls `Process`, the loop body after the select, which does three
things:
- it calls `Handle` (`EbtReplicateHandler::handle`, one operator per `recv_*` and
  broker branch, returning a `Result` record);
- on `Err` it broadcasts `Error`;
- it runs the responder timeout check.

`Start` sends the requester's request. `Conclude` broadcasts `SessionConcluded`.

**Environment.**
- `PeerSend`: a compliant peer. A responder's peer first sends one
  `ebt.replicate`; after that, clocks, messages, invalid bodies, cancels and
  errors.
- `Manager`: `SendClock`, `SendMessage` or `TerminateSession` for a request
  number the log has announced.
- `OtherSession`: the `SessionInitiated` / `SessionConcluded` of other
  connections.
- `Signal`: the broker's `Terminate`, sent to all replicators at once.
- `Tick`: the clock.

**Abstractions.**
- A body is one of `clock`, `msg` and `invalid`. Clocks and messages have no
  contents.
- Versions are integers. Rust's `!version == 3` on a u32 is
  `U32NotEquals`, written so that TLC's 32-bit integers never overflow.
- The loop's break on a `SessionConcluded` of its own connection is left out.
  Only that same replicator broadcasts the event, and only after it has left the
  loop, so the branch is unreachable.
- `RpcInput::None` (the broker channel closed) is not modelled.

**Fairness.** Weak fairness on each replicator's steps: the async executor polls
every task whose future is ready. Weak fairness on `Tick`: the monotonic clock
advances. The peers, the manager, other sessions and the operator get no
fairness, because they owe the node nothing.

**Deadlock.** Checking is off (`CHECK_DEADLOCK FALSE`). A session waits for as
long as its peer is silent, so a state with no enabled step is a real state of
the program.

| Run | Checks | Result | What it shows |
|---|---|---|---|
| `ebt_requester` | TypeOK, WireSignMatchesRole, NothingAfterEof | pass (133k states) | A requester session's clocks and messages go out on +1. After an end-of-stream frame it writes nothing more, whichever of the two cancel paths wrote it and whatever broker events are still queued. |
| `ebt_responder` | WireSignMatchesRole, TerminateConcludes | pass (199k states) | A responder answers on −n, where n is the peer's request number. Once terminated, it always concludes. |
| `ebt_version` | ReplicateRequestValidated | violation | Two code bugs, each reachable on its own. `!args.version == 3` accepts version 2. An args array `[]` makes `args.pop().unwrap()` (`ebt.rs:212`) panic, and the task dies without `Error` or `SessionConcluded` (3 states). The args shape is a constant `ReqArgs`: one element, `[]`, or undecodable (the `?` at `ebt.rs:208`, which ends the session with `Error`). |
| `ebt_session_timeout` | ResponderTimeoutAsSpecified | violation | Spec scenario 5, both ways, in one property: a timeout only without a valid request in time (an action property), and a timeout whenever there was none (a leads-to). Both fail, each on its own. (1) The request is accepted before the timeout, but its `SessionInitiated` echo is still queued behind another broker event, so the check sees `session_initiated = false` and broadcasts `SessionTimeout` for a live session. TLC reports this one. (2) The timeout is checked only after an input, so a responder whose peer stays silent, with no broker traffic, waits forever. |
| `ebt_foreign_clock` | SessionStreamIsolated | violation | The session is fed and closed by streams other than its own. `recv_other_request` reads a request-direction frame on any stream as a vector clock, and `recv_cancelstream` answers a cancel of any stream and ends the session. TLC's shortest trace: Ctrl-C before the peer's request, so `TerminateSession` writes end-of-stream on request number 0 (`-active_request` with `active_request` 0). Each of the three cases is reachable on its own. |
| `ebt_shared_peer` | ActiveRequestStable | violation | Two connections to the same peer. The requester on c1 adopts the responder's `SessionInitiated` from c2 (matched by peer id) and overwrites its `active_request`. |

**Bounds.**
- Each peer sends at most 3 frames. That is enough for a request followed by
  two data, cancel or error frames, so both the "clock, then the manager
  answers" and the "cancel after data" orders happen.
- At most 2 events come from the manager and other sessions, so an answer can
  follow an unrelated broadcast.
- Request numbers are 1 for the requester and {2} for the peer, and another
  session uses a different number. With distinct numbers, adopting the wrong
  session is visible.
- The mutants confirm that these bounds reach the interesting behaviours: each
  property's mutant is found within a few thousand states.

### `BlobsWants.tla`: blob want/have/get handler

**Variables.**
- `initialized`, `my_wants_req_no`, `peer_wants_req_no` and `peer_wants` are the
  fields of `BlobsWantsHandler`, one per connection. `None` is 0. A key missing
  from the `HashMap` is the entry `Absent`.
- `next_req` is the connection's request counter. `Timer` (createWants) and
  `recv_haves` (blobs.get) take numbers from it.
- `store` holds the ids in `BLOB_STORE`. It starts as `InitialStore`.
- `net` holds the peer's decoded frames and `inbox` the connection's broker
  messages. `out` holds the frames written, in order.
- `panicked` records which `unwrap` ended the connection's handler task.
- For the environment: `peer_no` (the peer's createWants number) and
  `peer_sent`.

**Actions.**
- `Timer`, `HandleNetwork` and `HandleMessage` are the three input kinds of
  `handle`. `HandleNetwork` classifies a response by number, in the code's order:
  `my_wants_req_no` (`RecvWants`), `peer_wants_req_no` (`RecvHaves`), a
  `Requested` entry (`RecvBlobsGet`), otherwise dropped.
- `RecvHaves` numbers its `blobs.get` requests in any order of the announced
  ids, because a `HashMap` iterates in an unspecified order.
- `RecvBlobsGet` inserts the bytes under their own hash and emits `StoreBlob`
  in the same step. The insert holds the store's write lock across the emit.
- A step is a whole call of `handle`, because the connection actor hands its
  handler one input at a time. Other connections' steps can fall between two
  calls, never inside one. The only awaits inside a call that others observe
  are store reads and writes, which the lock orders.
- Peers (`Peer`): the remote peer of a connection.
  - It opens its createWants stream once.
  - It sends wants once it has seen our createWants, and haves on its own
    stream.
  - It answers a `blobs.get` with the bytes of the blob asked for; a dishonest
    peer (`Honest = FALSE`) may send the bytes of any blob.

**Fairness.** Each connection's handler is weakly fair: the connection actor
calls it while an input is pending. Peers get no fairness.

**Deadlock.** Checking is off: a connection waits for a silent peer.

| Run | Checks | Result | What it shows |
|---|---|---|---|
| `blobs_honest` | TypeOK, WantsForwarded, HaveAnnounced | pass (28k states) | With honest peers, an unsatisfied want reaches the other peer. A wanted blob that reaches the store is announced to its peer, unless the handler died. |
| `blobs_panic` | NoHandlerPanic | violation | The peer sends wants before its createWants request, and the handler panics at `peer_wants_req_no.unwrap()` (4 states). The same property also catches c1's `RpcBlobsWants` reaching c2 before c2's first Timer, where c2 panics at `my_wants_req_no.unwrap()` (7 states, when the shorter trace is excluded). |

**Bounds.** The runs use two connections.
- `blobs_honest` uses two blobs, with b2 in the store. That lets a wants map
  split into haves and unsatisfied wants, and lets `recv_haves` number two
  requests. `blobs_panic` uses one blob and a dishonest peer, so the
  mismatched-bytes path of `recv_blobs_get` is explored too.
- The peers send 4 frames in total in `blobs_honest`. That covers one
  connection's whole createWants, wants, haves and blob exchange, while the
  other connection forwards the want. `blobs_panic` allows 5.
- The peer's createWants number (7) is kept apart from ours. Collisions are
  left to a later run.
- Each property's mutant is found under these bounds. Probes confirm that an
  entry becomes Available, that a have follows a fetch, that a non-empty want
  is forwarded, and that two `blobs.get` are sent on one connection.

**Observations no run keeps.** Earlier versions of the project had three more
violation runs, which gave way to the KV store runs. What they showed is still
in the code:
- a peer that answers `blobs.get(b1)` with the bytes of b2 gets b2 stored and
  b1 marked Available (`blobs_wants.rs:336`; spec.md §9 leaves it open);
- a second have for b1 sends a second `blobs.get`, because `recv_haves` acts on
  any entry that is not absent (`blobs_wants.rs:303`);
- a have from peer 2 for a blob only peer 1 wants is never fetched, because
  forwarded wants are not recorded (`blobs_wants.rs:303`, against the sequence
  diagram at `blobs_wants.rs:32-80`).

### `KvStore.tla` and `FeedStore.tla`: the key-value store

**State.** `db` is the sled tree as every reader sees it: a function from keys
to values. A key is a tuple whose first element is the prefix byte
(`kv.rs:7-16`), followed by the id. Authors and blob ids are numbers, so
that the order of the tuples is sled's byte order. `durable` is the part on
disk, and `log` holds the inserts since the last flush, in order.
- `writing` is the message whose `append_feed` holds the `KV_STORE` write lock,
  from the sequence check to the `IdChanged` broadcast. spec.md §5 says store
  writes are serialized, so at most one append is in flight.
- `ret` is the last result of `append_feed`.
- The ghost `announced` holds the messages whose `IdChanged` was sent.
- `crashes` counts crashes.

**Actions.**
- `AppendFeed` is `append_feed` up to `flush_async`: the sequence check
  (`get_latest_seq(..).map_or(0) + 1`) and the four inserts in the code's order
  (value, KVT, latest seq, and the peer entry of `set_peer`).
- `AppendFeedInvalid` is the `InvalidSequence` early return.
- `FlushDone` is the awaited flush, the `IdChanged` broadcast and `Ok(seq)`.
- `set_blob` inserts a status and does not flush.
- `BackgroundFlush` is sled writing a prefix of the log.
- `Crash` kills the process and restarts it (`Node::start` reopens the store on
  the durable tree plus a prefix of the log).

**Readers.** The readers are operators over a tree, used by the properties:
`get_latest_seq`, `get_msg_kvt`, `get_msg_val`, `get_latest_msg_val`,
`get_blob` and `get_peers` (the peer keys, each with the author's latest seq
plus one). `get_msg_val` and `get_latest_msg_val` return `Panic` where the code unwraps a missing KVT. The recursive
`PendingScan` walks `db.range([PREFIX_BLOB]..)` in key order and stops at the
first value that is not a `BlobStatus`. A peer value is eight bytes of
sequence number, which CBOR reads as the integer 0. Readers take the read lock,
so the properties about reads hold when no append is in flight.

**Refinement.** `FeedStore` is what the store promises its callers. Each
author's feed is a dense sequence, extended only by the next message. An append
in flight when the node crashes is kept or lost whole; a returned append is
kept. `KvStore` maps to it through `INSTANCE FeedStore WITH`:
- `feeds[a]` is the KVTs 1..latest seq of `a`, read from `db`;
- `inflight` is the author of `writing`.

`FeedStoreRefined` is checked as a temporal property.

**Fairness and deadlock.** No liveness is claimed, so `Spec` has no fairness.
`AppendFeedInvalid` is always enabled, so the model never deadlocks.

| Run | Checks | Result | What it shows |
|---|---|---|---|
| `kv_store` | TypeOK, AnnouncedDurable, FeedStoreRefined | pass (141k states) | Across two crashes that keep any prefix of the un-flushed inserts, the feeds behave as the atomic `FeedStore`, and a message whose `IdChanged` was sent is never lost. The order of the inserts (KVT before latest seq) and the prefix recovery are what make this hold. |
| `kv_crash` | AppendAtomicAcrossCrash | violation | spec.md §4.2 says `append_feed` persists its four entries atomically; the code inserts them one by one. A crash after the first insert leaves a value key whose KVT is missing, and `get_msg_val` panics at `kv.rs:202` (3 states). Other outcomes: the crash drops latest seq, the same seq is published again with other content, and `get_msg_val` of the first id returns the second message; or the crash drops only the peer entry (`set_peer` does not flush, see its TODO), and `get_peers` leaves out an author whose feed is stored (25 states when that half is checked alone). |
| `kv_pending_blobs` | PendingBlobsMatchReference | violation | After one `append_feed`, the scan reaches the peer key and `get_pending_blobs` fails, while the reference (the unretrieved blob ids in order) is empty. |

**Bounds.**
- One author, sequence numbers up to 2 and two contents. That allows a second
  append, and a re-publish of a seq with other content after a crash.
- Two blobs, so the scan has more than one blob key to order.
- At most 2 crashes, and at most 2 un-flushed `set_blob` inserts.
- Two authors would add only interleavings of unrelated keys (the lock
  serializes appends): 934k states with one crash, and 2.5 minutes.
- Each mutant is found in at most 23 states:
  - inserting latest seq before the KVT breaks the refinement;
  - storing the seq before its `+ 1` breaks TypeOK;
  - broadcasting `IdChanged` before the flush breaks `AnnouncedDurable`.

### `NodeShutdown.tla`: start-up, the TCP server, Ctrl-C and shutdown

**State.**
- `node` is the await point of `Node::start`: the store openings, the spawns,
  the await of the connection manager's loop and then of the broker's loop, and
  its end (`finished` is "Gracefully finished"; `failed` is a `?` that
  returned Err).
- `ctrlc` and `tcp` are the positions of the ctrlc actor and of the TCP server
  task.
- `conn[c]` is the life of connection `c`'s replicator: spawned by the accept
  loop or by the scheduler, registered (`run` calls `register(.., true)`), and
  done.
- `registered`, `pending`, `signalled` and `broker` are the broker (outside
  `src/`, from spec.md §4.1): who registered, a queued `Terminate`, whom the
  `Terminate` signalled, and its loop: running, awaiting acks, ended.
- `cm` is the connection manager's loop. `errors` counts `Some(Err)` from
  `incoming`.

**Actions.**
- `OpenKv`, `OpenBlobs`, `SpawnCtrlc`, `SpawnTcp`, `SpawnScheduler`, `AwaitCm`
  and `AwaitBroker` are the steps of `Node::start`. `OpenKv` and `SpawnTcp`
  may fail, as their `?` may.
- `Shutdown` is `Node::shutdown`.
- `CtrlcRegister` and `CtrlC` are the ctrlc actor.
- `TcpRegister`, `Bind` (which may fail), `Accept` and `AcceptError` are the TCP
  server.
- `Register`, `SessionEnds` and `ReadTerminate` are a replicator: its
  registration, its exit for any reason of its own, and its exit through the
  `ch_terminate` branch of `select_biased!`.
- `HandleTerminate`, `AcksReceived` and `CmEnds` are the broker and the
  connection manager; `Dial` is the connection scheduler.
- `Exited`: once `start` has returned, `main` returns and nothing runs.

A replicator's exit counts as its acknowledgement. `run` sends on
`ch_terminated`, and an early `?` return or a panic drops the sender, which
also completes the broker's wait. So the panic found by `ebt_version` does not
block shutdown.

The TCP server registers with `terminate? = false`, so the broker never signals
it. async-std's `Incoming` never yields `None`. Its two `break`s and the
`ch_terminated` send after the loop are therefore unreachable while the broker
runs, and the model leaves them out.

**Fairness.** Every step of a task that the executor can poll is weakly fair:
the steps of `start`, the registrations and `Bind`, the broker and the
connection manager, and each replicator's `Register` and `ReadTerminate`. The
operator (`CtrlC`, `Shutdown`), the listener (`Accept`, `AcceptError`), the
scheduler (`Dial`) and the peers (`SessionEnds`) get no fairness.

| Run | Checks | Result | What it shows |
|---|---|---|---|
| `node_shutdown` | ShutdownCompletes | pass (2k states) | A `Terminate` from Ctrl-C or `Node::shutdown` ends `Node::start` at any point of start-up, while connections are accepted, dialled, failing and ending. A signalled session that never acknowledged would keep the broker, and so `start`, waiting; the property rules that out. |

**Bounds.** One accepted and one dialled connection, and one failed accept.
That is enough for a connection to register before the signal round and one
after it, and for every order of Ctrl-C against the spawns.

Mutant: a terminate branch of the replicator that stays in the loop (never
acknowledges) breaks `ShutdownCompletes`.

No type invariant is checked here: every field is a finite enumeration the
actions assign literally, and the only relational conjunct (`signalled` is a
subset of `registered`) restates the broker's definition, which is outside
`src/`.

**Not checked.** A connection accepted after the signal round registers
unsignalled and is cut off when `main` returns, without its
`SessionConcluded`. Whether the broker accepts such a late registration is in
code outside `src/`, so no property claims either outcome.

## 4. Not modelled, and why

- The client examples and the handshake are pure I/O. The JSON-RPC server and
  LAN discovery actors that `Node::start` may spawn are outside `src/`; their
  spawns are part of `SpawnScheduler`.
- MUXRPC frame encoding is kuska's code, outside `src/`.
- Feed message validation and vector-clock contents are data the EBT
  properties do not tell apart.
- In `KvStore`: CBOR and KVT encoding, of which only "a peer value is not a `BlobStatus`"
  matters. The model does not cover concurrent appends without the write lock,
  because the callers of `append_feed` are not in this repository.
- In `BlobsWants`, the distance carried with a want (nothing reads it back),
  the `ErrorResponse` branch of `handle` (it changes no state; the peers send no
  errors), and the unwrap of `peer_wants_req_no` in `event_stoblob_added` (an
  entry exists only after `recv_wants` passed the same unwrap).
