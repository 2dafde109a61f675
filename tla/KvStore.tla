------------------------------- MODULE KvStore -------------------------------
(***************************************************************************)
(* The sled-backed key-value store of src/src/storage/kv.rs.              *)
(*                                                                         *)
(* The key space is prefix-partitioned (kv.rs:7-16, 88-129); a key is a    *)
(* tuple whose first element is the prefix byte, and sled's byte order of  *)
(* keys is the order of these tuples (prefix first, then the id).          *)
(*                                                                         *)
(* Each db.insert changes the tree at once, but it is durable only once    *)
(* flushed.  The store keeps the view every reader sees (db), the durable  *)
(* contents (durable) and the inserts made since the last flush (log).  A  *)
(* crash restarts the node on the durable contents plus a prefix of the    *)
(* log: sled recovers its log up to the first write that did not reach     *)
(* disk, and its background flusher may have written any prefix.           *)
(*                                                                         *)
(* append_feed runs under the write lock of KV_STORE (node.rs:22-23,       *)
(* spec.md §5): writes are serialized, so at most one append is in flight, *)
(* held from its sequence check to its IdChanged broadcast (writing).      *)
(***************************************************************************)
EXTENDS Integers, Sequences, SequencesExt

CONSTANTS
    Authors,     \* feed authors (numbers: their order is the key order)
    Blobs,       \* blob ids (numbers, likewise)
    Contents,    \* message contents: two messages of one seq differ in it
    MaxSeq,      \* bound on the sequence numbers tried
    MaxCrashes,  \* bound on crashes
    MaxUnflushed, \* bound on the un-flushed inserts set_blob may add to
    None,        \* model value: Option::None, and "no append in flight"
    Panic        \* model value: the reader panicked on an unwrap

PREFIX_LATEST_SEQ == 0
PREFIX_MSG_KVT == 1
PREFIX_MSG_VAL == 2
PREFIX_BLOB == 3
PREFIX_PEER == 4

(* A message value; its id (the hash) is the message itself.              *)
Msgs == [author : Authors, seq : 1..MaxSeq, content : Contents]

key_latest_seq(a) == <<PREFIX_LATEST_SEQ, a>>
key_msg_kvt(a, s) == <<PREFIX_MSG_KVT, s, a>>
key_msg_val(m) == <<PREFIX_MSG_VAL, m>>
key_blob(b) == <<PREFIX_BLOB, b>>
key_peer(a) == <<PREFIX_PEER, a>>

VARIABLES
    db,         \* the tree as readers see it: a function from keys
    durable,    \* the part of it on disk
    log,        \* inserts since the last flush: <<key, value>> pairs
    writing,    \* the message whose append_feed holds the lock, or None
    ret,        \* the result of the last append_feed: "none", "Ok", "InvalidSequence"
    announced,  \* ghost: the messages whose IdChanged was broadcast
    crashes     \* number of crashes so far

vars == <<db, durable, log, writing, ret, announced, crashes>>

(* db.insert(k, v), and a sequence of them applied in order.              *)
Insert(f, w) == (w[1] :> w[2]) @@ f
ApplyAll(f, ws) == FoldLeft(Insert, f, ws)

-----------------------------------------------------------------------------
(* Readers.                                                                *)

get_latest_seq(t, a) ==
    IF key_latest_seq(a) \in DOMAIN t THEN t[key_latest_seq(a)] ELSE None

get_msg_kvt(t, a, s) ==
    IF key_msg_kvt(a, s) \in DOMAIN t THEN t[key_msg_kvt(a, s)] ELSE None

(* .map_or(0, |num| num) of get_latest_seq.                                *)
LatestOrZero(t, a) ==
    IF get_latest_seq(t, a) = None THEN 0 ELSE get_latest_seq(t, a)

(* get_msg_val: the value key holds (pub_key, seq_num); the KVT it names   *)
(* is unwrapped, so a missing KVT panics.                                  *)
get_msg_val(t, m) ==
    IF key_msg_val(m) \notin DOMAIN t THEN None
    ELSE LET r == t[key_msg_val(m)]
         IN  IF get_msg_kvt(t, r.pub_key, r.seq_num) = None THEN Panic
             ELSE get_msg_kvt(t, r.pub_key, r.seq_num)

(* get_blob: the decoded status, or None.                                  *)
get_blob(t, b) == IF key_blob(b) \in DOMAIN t THEN t[key_blob(b)] ELSE None

(* get_latest_msg_val: the KVT of the latest seq is unwrapped likewise.    *)
get_latest_msg_val(t, a) ==
    IF get_latest_seq(t, a) = None THEN None
    ELSE IF get_msg_kvt(t, a, get_latest_seq(t, a)) = None THEN Panic
    ELSE get_msg_kvt(t, a, get_latest_seq(t, a))

(* db.range(&[PREFIX_BLOB]..): every key from the blob prefix on, in key   *)
(* order; the peer keys (prefix 4) come after the blob keys.               *)
KeyBefore(k1, k2) == k1[1] < k2[1] \/ (k1[1] = k2[1] /\ k1[2] < k2[2])
ScanFrom(t, p) == SetToSortSeq({k \in DOMAIN t : k[1] >= p}, KeyBefore)

Ok(v) == [ok |-> TRUE, val |-> v]
Err == [ok |-> FALSE, val |-> << >>]

(* get_pending_blobs: each scanned value is decoded as a BlobStatus and    *)
(* the first that fails to decode ends the scan with the error (the `?`).  *)
(* A peer value is eight sequence bytes, which CBOR reads as the integer 0 *)
(* and serde rejects as a BlobStatus.                                      *)
RECURSIVE PendingScan(_, _, _)
PendingScan(t, keys, list) ==
    IF keys = << >> THEN Ok(list)
    ELSE LET k == Head(keys)
         IN  IF k[1] # PREFIX_BLOB THEN Err
             ELSE IF ~t[k].retrieved
                  THEN PendingScan(t, Tail(keys), Append(list, k[2]))
                  ELSE PendingScan(t, Tail(keys), list)

get_pending_blobs(t) == PendingScan(t, ScanFrom(t, PREFIX_BLOB), << >>)

(* get_peers: every key of db.range(&[PREFIX_PEER]..), in key order, with  *)
(* the author's latest seq (or 0) plus one.  The peer keys are the last    *)
(* prefix, so the scan meets nothing else.                                 *)
get_peers(t) ==
    LET ks == ScanFrom(t, PREFIX_PEER)
    IN  [i \in DOMAIN ks |-> [pub_key |-> ks[i][2],
                              seq_num |-> LatestOrZero(t, ks[i][2]) + 1]]

-----------------------------------------------------------------------------
(* Writers.                                                                *)

(* KvStorage::open on a fresh database.                                    *)
Init ==
    /\ db = << >>
    /\ durable = << >>
    /\ log = << >>
    /\ writing = None
    /\ ret = "none"
    /\ announced = {}
    /\ crashes = 0

(* Mutant: the latest seq is inserted before the KVT it points to.        *)
AppendWritesLatestFirst(m) ==
    << <<key_msg_val(m), [pub_key |-> m.author, seq_num |-> m.seq]>>,
       <<key_latest_seq(m.author), m.seq>>,
       <<key_msg_kvt(m.author, m.seq), m>>,
       <<key_peer(m.author), m.seq>> >>

(* Mutant: the stored seq is the previous latest, the + 1 forgotten.     *)
AppendWritesStaleSeq(m) ==
    << <<key_msg_val(m), [pub_key |-> m.author, seq_num |-> m.seq - 1]>>,
       <<key_msg_kvt(m.author, m.seq), m>>,
       <<key_latest_seq(m.author), m.seq - 1>>,
       <<key_peer(m.author), m.seq - 1>> >>

(* The four inserts of append_feed, in the order the code makes them.     *)
AppendWrites(m) ==
    << <<key_msg_val(m), [pub_key |-> m.author, seq_num |-> m.seq]>>,
       <<key_msg_kvt(m.author, m.seq), m>>,
       <<key_latest_seq(m.author), m.seq>>,
       <<key_peer(m.author), m.seq>> >>

(* Mutant: IdChanged is broadcast before flush_async is awaited.           *)
AppendFeedAnnounceEarly(m) ==
    /\ writing = None
    /\ m.seq = LatestOrZero(db, m.author) + 1
    /\ db' = ApplyAll(db, AppendWrites(m))
    /\ log' = log \o AppendWrites(m)
    /\ writing' = m
    /\ announced' = announced \cup {m}
    /\ UNCHANGED <<durable, ret, crashes>>

(* append_feed up to flush_async: the sequence check passes and the       *)
(* message value, KVT, latest seq and peer entry are inserted.             *)
AppendFeed(m) ==
    /\ writing = None
    /\ m.seq = LatestOrZero(db, m.author) + 1
    /\ db' = ApplyAll(db, AppendWrites(m))
    /\ log' = log \o AppendWrites(m)
    /\ writing' = m
    /\ UNCHANGED <<durable, ret, announced, crashes>>

(* append_feed returns InvalidSequence before writing anything.           *)
AppendFeedInvalid(m) ==
    /\ writing = None
    /\ m.seq # LatestOrZero(db, m.author) + 1
    /\ ret' = "InvalidSequence"
    /\ UNCHANGED <<db, durable, log, writing, announced, crashes>>

(* flush_async completes; IdChanged is broadcast and Ok(seq) returned.    *)
FlushDone ==
    /\ writing # None
    /\ durable' = db
    /\ log' = << >>
    /\ announced' = announced \cup {writing}
    /\ ret' = "Ok"
    /\ writing' = None
    /\ UNCHANGED <<db, crashes>>

(* set_blob inserts the status and does not flush.                         *)
set_blob(b, retrieved) ==
    /\ writing = None
    /\ Len(log) < MaxUnflushed
    /\ db' = Insert(db, <<key_blob(b), [retrieved |-> retrieved]>>)
    /\ log' = Append(log, <<key_blob(b), [retrieved |-> retrieved]>>)
    /\ UNCHANGED <<durable, writing, ret, announced, crashes>>

(* The process dies (an append in flight is abandoned) and is restarted:  *)
(* open reads the durable tree plus a prefix of the un-flushed inserts.   *)
Crash ==
    /\ crashes < MaxCrashes
    /\ \E n \in 0..Len(log) :
         /\ durable' = ApplyAll(durable, SubSeq(log, 1, n))
         /\ db' = durable'
    /\ log' = << >>
    /\ writing' = None
    /\ ret' = "none"
    /\ crashes' = crashes + 1
    /\ UNCHANGED announced

(* sled's own flusher (flush_every_ms) writes a prefix of the log.        *)
BackgroundFlush ==
    /\ \E n \in 1..Len(log) :
         /\ durable' = ApplyAll(durable, SubSeq(log, 1, n))
         /\ log' = SubSeq(log, n + 1, Len(log))
    /\ UNCHANGED <<db, writing, ret, announced, crashes>>

Next ==
    \/ \E m \in Msgs : AppendFeed(m) \/ AppendFeedInvalid(m)
    \/ FlushDone
    \/ \E b \in Blobs, r \in BOOLEAN : set_blob(b, r)
    \/ BackgroundFlush
    \/ Crash

Spec == Init /\ [][Next]_vars

-----------------------------------------------------------------------------
(* Properties.                                                             *)

Keys ==
    {key_latest_seq(a) : a \in Authors} \cup {key_peer(a) : a \in Authors}
    \cup {key_msg_kvt(a, s) : a \in Authors, s \in 1..MaxSeq}
    \cup {key_msg_val(m) : m \in Msgs} \cup {key_blob(b) : b \in Blobs}

(* The value each kind of key holds.                                      *)
ValueOK(k, v) ==
    CASE k[1] \in {PREFIX_LATEST_SEQ, PREFIX_PEER} -> v \in 1..MaxSeq
      [] k[1] = PREFIX_MSG_KVT -> v \in Msgs
      [] k[1] = PREFIX_MSG_VAL -> v \in [pub_key : Authors, seq_num : 1..MaxSeq]
      [] k[1] = PREFIX_BLOB -> v \in [retrieved : BOOLEAN]

TreeOK(t) == DOMAIN t \subseteq Keys /\ \A k \in DOMAIN t : ValueOK(k, t[k])

TypeOK ==
    /\ TreeOK(db)
    /\ TreeOK(durable)
    /\ \A i \in 1..Len(log) : log[i][1] \in Keys /\ ValueOK(log[i][1], log[i][2])
    /\ writing \in Msgs \cup {None}
    /\ ret \in {"none", "Ok", "InvalidSequence"}
    /\ announced \subseteq Msgs
    /\ crashes \in 0..MaxCrashes

(* Every message whose IdChanged append_feed broadcast is on disk, so no   *)
(* crash can take back a message other actors were told about (spec.md §5:  *)
(* the flush is awaited before IdChanged is emitted).                      *)
AnnouncedDurable ==
    \A m \in announced : get_msg_kvt(durable, m.author, m.seq) = m

(* spec.md §4.2: append_feed persists the KVT, the message value, latest   *)
(* seq and the peer entry atomically.  So, whatever crashes happened, the  *)
(* readers see each append whole: get_msg_val of every stored id returns   *)
(* that message (no panic on the unwrap of kv.rs:202, no other message),   *)
(* and get_peers lists every author with a feed, at its next seq.  Readers *)
(* take the read lock, so no append is half done when they run.            *)
AppendAtomicAcrossCrash ==
    writing = None =>
        /\ \A m \in Msgs : key_msg_val(m) \in DOMAIN db => get_msg_val(db, m) = m
        /\ \A a \in Authors : get_latest_seq(db, a) # None =>
              [pub_key |-> a, seq_num |-> get_latest_seq(db, a) + 1] \in Range(get_peers(db))

(* get_pending_blobs returns the ids of the blobs not yet retrieved, in    *)
(* key order (spec.md §4.2), whatever else the store holds.               *)
PendingBlobsReference(t) ==
    Ok(SetToSortSeq({b \in Blobs : get_blob(t, b) # None /\ ~get_blob(t, b).retrieved}, <))

PendingBlobsMatchReference ==
    writing = None => get_pending_blobs(db) = PendingBlobsReference(db)

(* The feeds the store holds, read through latest seq and the KVTs, behave *)
(* as FeedStore: dense feeds, extended by the next message only, and a     *)
(* crash loses at most the append in flight, whole.                        *)
FS == INSTANCE FeedStore WITH
        feeds <- [a \in Authors |->
                    [i \in 1..LatestOrZero(db, a) |-> get_msg_kvt(db, a, i)]],
        inflight <- IF writing = None THEN None ELSE writing.author

FeedStoreRefined == FS!Spec

====
