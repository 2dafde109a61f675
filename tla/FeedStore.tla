------------------------------ MODULE FeedStore ------------------------------
(***************************************************************************)
(* What the feed part of the key-value store promises (spec.md §4.2 and    *)
(* §7): each author's feed is a dense sequence of messages, extended one   *)
(* message at a time by append_feed when the message's sequence number is  *)
(* the next one, and an append that has returned survives a crash.  Only   *)
(* the append in flight when the node crashes may be lost.                 *)
(***************************************************************************)
EXTENDS Integers, Sequences

CONSTANTS
    Authors,    \* feed authors
    Msgs,       \* messages: records with an author and a seq field
    None        \* no append in flight

VARIABLES
    feeds,      \* feeds[a]: the messages of a, in sequence order
    inflight    \* the author whose append has not returned yet, or None

vars == <<feeds, inflight>>

Init ==
    /\ feeds = [a \in Authors |-> << >>]
    /\ inflight = None

(* append_feed accepts the next message of a feed and writes it.           *)
AppendMsg(m) ==
    /\ inflight = None
    /\ m.seq = Len(feeds[m.author]) + 1
    /\ feeds' = [feeds EXCEPT ![m.author] = Append(@, m)]
    /\ inflight' = m.author

(* append_feed returns: the message is durable.                            *)
Return ==
    /\ inflight # None
    /\ inflight' = None
    /\ UNCHANGED feeds

(* The node crashes: the append in flight survives or is lost whole.      *)
Crash ==
    /\ \/ UNCHANGED feeds
       \/ /\ inflight # None
          /\ feeds' = [feeds EXCEPT ![inflight] = SubSeq(@, 1, Len(@) - 1)]
    /\ inflight' = None

Next == (\E m \in Msgs : AppendMsg(m)) \/ Return \/ Crash

Spec == Init /\ [][Next]_vars

====
