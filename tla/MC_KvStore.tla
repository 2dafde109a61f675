------------------------------ MODULE MC_KvStore ------------------------------
(* Instantiates KvStore for TLC: one author (appends are serialized by the *)
(* write lock, so a second feed adds only unrelated keys), two blobs, so   *)
(* that the blob scan orders several blob keys before the peer key, and    *)
(* two contents, so that a seq can be re-published as another message      *)
(* after a crash.                                                          *)
EXTENDS KvStore

CONSTANTS x1, x2

MC_Blobs == {1, 2}
MC_Contents == {x1, x2}
MC_OneAuthor == {1}
====
