--------------------------- MODULE MC_BlobsWants ---------------------------
(* Instances of BlobsWants for TLC: two connections, two blob ids.         *)
EXTENDS BlobsWants

CONSTANTS c1, c2, b1, b2, json

MC_Conns == {c1, c2}
MC_Blobs == {b1, b2}
MC_OneBlob == {b1}

====
