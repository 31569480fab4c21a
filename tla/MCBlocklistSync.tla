--------------------------- MODULE MCBlocklistSync ---------------------------
(***************************************************************************)
(* A list that may be configured with two URLs: a server that sends ETags, *)
(* and a file.                                                             *)
(***************************************************************************)
EXTENDS BlocklistSync

CONSTANTS l1, u1, u3, f1

MCSource == [l \in Lists |-> Urls]
MCSafeID == [l \in Lists |-> f1]
MCKinds == [u \in Urls |-> IF u = u1 THEN "etag" ELSE "file"]
=============================================================================
