--------------------------- MODULE SnapshotStore ----------------------------
(***************************************************************************)
(* What the SQLite store promises: the content changes in whole steps and  *)
(* only while the store is in use, not by opening or closing it; a power   *)
(* loss brings back the content as it was at some moment since the last    *)
(* time that the database was synced, never a mixture of two moments.      *)
(* It promises less than DurableStore: a write that succeeded can be lost. *)
(***************************************************************************)
CONSTANTS Keys, Vals, None

VARIABLES val,    \* the content
          saved,  \* the content that a power loss brings back
          inUse   \* the store is open, or being replaced

vars == <<val, saved, inUse>>

Init == /\ val \in [Keys -> Vals \cup {None}]
        /\ saved = val
        /\ inUse = FALSE

Becomes(m) == /\ inUse /\ inUse'
              /\ val' = m
              /\ saved' \in {saved, m}

Write(k, v) == Becomes([val EXCEPT ![k] = v])
Remove(K)   == Becomes([k \in Keys |-> IF k \in K THEN None ELSE val[k]])

(* Use begins or ends, and the content may be synced. *)
Turn == /\ inUse' \in BOOLEAN
        /\ saved' \in {saved, val}
        /\ UNCHANGED val

Crash == /\ val' = saved
         /\ inUse' = FALSE
         /\ UNCHANGED saved

Next == \/ \E k \in Keys, v \in Vals : Write(k, v)
        \/ \E K \in SUBSET Keys : Remove(K)
        \/ Turn
        \/ Crash

Spec == Init /\ [][Next]_vars
=============================================================================
