----------------------------- MODULE MCFileStore -----------------------------
(***************************************************************************)
(* Two callers, two keys with a prefix each, one value.                    *)
(***************************************************************************)
EXTENDS FileStore

CONSTANTS k1, k2, x1, x2

MCPrefix == [k \in Keys |-> IF k = k1 THEN x1 ELSE x2]
=============================================================================
