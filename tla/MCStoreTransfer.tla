-------------------------- MODULE MCStoreTransfer ---------------------------
(***************************************************************************)
(* One record in each collection.                                          *)
(***************************************************************************)
EXTENDS StoreTransfer

MCCollectionName ==
  [k \in Keys |-> CASE k = "c" -> "clients" [] k = "s" -> "session"
                    [] k = "l" -> "customlist" [] k = "t" -> "stats"
                    [] OTHER -> "confhist"]
MCValsOf == [clients |-> {"a"}, session |-> {"old", "new"},
             customlist |-> {"on"}, stats |-> {"a"}, confhist |-> {"a"}]

First(k) == CASE k = "s" -> "old" [] k = "l" -> "on" [] OTHER -> "a"
Some(K) == [k \in Keys |-> IF k \in K THEN First(k) ELSE None]

OldFile == [kv |-> Some({"c", "l"}), version |-> 2]
OldArchive == [whole |-> TRUE, layers |-> <<"gzip", "tar">>, conf |-> "x",
               rows |-> [kv |-> Some({"s", "t", "h"}), version |-> 3]]

MCContents == {Some({"c", "s"})}
MCFiles == {OldFile}
MCArchives == {OldArchive}

(* A host with neither file, or one with a database of some version. *)
MCInit == TransferInit /\ conf = IF db.exists THEN "y" ELSE None

(* Bound: a power loss undoes at most one transaction. *)
MCNext == TransferNext /\ (disk' \in {db, db'} \/ UNCHANGED <<db, disk>>)
MCSpec == MCInit /\ [][MCNext]_transferVars
=============================================================================
