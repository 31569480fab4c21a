---------------------------- MODULE StoreTransfer ---------------------------
(***************************************************************************)
(* The commands that an operator runs on a SQLite store (store/transfer.go,*)
(* store/maintenance.go, and the backup commands of cmd/sis/main.go),      *)
(* beside the server of SQLiteStore.  Exports, backups and compactions     *)
(* open the database that the server may be using; imports and restores    *)
(* replace it and run while the server is stopped, as the manual tells.    *)
(* One command runs at a time.                                             *)
(***************************************************************************)
EXTENDS SQLiteStore

CONSTANTS Configs,    \* contents of the configuration file
          VersionKey, \* store_meta:schema_version, the one other key of kv
          Files,      \* what sis.db.json may have before the first export
          Archives,   \* the backups that may exist
          MaxJobs     \* bound: commands

ASSUME JobsAssumption == MaxJobs \in Nat
ASSUME ConfigsAssumption == None \notin Configs /\ VersionKey \notin Keys

Payload == [kv : Map, version : 0..schemaVersion]
(* An archive has its layers from the outermost in, and is whole once it is *)
(* closed.  rows is None if it has no sis.db.json.                          *)
Archive == [whole : BOOLEAN, conf : Configs \cup {None},
            layers : {<<>>, <<"gzip", "tar">>, <<"gzip", "age", "tar">>},
            rows : Payload \cup {None}]
ASSUME FilesAssumption == /\ Files \subseteq Payload \cup {None}
                          /\ Archives \subseteq Archive

VARIABLES job,      \* the command that runs, or "none"
          stage,    \* where it is
          force,    \* its flag
          got,      \* the rows that it has read: kv and version
          left,     \* the keys that it has yet to import
          conf,     \* the configuration file, or None
          json,     \* the exported file sis.db.json, or None
          archive,  \* the backup file
          done,     \* the command that last succeeded, until something changes
          jobs

toolVars == <<job, stage, force, got, left, conf, json, archive, done, jobs>>
transferVars == <<storeVars, toolVars>>

NoRows == [kv |-> Empty, version |-> 0]

(* There may be a file and an archive from before. *)
TransferInit ==
  /\ StoreInit
  /\ job = "none" /\ stage = "idle" /\ force = FALSE
  /\ got = NoRows /\ left = {}
  /\ conf \in Configs \cup {None}
  /\ json \in Files
  /\ archive \in Archives
  /\ done = "none"
  /\ jobs = 0

-----------------------------------------------------------------------------
(* The server. *)

Unmoved == UNCHANGED <<job, stage, force, got, left, conf, json, archive, jobs>>

Importing == job \in {"import", "restore"}

ServeStarts == /\ ~Importing /\ conf # None
               /\ OpenSQLite("serve") /\ done' = "none" /\ Unmoved
Serve == /\ \/ runMigrations("serve") \/ Operations \/ Close("serve")
            \/ OpenFails("serve") \/ Kill("serve")
         /\ UNCHANGED done /\ Unmoved

-----------------------------------------------------------------------------
(* Commands. *)

Starts(j, s) == /\ job = "none" /\ jobs < MaxJobs
                /\ job' = j /\ stage' = s
                /\ jobs' = jobs + 1 /\ done' = "none"

Ends(ok) == /\ done' = IF ok THEN job ELSE "none"
            /\ job' = "none" /\ stage' = "idle" /\ force' = FALSE
            /\ got' = NoRows /\ left' = {}

(* The tool's own open; an up to date database is migrated all the same. *)
ToolOpens ==
  /\ stage = "open" /\ phase["tool"] = "down"
  /\ OpenSQLite("tool")
  /\ UNCHANGED done /\ Unmoved
ToolMigrates ==
  /\ runMigrations("tool")
  /\ UNCHANGED done /\ Unmoved

ExportSQLiteToJSON(f) ==
  /\ db.exists
  /\ Starts("export", "open")
  /\ force' = f
  /\ UNCHANGED <<storeVars, got, left, conf, json, archive>>

CompactBackend ==
  /\ db.exists
  /\ Starts("compact", "open")
  /\ UNCHANGED <<storeVars, force, got, left, conf, json, archive>>

(* The archive is truncated, and manifest and configuration are written,    *)
(* with a passphrase through the cipher and then the compressor.            *)
createBackup(passphrase) ==
  /\ conf # None
  /\ Starts("backup", IF db.exists THEN "open" ELSE "write")
  /\ archive' = [whole |-> FALSE, conf |-> conf, rows |-> None,
                 layers |-> IF passphrase THEN <<"gzip", "age", "tar">>
                            ELSE <<"gzip", "tar">>]
  /\ UNCHANGED <<storeVars, force, got, left, conf, json>>

readEncryptedBackup(layers) == layers = <<"age", "gzip", "tar">>
readBackupArchive(a) ==
  /\ a.whole
  /\ IF Head(a.layers) = "age" THEN readEncryptedBackup(a.layers)
     ELSE a.layers = <<"gzip", "tar">>

(* scan reads kv in one statement.  An error of the query, or while it goes *)
(* through the rows, is not reported: none or some of the rows come back.   *)
RowsOf(K) == [k \in Keys |-> IF k \in K THEN db.kv[k] ELSE None]
scan ==
  /\ stage = "open" /\ phase["tool"] = "open" /\ job \in {"export", "backup"}
  /\ \/ /\ got' = [kv |-> db.kv, version |-> db.version]
        /\ UNCHANGED faults
     \/ /\ \E K \in SUBSET Keys, v \in {0, db.version} :
             got' = [kv |-> RowsOf(K), version |-> v]
        /\ faults < MaxFaults /\ faults' = faults + 1
  /\ stage' = "write"
  /\ UNCHANGED <<db, disk, phase, mig, pos, pend, doomed, raced, writes>>
  /\ UNCHANGED <<job, force, left, conf, json, archive, done, jobs>>

(* The deferred close runs when the export has been written. *)
CloseTool == IF phase["tool"] = "down" THEN UNCHANGED storeVars ELSE Close("tool")

writeExportFileAtomic ==
  /\ stage = "write" /\ job = "export"
  /\ json' = IF force \/ json = None THEN got ELSE json
  /\ Ends(force \/ json = None)
  /\ CloseTool
  /\ UNCHANGED <<conf, archive, jobs>>

FinishBackup ==
  /\ stage = "write" /\ job = "backup"
  /\ archive' = [archive EXCEPT !.whole = TRUE,
                   !.rows = IF phase["tool"] = "down" THEN None ELSE got]
  /\ Ends(TRUE)
  /\ CloseTool
  /\ UNCHANGED <<conf, json, jobs>>

(* A checkpoint, VACUUM and close. *)
compact ==
  /\ stage = "open" /\ phase["tool"] = "open" /\ job = "compact"
  /\ Close("tool")
  /\ Ends(TRUE)
  /\ UNCHANGED <<conf, json, archive, jobs>>

MigrateJSONToSQLite(f) ==
  /\ json # None /\ phase["serve"] = "down"
  /\ Starts("import", "prepare")
  /\ force' = f /\ got' = json
  /\ UNCHANGED <<storeVars, left, conf, json, archive>>

(* Both targets are looked at before the first is written. *)
canWriteRestoreTarget(exists, f) == f \/ ~exists
restoreBackupArchive(f) ==
  /\ readBackupArchive(archive) /\ phase["serve"] = "down"
  /\ Starts("restore", "config")
  /\ force' = f
  /\ canWriteRestoreTarget(conf # None, f)
  /\ canWriteRestoreTarget(archive.rows # None /\ db.exists, f)
  /\ UNCHANGED <<storeVars, got, left, conf, json, archive>>

RestoreConfig ==
  /\ stage = "config"
  /\ conf' = archive.conf
  /\ IF archive.rows = None
     THEN Ends(TRUE)
     ELSE /\ stage' = "prepare" /\ got' = archive.rows
          /\ UNCHANGED <<job, force, left, done>>
  /\ UNCHANGED <<storeVars, json, archive, jobs>>

(* The target must not exist, or it is removed with its log. *)
prepareSQLiteMigrationTarget ==
  /\ stage = "prepare"
  /\ IF db.exists /\ ~force
     THEN /\ Ends(FALSE)
          /\ UNCHANGED <<db, disk>>
     ELSE /\ Commit(Fresh)
          /\ stage' = "open"
          /\ left' = {k \in Keys : got.kv[k] # None}
                       \cup IF got.version = 0 THEN {} ELSE {VersionKey}
          /\ UNCHANGED <<job, force, got, done>>
  /\ UNCHANGED <<phase, mig, pos, pend, doomed, raced, writes, faults, conf,
                 json, archive, jobs>>

(* Each row is a transaction, in any order; the version is one of the rows. *)
Imports == stage = "open" /\ phase["tool"] = "open" /\ Importing
ImportRow(k) ==
  /\ Imports /\ k \in left
  /\ Commit(putRawJSON(k, got.kv[k]))
  /\ left' = left \ {k}
  /\ UNCHANGED <<phase, mig, pos, pend, doomed, raced, writes, faults, job,
                 stage, force, got, conf, json, archive, done, jobs>>
ImportVersion ==
  /\ Imports /\ VersionKey \in left
  /\ Commit([db EXCEPT !.version = got.version])
  /\ left' = left \ {VersionKey}
  /\ UNCHANGED <<phase, mig, pos, pend, doomed, raced, writes, faults, job,
                 stage, force, got, conf, json, archive, done, jobs>>
ImportDoneM ==
  /\ Imports
  /\ Close("tool")
  /\ Ends(TRUE)
  /\ UNCHANGED <<conf, json, archive, jobs>>
ImportDone ==
  /\ Imports /\ left = {}
  /\ Close("tool")
  /\ Ends(TRUE)
  /\ UNCHANGED <<conf, json, archive, jobs>>

(* An error, or the end of the process.  A backup that fails with an error  *)
(* closes its archive, which then reads as one without a store.             *)
JobFails ==
  /\ job # "none"
  /\ \/ OpenFails("tool") \/ Kill("tool")
     \/ /\ phase["tool"] = "down" /\ faults < MaxFaults
        /\ faults' = faults + 1
        /\ UNCHANGED <<db, disk, phase, mig, pos, pend, doomed, raced, writes>>
  /\ Ends(FALSE)
  /\ archive' \in IF job = "backup" THEN {archive, [archive EXCEPT !.whole = TRUE]}
                  ELSE {archive}
  /\ UNCHANGED <<conf, json, jobs>>

PowerFails ==
  /\ PowerLoss
  /\ Ends(FALSE)
  /\ UNCHANGED <<conf, json, archive, jobs>>

Tool ==
  \/ ToolOpens \/ ToolMigrates
  \/ \E f \in BOOLEAN : ExportSQLiteToJSON(f) \/ MigrateJSONToSQLite(f)
                        \/ restoreBackupArchive(f) \/ createBackup(f)
  \/ CompactBackend \/ scan \/ writeExportFileAtomic
  \/ FinishBackup \/ compact \/ RestoreConfig \/ prepareSQLiteMigrationTarget
  \/ \E k \in Keys : ImportRow(k)
  \/ ImportVersion \/ ImportDone

TransferNext == ServeStarts \/ Serve \/ Tool \/ JobFails \/ PowerFails

TransferSpec == TransferInit /\ [][TransferNext]_transferVars

-----------------------------------------------------------------------------
TransferTypeOK ==
  /\ StoreTypeOK
  /\ job \in {"none", "export", "compact", "backup", "import", "restore"}
  /\ stage \in {"idle", "config", "prepare", "open", "write"}
  /\ force \in BOOLEAN
  /\ got \in Payload
  /\ left \in SUBSET (Keys \cup {VersionKey})
  /\ conf \in Configs \cup {None}
  /\ json \in Payload \cup {None}
  /\ archive \in Archive
  /\ done \in {"none", "export", "compact", "backup", "import", "restore"}
  /\ jobs \in 0..MaxJobs

(* An import or a restore that reports success has brought over every       *)
(* record of the file or the archive, for the program's tables and for the  *)
(* next backup, although each row is a transaction of its own and the rows  *)
(* come in any order with the schema version among them.                    *)
ImportExact ==
  /\ done = "import" => db.kv = json.kv /\ db.row = db.kv
  /\ done = "restore" =>
       /\ conf = archive.conf
       /\ archive.rows # None => db.kv = archive.rows.kv /\ db.row = db.kv

(* The store changes its content in whole transactions and a power loss     *)
(* brings back one of them; opening a database, of whatever version, beside *)
(* a server or after a crash, changes nothing for the program, which reads  *)
(* the tables, nor for a backup, which reads kv.                            *)
Promise == INSTANCE SnapshotStore WITH
             val <- visible, saved <- disk.kv,
             inUse <- phase["serve"] = "open" \/ Importing
ImplementsSnapshots == Promise!Spec

(* What holds between any two transactions of server and commands: well-   *)
(* typed state, and tables that agree with the JSON records.               *)
TransferConsistent == TransferTypeOK /\ TablesAgree
=============================================================================
