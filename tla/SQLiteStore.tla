---------------------------- MODULE SQLiteStore -----------------------------
(***************************************************************************)
(* The SQLite store (store/sqlite.go).  Every record is kept twice: as     *)
(* JSON in the table kv, which exports and backups read, and as a row of   *)
(* its collection's own table, which the program reads.  Opening the       *)
(* database migrates it: a table is created, kv is read, and in a later    *)
(* transaction what was read is put in the table.  This happens on each    *)
(* open, also when a command of the operator opens the database of a       *)
(* running server.                                                         *)
(*                                                                         *)
(* A transaction is atomic (external: SQLite), so it is one action; one    *)
(* that fails, for instance because another process has the write lock,    *)
(* changes nothing.  Writers hold the store's mutex for reading only and   *)
(* do not exclude one another.                                             *)
(***************************************************************************)
EXTENDS Naturals, Sequences, FiniteSets

CONSTANTS Keys,            \* the keys of kv but that of the schema version
          collectionName,  \* the collection of a key
          ValsOf,          \* the values that a collection's records have
          Expired,         \* the sessions whose time is over
          None,            \* no record
          schemaVersion,   \* the number of migrations: 7
          Contents,        \* what old databases hold
          Versions,        \* the versions that left them; 0: there is none
          MaxWrites,       \* bound: writes of the server
          MaxFaults        \* bound: failed opens, unread rows, kills, power losses

(* What ensureSQLiteSchema goes through: the column, then five tables. *)
ensureSQLiteSchema ==
  <<"column", "clients", "session", "customlist", "stats", "confhist">>
Tables == {ensureSQLiteSchema[i] : i \in 2..6}

(* The number of steps of a migration.  Migration 1 does nothing, 2 adds   *)
(* the column, and all later ones are the same.  The number                 *)
(* schemaVersion + 1 is the check of a database that is up to date.         *)
LastStep(m) == CASE m = 1 -> 0 [] m = 2 -> 1 [] OTHER -> 6

Vals == UNION {ValsOf[c] : c \in Tables}
Value == Vals \cup {None}

ASSUME CollectionAssumption == collectionName \in [Keys -> Tables]
(* A record of a custom list says no more than that it is there. *)
ASSUME ValsAssumption == /\ None \notin Vals
                         /\ \E v \in Vals : ValsOf["customlist"] = {v}
ASSUME VersionAssumption == schemaVersion \in Nat /\ schemaVersion >= 3
ASSUME BoundsAssumption == MaxWrites \in Nat /\ MaxFaults \in Nat

Map == {m \in [Keys -> Value] :
          \A k \in Keys : m[k] \in ValsOf[collectionName[k]] \cup {None}}
ASSUME ContentsAssumption == /\ Contents \subseteq Map
                             /\ Versions \subseteq 0..schemaVersion

KeysOf(c) == {k \in Keys : collectionName[k] = c}

Openers == {"serve", "tool"}   \* the server, and a command of the operator

VARIABLES db,      \* the database as committed
          disk,    \* what a power loss leaves: a database committed earlier
          phase,   \* of each opener: "down", "opening", "open"
          mig,     \* the migration it applies
          pos,     \* the step of the migration
          pend,    \* the rows of kv that it has read for the step, or {}
          doomed,  \* the sessions that DeleteExpired has found, or None
          raced,   \* keys written between an opener's read of kv and its copy
          writes, faults

storeVars == <<db, disk, phase, mig, pos, pend, doomed, raced, writes, faults>>

Empty == [k \in Keys |-> None]
Nothing == [k \in {} |-> None]   \* nothing read

(* kv has the column, the keys whose column is filled, the rows of the      *)
(* tables (None also where the table is missing) and the version.           *)
Fresh == [exists |-> FALSE, kv |-> Empty, row |-> Empty, tables |-> {},
          column |-> TRUE, filled |-> {}, version |-> 0]

(* A database that version v of the program left: it kept the tables that   *)
(* it knew in step with kv, one more for every version since the third.     *)
OldTables(v) ==
  {ensureSQLiteSchema[i] : i \in {j \in 2..6 : j < v \/ v = schemaVersion}}
Left(v, m) == [exists |-> TRUE, kv |-> m,
               row |-> [k \in Keys |-> IF collectionName[k] \in OldTables(v)
                                       THEN m[k] ELSE None],
               tables |-> OldTables(v), column |-> v >= 2,
               filled |-> IF v >= 2 THEN {k \in Keys : m[k] # None} ELSE {},
               version |-> v]

StoreInit ==
  /\ \E m \in Contents, v \in Versions :
        db = IF v = 0 THEN Fresh ELSE Left(v, m)
  /\ disk = db
  /\ phase = [p \in Openers |-> "down"]
  /\ mig = [p \in Openers |-> 0]
  /\ pos = [p \in Openers |-> 0]
  /\ pend = [p \in Openers |-> Nothing]
  /\ doomed = None
  /\ raced = {}
  /\ writes = 0
  /\ faults = 0

(* The log is synced by a checkpoint, which may or may not be at hand. *)
Commit(d) == /\ db' = d
             /\ disk' \in {disk, d}

-----------------------------------------------------------------------------
(* Opening. *)

(* The file and kv are created unless they are there; the version decides   *)
(* where the migrations begin.  If it cannot be read, the error is ignored  *)
(* and all of them are applied, which stores lower versions for a while.    *)
OpenSQLite(p) ==
  /\ phase[p] = "down"
  /\ Commit([db EXCEPT !.exists = TRUE])
  /\ phase' = [phase EXCEPT ![p] = "opening"]
  /\ \E current \in {db.version, 0} :
       /\ mig' = [mig EXCEPT ![p] = IF current >= schemaVersion
                                    THEN schemaVersion + 1 ELSE current + 1]
       /\ IF current = db.version THEN UNCHANGED faults
          ELSE faults < MaxFaults /\ faults' = faults + 1
  /\ pos' = [pos EXCEPT ![p] = 1]
  /\ UNCHANGED <<pend, doomed, raced, writes>>

AtStep(p, s) == /\ phase[p] = "opening"
                /\ pos[p] <= LastStep(mig[p])
                /\ ensureSQLiteSchema[pos[p]] = s

Reads(p, m) == /\ pend' = [pend EXCEPT ![p] = m]
               /\ UNCHANGED <<phase, mig, pos, doomed, raced, writes, faults>>

StepDone(p) == /\ pend' = [pend EXCEPT ![p] = Nothing]
               /\ pos' = [pos EXCEPT ![p] = pos[p] + 1]
               /\ UNCHANGED <<phase, mig, doomed, raced, writes, faults>>

HasRead(p) == DOMAIN pend[p] # {}

(* The column is added, the keys without a collection are read, and the     *)
(* collections are filled in.                                               *)
Unfilled == {k \in Keys : db.kv[k] # None /\ k \notin db.filled}

ensureCollectionColumnM(p) ==
  /\ AtStep(p, "column")
  /\ Commit([db EXCEPT !.column = TRUE])
  /\ StepDone(p)
ensureCollectionColumn(p) ==
  /\ AtStep(p, "column")
  /\ \/ /\ ~HasRead(p)
        /\ Unfilled # {}
        /\ Commit([db EXCEPT !.column = TRUE])
        /\ Reads(p, [k \in Unfilled |-> db.kv[k]])
     \/ /\ ~HasRead(p)
        /\ Unfilled = {}
        /\ Commit([db EXCEPT !.column = TRUE])
        /\ StepDone(p)
     \/ /\ HasRead(p)
        /\ Commit([db EXCEPT !.filled =
                     db.filled \cup {k \in DOMAIN pend[p] : db.kv[k] # None}])
        /\ StepDone(p)

(* The rows of kv that belong to the table. *)
Selected(c) == {k \in KeysOf(c) : db.kv[k] # None}

(* ON CONFLICT: four tables take the new row, custom_lists keeps its own. *)
Upserted(c, m) ==
  [k \in Keys |-> IF k \notin DOMAIN m THEN db.row[k]
                  ELSE IF c = "customlist" /\ db.row[k] # None THEN db.row[k]
                  ELSE m[k]]

CreateAndRead(p, c) ==
  /\ ~HasRead(p)
  /\ Selected(c) # {}
  /\ Commit([db EXCEPT !.tables = db.tables \cup {c}])
  /\ Reads(p, [k \in Selected(c) |-> db.kv[k]])

CreateOnly(p, c) ==
  /\ ~HasRead(p)
  /\ Selected(c) = {}
  /\ Commit([db EXCEPT !.tables = db.tables \cup {c}])
  /\ StepDone(p)

CopyRowsM(p, c) ==
  /\ HasRead(p)
  /\ Commit([db EXCEPT !.row = Upserted(c, pend[p]),
                       !.kv = [k \in Keys |-> IF k \in DOMAIN pend[p] THEN None
                                              ELSE db.kv[k]]])
  /\ StepDone(p)
CopyRows(p, c) ==
  /\ HasRead(p)
  /\ Commit([db EXCEPT !.row = Upserted(c, pend[p])])
  /\ StepDone(p)

EnsureTable(p, c) == CreateAndRead(p, c) \/ CreateOnly(p, c) \/ CopyRows(p, c)

ensureClientTable(p) == AtStep(p, "clients") /\ EnsureTable(p, "clients")
ensureSessionTable(p) == AtStep(p, "session") /\ EnsureTable(p, "session")
ensureCustomListTable(p) ==
  AtStep(p, "customlist") /\ EnsureTable(p, "customlist")
ensureStatsTable(p) == AtStep(p, "stats") /\ EnsureTable(p, "stats")
ensureConfigHistoryTable(p) ==
  AtStep(p, "confhist") /\ EnsureTable(p, "confhist")

Opened(p) == /\ phase' = [phase EXCEPT ![p] = "open"]
             /\ mig' = [mig EXCEPT ![p] = 0]
             /\ pos' = [pos EXCEPT ![p] = 0]

(* A migration is complete: its version is stored, and the next begins. *)
putVersion(p) ==
  /\ phase[p] = "opening"
  /\ pos[p] > LastStep(mig[p])
  /\ mig[p] <= schemaVersion
  /\ Commit([db EXCEPT !.version = mig[p]])
  /\ IF mig[p] = schemaVersion THEN Opened(p)
     ELSE /\ mig' = [mig EXCEPT ![p] = mig[p] + 1]
          /\ pos' = [pos EXCEPT ![p] = 1]
          /\ UNCHANGED phase
  /\ UNCHANGED <<pend, doomed, raced, writes, faults>>

SchemaChecked(p) ==
  /\ phase[p] = "opening"
  /\ pos[p] > LastStep(mig[p])
  /\ mig[p] = schemaVersion + 1
  /\ Opened(p)
  /\ UNCHANGED <<db, disk, pend, doomed, raced, writes, faults>>

runMigrations(p) ==
  \/ ensureCollectionColumn(p) \/ ensureClientTable(p)
  \/ ensureSessionTable(p) \/ ensureCustomListTable(p)
  \/ ensureStatsTable(p) \/ ensureConfigHistoryTable(p)
  \/ putVersion(p) \/ SchemaChecked(p)

Down(p) == /\ phase' = [phase EXCEPT ![p] = "down"]
           /\ mig' = [mig EXCEPT ![p] = 0]
           /\ pos' = [pos EXCEPT ![p] = 0]
           /\ pend' = [pend EXCEPT ![p] = Nothing]
           /\ doomed' = IF p = "serve" THEN None ELSE doomed

(* The last connection to close brings the log into the file and syncs. *)
Close(p) ==
  /\ phase[p] = "open"
  /\ p = "serve" => doomed = None
  /\ Down(p)
  /\ disk' = IF \A q \in Openers \ {p} : phase[q] = "down" THEN db ELSE disk
  /\ UNCHANGED <<db, raced, writes, faults>>

-----------------------------------------------------------------------------
(* The operations of the collections: each writes row and JSON in one       *)
(* transaction.                                                             *)

Stored(k, v, r) == [db EXCEPT !.kv = [db.kv EXCEPT ![k] = v],
                              !.row = [db.row EXCEPT ![k] = r],
                              !.filled = db.filled \cup {k}]

putClientLocked(k, v) == Stored(k, v, v)
putSessionLocked(k, v) == Stored(k, v, v)
putCustomListLocked(k, v) ==
  Stored(k, v, IF db.row[k] # None THEN db.row[k] ELSE v)
putStatsLocked(k, v) == Stored(k, v, v)
putConfigHistoryLocked(k, v) == Stored(k, v, v)

(* What imports use: the key's prefix says where the record goes. *)
putRawJSON(k, v) ==
  CASE collectionName[k] = "clients"    -> putClientLocked(k, v)
    [] collectionName[k] = "session"    -> putSessionLocked(k, v)
    [] collectionName[k] = "customlist" -> putCustomListLocked(k, v)
    [] collectionName[k] = "stats"      -> putStatsLocked(k, v)
    [] OTHER                            -> putConfigHistoryLocked(k, v)

(* Both are deleted; not found, and nothing changes, if neither is there. *)
Without(K) ==
  [db EXCEPT !.kv = [k \in Keys |-> IF k \in K THEN None ELSE db.kv[k]],
             !.row = [k \in Keys |-> IF k \in K THEN None ELSE db.row[k]],
             !.filled = db.filled \ K]
deleteM(k) == [db EXCEPT !.row = [db.row EXCEPT ![k] = None]]
delete(k) == Without({k})
Found(k) == db.row[k] # None \/ db.kv[k] # None

(* Keys that an opener has read for a table and not yet copied. *)
BeingCopied == {k \in Keys : \E p \in Openers :
                               k \in DOMAIN pend[p] /\ pos[p] > 1}

ServerWrites(K, d) ==
  /\ phase["serve"] = "open"
  /\ writes < MaxWrites
  /\ Commit(d)
  /\ raced' = raced \cup (K \cap BeingCopied)
  /\ writes' = writes + 1
  /\ UNCHANGED <<phase, mig, pos, pend, faults>>

Op(k, d) == ServerWrites({k}, d) /\ UNCHANGED doomed

ClientsUpsert(k, v) ==
  k \in KeysOf("clients") /\ v \in ValsOf["clients"] /\ Op(k, putClientLocked(k, v))
SessionsUpsert(k, v) ==
  k \in KeysOf("session") /\ v \in ValsOf["session"] /\ Op(k, putSessionLocked(k, v))
CustomListsAdd(k, v) ==
  /\ k \in KeysOf("customlist") /\ v \in ValsOf["customlist"]
  /\ Op(k, putCustomListLocked(k, v))
StatsPut(k, v) ==
  k \in KeysOf("stats") /\ v \in ValsOf["stats"] /\ Op(k, putStatsLocked(k, v))
ConfigHistoryAppend(k, v) ==
  /\ k \in KeysOf("confhist") /\ v \in ValsOf["confhist"]
  /\ Op(k, putConfigHistoryLocked(k, v))

ClientsDelete(k) == k \in KeysOf("clients") /\ Found(k) /\ Op(k, delete(k))
SessionsDelete(k) == k \in KeysOf("session") /\ Found(k) /\ Op(k, delete(k))
CustomListsRemove(k) == k \in KeysOf("customlist") /\ Found(k) /\ Op(k, delete(k))

(* The expired sessions are read, and deleted in a transaction of its own,  *)
(* whatever became of them.  The store's lock is held, for reading.         *)
DeleteExpiredReads ==
  /\ phase["serve"] = "open"
  /\ doomed = None
  /\ \E k \in KeysOf("session") : db.row[k] \in Expired
  /\ doomed' = {k \in KeysOf("session") : db.row[k] \in Expired}
  /\ UNCHANGED <<db, disk, phase, mig, pos, pend, raced, writes, faults>>

DeleteExpired ==
  /\ doomed # None
  /\ ServerWrites(doomed, Without(doomed))
  /\ doomed' = None

Operations ==
  \/ \E k \in Keys, v \in Vals :
        \/ ClientsUpsert(k, v) \/ SessionsUpsert(k, v) \/ CustomListsAdd(k, v)
        \/ StatsPut(k, v) \/ ConfigHistoryAppend(k, v)
  \/ \E k \in Keys : ClientsDelete(k) \/ SessionsDelete(k) \/ CustomListsRemove(k)
  \/ DeleteExpiredReads \/ DeleteExpired

-----------------------------------------------------------------------------
(* Faults. *)

OpenFails(p) ==
  /\ phase[p] = "opening"
  /\ faults < MaxFaults
  /\ Down(p)
  /\ faults' = faults + 1
  /\ UNCHANGED <<db, disk, raced, writes>>

Kill(p) ==
  /\ phase[p] = "open"
  /\ faults < MaxFaults
  /\ Down(p)
  /\ faults' = faults + 1
  /\ UNCHANGED <<db, disk, raced, writes>>

PowerLoss ==
  /\ faults < MaxFaults
  /\ db' = disk
  /\ phase' = [p \in Openers |-> "down"]
  /\ mig' = [p \in Openers |-> 0]
  /\ pos' = [p \in Openers |-> 0]
  /\ pend' = [p \in Openers |-> Nothing]
  /\ doomed' = None
  /\ faults' = faults + 1
  /\ UNCHANGED <<disk, raced, writes>>

-----------------------------------------------------------------------------
(* Verification (store/verify.go). *)

Present(d) == {k \in Keys : d.kv[k] # None}
CountBy(d, name(_)) ==
  [c \in {name(k) : k \in Present(d)} |->
     Cardinality({k \in Present(d) : name(k) = c})]

(* By the keys, as for the JSON store, and by the column if there is one. *)
collectionCounts(d) == LET ByKey(k) == collectionName[k] IN CountBy(d, ByKey)
sqliteCollectionCounts(d) ==
  LET ByColumn(k) == IF d.column /\ k \notin d.filled
                     THEN "unknown" ELSE collectionName[k]
  IN  CountBy(d, ByColumn)

-----------------------------------------------------------------------------
Database == [exists : BOOLEAN, kv : [Keys -> Value], row : [Keys -> Value],
             tables : SUBSET Tables, column : BOOLEAN, filled : SUBSET Keys,
             version : 0..schemaVersion]
Rows == UNION {[K -> Vals] : K \in SUBSET Keys}

StoreTypeOK ==
  /\ db \in Database
  /\ disk \in Database
  /\ phase \in [Openers -> {"down", "opening", "open"}]
  /\ mig \in [Openers -> 0..(schemaVersion + 1)]
  /\ pos \in [Openers -> 0..7]
  /\ pend \in [Openers -> Rows]
  /\ doomed \in (SUBSET KeysOf("session")) \cup {None}
  /\ raced \in SUBSET Keys
  /\ writes \in 0..MaxWrites /\ faults \in 0..MaxFaults

(* Once the store is open, what the program reads from a collection's table *)
(* is what kv has, which is what a backup takes: an upgrade from any        *)
(* version, cut short at any point, loses and invents nothing.  The         *)
(* exception are records that the server changed while a command that       *)
(* opened the database (a live backup) was about to copy them.              *)
TablesAgree ==
  (\E p \in Openers : phase[p] = "open") =>
     \A k \in Keys \ raced : db.row[k] = db.kv[k]

(* After the migration to the column, cut short or not, verification counts *)
(* the same records by column as it would by key.                           *)
CountsAgree ==
  (\E p \in Openers : phase[p] = "open") =>
     sqliteCollectionCounts(db) = collectionCounts(db)

(* What the program sees; a record excepted above counts as kv has it. *)
visible == [k \in Keys |-> IF phase["serve"] = "open" /\ k \notin raced
                           THEN db.row[k] ELSE db.kv[k]]
=============================================================================
