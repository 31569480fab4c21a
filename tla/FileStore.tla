------------------------------ MODULE FileStore ------------------------------
(***************************************************************************)
(* The JSON store of internal/store/file.go.  The whole map is in memory;  *)
(* a write changes it and then saves all of it: a temporary file, renamed  *)
(* over the old one, and a sync of the directory.  A lock per key prefix   *)
(* and one lock for the map, held while saving, order the callers.  Any    *)
(* step of a save may fail, and the process or the machine may stop at any *)
(* moment.                                                                 *)
(***************************************************************************)
EXTENDS Integers, FiniteSets

CONSTANTS Keys, Vals, None, Prefixes,
          Prefix,     \* prefixOf
          Procs,      \* goroutines that use the store
          MaxCrashes

ASSUME StoreAssumption == /\ None \notin Vals \cup Procs
                          /\ Keys # {}
                          /\ Prefix \in [Keys -> Prefixes]
                          /\ MaxCrashes \in Nat

VARIABLES data,   \* the map in memory
          old,    \* what it was before the write in progress (history)
          dir,    \* the content that the file's name stands for
          disks,  \* the contents that a power loss may leave there
          mu,     \* holder of fileStore.mu for writing
          plock,  \* holders of the prefix locks
          op,     \* calls
          told,   \* how each caller's last call ended (history)
          closed, crashes

vars == <<data, old, dir, disks, mu, plock, op, told, closed, crashes>>

Value == Vals \cup {None}
Map == [Keys -> Value]
NoOp == [at |-> "idle", kind |-> "none", key |-> None, val |-> None]

Init == /\ data = [k \in Keys |-> None] /\ old = data
        /\ dir = data /\ disks = {data}
        /\ mu = None
        /\ plock = [x \in Prefixes |-> None]
        /\ op = [p \in Procs |-> NoOp]
        /\ told = [p \in Procs |-> "nothing"]
        /\ closed = FALSE /\ crashes = 0

At(p, at) == op[p].at = at
Go(p, at) == op' = [op EXCEPT ![p] = [op[p] EXCEPT !.at = at]]
Unlocked(p) == [x \in Prefixes |-> IF plock[x] = p THEN None ELSE plock[x]]

Begin(p, o) == /\ At(p, "idle")
               /\ op' = [op EXCEPT ![p] = o]
               /\ told' = [told EXCEPT ![p] = "nothing"]

(* The deferred unlocks and the return, of nil or of an error. *)
Return(p, answer) == /\ op' = [op EXCEPT ![p] = NoOp]
                     /\ told' = [told EXCEPT ![p] = answer]
                     /\ plock' = Unlocked(p)
-----------------------------------------------------------------------------
Put(p, k, v) == /\ Begin(p, [at |-> "prefix", kind |-> "put", key |-> k, val |-> v])
                /\ UNCHANGED <<data, old, dir, disks, mu, plock, closed, crashes>>

Delete(p, k) == /\ Begin(p, [at |-> "prefix", kind |-> "delete", key |-> k, val |-> None])
                /\ UNCHANGED <<data, old, dir, disks, mu, plock, closed, crashes>>

Close(p) == /\ Begin(p, [at |-> "mu", kind |-> "close", key |-> None, val |-> None])
            /\ UNCHANGED <<data, old, dir, disks, mu, plock, closed, crashes>>

lockPrefix(p) == /\ At(p, "prefix")
                 /\ plock[Prefix[op[p].key]] = None
                 /\ plock' = [plock EXCEPT ![Prefix[op[p].key]] = p]
                 /\ Go(p, "mu")
                 /\ UNCHANGED <<data, old, dir, disks, mu, told, closed, crashes>>

(* Closed, or nothing to delete: an error.  Closing a closed store is      *)
(* none.                                                                   *)
Refused(p) == closed \/ (op[p].kind = "delete" /\ data[op[p].key] = None)

Refuse(p) == /\ At(p, "mu") /\ mu = None
             /\ Refused(p)
             /\ Return(p, IF op[p].kind = "close" THEN "ok" ELSE "error")
             /\ UNCHANGED <<data, old, dir, disks, mu, closed, crashes>>

ChangeM(p) == /\ At(p, "mu")
              /\ ~Refused(p)
              /\ mu' = p
              /\ old' = data
              /\ data' = IF op[p].kind = "close" THEN data ELSE [data EXCEPT ![op[p].key] = op[p].val]
              /\ Go(p, "temp")
              /\ UNCHANGED <<dir, disks, plock, told, closed, crashes>>
Change(p) == /\ At(p, "mu") /\ mu = None
             /\ ~Refused(p)
             /\ mu' = p
             /\ old' = data
             /\ data' = IF op[p].kind = "close" THEN data ELSE [data EXCEPT ![op[p].key] = op[p].val]
             /\ Go(p, "temp")
             /\ UNCHANGED <<dir, disks, plock, told, closed, crashes>>

(* saveLocked: the temporary file is written and synced, *)
WriteTemp(p) == /\ At(p, "temp")
                /\ Go(p, "rename")
                /\ UNCHANGED <<data, old, dir, disks, mu, plock, told, closed, crashes>>

(* it takes the name, which a power loss may still undo, *)
Rename(p) == /\ At(p, "rename")
             /\ dir' = data
             /\ disks' = disks \cup {data}
             /\ Go(p, "sync")
             /\ UNCHANGED <<data, old, mu, plock, told, closed, crashes>>

(* and the directory is synced. *)
SyncDirM(p) == /\ At(p, "sync")
               /\ mu' = None
               /\ closed' = (op[p].kind = "close")
               /\ Return(p, "ok")
               /\ UNCHANGED <<data, old, dir, disks, crashes>>
SyncDir(p) == /\ At(p, "sync")
              /\ disks' = {dir}
              /\ mu' = None
              /\ closed' = (op[p].kind = "close")
              /\ Return(p, "ok")
              /\ UNCHANGED <<data, old, dir, crashes>>

(* Any step of the save fails: the error is returned, the change stays in  *)
(* memory.                                                                 *)
SaveFailsM(p) == /\ op[p].at \in {"rename", "sync"}
                 /\ Go(p, "temp")
                 /\ UNCHANGED <<data, old, dir, disks, mu, plock, told, closed, crashes>>
SaveFails(p) == /\ op[p].at \in {"temp", "rename", "sync"}
                /\ mu' = None
                /\ Return(p, "error")
                /\ UNCHANGED <<data, old, dir, disks, closed, crashes>>

saveLocked(p) == WriteTemp(p) \/ Rename(p) \/ SyncDir(p) \/ SaveFails(p)
-----------------------------------------------------------------------------
(* A new process opens the store: after the old one was killed it finds    *)
(* the file as last renamed, after a power loss any content not yet ruled  *)
(* out.                                                                    *)
Open(found) == /\ crashes < MaxCrashes
               /\ crashes' = crashes + 1
               /\ data' = found /\ old' = found /\ dir' = found
               /\ mu' = None
               /\ plock' = [x \in Prefixes |-> None]
               /\ op' = [p \in Procs |-> NoOp]
               /\ told' = [p \in Procs |-> "nothing"]
               /\ closed' = FALSE

Kill == Open(dir) /\ UNCHANGED disks

PowerLoss == \E found \in disks : Open(found) /\ disks' = {found}

Next == \/ \E p \in Procs : \/ \E k \in Keys : Delete(p, k) \/ \E v \in Vals : Put(p, k, v)
                            \/ Close(p)
                            \/ lockPrefix(p) \/ Refuse(p) \/ Change(p) \/ saveLocked(p)
        \/ Kill \/ PowerLoss

Spec == Init /\ [][Next]_vars

(* A lock that is released again and again is obtained, and a caller that  *)
(* holds it goes on.                                                       *)
Fairness == \A p \in Procs : /\ SF_vars(lockPrefix(p))
                             /\ SF_vars(Refuse(p) \/ Change(p))
                             /\ WF_vars(saveLocked(p))

FairSpec == Spec /\ Fairness
-----------------------------------------------------------------------------
TypeOK == /\ data \in Map /\ old \in Map /\ dir \in Map
          /\ disks \subseteq Map /\ dir \in disks
          /\ mu \in Procs \cup {None}
          /\ plock \in [Prefixes -> Procs \cup {None}]
          /\ op \in [Procs -> [at : {"idle", "prefix", "mu", "temp", "rename", "sync"},
                               kind : {"none", "put", "delete", "close"},
                               key : Keys \cup {None}, val : Value]]
          /\ told \in [Procs -> {"nothing", "ok", "error"}]
          /\ closed \in BOOLEAN /\ crashes \in 0..MaxCrashes

(* What readers see: they wait for a writer. *)
visible == IF mu = None THEN data ELSE old

requested == [p \in Procs |-> [kind |-> op[p].kind, key |-> op[p].key, val |-> op[p].val]]

Promise == INSTANCE DurableStore WITH Callers <- Procs, asked <- requested, val <- visible,
                                      may <- [k \in Keys |-> {m[k] : m \in disks}]

(* The store keeps DurableStore's promise through failures of any step of  *)
(* a save, kills and power losses: nil is returned only when every key     *)
(* survives with the value that readers see, and an acknowledged write is  *)
(* lost to nothing but a later call.                                       *)
KeepsPromise == Promise!Spec

(* At most one caller is between taking mu and giving it back, whatever    *)
(* prefixes the callers work on.                                           *)
OneWriter == \A p \in Procs : op[p].at \in {"temp", "rename", "sync"} => mu = p

(* No order of calls blocks the store: each returns, unless the process    *)
(* stops before.                                                           *)
CallsReturn == \A p \in Procs : (op[p].at = "prefix") ~> (op[p].at = "idle")

(* What holds between any two steps of concurrent puts, deletes, closes,   *)
(* failed saves and crashes: well-typed state, and a single writer of the  *)
(* file.                                                                   *)
Consistent == TypeOK /\ OneWriter
=============================================================================
