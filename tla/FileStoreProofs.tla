-------------------------- MODULE FileStoreProofs --------------------------
(***************************************************************************)
(* The file store implements DurableStore, for any keys, prefixes, callers *)
(* and number of crashes.  The inductive invariant says who holds mu, that *)
(* the map differs from its last released content by the one key that the  *)
(* holder changes, that after the rename the name stands for the map, and  *)
(* that once closed the disk holds nothing but the map.                    *)
(***************************************************************************)
EXTENDS FileStore, TLAPS

Saving == {"temp", "rename", "sync"}

Holder == \A p \in Procs : (op[p].at \in Saving) <=> (mu = p)
Called == \A p \in Procs : /\ op[p].at = "prefix" => op[p].key \in Keys
                           /\ (op[p].at # "idle" /\ op[p].kind # "close") => op[p].key \in Keys
                           /\ IF op[p].at = "idle" THEN op[p] = NoOp ELSE op[p].kind # "none"
Changes(o) == IF o.kind = "close" THEN data = old ELSE data = [old EXCEPT ![o.key] = o.val]
Changed == \A p \in Procs : op[p].at \in Saving => Changes(op[p])
Renamed == \A p \in Procs : op[p].at = "sync" => dir = data
Sealed == closed => mu = None /\ disks = {data}

Inv == TypeOK /\ Holder /\ Called /\ Changed /\ Renamed /\ Sealed

Ops == [at : {"idle", "prefix", "mu", "temp", "rename", "sync"},
        kind : {"none", "put", "delete", "close"},
        key : Keys \cup {None}, val : Value]
Answers == {"nothing", "ok", "error"}
-----------------------------------------------------------------------------
LEMMA InvInit == Init => Inv
<1> SUFFICES ASSUME Init PROVE Inv
  OBVIOUS
<1> USE StoreAssumption DEF Init, NoOp, Map, Value
<1>1. NoOp \in Ops
  BY DEF Ops
<1>2. op \in [Procs -> Ops]
  BY <1>1
<1>3. TypeOK
  <2>1. data \in Map /\ old \in Map /\ dir \in Map /\ disks \subseteq Map /\ dir \in disks
    OBVIOUS
  <2>2. mu \in Procs \cup {None} /\ plock \in [Prefixes -> Procs \cup {None}]
    OBVIOUS
  <2>3. closed \in BOOLEAN
    BY Zenon
  <2>4. crashes \in 0..MaxCrashes /\ told \in [Procs -> {"nothing", "ok", "error"}]
    OBVIOUS
  <2> QED
    BY <1>2, <2>1, <2>2, <2>3, <2>4, Zenon DEF TypeOK, Ops
<1>4. Holder /\ Called /\ Changed /\ Renamed /\ Sealed
  BY DEF Holder, Called, Changed, Renamed, Sealed, Saving
<1> QED
  BY <1>3, <1>4 DEF Inv

(* A step of one caller that leaves map, files and mu alone. *)
LEMMA QuietStep ==
  ASSUME Inv, NEW p \in Procs, NEW o \in Ops,
         op' = [op EXCEPT ![p] = o],
         UNCHANGED <<data, old, dir, disks, mu, closed, crashes>>,
         plock' \in [Prefixes -> Procs \cup {None}], told' \in [Procs -> Answers],
         op[p].at \notin Saving, o.at \notin Saving,
         o.at = "idle" \/ o.kind = "close" \/ o.key \in Keys,
         o.at = "prefix" => o.key \in Keys,
         IF o.at = "idle" THEN o = NoOp ELSE o.kind # "none"
  PROVE  Inv'
<1>1. op \in [Procs -> Ops]
  BY DEF Inv, TypeOK, Ops
<1>2. op' \in [Procs -> Ops] /\ op'[p] = o /\ \A q \in Procs : q # p => op'[q] = op[q]
  BY <1>1
<1>3. TypeOK'
  BY <1>2, Zenon DEF Inv, TypeOK, Ops, Answers, Map, Value
<1>4. Holder'
  BY <1>2 DEF Inv, Holder
<1>5. Called'
  BY <1>2 DEF Inv, Called, NoOp
<1>6. Changed'
  <2> SUFFICES ASSUME NEW q \in Procs, op'[q].at \in Saving
               PROVE  Changes(op[q])' 
    BY DEF Changed
  <2>1. q # p /\ op'[q] = op[q]
    BY <1>2
  <2>2. Changes(op[q])
    BY <2>1 DEF Inv, Changed
  <2> QED
    BY <2>1, <2>2 DEF Changes
<1>7. Renamed' /\ Sealed'
  BY <1>2 DEF Inv, Renamed, Sealed, Saving
<1> QED
  BY <1>3, <1>4, <1>5, <1>6, <1>7 DEF Inv

(* A step of a save: map, old and mu stay, the caller moves on. *)
LEMMA SaveStep ==
  ASSUME Inv, NEW p \in Procs, NEW o \in Ops,
         op' = [op EXCEPT ![p] = o], o = [op[p] EXCEPT !.at = o.at],
         UNCHANGED <<data, old, mu, plock, told, closed, crashes>>,
         op[p].at \in Saving, o.at \in Saving,
         dir' \in Map, disks' \subseteq Map, dir' \in disks',
         o.at = "sync" => dir' = data
  PROVE  Inv'
<1>1. op \in [Procs -> Ops]
  BY DEF Inv, TypeOK, Ops
<1>2. op' \in [Procs -> Ops] /\ op'[p] = o /\ \A q \in Procs : q # p => op'[q] = op[q]
  BY <1>1
<1>3. o.kind = op[p].kind /\ o.key = op[p].key /\ o.val = op[p].val
  BY <1>1 DEF Ops
<1>4. mu = p /\ \A q \in Procs : q # p => op[q].at \notin Saving
  BY DEF Inv, Holder
<1>5. TypeOK'
  BY <1>2, Zenon DEF Inv, TypeOK, Ops, Map, Value
<1>6. Holder'
  BY <1>2, <1>4 DEF Inv, Holder
<1>7. Called'
  BY <1>2, <1>3 DEF Inv, Called, NoOp, Saving
<1>8. Changed'
  <2> SUFFICES ASSUME NEW q \in Procs, op'[q].at \in Saving
               PROVE  Changes(op[q])'
    BY DEF Changed
  <2>1. q = p
    BY <1>2, <1>4
  <2>2. Changes(op[p])
    BY DEF Inv, Changed
  <2> QED
    BY <1>2, <1>3, <2>1, <2>2 DEF Changes
<1>9. Renamed' /\ Sealed'
  BY <1>2, <1>4, StoreAssumption DEF Inv, Renamed, Sealed, Saving
<1> QED
  BY <1>5, <1>6, <1>7, <1>8, <1>9 DEF Inv

(* A save ends, well or with an error: the locks are free again. *)
LEMMA SaveEnds ==
  ASSUME Inv, NEW p \in Procs, op[p].at \in Saving,
         NEW answer \in Answers, Return(p, answer), mu' = None,
         UNCHANGED <<data, old, dir, crashes>>,
         disks' \in {disks, {dir}}, closed' \in BOOLEAN,
         closed' => closed \/ disks' = {data}
  PROVE  Inv'
<1>1. op \in [Procs -> Ops] /\ NoOp \in Ops /\ plock \in [Prefixes -> Procs \cup {None}]
  BY DEF Inv, TypeOK, Ops, NoOp, Value
<1>2. op' \in [Procs -> Ops] /\ op'[p] = NoOp /\ \A q \in Procs : q # p => op'[q] = op[q]
  BY <1>1 DEF Return
<1>3. \A q \in Procs : op'[q].at \notin Saving
  <2>1. \A q \in Procs : q # p => op[q].at \notin Saving
    BY DEF Inv, Holder
  <2> QED
    BY <1>2, <2>1 DEF NoOp, Saving
<1>4. TypeOK'
  <2>1. plock' \in [Prefixes -> Procs \cup {None}]
    BY <1>1 DEF Return, Unlocked
  <2>2. disks' \subseteq Map /\ dir' \in disks'
    BY DEF Inv, TypeOK
  <2>3. told' \in [Procs -> {"nothing", "ok", "error"}]
    BY DEF Inv, TypeOK, Return, Answers
  <2> QED
    BY <1>2, <2>1, <2>2, <2>3, Zenon DEF Inv, TypeOK, Ops, Map, Value
<1>5. Holder'
  BY <1>3, StoreAssumption DEF Holder
<1>6. Called'
  BY <1>2 DEF Inv, Called, NoOp
<1>7. Changed' /\ Renamed'
  BY <1>3, Zenon DEF Changed, Renamed, Saving
<1>8. Sealed'
  <2>1. ~closed
    BY StoreAssumption DEF Inv, Holder, Sealed
  <2> QED
    BY <2>1, Zenon DEF Sealed
<1> QED
  BY <1>4, <1>5, <1>6, <1>7, <1>8 DEF Inv

LEMMA OpenStep ==
  ASSUME Inv, NEW found \in Map, Open(found), disks' \subseteq Map, found \in disks'
  PROVE  Inv'
<1>1. NoOp \in Ops
  BY DEF Ops, NoOp, Value
<1>2. op' \in [Procs -> Ops] /\ \A p \in Procs : op'[p] = NoOp
  BY <1>1 DEF Open
<1>3. TypeOK'
  <2>1. data' \in Map /\ old' \in Map /\ dir' \in Map /\ dir' \in disks'
    BY DEF Open
  <2>2. /\ mu' \in Procs \cup {None} /\ plock' \in [Prefixes -> Procs \cup {None}]
        /\ told' \in [Procs -> {"nothing", "ok", "error"}]
    BY DEF Open
  <2>3. closed' \in BOOLEAN
    BY Zenon DEF Open
  <2>4. crashes' \in 0..MaxCrashes
    BY StoreAssumption DEF Open, Inv, TypeOK
  <2> QED
    BY <1>2, <2>1, <2>2, <2>3, <2>4, Zenon DEF TypeOK, Ops, Map, Value
<1>4. Holder' /\ Called' /\ Changed' /\ Renamed' /\ Sealed'
  BY <1>2, StoreAssumption DEF Open, Holder, Called, Changed, Renamed, Sealed, NoOp, Saving
<1> QED
  BY <1>3, <1>4 DEF Inv

LEMMA ChangeStep ==
  ASSUME Inv, NEW p \in Procs, Change(p)
  PROVE  Inv'
<1>1. op \in [Procs -> Ops]
  BY DEF Inv, TypeOK, Ops
<1> DEFINE o == [op[p] EXCEPT !.at = "temp"]
<1>2. o \in Ops /\ o.at = "temp" /\ o.kind = op[p].kind /\ o.key = op[p].key /\ o.val = op[p].val
  BY <1>1 DEF Ops
<1>3. op' = [op EXCEPT ![p] = o]
  BY DEF Change, Go
<1> HIDE DEF o
<1>4. op' \in [Procs -> Ops] /\ op'[p] = o /\ \A q \in Procs : q # p => op'[q] = op[q]
  BY <1>1, <1>2, <1>3
<1>5. mu = None /\ mu' = p /\ \A q \in Procs : op[q].at \notin Saving
  BY StoreAssumption DEF Inv, Holder, Change
<1>6. \A q \in Procs : op'[q].at \in Saving => q = p
  BY <1>4, <1>5
<1>7. op[p].kind = "close" \/ op[p].key \in Keys
  BY DEF Inv, Called, Change, At
<1>8. TypeOK'
  <2>1. data' \in Map
    BY <1>1 DEF Inv, TypeOK, Change, Map, Ops
  <2> QED
    BY <1>4, <1>5, <2>1, Zenon DEF Inv, TypeOK, Ops, Map, Value, Change
<1>9. Holder'
  BY <1>2, <1>4, <1>5, <1>6 DEF Holder, Saving
<1>10. Called'
  BY <1>2, <1>4, <1>7 DEF Inv, Called, Change, At
<1>11. Changed'
  <2> SUFFICES ASSUME NEW q \in Procs, op'[q].at \in Saving
               PROVE  Changes(op[q])'
    BY DEF Changed
  <2>1. q = p
    BY <1>6
  <2>2. Changes(op[p])'
    BY <1>2, <1>4 DEF Changes, Change
  <2> QED
    BY <2>1, <2>2
<1>12. Renamed' /\ Sealed'
  BY <1>2, <1>4, <1>6 DEF Renamed, Sealed, Saving, Change, Refused
<1> QED
  BY <1>8, <1>9, <1>10, <1>11, <1>12 DEF Inv

LEMMA InvStep ==
  ASSUME Inv, [Next]_vars
  PROVE  Inv'
<1>1. /\ op \in [Procs -> Ops] /\ plock \in [Prefixes -> Procs \cup {None}]
      /\ told \in [Procs -> Answers] /\ NoOp \in Ops
  BY DEF Inv, TypeOK, Ops, Answers, NoOp, Value
<1>2. ASSUME NEW p \in Procs, NEW k \in Keys, Delete(p, k)
      PROVE  Inv'
  <2> DEFINE o == [at |-> "prefix", kind |-> "delete", key |-> k, val |-> None]
  <2>1. o \in Ops /\ o.at = "prefix" /\ o.key \in Keys /\ o.kind # "none"
    BY DEF Ops, Value
  <2>2. op' = [op EXCEPT ![p] = o] /\ op[p].at = "idle"
    BY <1>2 DEF Delete, Begin, At
  <2>3. told' \in [Procs -> Answers]
    BY <1>1, <1>2 DEF Delete, Begin, Answers
  <2> HIDE DEF o
  <2> QED
    BY <1>1, <1>2, <2>1, <2>2, <2>3, QuietStep DEF Delete, Saving
<1>3. ASSUME NEW p \in Procs, NEW k \in Keys, NEW v \in Vals, Put(p, k, v)
      PROVE  Inv'
  <2> DEFINE o == [at |-> "prefix", kind |-> "put", key |-> k, val |-> v]
  <2>1. o \in Ops /\ o.at = "prefix" /\ o.key \in Keys /\ o.kind # "none"
    BY DEF Ops, Value
  <2>2. op' = [op EXCEPT ![p] = o] /\ op[p].at = "idle"
    BY <1>3 DEF Put, Begin, At
  <2>3. told' \in [Procs -> Answers]
    BY <1>1, <1>3 DEF Put, Begin, Answers
  <2> HIDE DEF o
  <2> QED
    BY <1>1, <1>3, <2>1, <2>2, <2>3, QuietStep DEF Put, Saving
<1>4. ASSUME NEW p \in Procs, Close(p)
      PROVE  Inv'
  <2> DEFINE o == [at |-> "mu", kind |-> "close", key |-> None, val |-> None]
  <2>1. o \in Ops /\ o.at = "mu" /\ o.kind = "close"
    BY DEF Ops, Value
  <2>2. op' = [op EXCEPT ![p] = o] /\ op[p].at = "idle"
    BY <1>4 DEF Close, Begin, At
  <2>3. told' \in [Procs -> Answers]
    BY <1>1, <1>4 DEF Close, Begin, Answers
  <2> HIDE DEF o
  <2> QED
    BY <1>1, <1>4, <2>1, <2>2, <2>3, QuietStep DEF Close, Saving
<1>5. ASSUME NEW p \in Procs, lockPrefix(p)
      PROVE  Inv'
  <2> DEFINE o == [op[p] EXCEPT !.at = "mu"]
  <2>1. o \in Ops /\ o.at = "mu" /\ o.key = op[p].key /\ o.kind = op[p].kind
    BY <1>1 DEF Ops
  <2>2. op' = [op EXCEPT ![p] = o] /\ op[p].at = "prefix"
    BY <1>5 DEF lockPrefix, At, Go
  <2> HIDE DEF o
  <2>3. op[p].key \in Keys /\ op[p].kind # "none"
    BY <2>2 DEF Inv, Called
  <2>4. plock' \in [Prefixes -> Procs \cup {None}]
    BY <1>1, <1>5 DEF lockPrefix
  <2> QED
    BY <1>1, <1>5, <2>1, <2>2, <2>3, <2>4, QuietStep DEF lockPrefix, Saving
<1>6. ASSUME NEW p \in Procs, Refuse(p)
      PROVE  Inv'
  <2>1. op' = [op EXCEPT ![p] = NoOp] /\ op[p].at = "mu"
    BY <1>6 DEF Refuse, At, Return
  <2>2. plock' \in [Prefixes -> Procs \cup {None}] /\ told' \in [Procs -> Answers]
    BY <1>1, <1>6 DEF Refuse, Return, Unlocked, Answers
  <2>3. NoOp.at = "idle"
    BY DEF NoOp
  <2> QED
    BY <1>1, <1>6, <2>1, <2>2, <2>3, QuietStep DEF Refuse, Saving
<1>7. ASSUME NEW p \in Procs, WriteTemp(p)
      PROVE  Inv'
  <2> DEFINE o == [op[p] EXCEPT !.at = "rename"]
  <2>1. o \in Ops /\ o.at = "rename" /\ o = [op[p] EXCEPT !.at = o.at]
    BY <1>1 DEF Ops
  <2>2. op' = [op EXCEPT ![p] = o] /\ op[p].at = "temp"
    BY <1>7 DEF WriteTemp, At, Go
  <2> HIDE DEF o
  <2>3. dir' \in Map /\ disks' \subseteq Map /\ dir' \in disks'
    BY <1>7 DEF WriteTemp, Inv, TypeOK
  <2> QED
    BY <1>7, <2>1, <2>2, <2>3, SaveStep DEF WriteTemp, Saving
<1>8. ASSUME NEW p \in Procs, Rename(p)
      PROVE  Inv'
  <2> DEFINE o == [op[p] EXCEPT !.at = "sync"]
  <2>1. o \in Ops /\ o.at = "sync" /\ o = [op[p] EXCEPT !.at = o.at]
    BY <1>1 DEF Ops
  <2>2. op' = [op EXCEPT ![p] = o] /\ op[p].at = "rename"
    BY <1>8 DEF Rename, At, Go
  <2> HIDE DEF o
  <2>3. dir' = data /\ dir' \in Map /\ disks' \subseteq Map /\ dir' \in disks'
    BY <1>8 DEF Rename, Inv, TypeOK
  <2> QED
    BY <1>8, <2>1, <2>2, <2>3, SaveStep DEF Rename, Saving
<1>9. ASSUME NEW p \in Procs, SyncDir(p)
      PROVE  Inv'
  <2>1. closed' \in BOOLEAN
    BY <1>9, Zenon DEF SyncDir
  <2>2. dir = data
    BY <1>9 DEF SyncDir, At, Inv, Renamed
  <2> QED
    BY <1>9, <2>1, <2>2, SaveEnds DEF SyncDir, At, Saving, Answers
<1>10. ASSUME NEW p \in Procs, SaveFails(p)
       PROVE  Inv'
  <2>1. closed' \in BOOLEAN
    BY <1>10, Zenon DEF SaveFails, Inv, TypeOK
  <2> QED
    BY <1>10, <2>1, SaveEnds DEF SaveFails, Saving, Answers
<1>11. CASE Kill
  <2>1. dir \in Map /\ disks' \subseteq Map /\ dir \in disks'
    BY <1>11 DEF Kill, Inv, TypeOK
  <2> QED
    BY <1>11, <2>1, OpenStep DEF Kill
<1>12. CASE PowerLoss
  <2>1. PICK found \in disks : Open(found) /\ disks' = {found}
    BY <1>12 DEF PowerLoss
  <2>2. found \in Map /\ disks' \subseteq Map /\ found \in disks'
    BY <2>1 DEF Inv, TypeOK
  <2> QED
    BY <2>1, <2>2, OpenStep
<1>13. CASE UNCHANGED vars
  BY <1>13 DEF vars, Inv, TypeOK, Holder, Called, Changed, Changes, Renamed, Sealed, Map
<1> QED
  BY <1>2, <1>3, <1>4, <1>5, <1>6, <1>7, <1>8, <1>9, <1>10, <1>11, <1>12, <1>13, ChangeStep
  DEF Next, saveLocked

(* Type correctness of map, files, locks and calls. *)
THEOREM StoreTypeCorrect == Spec => []TypeOK
<1>1. Inv => TypeOK
  BY DEF Inv
<1> QED
  BY InvInit, InvStep, <1>1, PTL DEF Spec

(* Only the holder of mu is in the middle of a save, on whatever prefix.   *)
THEOREM OneWriterCorrect == Spec => []OneWriter
<1>1. Inv => OneWriter
  BY DEF Inv, Holder, OneWriter, Saving
<1> QED
  BY InvInit, InvStep, <1>1, PTL DEF Spec

(* Types and the single writer together, for any number of callers, keys   *)
(* and crashes.                                                            *)
THEOREM StoreConsistent == Spec => []Consistent
<1> QED
  BY StoreTypeCorrect, OneWriterCorrect, PTL DEF Consistent
-----------------------------------------------------------------------------
may == [k \in Keys |-> {m[k] : m \in disks}]

Request(o) == [kind |-> o.kind, key |-> o.key, val |-> o.val]

(* While a save is in progress readers see the old map, and the new one is *)
(* what the request makes of it.                                           *)
LEMMA OneChange ==
  ASSUME Inv, NEW p \in Procs, op[p].at \in Saving
  PROVE  /\ mu = p /\ mu # None
         /\ visible = old
         /\ requested[p] # Promise!Nothing
         /\ data = Promise!Done(requested[p])
<1>1. mu = p /\ mu # None
  BY StoreAssumption DEF Inv, Holder
<1>2. visible = old
  BY <1>1 DEF visible
<1>3. requested[p].kind = op[p].kind /\ requested[p].key = op[p].key /\ requested[p].val = op[p].val
  BY DEF requested
<1>4. op[p].kind # "none"
  BY DEF Inv, Called, Saving
<1>5. requested[p] # Promise!Nothing
  BY <1>3, <1>4 DEF Promise!Nothing
<1>6. Changes(op[p])
  BY DEF Inv, Changed
<1>7. data = Promise!Done(requested[p])
  BY <1>2, <1>3, <1>6 DEF Changes, Promise!Done
<1> QED
  BY <1>1, <1>2, <1>5, <1>7

(* A call that returns is one that its caller waits for. *)
LEMMA PromiseAnswer ==
  ASSUME Inv, NEW p \in Procs, NEW answer, Return(p, answer), op[p].at # "idle"
  PROVE  Promise!Answer(p, answer)
<1>1. op \in [Procs -> Ops]
  BY DEF Inv, TypeOK, Ops
<1>2. op[p].kind # "none"
  BY DEF Inv, Called
<1>3. requested[p] # Promise!Nothing
  BY <1>2 DEF requested, Promise!Nothing
<1>4. requested' = [requested EXCEPT ![p] = Promise!Nothing]
  BY <1>1 DEF Return, requested, Promise!Nothing, NoOp
<1> QED
  BY <1>3, <1>4 DEF Promise!Answer, Return

LEMMA PromiseCall ==
  ASSUME Inv, NEW p \in Procs, NEW o, Begin(p, o), Request(o) \in Promise!Requests,
         UNCHANGED <<data, old, disks, mu>>
  PROVE  Promise!Next
<1>1. op \in [Procs -> Ops]
  BY DEF Inv, TypeOK, Ops
<1>2. op[p] = NoOp
  BY DEF Inv, Called, Begin, At
<1>3. requested[p] = Promise!Nothing
  BY <1>2 DEF requested, Promise!Nothing, NoOp
<1>4. requested' = [requested EXCEPT ![p] = Request(o)]
  BY <1>1 DEF Begin, requested, Request
<1>5. visible' = visible /\ may' = may
  BY DEF visible, may
<1>6. Promise!Call(p, Request(o))
  BY <1>3, <1>4, <1>5 DEF Promise!Call, Begin, may
<1> QED
  BY <1>6 DEF Promise!Next

LEMMA PromiseInit == Init => Promise!Init
BY DEF Init, Promise!Init, Promise!Only, Promise!Nothing, requested, NoOp, visible

LEMMA PromiseOpen ==
  ASSUME Inv, NEW found \in disks, Open(found), disks' \in {disks, {found}}
  PROVE  Promise!Crash
<1>1. visible' = found
  BY DEF Open, visible
<1>2. found \in [Keys -> Value]
  BY DEF Inv, TypeOK, Map
<1>3. \A k \in Keys : visible'[k] \in may[k]
  BY <1>1 DEF may
<1>4. may' \in {may, [k \in Keys |-> {visible'[k]}]}
  <2>1. CASE disks' = disks
    BY <2>1 DEF may
  <2>2. CASE disks' = {found}
    BY <1>1, <2>2 DEF may
  <2> QED
    BY <2>1, <2>2
<1>5. requested' = [p \in Procs |-> Promise!Nothing] /\ told' = [p \in Procs |-> "nothing"]
  BY DEF Open, requested, Promise!Nothing, NoOp
<1> QED
  BY <1>1, <1>2, <1>3, <1>4, <1>5 DEF Promise!Crash, Promise!Only, Promise!Value, Value, may

LEMMA PromiseStep ==
  ASSUME Inv, [Next]_vars
  PROVE  [Promise!Next]_(Promise!vars)
<1>1. op \in [Procs -> Ops]
  BY DEF Inv, TypeOK, Ops
<1>2. ASSUME NEW p \in Procs, NEW at, Go(p, at)
      PROVE  UNCHANGED requested
  BY <1>1, <1>2 DEF Go, requested, Ops
<1>3. ASSUME NEW p \in Procs, lockPrefix(p) \/ WriteTemp(p)
      PROVE  UNCHANGED Promise!vars
  BY <1>2, <1>3 DEF lockPrefix, WriteTemp, visible, Promise!vars
<1>4. ASSUME NEW p \in Procs, Change(p)
      PROVE  UNCHANGED Promise!vars
  <2>1. visible = data /\ visible' = data
    BY <1>4, StoreAssumption DEF Change, visible
  <2> QED
    BY <1>2, <1>4, <2>1 DEF Change, Promise!vars
<1>5. ASSUME NEW p \in Procs, NEW k \in Keys, Delete(p, k)
      PROVE  Promise!Next
  <2> DEFINE o == [at |-> "prefix", kind |-> "delete", key |-> k, val |-> None]
  <2>1. Begin(p, o) /\ UNCHANGED <<data, old, disks, mu>>
    BY <1>5 DEF Delete
  <2>2. Request(o) \in Promise!Requests
    BY DEF Request, Promise!Requests
  <2> QED
    BY <2>1, <2>2, PromiseCall
<1>6. ASSUME NEW p \in Procs, NEW k \in Keys, NEW v \in Vals, Put(p, k, v)
      PROVE  Promise!Next
  <2> DEFINE o == [at |-> "prefix", kind |-> "put", key |-> k, val |-> v]
  <2>1. Begin(p, o) /\ UNCHANGED <<data, old, disks, mu>>
    BY <1>6 DEF Put
  <2>2. Request(o) \in Promise!Requests
    BY DEF Request, Promise!Requests
  <2> QED
    BY <2>1, <2>2, PromiseCall
<1>7. ASSUME NEW p \in Procs, Close(p)
      PROVE  Promise!Next
  <2> DEFINE o == [at |-> "mu", kind |-> "close", key |-> None, val |-> None]
  <2>1. Begin(p, o) /\ UNCHANGED <<data, old, disks, mu>>
    BY <1>7 DEF Close
  <2>2. Request(o) \in Promise!Requests
    BY DEF Request, Promise!Requests
  <2> QED
    BY <2>1, <2>2, PromiseCall
<1>8. ASSUME NEW p \in Procs, Refuse(p)
      PROVE  Promise!Next
  <2>1. op[p].at # "idle"
    BY <1>8 DEF Refuse, At
  <2>2. visible' = visible /\ may' = may
    BY <1>8 DEF Refuse, visible, may
  <2>3. CASE op[p].kind # "close"
    <3>1. Promise!Answer(p, "error")
      BY <1>8, <2>1, <2>3, PromiseAnswer DEF Refuse
    <3>2. Promise!Refuse(p)
      BY <2>2, <3>1 DEF Promise!Refuse, may
    <3> QED
      BY <3>2 DEF Promise!Next
  <2>4. CASE op[p].kind = "close"
    <3>1. Promise!Answer(p, "ok")
      BY <1>8, <2>1, <2>4, PromiseAnswer DEF Refuse
    <3>2. closed /\ mu = None /\ disks = {data}
      BY <1>8, <2>4 DEF Refuse, Refused, Inv, Sealed
    <3>3. Promise!Done(requested[p]) = visible
      BY <2>4 DEF Promise!Done, requested
    <3>4. may' = [k \in Keys |-> {visible'[k]}]
      BY <2>2, <3>2 DEF may, visible
    <3>5. Promise!Succeed(p)
      BY <2>2, <3>1, <3>3, <3>4 DEF Promise!Succeed, Promise!Only, may
    <3> QED
      BY <3>5 DEF Promise!Next
  <2> QED
    BY <2>3, <2>4
<1>9. ASSUME NEW p \in Procs, Rename(p)
      PROVE  Promise!Next
  <2>1. op[p].at \in Saving
    BY <1>9 DEF Rename, At, Saving
  <2>2. data = Promise!Done(requested[p]) /\ requested[p] # Promise!Nothing
    BY <2>1, OneChange
  <2>3. visible' = visible /\ requested' = requested /\ told' = told
    BY <1>2, <1>9 DEF Rename, visible
  <2>4. may' = [j \in Keys |-> may[j] \cup {data[j]}]
    BY <1>9 DEF Rename, may
  <2>5. Promise!Try(p)
    BY <2>2, <2>3, <2>4 DEF Promise!Try, may
  <2> QED
    BY <2>5 DEF Promise!Next
<1>10. ASSUME NEW p \in Procs, SyncDir(p)
       PROVE  Promise!Next
  <2>1. op[p].at \in Saving /\ op[p].at = "sync" /\ op[p].at # "idle"
    BY <1>10 DEF SyncDir, At, Saving
  <2>2. data = Promise!Done(requested[p])
    BY <2>1, OneChange
  <2>3. visible' = data
    BY <1>10 DEF SyncDir, visible
  <2>4. disks' = {data}
    BY <1>10, <2>1 DEF SyncDir, Inv, Renamed
  <2>5. Promise!Answer(p, "ok")
    BY <1>10, <2>1, PromiseAnswer DEF SyncDir
  <2>6. may' = [k \in Keys |-> {visible'[k]}]
    BY <2>3, <2>4 DEF may
  <2>7. Promise!Succeed(p)
    BY <2>2, <2>3, <2>5, <2>6 DEF Promise!Succeed, Promise!Only, may
  <2> QED
    BY <2>7 DEF Promise!Next
<1>11. ASSUME NEW p \in Procs, SaveFails(p)
       PROVE  Promise!Next
  <2>1. op[p].at \in Saving /\ op[p].at # "idle"
    BY <1>11 DEF SaveFails, Saving
  <2>2. data = Promise!Done(requested[p])
    BY <2>1, OneChange
  <2>3. visible' = data /\ disks' = disks
    BY <1>11 DEF SaveFails, visible
  <2>4. Promise!Answer(p, "error")
    BY <1>11, <2>1, PromiseAnswer DEF SaveFails
  <2>5. Promise!Fail(p)
    BY <2>2, <2>3, <2>4 DEF Promise!Fail
  <2> QED
    BY <2>5 DEF Promise!Next
<1>12. CASE Kill
  <2>1. dir \in disks
    BY DEF Inv, TypeOK
  <2> QED
    BY <1>12, <2>1, PromiseOpen DEF Kill, Promise!Next
<1>13. CASE PowerLoss
  BY <1>13, PromiseOpen DEF PowerLoss, Promise!Next
<1>14. CASE UNCHANGED vars
  BY <1>14 DEF vars, visible, requested, Promise!vars
<1> QED
  BY <1>3, <1>4, <1>5, <1>6, <1>7, <1>8, <1>9, <1>10, <1>11, <1>12, <1>13, <1>14 DEF Next, saveLocked

(* The file store implements DurableStore: a call is answered with success *)
(* only when every key survives any crash with the value that readers see, *)
(* and a call that failed leaves no third possibility for its key.         *)
THEOREM PromiseKept == Spec => KeepsPromise
BY InvInit, InvStep, PromiseInit, PromiseStep, PTL DEF Spec, KeepsPromise, Promise!Spec
=============================================================================
