--------------------------- MODULE PipelineProofs ---------------------------
(***************************************************************************)
(* What holds of queries, administrators and the cache for any number of   *)
(* handlers, requests, clients, groups and names.  Three invariants: Inv,  *)
(* that what a handler carries fits its stage and that its history is up   *)
(* to date; StaleInv, of the answers that a handler is about to cache;     *)
(* and KeepInv, of the records that somebody is about to write back.       *)
(***************************************************************************)
EXTENDS Pipeline, TLAPS

(* Records of handlers and requests, and tables of the store.              *)
Handler == [at : Stages, client : Clients \cup {None}, name : Names \cup {None},
            read : Groups \cup {None}, group : Groups \cup {None},
            answer : Answers \cup {None},
            held : SUBSET Groups, may : SUBSET {"blocked", "open"}]
Request == [at : {"idle", "rename", "assign", "delete"},
            client : Clients \cup {None}, group : Groups \cup {None}]

Seeding == [client : Clients \cup {None}, group : Groups \cup {None}, given : BOOLEAN]

Table == [Clients -> Groups \cup {None}]
Policy == [Groups -> SUBSET (Names \ Local)]

(* What a handler has at each stage. *)
Shape(h) ==
    /\ h \in Handler
    /\ IF h.at \in {"idle", "done"} THEN h.client = None ELSE h.client \in Clients /\ h.name \in Names
    /\ h.at = "policy" => h.group \in h.held /\ h.name \notin Local
    /\ h.at \in {"lookup", "forward", "put"} => "open" \in h.may
    /\ h.at = "put" => h.answer # None /\ h.answer.kind \in {"data", "servfail"}
    /\ h.at = "done" => /\ h.answer # None
                        /\ h.answer.kind = "blocked" => "blocked" \in h.may
                        /\ h.answer.kind \in {"data", "servfail"} => "open" \in h.may

(* What the policy says of a name for a group.                             *)
Verdict(n, g, pol) == IF n \in pol[g] THEN "blocked" ELSE "open"

(* The history of a handler is up to date. *)
Seen(h, rec, pol) ==
    h.client # None /\ h.name \notin Local =>
        /\ GroupIn(rec, h.client) \in h.held
        /\ \A g \in h.held : Verdict(h.name, g, pol) \in h.may

(* A request under way has a client and a group, and so has a reload.      *)
SeedingOK(d) == d \in Seeding /\ (d.client # None => d.client \in Clients /\ d.group \in Groups)
RequestOK(r) == r \in Request /\ (r.at # "idle" => r.client \in Clients /\ r.group \in Groups)

QueryInv == query \in [Slots -> Handler] /\ \A s \in Slots : Shape(query[s]) /\ Seen(query[s], record, blocks)
CallInv == call \in [Admins -> Request] /\ \A a \in Admins : RequestOK(call[a])
StoreInv == /\ record \in Table /\ assigned \in Table /\ touched \subseteq Clients
            /\ stale \in [Clients -> SUBSET Groups] /\ SeedingOK(seeding)
WorldInv == blocks \in Policy /\ version \in [Names -> Versions] /\ requests \in 0..MaxRequests
(* Only answers of upstreams are cached.                                   *)
CacheInv == /\ cache \in [Names -> Answers \cup {None}]
            /\ \A n \in Names : cache[n] # None => cache[n].kind = "data"
CountInv == faults \in 0..MaxFaults /\ outdated \in [Names -> SUBSET Answers]

Inv == QueryInv /\ CallInv /\ StoreInv /\ WorldInv /\ CacheInv /\ CountInv

LEMMA Constants ==
  /\ Default \in Groups /\ Local \subseteq Names
  /\ \A conf \in Configs : DOMAIN conf \subseteq Clients /\ \A c \in DOMAIN conf : conf[c] \in Groups \cup {None}
  /\ MaxVersion \in Nat \ {0} /\ MaxRequests \in Nat /\ MaxFaults \in Nat
  /\ None \notin Groups /\ None \notin Clients /\ None \notin Names /\ None \notin Admins /\ None \notin Answers
  /\ \A kind \in Synthetic : Synth(kind) \in Answers /\ Synth(kind).kind = kind
  /\ \A v \in Versions : Data(v) \in Answers /\ Data(v).kind = "data" /\ Data(v).ver = v
<1>1. \A kind \in Synthetic : Synth(kind) \in Answers /\ Synth(kind).kind = kind
  BY DEF Answers, Synth
<1>2. \A v \in Versions : Data(v) \in Answers /\ Data(v).kind = "data" /\ Data(v).ver = v
  BY DEF Answers, Data
<1>3. /\ Default \in Groups /\ Local \subseteq Names
      /\ \A conf \in Configs : DOMAIN conf \subseteq Clients /\ \A c \in DOMAIN conf : conf[c] \in Groups \cup {None}
      /\ None \notin Groups /\ None \notin Clients /\ None \notin Names /\ None \notin Admins /\ None \notin Answers
  BY PipelineAssumption
<1>4. MaxVersion \in Nat \ {0} /\ MaxRequests \in Nat /\ MaxFaults \in Nat
  BY PipelineAssumption
<1> QED
  BY <1>1, <1>2, <1>3, <1>4

(* Changes of one field of a handler. *)
LEMMA SetAt ==
  ASSUME NEW h \in Handler, NEW at \in Stages
  PROVE  LET k == [h EXCEPT !.at = at]
         IN  /\ k \in Handler /\ k.at = at /\ k.client = h.client /\ k.name = h.name /\ k.read = h.read
             /\ k.group = h.group /\ k.answer = h.answer /\ k.held = h.held /\ k.may = h.may
  BY DEF Handler

LEMMA SetClient ==
  ASSUME NEW h \in Handler, NEW c \in Clients \cup {None}
  PROVE  LET k == [h EXCEPT !.client = c]
         IN  /\ k \in Handler /\ k.at = h.at /\ k.client = c /\ k.name = h.name /\ k.read = h.read
             /\ k.group = h.group /\ k.answer = h.answer /\ k.held = h.held /\ k.may = h.may
  BY DEF Handler

LEMMA SetName ==
  ASSUME NEW h \in Handler, NEW n \in Names \cup {None}
  PROVE  LET k == [h EXCEPT !.name = n]
         IN  /\ k \in Handler /\ k.at = h.at /\ k.client = h.client /\ k.name = n /\ k.read = h.read
             /\ k.group = h.group /\ k.answer = h.answer /\ k.held = h.held /\ k.may = h.may
  BY DEF Handler

LEMMA SetRead ==
  ASSUME NEW h \in Handler, NEW r \in Groups \cup {None}
  PROVE  LET k == [h EXCEPT !.read = r]
         IN  /\ k \in Handler /\ k.at = h.at /\ k.client = h.client /\ k.name = h.name /\ k.read = r
             /\ k.group = h.group /\ k.answer = h.answer /\ k.held = h.held /\ k.may = h.may
  BY DEF Handler

LEMMA SetGroup ==
  ASSUME NEW h \in Handler, NEW g \in Groups \cup {None}
  PROVE  LET k == [h EXCEPT !.group = g]
         IN  /\ k \in Handler /\ k.at = h.at /\ k.client = h.client /\ k.name = h.name /\ k.read = h.read
             /\ k.group = g /\ k.answer = h.answer /\ k.held = h.held /\ k.may = h.may
  BY DEF Handler

LEMMA SetAnswer ==
  ASSUME NEW h \in Handler, NEW a \in Answers \cup {None}
  PROVE  LET k == [h EXCEPT !.answer = a]
         IN  /\ k \in Handler /\ k.at = h.at /\ k.client = h.client /\ k.name = h.name /\ k.read = h.read
             /\ k.group = h.group /\ k.answer = a /\ k.held = h.held /\ k.may = h.may
  BY DEF Handler

LEMMA SetHeld ==
  ASSUME NEW h \in Handler, NEW d \in SUBSET Groups
  PROVE  LET k == [h EXCEPT !.held = d]
         IN  /\ k \in Handler /\ k.at = h.at /\ k.client = h.client /\ k.name = h.name /\ k.read = h.read
             /\ k.group = h.group /\ k.answer = h.answer /\ k.held = d /\ k.may = h.may
  BY DEF Handler

LEMMA SetMay ==
  ASSUME NEW h \in Handler, NEW m \in SUBSET {"blocked", "open"}
  PROVE  LET k == [h EXCEPT !.may = m]
         IN  /\ k \in Handler /\ k.at = h.at /\ k.client = h.client /\ k.name = h.name /\ k.read = h.read
             /\ k.group = h.group /\ k.answer = h.answer /\ k.held = h.held /\ k.may = m
  BY DEF Handler

LEMMA IdleShape ==
  /\ Idle \in Handler /\ Idle.at = "idle" /\ Idle.client = None /\ Shape(Idle)
  /\ Idle.held = {} /\ Idle.may = {} /\ Idle.read = None
  /\ \A rec, pol : Seen(Idle, rec, pol)
<1>1. /\ Idle \in Handler /\ Idle.at = "idle" /\ Idle.client = None
      /\ Idle.held = {} /\ Idle.may = {} /\ Idle.read = None
  BY DEF Idle, Handler, Stages
<1> HIDE DEF Idle
<1> QED
  BY <1>1 DEF Shape, Seen

(* Watch keeps what a handler is about and brings its history up to date. *)
LEMMA Watched ==
  ASSUME NEW h, Shape(h), NEW rec \in Table, NEW pol \in Policy
  PROVE  LET w == Watch(h, rec, pol)
         IN  /\ Shape(w) /\ Seen(w, rec, pol)
             /\ w.at = h.at /\ w.client = h.client /\ w.name = h.name /\ w.read = h.read
             /\ w.group = h.group /\ w.answer = h.answer /\ h.held \subseteq w.held
<1>1. CASE h.client = None \/ h.name \in Local
  BY <1>1 DEF Watch, Seen
<1>2. CASE ~(h.client = None \/ h.name \in Local)
  <2> DEFINE held == h.held \cup {GroupIn(rec, h.client)}
             may == h.may \cup {IF h.name \in pol[g] THEN "blocked" ELSE "open" : g \in held}
             k == [h EXCEPT !.held = held]
             w == [k EXCEPT !.may = may]
  <2>1. Watch(h, rec, pol) = w
    BY <1>2 DEF Watch
  <2>2. h \in Handler /\ h.client \in Clients /\ h.held \in SUBSET Groups /\ h.may \in SUBSET {"blocked", "open"}
    BY <1>2 DEF Shape, Handler
  <2>3. held \in SUBSET Groups
    BY <2>2, Constants DEF GroupIn, Table
  <2>4. may \in SUBSET {"blocked", "open"}
    BY <2>2
  <2>5. GroupIn(rec, h.client) \in held /\ h.held \subseteq held /\ h.may \subseteq may
        /\ \A g \in held : Verdict(h.name, g, pol) \in may
    BY DEF Verdict
  <2> HIDE DEF held, may
  <2>6. /\ k \in Handler /\ k.at = h.at /\ k.client = h.client /\ k.name = h.name /\ k.read = h.read
        /\ k.group = h.group /\ k.answer = h.answer /\ k.held = held /\ k.may = h.may
    BY <2>2, <2>3, SetHeld
  <2> HIDE DEF k
  <2>7. /\ w \in Handler /\ w.at = h.at /\ w.client = h.client /\ w.name = h.name /\ w.read = h.read
        /\ w.group = h.group /\ w.answer = h.answer /\ w.held = held /\ w.may = may
    BY <2>4, <2>6, SetMay
  <2> HIDE DEF w
  <2>8. Shape(w)
    BY <2>5, <2>7 DEF Shape
  <2>9. Seen(w, rec, pol)
    BY <2>5, <2>7 DEF Seen
  <2> QED
    BY <2>1, <2>5, <2>7, <2>8, <2>9
<1> QED
  BY <1>1, <1>2
(* A handler takes a step, or every handler notes a change. *)
LEMMA OneHandler ==
  ASSUME Inv, NEW s \in Slots, NEW k, Shape(k), Seen(k, record, blocks),
         query' = [query EXCEPT ![s] = k], record' = record, blocks' = blocks
  PROVE  QueryInv'
<1>1. k \in Handler /\ query \in [Slots -> Handler]
      /\ \A t \in Slots : Shape(query[t]) /\ Seen(query[t], record, blocks)
  BY DEF Shape, Inv, QueryInv
<1>2. query' \in [Slots -> Handler]
  BY <1>1
<1>3. \A t \in Slots : Shape(query'[t]) /\ Seen(query'[t], record', blocks')
  BY <1>1
<1> QED
  BY <1>2, <1>3 DEF QueryInv

LEMMA EveryHandler ==
  ASSUME NEW hs, \A t \in Slots : Shape(hs[t]), record' \in Table, blocks' \in Policy,
         query' = [t \in Slots |-> Watch(hs[t], record', blocks')]
  PROVE  QueryInv'
<1>1. ASSUME NEW t \in Slots PROVE Shape(query'[t]) /\ Seen(query'[t], record', blocks') /\ query'[t] \in Handler
  <2>1. query'[t] = Watch(hs[t], record', blocks')
    OBVIOUS
  <2>2. Shape(query'[t]) /\ Seen(query'[t], record', blocks')
    BY <2>1, Watched
  <2> QED
    BY <2>2 DEF Shape
<1>2. query' \in [Slots -> Handler]
  BY <1>1
<1> QED
  BY <1>1, <1>2 DEF QueryInv

LEMMA ArriveStep ==
  ASSUME Inv, NEW s \in Slots, NEW c \in Clients, NEW n \in Names, Arrive(s, c, n) PROVE Inv'
<1> DEFINE h1 == [Idle EXCEPT !.at = "start"]
           h2 == [h1 EXCEPT !.client = c]
           h == [h2 EXCEPT !.name = n]
<1>1. /\ query' = [query EXCEPT ![s] = Watch(h, record, blocks)]
      /\ UNCHANGED <<store, world, cache, call, faults, outdated>>
  BY DEF Arrive
<1>2. h1 \in Handler /\ h1.at = "start"
  BY IdleShape, SetAt DEF Stages
<1> HIDE DEF h1
<1>3. h2 \in Handler /\ h2.at = "start" /\ h2.client = c
  BY <1>2, SetClient
<1> HIDE DEF h2
<1>4. h \in Handler /\ h.at = "start" /\ h.client = c /\ h.name = n
  BY <1>3, SetName
<1> HIDE DEF h
<1>5. Shape(h)
  BY <1>4 DEF Shape
<1>6. Shape(Watch(h, record, blocks)) /\ Seen(Watch(h, record, blocks), record, blocks)
  BY <1>5, Watched DEF Inv, StoreInv, WorldInv
<1>7. QueryInv'
  BY <1>1, <1>6, OneHandler DEF store, world
<1> QED
  BY <1>1, <1>7 DEF Inv, CallInv, StoreInv, WorldInv, CacheInv, CountInv, store, world

(* The answer of a finished handler. *)
Finished(h, answer) == [Idle EXCEPT !.at = "done", !.answer = answer,
                          !.may = IF h.at \in {"start", "local"} THEN {} ELSE h.may]

LEMMA FinishedShape ==
  ASSUME NEW h \in Handler, NEW answer \in Answers,
         answer.kind = "blocked" => h.at \notin {"start", "local"} /\ "blocked" \in h.may,
         answer.kind \in {"data", "servfail"} => h.at \notin {"start", "local"} /\ "open" \in h.may
  PROVE  LET k == Finished(h, answer)
         IN  /\ Shape(k) /\ k.at = "done" /\ k.answer = answer /\ k.client = None
             /\ \A rec, pol : Seen(k, rec, pol)
<1> DEFINE may == IF h.at \in {"start", "local"} THEN {} ELSE h.may
           k1 == [Idle EXCEPT !.at = "done"]
           k2 == [k1 EXCEPT !.answer = answer]
           k == [k2 EXCEPT !.may = may]
<1>1. Finished(h, answer) = k
  BY DEF Finished
<1>2. may \in SUBSET {"blocked", "open"}
  BY DEF Handler
<1>3. h.at \notin {"start", "local"} => may = h.may
  OBVIOUS
<1> HIDE DEF may
<1>4. k1 \in Handler /\ k1.at = "done" /\ k1.client = None
  BY IdleShape, SetAt, ZenonT(30) DEF Stages
<1> HIDE DEF k1
<1>5. k2 \in Handler /\ k2.at = "done" /\ k2.client = None /\ k2.answer = answer
  BY <1>4, SetAnswer
<1> HIDE DEF k2
<1>6. k \in Handler /\ k.at = "done" /\ k.client = None /\ k.answer = answer /\ k.may = may
  BY <1>2, <1>5, SetMay
<1> HIDE DEF k
<1>7. Shape(k) /\ \A rec, pol : Seen(k, rec, pol)
  BY <1>3, <1>6, Constants DEF Shape, Seen
<1> QED
  BY <1>1, <1>6, <1>7

LEMMA FinishQuery ==
  ASSUME Inv, NEW s \in Slots, NEW answer \in Answers, finish(s, answer), record' = record, blocks' = blocks,
         answer.kind = "blocked" => query[s].at \notin {"start", "local"} /\ "blocked" \in query[s].may,
         answer.kind \in {"data", "servfail"} => query[s].at \notin {"start", "local"} /\ "open" \in query[s].may
  PROVE  QueryInv'
<1>1. query' = [query EXCEPT ![s] = Finished(query[s], answer)] /\ query[s] \in Handler
  BY DEF finish, Finished, Inv, QueryInv
<1>2. Shape(Finished(query[s], answer)) /\ Seen(Finished(query[s], answer), record, blocks)
  BY <1>1, FinishedShape
<1> QED
  BY <1>1, <1>2, OneHandler

LEMMA RefuseStep ==
  ASSUME Inv, NEW s \in Slots, Refuse(s) \/ handleSpecial(s) PROVE Inv'
<1>1. /\ UNCHANGED <<store, world, cache, call, faults, outdated>>
      /\ \E kind \in {"refused", "local"} : finish(s, Synth(kind))
  BY DEF Refuse, handleSpecial
<1>2. PICK kind \in {"refused", "local"} : finish(s, Synth(kind))
  BY <1>1
<1>3. Synth(kind) \in Answers /\ Synth(kind).kind = kind
  BY Constants DEF Synthetic
<1>4. QueryInv'
  BY <1>1, <1>2, <1>3, FinishQuery DEF store, world
<1> QED
  BY <1>1, <1>4 DEF Inv, CallInv, StoreInv, WorldInv, CacheInv, CountInv, store, world

(* A step that leaves a handler's history alone. *)
LEMMA SameHistory ==
  ASSUME NEW h, NEW k, NEW rec, NEW pol, Seen(h, rec, pol),
         k.client = h.client, k.name = h.name, k.held = h.held, k.may = h.may
  PROVE  Seen(k, rec, pol)
  BY DEF Seen

LEMMA TouchStep ==
  ASSUME Inv, NEW s \in Slots, Touch(s) PROVE Inv'
<1> DEFINE at == IF query[s].client \in touched THEN "local" ELSE "get"
           k == [query[s] EXCEPT !.at = at]
<1>1. /\ query' = [query EXCEPT ![s] = k] /\ query[s].at = "start"
      /\ touched' = touched \cup {query[s].client}
      /\ UNCHANGED <<record, assigned, stale, seeding, world, cache, call, faults, outdated>>
  BY DEF Touch, Go
<1>2. query[s] \in Handler /\ Shape(query[s]) /\ Seen(query[s], record, blocks)
  BY DEF Inv, QueryInv
<1>3. at \in {"local", "get"} /\ at \in Stages
  BY DEF Stages
<1> HIDE DEF at
<1>4. /\ k \in Handler /\ k.at = at /\ k.client = query[s].client /\ k.name = query[s].name
      /\ k.held = query[s].held /\ k.may = query[s].may
  BY <1>2, <1>3, SetAt
<1> HIDE DEF k
<1>5. Shape(k) /\ query[s].client \in Clients
  BY <1>1, <1>2, <1>3, <1>4 DEF Shape
<1>6. Seen(k, record, blocks)
  BY <1>2, <1>4, SameHistory
<1>7. QueryInv'
  BY <1>1, <1>5, <1>6, OneHandler DEF world
<1> QED
  BY <1>1, <1>5, <1>7 DEF Inv, CallInv, StoreInv, WorldInv, CacheInv, CountInv, world
LEMMA TouchGetStep ==
  ASSUME Inv, NEW s \in Slots, TouchGet(s) PROVE Inv'
<1> DEFINE h == query[s]
           k1 == [h EXCEPT !.at = "upsert"]
           k == [k1 EXCEPT !.read = record[h.client]]
<1>1. /\ query' = [query EXCEPT ![s] = k] /\ h.at = "get"
      /\ UNCHANGED <<store, world, cache, call, faults, outdated>>
  BY DEF TouchGet
<1>2. h \in Handler /\ Shape(h) /\ Seen(h, record, blocks)
  BY DEF Inv, QueryInv
<1>3. record[h.client] \in Groups \cup {None} /\ "upsert" \in Stages
  BY <1>1, <1>2 DEF Shape, Inv, StoreInv, Table, Stages
<1> HIDE DEF h
<1>8. /\ k1 \in Handler /\ k1.at = "upsert" /\ k1.client = h.client /\ k1.name = h.name
      /\ k1.held = h.held /\ k1.may = h.may
  BY <1>2, <1>3, SetAt
<1> HIDE DEF k1
<1>4. /\ k \in Handler /\ k.at = "upsert" /\ k.client = h.client /\ k.name = h.name
      /\ k.held = h.held /\ k.may = h.may
  BY <1>3, <1>8, SetRead
<1> HIDE DEF k
<1>5. Shape(k)
  BY <1>1, <1>2, <1>4 DEF Shape
<1>6. Seen(k, record, blocks)
  BY <1>2, <1>4, SameHistory
<1>7. QueryInv'
  BY <1>1, <1>5, <1>6, OneHandler DEF store, world
<1> QED
  BY <1>1, <1>7 DEF Inv, CallInv, StoreInv, WorldInv, CacheInv, CountInv, store, world

(* Touch is over: its handler goes on without what it read. *)
LEMMA TouchOver ==
  ASSUME NEW h, Shape(h), h.at \in {"get", "upsert"}
  PROVE  LET k == [h EXCEPT !.at = "local", !.read = None]
         IN  /\ Shape(k) /\ k.at = "local" /\ k.client = h.client /\ k.name = h.name
             /\ k.held = h.held /\ k.may = h.may
<1> DEFINE k1 == [h EXCEPT !.at = "local"]
           k == [k1 EXCEPT !.read = None]
<1>1. h \in Handler /\ "local" \in Stages
  BY DEF Shape, Stages
<1>2. /\ k1 \in Handler /\ k1.at = "local" /\ k1.client = h.client /\ k1.name = h.name
      /\ k1.held = h.held /\ k1.may = h.may
  BY <1>1, SetAt
<1>3. [h EXCEPT !.at = "local", !.read = None] = k
  OBVIOUS
<1> HIDE DEF k1
<1>4. /\ k \in Handler /\ k.at = "local" /\ k.client = h.client /\ k.name = h.name
      /\ k.held = h.held /\ k.may = h.may
  BY <1>2, SetRead
<1> HIDE DEF k
<1>5. Shape(k)
  BY <1>4 DEF Shape
<1> QED
  BY <1>3, <1>4, <1>5

LEMMA TouchesQuery ==
  ASSUME Inv, NEW s \in Slots, Touches(s), blocks' = blocks
  PROVE  QueryInv' /\ record' \in Table
<1> DEFINE hs == [h \in Slots |-> IF h = s THEN [query[s] EXCEPT !.at = "local", !.read = None] ELSE query[h]]
<1>1. /\ query[s].at = "upsert" /\ Shape(query[s]) /\ query[s].read \in Groups \cup {None}
      /\ query[s].client \in Clients
  BY DEF Inv, QueryInv, Shape, Handler, Touches
<1>2. record' \in Table
  BY <1>1, Constants DEF Touches, TouchedGroup, Inv, StoreInv, Table
<1>3. \A t \in Slots : Shape(hs[t])
  BY <1>1, TouchOver, ZenonT(30) DEF Inv, QueryInv
<1>4. query' = [t \in Slots |-> Watch(hs[t], record', blocks')]
  BY DEF Touches
<1> HIDE DEF hs
<1> QED
  BY <1>2, <1>3, <1>4, EveryHandler DEF Inv, WorldInv

LEMMA UpsertStep ==
  ASSUME Inv, NEW s \in Slots, TouchUpsert(s) \/ TouchFails(s) PROVE Inv'
<1>1. /\ UNCHANGED <<touched, assigned, stale, seeding, world, cache, call, outdated>>
      /\ faults' \in 0..MaxFaults
  BY Constants DEF TouchUpsert, TouchFails, Inv, CountInv
<1>2. CASE Touches(s)
  <2>1. QueryInv' /\ record' \in Table
    BY <1>1, <1>2, TouchesQuery DEF world
  <2> QED
    BY <1>1, <2>1 DEF Inv, CallInv, StoreInv, WorldInv, CacheInv, CountInv, world
<1>3. CASE ~Touches(s)
  <2> DEFINE k == [query[s] EXCEPT !.at = "local", !.read = None]
  <2>1. query[s].at \in {"get", "upsert"} /\ query' = [query EXCEPT ![s] = k] /\ record' = record
    BY <1>3 DEF TouchUpsert, TouchFails
  <2>2. Shape(query[s]) /\ Seen(query[s], record, blocks)
    BY DEF Inv, QueryInv
  <2>3. /\ Shape(k) /\ k.client = query[s].client /\ k.name = query[s].name
        /\ k.held = query[s].held /\ k.may = query[s].may
    BY <2>1, <2>2, TouchOver, ZenonT(30)
  <2> HIDE DEF k
  <2>4. Seen(k, record, blocks)
    BY <2>2, <2>3, SameHistory
  <2>5. QueryInv'
    BY <1>1, <2>1, <2>3, <2>4, OneHandler DEF world
  <2> QED
    BY <1>1, <2>1, <2>5 DEF Inv, CallInv, StoreInv, WorldInv, CacheInv, CountInv, world
<1> QED
  BY <1>2, <1>3

LEMMA GroupOfStep ==
  ASSUME Inv, NEW s \in Slots, GroupOf(s) PROVE Inv'
<1> DEFINE h == query[s]
           k1 == [h EXCEPT !.at = "policy"]
           k == [k1 EXCEPT !.group = GroupIn(record, h.client)]
<1>1. /\ query' = [query EXCEPT ![s] = k] /\ h.at = "local" /\ h.name \notin Local
      /\ UNCHANGED <<store, world, cache, call, faults, outdated>>
  BY DEF GroupOf
<1>2. h \in Handler /\ Shape(h) /\ Seen(h, record, blocks) /\ record \in Table
  BY DEF Inv, QueryInv, StoreInv
<1>3. h.client \in Clients /\ h.client # None
  BY <1>1, <1>2, Constants DEF Shape
<1>4. GroupIn(record, h.client) \in Groups /\ GroupIn(record, h.client) \in h.held /\ "policy" \in Stages
  BY <1>1, <1>2, <1>3, Constants DEF GroupIn, Table, Stages, Seen
<1> HIDE DEF h
<1>9. /\ k1 \in Handler /\ k1.at = "policy" /\ k1.client = h.client /\ k1.name = h.name
      /\ k1.held = h.held /\ k1.may = h.may
  BY <1>2, <1>4, SetAt
<1> HIDE DEF k1
<1>5. /\ k \in Handler /\ k.at = "policy" /\ k.client = h.client /\ k.name = h.name
      /\ k.held = h.held /\ k.may = h.may /\ k.group = GroupIn(record, h.client)
  BY <1>4, <1>9, SetGroup
<1> HIDE DEF k
<1>6. Shape(k)
  BY <1>1, <1>2, <1>4, <1>5 DEF Shape
<1>7. Seen(k, record, blocks)
  BY <1>2, <1>5, SameHistory
<1>8. QueryInv'
  BY <1>1, <1>6, <1>7, OneHandler DEF store, world
<1> QED
  BY <1>1, <1>8 DEF Inv, CallInv, StoreInv, WorldInv, CacheInv, CountInv, store, world
LEMMA GroupOfFailsStep ==
  ASSUME Inv, NEW s \in Slots, GroupOfFails(s) PROVE Inv'
<1> DEFINE h == query[s]
           rec == [record EXCEPT ![h.client] = None]
           k1 == [h EXCEPT !.at = "policy"]
           k == [k1 EXCEPT !.group = Default]
           held == k.held \cup {Default}
           may == k.may \cup {IF k.name \in blocks[g] THEN "blocked" ELSE "open" : g \in held}
           w1 == [k EXCEPT !.held = held]
           w == [w1 EXCEPT !.may = may]
<1>1. /\ query' = [query EXCEPT ![s] = Watch(k, rec, blocks)] /\ h.at = "local" /\ h.name \notin Local
      /\ faults' \in 0..MaxFaults
      /\ UNCHANGED <<store, world, cache, call, outdated>>
  BY Constants DEF GroupOfFails, Inv, CountInv
<1>2. h \in Handler /\ Shape(h) /\ Seen(h, record, blocks) /\ record \in Table /\ blocks \in Policy
  BY DEF Inv, QueryInv, StoreInv, WorldInv
<1>3. h.client \in Clients /\ h.client # None
  BY <1>1, <1>2, Constants DEF Shape
<1>4. GroupIn(rec, h.client) = Default /\ "policy" \in Stages
  BY <1>2, <1>3 DEF GroupIn, Table, Stages
<1> HIDE DEF h, rec
<1>5. /\ k1 \in Handler /\ k1.at = "policy" /\ k1.client = h.client /\ k1.name = h.name
      /\ k1.held = h.held /\ k1.may = h.may
  BY <1>2, <1>4, SetAt
<1> HIDE DEF k1
<1>6. /\ k \in Handler /\ k.at = "policy" /\ k.client = h.client /\ k.name = h.name
      /\ k.held = h.held /\ k.may = h.may /\ k.group = Default
  BY <1>5, Constants, SetGroup
<1> HIDE DEF k
<1>7. Watch(k, rec, blocks) = w
  BY <1>1, <1>3, <1>4, <1>6 DEF Watch
<1>8. /\ held \in SUBSET Groups /\ Default \in held /\ k.held \subseteq held
      /\ may \in SUBSET {"blocked", "open"} /\ k.may \subseteq may
      /\ \A g \in held : Verdict(k.name, g, blocks) \in may
  <2>1. k.held \in SUBSET Groups /\ k.may \in SUBSET {"blocked", "open"}
    BY <1>6 DEF Handler
  <2>2. \A g \in held : Verdict(k.name, g, blocks) \in may
    BY DEF Verdict
  <2> QED
    BY <2>1, <2>2, Constants
<1> HIDE DEF held, may
<1>9. /\ w1 \in Handler /\ w1.at = "policy" /\ w1.client = h.client /\ w1.name = h.name
      /\ w1.held = held /\ w1.may = k.may /\ w1.group = Default
  BY <1>6, <1>8, SetHeld
<1> HIDE DEF w1
<1>10. /\ w \in Handler /\ w.at = "policy" /\ w.client = h.client /\ w.name = h.name
      /\ w.held = held /\ w.may = may /\ w.group = Default
  BY <1>8, <1>9, SetMay
<1> HIDE DEF w
<1>11. Shape(w)
  BY <1>1, <1>2, <1>8, <1>10 DEF Shape
<1>12. Seen(w, record, blocks)
  BY <1>1, <1>2, <1>3, <1>6, <1>8, <1>10 DEF Seen
<1>13. QueryInv'
  BY <1>1, <1>7, <1>11, <1>12, OneHandler DEF store, world
<1> QED
  BY <1>1, <1>13 DEF Inv, CallInv, StoreInv, WorldInv, CacheInv, CountInv, store, world

LEMMA EvaluateStep ==
  ASSUME Inv, NEW s \in Slots, Evaluate(s) PROVE Inv'
<1> DEFINE h == query[s]
<1>1. h.at = "policy" /\ UNCHANGED <<store, world, cache, call, faults, outdated>>
  BY DEF Evaluate
<1>2. h \in Handler /\ Shape(h) /\ Seen(h, record, blocks)
  BY DEF Inv, QueryInv
<1>3. h.group \in h.held /\ h.client # None /\ Verdict(h.name, h.group, blocks) \in h.may
  BY <1>1, <1>2, Constants DEF Shape, Seen
<1>4. QueryInv'
  <2>1. CASE Blocked(s)
    <3>1. finish(s, Synth("blocked"))
      BY <2>1 DEF Evaluate
    <3>2. "blocked" \in query[s].may
      BY <1>3, <2>1 DEF Blocked, Verdict
    <3>3. Synth("blocked") \in Answers /\ Synth("blocked").kind = "blocked"
      BY Constants DEF Synthetic
    <3> QED
      BY <1>1, <3>1, <3>2, <3>3, FinishQuery DEF store, world
  <2>2. CASE ~Blocked(s)
    <3> DEFINE k1 == [h EXCEPT !.at = "lookup"]
               k == [k1 EXCEPT !.group = None]
    <3>1. query' = [query EXCEPT ![s] = k]
      BY <2>2 DEF Evaluate
    <3>2. "open" \in h.may /\ "lookup" \in Stages
      BY <1>3, <2>2 DEF Blocked, Verdict, Stages
    <3> HIDE DEF h
    <3>3. /\ k1 \in Handler /\ k1.at = "lookup" /\ k1.client = h.client /\ k1.name = h.name
          /\ k1.held = h.held /\ k1.may = h.may
      BY <1>2, <3>2, SetAt
    <3> HIDE DEF k1
    <3>4. /\ k \in Handler /\ k.at = "lookup" /\ k.client = h.client /\ k.name = h.name
          /\ k.held = h.held /\ k.may = h.may
      BY <3>3, SetGroup
    <3> HIDE DEF k
    <3>5. Shape(k)
      BY <1>1, <1>2, <3>2, <3>4 DEF Shape
    <3>6. Seen(k, record, blocks)
      BY <1>2, <3>4, SameHistory
    <3> QED
      BY <1>1, <3>1, <3>5, <3>6, OneHandler DEF store, world
  <2> QED
    BY <2>1, <2>2
<1> QED
  BY <1>1, <1>4 DEF Inv, CallInv, StoreInv, WorldInv, CacheInv, CountInv, store, world

LEMMA CacheGetStep ==
  ASSUME Inv, NEW s \in Slots, CacheGet(s) PROVE Inv'
<1> DEFINE h == query[s]
           k == [h EXCEPT !.at = "forward"]
<1>1. h.at = "lookup" /\ UNCHANGED <<store, world, cache, call, faults, outdated>>
  BY DEF CacheGet
<1>2. h \in Handler /\ Shape(h) /\ Seen(h, record, blocks) /\ "forward" \in Stages
  BY DEF Inv, QueryInv, Stages
<1>3. "open" \in h.may /\ h.name \in Names
  BY <1>1, <1>2 DEF Shape
<1>4. QueryInv'
  <2>1. CASE cache[h.name] # None
    <3>1. finish(s, cache[h.name])
      BY <2>1 DEF CacheGet
    <3>2. cache[h.name] \in Answers /\ cache[h.name].kind = "data"
      BY <1>3, <2>1 DEF Inv, CacheInv
    <3> QED
      BY <1>1, <1>3, <3>1, <3>2, FinishQuery DEF store, world
  <2>2. CASE cache[h.name] = None
    <3>1. query' = [query EXCEPT ![s] = k]
      BY <2>2 DEF CacheGet, Go
    <3> HIDE DEF h
    <3>2. /\ k \in Handler /\ k.at = "forward" /\ k.client = h.client /\ k.name = h.name
          /\ k.held = h.held /\ k.may = h.may
      BY <1>2, SetAt
    <3> HIDE DEF k
    <3>3. Shape(k)
      BY <1>1, <1>2, <1>3, <3>2 DEF Shape
    <3>4. Seen(k, record, blocks)
      BY <1>2, <3>2, SameHistory
    <3> QED
      BY <1>1, <3>1, <3>3, <3>4, OneHandler DEF store, world
  <2> QED
    BY <2>1, <2>2
<1> QED
  BY <1>1, <1>4 DEF Inv, CallInv, StoreInv, WorldInv, CacheInv, CountInv, store, world

LEMMA ForwardStep ==
  ASSUME Inv, NEW s \in Slots, Forward(s) PROVE Inv'
<1> DEFINE h == query[s]
<1>1. h.at = "forward" /\ UNCHANGED <<store, world, cache, call, faults, outdated>>
  BY DEF Forward
<1>2. h \in Handler /\ Shape(h) /\ Seen(h, record, blocks) /\ "put" \in Stages
  BY DEF Inv, QueryInv, Stages
<1>3. "open" \in h.may /\ h.name \in Names
  BY <1>1, <1>2 DEF Shape
<1>4. PICK answer \in {Data(version[h.name]), Synth("servfail")} :
         query' = [query EXCEPT ![s] = [h EXCEPT !.at = "put", !.answer = answer]]
  BY DEF Forward
<1>5. answer \in Answers /\ answer.kind \in {"data", "servfail"} /\ answer # None
  BY <1>3, Constants DEF Inv, WorldInv, Synthetic
<1> DEFINE k1 == [h EXCEPT !.at = "put"]
           k == [k1 EXCEPT !.answer = answer]
<1>6. query' = [query EXCEPT ![s] = k]
  BY <1>4
<1> HIDE DEF h
<1>7. /\ k1 \in Handler /\ k1.at = "put" /\ k1.client = h.client /\ k1.name = h.name
      /\ k1.held = h.held /\ k1.may = h.may
  BY <1>2, SetAt
<1> HIDE DEF k1
<1>8. /\ k \in Handler /\ k.at = "put" /\ k.client = h.client /\ k.name = h.name
      /\ k.held = h.held /\ k.may = h.may /\ k.answer = answer
  BY <1>5, <1>7, SetAnswer
<1> HIDE DEF k
<1>9. Shape(k)
  BY <1>1, <1>2, <1>3, <1>5, <1>8 DEF Shape
<1>10. Seen(k, record, blocks)
  BY <1>2, <1>8, SameHistory
<1>11. QueryInv'
  BY <1>1, <1>6, <1>9, <1>10, OneHandler DEF store, world
<1> QED
  BY <1>1, <1>11 DEF Inv, CallInv, StoreInv, WorldInv, CacheInv, CountInv, store, world

LEMMA PutStep ==
  ASSUME Inv, NEW s \in Slots, Put(s) PROVE Inv'
<1> DEFINE h == query[s]
<1>1. /\ h.at = "put" /\ UNCHANGED <<store, world, call, faults, outdated>> /\ finish(s, h.answer)
      /\ \/ h.answer.kind # "servfail" /\ cache' = [cache EXCEPT ![h.name] = h.answer]
         \/ UNCHANGED cache
  BY DEF Put, Cacheable
<1>2. h \in Handler /\ Shape(h)
  BY DEF Inv, QueryInv
<1>3. /\ "open" \in h.may /\ h.name \in Names /\ h.answer \in Answers
      /\ h.answer.kind \in {"data", "servfail"}
  BY <1>1, <1>2 DEF Shape, Handler
<1>4. QueryInv'
  BY <1>1, <1>3, FinishQuery DEF store, world
<1>5. CacheInv'
  BY <1>1, <1>3 DEF Inv, CacheInv
<1> QED
  BY <1>1, <1>4, <1>5 DEF Inv, CallInv, StoreInv, WorldInv, CountInv, store, world

LEMMA ReturnStep ==
  ASSUME Inv, NEW s \in Slots, Return(s) PROVE Inv'
<1>1. query' = [query EXCEPT ![s] = Idle] /\ UNCHANGED <<store, world, cache, call, faults, outdated>>
  BY DEF Return
<1>2. QueryInv'
  BY <1>1, IdleShape, OneHandler DEF store, world
<1> QED
  BY <1>1, <1>2 DEF Inv, CallInv, StoreInv, WorldInv, CacheInv, CountInv, store, world

-----------------------------------------------------------------------------
(* Administrators and the world. *)
(* One request goes on, or ends.                                           *)
LEMMA OneRequest ==
  ASSUME CallInv, NEW a \in Admins, NEW r, RequestOK(r), call' = [call EXCEPT ![a] = r]
  PROVE  CallInv'
<1>1. r \in Request /\ call \in [Admins -> Request] /\ \A b \in Admins : RequestOK(call[b])
  BY DEF RequestOK, CallInv
<1>2. call' \in [Admins -> Request] /\ \A b \in Admins : RequestOK(call'[b])
  BY <1>1
<1> QED
  BY <1>2 DEF CallInv

LEMMA NoCallOK == RequestOK(NoCall)
  BY DEF RequestOK, NoCall, Request

(* Every handler notes the change of a record.                             *)
LEMMA StoreClientQuery ==
  ASSUME Inv, NEW c \in Clients, NEW g \in Groups \cup {None}, StoreClient(c, g), blocks' = blocks
  PROVE  QueryInv' /\ record' \in Table
<1>1. record' \in Table /\ query' = [s \in Slots |-> Watch(query[s], record', blocks')]
  BY DEF StoreClient, Inv, StoreInv, Table
<1>2. blocks' \in Policy /\ \A s \in Slots : Shape(query[s])
  BY DEF Inv, WorldInv, QueryInv
<1> QED
  BY <1>1, <1>2, EveryHandler

LEMMA ClientReadStep ==
  ASSUME Inv, NEW a \in Admins, NEW c \in Clients, NEW kind \in {"rename", "assign", "delete"},
         NEW g \in Groups, ClientRead(a, c, kind, g)
  PROVE  Inv'
<1> DEFINE group == IF kind = "assign" THEN g ELSE record[c]
           r == [at |-> kind, client |-> c, group |-> group]
<1>1. /\ call' = [call EXCEPT ![a] = r] /\ record[c] # None /\ requests < MaxRequests /\ requests' = requests + 1
      /\ UNCHANGED <<store, blocks, version, cache, query, faults, outdated>>
  BY DEF ClientRead
<1>2. group \in Groups
  BY <1>1 DEF Inv, StoreInv, Table
<1> HIDE DEF group
<1>3. RequestOK(r)
  BY <1>2 DEF RequestOK, Request
<1>4. CallInv'
  BY <1>1, <1>3, OneRequest DEF Inv
<1>5. requests' \in 0..MaxRequests
  BY <1>1, Constants DEF Inv, WorldInv
<1> QED
  BY <1>1, <1>4, <1>5 DEF Inv, QueryInv, StoreInv, WorldInv, CacheInv, CountInv, store

(* What is about to be written back are groups, and giving a group keeps   *)
(* the types.                                                              *)
LEMMA PendingGroups ==
  ASSUME Inv, NEW c \in Clients
  PROVE  Pending(c) \in SUBSET Groups
<1>1. ASSUME NEW s \in Slots PROVE TouchedGroup(query[s].read) \in Groups
  BY Constants DEF Inv, QueryInv, Handler, TouchedGroup
<1>2. ASSUME NEW a \in Admins, call[a].at = "rename" PROVE call[a].group \in Groups
  BY <1>2 DEF Inv, CallInv, RequestOK
<1>3. seeding.client = c => seeding.group \in Groups
  BY Constants DEF Inv, StoreInv, SeedingOK
<1> QED
  BY <1>1, <1>2, <1>3 DEF Pending

LEMMA GiveTypes ==
  ASSUME Inv, NEW c \in Clients, NEW g \in Groups \cup {None}, Give(c, g)
  PROVE  assigned' \in Table /\ stale' \in [Clients -> SUBSET Groups]
<1>1. Pending(c) \in SUBSET Groups
  BY PendingGroups
<1>2. assigned' \in Table
  BY DEF Give, Inv, StoreInv, Table
<1>3. stale' \in [Clients -> SUBSET Groups]
  BY <1>1 DEF Give, Inv, StoreInv
<1> QED
  BY <1>2, <1>3

(* The write of clientPatch, which a failed call may have made as well.    *)
LEMMA PatchesStep ==
  ASSUME Inv, NEW a \in Admins, Patches(a), UNCHANGED <<blocks, touched, seeding>>
  PROVE  QueryInv' /\ CallInv' /\ StoreInv'
<1>1. /\ call[a].at \in {"rename", "assign"} /\ StoreClient(call[a].client, call[a].group)
      /\ call' = [call EXCEPT ![a] = NoCall]
  BY DEF Patches
<1>2. call[a].client \in Clients /\ call[a].group \in Groups
  BY <1>1 DEF Inv, CallInv, RequestOK
<1>3. QueryInv' /\ record' \in Table
  BY <1>1, <1>2, StoreClientQuery
<1>4. CallInv'
  BY <1>1, NoCallOK, OneRequest DEF Inv
<1>5. assigned' \in Table /\ stale' \in [Clients -> SUBSET Groups]
  <2>1. CASE Give(call[a].client, call[a].group)
    BY <1>2, <2>1, GiveTypes
  <2>2. CASE UNCHANGED <<assigned, stale>>
    BY <2>2 DEF Inv, StoreInv
  <2> QED
    BY <2>1, <2>2 DEF Patches
<1> QED
  BY <1>3, <1>4, <1>5 DEF Inv, StoreInv

LEMMA DeletesStep ==
  ASSUME Inv, NEW a \in Admins, Deletes(a), UNCHANGED <<blocks, touched, seeding>>
  PROVE  QueryInv' /\ CallInv' /\ StoreInv'
<1>1. call[a].at = "delete" /\ call' = [call EXCEPT ![a] = NoCall]
  BY DEF Deletes
<1>2. call[a].client \in Clients
  BY <1>1 DEF Inv, CallInv, RequestOK
<1>3. CallInv'
  BY <1>1, NoCallOK, OneRequest DEF Inv
<1>4. CASE record[call[a].client] = None
  <2>1. UNCHANGED <<record, query, assigned, stale>>
    BY <1>4 DEF Deletes
  <2> QED
    BY <1>3, <2>1 DEF Inv, QueryInv, StoreInv
<1>5. CASE record[call[a].client] # None
  <2>1. StoreClient(call[a].client, None) /\ Give(call[a].client, None)
    BY <1>5 DEF Deletes
  <2>2. QueryInv' /\ record' \in Table
    BY <1>2, <2>1, StoreClientQuery
  <2>3. assigned' \in Table /\ stale' \in [Clients -> SUBSET Groups]
    BY <1>2, <2>1, GiveTypes
  <2> QED
    BY <1>3, <2>2, <2>3 DEF Inv, StoreInv
<1> QED
  BY <1>4, <1>5

LEMMA RequestStep ==
  ASSUME Inv, NEW a \in Admins, clientPatch(a) \/ clientDelete(a) \/ CallFails(a) PROVE Inv'
<1>1. UNCHANGED <<touched, seeding, world, cache, outdated>>
  BY DEF clientPatch, clientDelete, CallFails
<1>2. faults' \in 0..MaxFaults
  BY Constants DEF clientPatch, clientDelete, CallFails, Inv, CountInv
<1>3. QueryInv' /\ CallInv' /\ StoreInv'
  <2>1. CASE Patches(a)
    BY <1>1, <2>1, PatchesStep DEF world
  <2>2. CASE Deletes(a)
    BY <1>1, <2>2, DeletesStep DEF world
  <2>3. CASE ~Patches(a) /\ ~Deletes(a)
    <3>1. call' = [call EXCEPT ![a] = NoCall] /\ UNCHANGED <<record, assigned, stale, query>>
      BY <2>3 DEF clientPatch, clientDelete, CallFails
    <3>2. CallInv'
      BY <3>1, NoCallOK, OneRequest DEF Inv
    <3> QED
      BY <1>1, <3>1, <3>2 DEF Inv, QueryInv, StoreInv, world
  <2> QED
    BY <2>1, <2>2, <2>3
<1> QED
  BY <1>1, <1>2, <1>3 DEF Inv, WorldInv, CacheInv, CountInv, world

(* What a flush notes as out of date are answers, and not the one given now. *)
LEMMA OlderAnswers ==
  ASSUME version \in [Names -> Versions], NEW n \in Names
  PROVE  Older(n) \subseteq Answers \ {Data(version[n])}
<1>1. /\ MaxVersion \in Nat /\ version[n] \in 1..MaxVersion
      /\ \A v \in Versions : Data(v) \in Answers /\ Data(v).ver = v
  BY Constants DEF Versions
<1>2. SUFFICES ASSUME NEW v \in 1..(version[n] - 1) PROVE Data(v) \in Answers \ {Data(version[n])}
  BY DEF Older
<1>3. v \in Versions /\ v # version[n] /\ version[n] \in Versions
  BY <1>1 DEF Versions
<1> QED
  BY <1>1, <1>3

LEMMA FlushStep ==
  ASSUME Inv, Flush PROVE Inv'
<1>1. /\ requests' = requests + 1 /\ requests < MaxRequests /\ cache' = [n \in Names |-> None]
      /\ outdated' = [n \in Names |-> Older(n) \ Held(n)]
      /\ UNCHANGED <<store, blocks, version, query, call, faults>>
  BY DEF Flush
<1>2. outdated' \in [Names -> SUBSET Answers]
  <2>1. \A n \in Names : Older(n) \subseteq Answers
    BY OlderAnswers DEF Inv, WorldInv
  <2>2. \A n \in Names : Older(n) \ Held(n) \in SUBSET Answers
    BY <2>1
  <2> QED
    BY <1>1, <2>2
<1>3. requests' \in 0..MaxRequests
  BY <1>1, Constants DEF Inv, WorldInv
<1> QED
  BY <1>1, <1>2, <1>3 DEF Inv, QueryInv, CallInv, StoreInv, WorldInv, CacheInv, CountInv, store

LEMMA PolicyChangeStep ==
  ASSUME Inv, NEW g \in Groups, NEW n \in Names \ Local, PolicyChange(g, n) PROVE Inv'
<1>1. /\ requests' = requests + 1 /\ requests < MaxRequests
      /\ query' = [s \in Slots |-> Watch(query[s], record', blocks')]
      /\ UNCHANGED <<store, version, cache, call, faults, outdated>>
  BY DEF PolicyChange, store
<1>2. blocks' \in Policy
  BY DEF PolicyChange, Inv, WorldInv, Policy
<1>3. requests' \in 0..MaxRequests
  BY <1>1, Constants DEF Inv, WorldInv
<1>4. record' \in Table /\ \A s \in Slots : Shape(query[s])
  BY <1>1 DEF Inv, QueryInv, StoreInv, store
<1>5. QueryInv'
  BY <1>1, <1>2, <1>4, EveryHandler
<1> QED
  BY <1>1, <1>2, <1>3, <1>5 DEF Inv, CallInv, StoreInv, WorldInv, CacheInv, CountInv, store

LEMMA PublishStep ==
  ASSUME Inv, NEW n \in Names, Publish(n) PROVE Inv'
<1>1. /\ UNCHANGED <<store, blocks, requests, cache, query, call, faults, outdated>>
      /\ version' \in [Names -> Versions]
  BY Constants DEF Publish, Inv, WorldInv, Versions
<1> QED
  BY <1>1 DEF Inv, QueryInv, CallInv, StoreInv, WorldInv, CacheInv, CountInv, store

LEMMA ForgetStep ==
  ASSUME Inv, NEW n \in Names, Forget(n) PROVE Inv'
  BY DEF Forget, Inv, QueryInv, CallInv, StoreInv, WorldInv, CacheInv, CountInv, store, world

LEMMA DebouncedStep ==
  ASSUME Inv, NEW c \in Clients, Debounced(c) PROVE Inv'
  BY DEF Debounced, Inv, QueryInv, CallInv, StoreInv, WorldInv, CacheInv, CountInv, store, world

LEMMA NoSeedingOK == SeedingOK(NoSeeding)
  BY DEF SeedingOK, NoSeeding, Seeding

LEMMA SeedReadStep ==
  ASSUME Inv, NEW conf \in Configs, NEW c \in DOMAIN conf, SeedRead(c, conf[c]) PROVE Inv'
<1> DEFINE group == SeededGroup(conf[c], record[c])
           given == conf[c] # None
<1>1. /\ seeding' = [client |-> c, group |-> group, given |-> given]
      /\ UNCHANGED <<record, touched, assigned, stale, world, cache, query, call, outdated>>
  BY DEF SeedRead
<1>2. faults' \in 0..MaxFaults
  BY Constants DEF SeedRead, Inv, CountInv
<1>3. c \in Clients /\ conf[c] \in Groups \cup {None} /\ record[c] \in Groups \cup {None}
  BY Constants DEF Inv, StoreInv, Table
<1>4. group \in Groups
  BY <1>3, Constants DEF SeededGroup, TouchedGroup
<1>5. given \in BOOLEAN
  OBVIOUS
<1> HIDE DEF group, given
<1>6. SeedingOK(seeding)'
  BY <1>1, <1>3, <1>4, <1>5 DEF SeedingOK, Seeding
<1> QED
  BY <1>1, <1>2, <1>6 DEF Inv, QueryInv, CallInv, StoreInv, WorldInv, CacheInv, CountInv, world

LEMMA SeedWriteStep ==
  ASSUME Inv, SeedWrite PROVE Inv'
<1> DEFINE c == seeding.client
           g == seeding.group
<1>1. /\ c # None /\ StoreClient(c, g) /\ seeding' = NoSeeding
      /\ Give(c, g) \/ UNCHANGED <<assigned, stale>>
      /\ UNCHANGED <<touched, world, cache, call, faults, outdated>>
  BY DEF SeedWrite
<1>2. c \in Clients /\ g \in Groups
  BY <1>1 DEF Inv, StoreInv, SeedingOK
<1> HIDE DEF c, g
<1>3. QueryInv' /\ record' \in Table
  BY <1>1, <1>2, StoreClientQuery DEF world
<1>4. assigned' \in Table /\ stale' \in [Clients -> SUBSET Groups]
  BY <1>1, <1>2, GiveTypes DEF Inv, StoreInv
<1>5. StoreInv'
  BY <1>1, <1>3, <1>4, NoSeedingOK DEF Inv, StoreInv
<1> QED
  BY <1>1, <1>3, <1>5 DEF Inv, CallInv, WorldInv, CacheInv, CountInv, world

LEMMA SeedFailsStep ==
  ASSUME Inv, SeedFails PROVE Inv'
  BY NoSeedingOK DEF SeedFails, Inv, QueryInv, CallInv, StoreInv, WorldInv, CacheInv, CountInv, world

LEMMA RestartStep ==
  ASSUME Inv, Restart PROVE Inv'
<1>1. faults' \in 0..MaxFaults /\ UNCHANGED world
  BY Constants DEF Restart, Inv, CountInv
<1>2. QueryInv'
  <2>1. query' = [s \in Slots |-> Idle]
    BY DEF Restart
  <2> QED
    BY <2>1, IdleShape DEF QueryInv
<1>3. CallInv'
  <2>1. call' = [a \in Admins |-> NoCall] /\ NoCall \in Request
    BY NoCallOK DEF Restart, RequestOK
  <2> QED
    BY <2>1, NoCallOK DEF CallInv
<1>4. PICK conf \in Configs :
         /\ record' = seedConfigClients(conf, record)
         /\ assigned' = [c \in Clients |-> IF c \in {d \in DOMAIN conf : conf[d] # None} THEN conf[c] ELSE assigned[c]]
         /\ stale' = [c \in Clients |-> IF c \in {d \in DOMAIN conf : conf[d] # None} THEN {} ELSE stale[c]]
  BY DEF Restart
<1>5. \A c \in DOMAIN conf : conf[c] \in Groups \cup {None}
  BY Constants
<1>6. record' \in Table
  BY <1>4, <1>5, Constants DEF seedConfigClients, SeededGroup, TouchedGroup, Table, Inv, StoreInv
<1>7. assigned' \in Table /\ stale' \in [Clients -> SUBSET Groups]
  BY <1>4, <1>5 DEF Table, Inv, StoreInv
<1>8. StoreInv'
  BY <1>6, <1>7, NoSeedingOK DEF Restart, StoreInv
<1>9. CacheInv' /\ outdated' \in [Names -> SUBSET Answers]
  <2>1. \A n \in Names : Older(n) \in SUBSET Answers
    BY OlderAnswers DEF Inv, WorldInv
  <2>2. outdated' = [n \in Names |-> Older(n)] /\ cache' = [n \in Names |-> None]
    BY DEF Restart
  <2> QED
    BY <2>1, <2>2 DEF CacheInv
<1> QED
  BY <1>1, <1>2, <1>3, <1>8, <1>9 DEF Inv, WorldInv, CountInv, world

LEMMA InitInv == Init => Inv
<1> SUFFICES ASSUME Init PROVE Inv
  OBVIOUS
<1>1. QueryInv
  <2>1. query = [s \in Slots |-> Idle]
    BY DEF Init
  <2> QED
    BY <2>1, IdleShape DEF QueryInv
<1>2. CallInv
  <2>1. call = [a \in Admins |-> NoCall] /\ NoCall \in Request
    BY NoCallOK DEF Init, RequestOK
  <2> QED
    BY <2>1, NoCallOK DEF CallInv
<1>3. StoreInv /\ CacheInv
  BY NoSeedingOK DEF Init, StoreInv, CacheInv, Table
<1>4. requests \in 0..MaxRequests /\ faults \in 0..MaxFaults
  BY Constants DEF Init
<1>5. blocks \in Policy
  BY DEF Init, Policy
<1>6. version \in [Names -> Versions] /\ outdated \in [Names -> SUBSET Answers]
  <2>1. 1 \in Versions
    BY Constants DEF Versions
  <2> QED
    BY <2>1 DEF Init
<1> QED
  BY <1>1, <1>2, <1>3, <1>4, <1>5, <1>6 DEF Inv, WorldInv, CountInv

(* Every action keeps the invariant.                                       *)
LEMMA NextInv == Inv /\ [Next]_vars => Inv'
<1> SUFFICES ASSUME Inv, [Next]_vars PROVE Inv'
  OBVIOUS
<1>1. ASSUME NEW s \in Slots, Handle(s) PROVE Inv'
  BY <1>1, RefuseStep, TouchStep, TouchGetStep, UpsertStep, GroupOfStep, GroupOfFailsStep, EvaluateStep,
     CacheGetStep, ForwardStep, PutStep DEF Handle
<1>2. ASSUME NEW s \in Slots, NEW c \in Clients, NEW n \in Names, Arrive(s, c, n) PROVE Inv'
  BY <1>2, ArriveStep
<1>3. ASSUME NEW s \in Slots, Return(s) PROVE Inv'
  BY <1>3, ReturnStep
<1>4. ASSUME NEW a \in Admins, clientPatch(a) \/ clientDelete(a) \/ CallFails(a) PROVE Inv'
  BY <1>4, RequestStep
<1>5. ASSUME NEW a \in Admins, NEW c \in Clients, NEW kind \in {"rename", "assign", "delete"}, NEW g \in Groups,
             ClientRead(a, c, kind, g)
      PROVE  Inv'
  BY <1>5, ClientReadStep
<1>6. ASSUME NEW g \in Groups, NEW n \in Names \ Local, PolicyChange(g, n) PROVE Inv'
  BY <1>6, PolicyChangeStep
<1>7. ASSUME NEW n \in Names \ Local, Publish(n) \/ Forget(n) PROVE Inv'
  BY <1>7, PublishStep, ForgetStep
<1>8. ASSUME NEW c \in Clients, Debounced(c) PROVE Inv'
  BY <1>8, DebouncedStep
<1>10. ASSUME NEW conf \in Configs, NEW c \in DOMAIN conf, SeedRead(c, conf[c]) PROVE Inv'
  BY <1>10, SeedReadStep
<1>9. CASE UNCHANGED vars
  BY <1>9 DEF vars, Inv, QueryInv, CallInv, StoreInv, WorldInv, CacheInv, CountInv, store, world
<1> QED
  BY <1>1, <1>2, <1>3, <1>4, <1>5, <1>6, <1>7, <1>8, <1>9, <1>10, FlushStep, SeedWriteStep, SeedFailsStep, RestartStep
  DEF Next

LEMMA InvConsistent == Inv => Consistent
<1> SUFFICES ASSUME Inv PROVE Consistent
  OBVIOUS
<1>1. Served
  BY DEF Served, Inv, QueryInv, Shape
<1>2. TypeOK
  <2>1. query \in [Slots -> Handler] /\ call \in [Admins -> Request] /\ \A s \in Slots : Shape(query[s])
    BY DEF Inv, QueryInv, CallInv
  <2>2. \A s \in Slots : query[s].at = "done" => query[s].answer # None
    BY <2>1 DEF Shape
  <2>3. StoreInv /\ WorldInv /\ CacheInv /\ CountInv
    BY DEF Inv
  <2> QED
    BY <2>1, <2>2, <2>3 DEF TypeOK, Handler, Request, StoreInv, SeedingOK, Seeding, WorldInv, CacheInv, CountInv, Table, Policy
<1> QED
  BY <1>1, <1>2 DEF Consistent

(* Handlers, requests, store, policy and cache fit together in every       *)
(* state.                                                                  *)
THEOREM PipelineInvariant == Spec => []Inv
  BY InitInv, NextInv, PTL DEF Spec

(* Every query that Handle finished has the answer that its policy allows: *)
(* blocked only if some group its client had while it ran blocked the      *)
(* name, and answered, from the shared cache or by an upstream, only if    *)
(* one did not, whatever requests, reloads, flushes and other queries came *)
(* between.                                                                *)
THEOREM ConsistentAlways == Spec => []Consistent
  BY PipelineInvariant, InvConsistent, PTL

-----------------------------------------------------------------------------
(* What a step may do to a handler: leave it as it is but for its history, *)
(* or take it on.                                                          *)
Same(s) == /\ query'[s].at = query[s].at /\ query'[s].client = query[s].client /\ query'[s].name = query[s].name
           /\ query'[s].read = query[s].read /\ query'[s].answer = query[s].answer

Progress(s) == \/ Same(s)
               \/ query'[s].at \notin {"upsert", "put", "done"}
               \/ TouchGet(s) \/ Forward(s) \/ CacheGet(s)
               \/ query[s].at # "lookup" /\ query'[s].at = "done"

LEMMA WatchKeeps ==
  ASSUME NEW h \in Handler, NEW rec, NEW pol
  PROVE  LET w == Watch(h, rec, pol)
         IN  w.at = h.at /\ w.client = h.client /\ w.name = h.name /\ w.read = h.read /\ w.answer = h.answer
<1> DEFINE held == h.held \cup {GroupIn(rec, h.client)}
           may == h.may \cup {IF h.name \in pol[g] THEN "blocked" ELSE "open" : g \in held}
           w == [h EXCEPT !.held = held, !.may = may]
<1>1. Watch(h, rec, pol) = IF h.client = None \/ h.name \in Local THEN h ELSE w
  BY DEF Watch
<1> HIDE DEF held, may
<1>2. w.at = h.at /\ w.client = h.client /\ w.name = h.name /\ w.read = h.read /\ w.answer = h.answer
  BY DEF Handler
<1> HIDE DEF w
<1> QED
  BY <1>1, <1>2

LEMMA WatchedProgress ==
  ASSUME query \in [Slots -> Handler], NEW s \in Slots, NEW rec, NEW pol,
         query' = [t \in Slots |-> Watch(query[t], rec, pol)]
  PROVE  Progress(s)
<1>1. query'[s] = Watch(query[s], rec, pol) /\ query[s] \in Handler
  OBVIOUS
<1> QED
  BY <1>1, WatchKeeps DEF Progress, Same

LEMMA FinishProgress ==
  ASSUME query \in [Slots -> Handler], NEW s \in Slots, NEW answer, finish(s, answer)
  PROVE  query'[s].at = "done" /\ query'[s].answer = answer
  BY DEF finish, Idle

LEMMA TouchesProgress ==
  ASSUME query \in [Slots -> Handler], NEW t \in Slots, NEW s \in Slots, Touches(t)
  PROVE  Progress(s)
<1> DEFINE k == [query[t] EXCEPT !.at = "local", !.read = None]
           h == IF s = t THEN k ELSE query[s]
<1>1. query'[s] = Watch(h, record', blocks) /\ query[s] \in Handler /\ query[t] \in Handler
  BY DEF Touches
<1>2. k \in Handler /\ k.at = "local"
  BY <1>1, ZenonT(30) DEF Handler, Stages
<1> HIDE DEF k
<1>3. h \in Handler /\ (h = query[s] \/ h.at = "local")
  BY <1>1, <1>2
<1> HIDE DEF h
<1> QED
  BY <1>1, <1>3, WatchKeeps DEF Progress, Same

(* The steps of handler t, seen from handler s. *)
LEMMA HandleProgress ==
  ASSUME Inv, NEW s \in Slots, NEW t \in Slots, Handle(t) PROVE Progress(s)
<1>0. query \in [Slots -> Handler] /\ query[s] \in Handler /\ query[t] \in Handler
  BY DEF Inv, QueryInv
<1>1. CASE \E answer : finish(t, answer) /\ query[t].at # "lookup"
  BY <1>0, <1>1, FinishProgress, ZenonT(30) DEF finish, Progress, Same
<1>2. CASE Touch(t)
  BY <1>0, <1>2 DEF Touch, Go, Handler, Progress, Same
<1>3. CASE TouchGet(t)
  BY <1>0, <1>3 DEF TouchGet, Progress, Same
<1>4. CASE TouchUpsert(t) \/ TouchFails(t)
  <2>1. CASE Touches(t)
    BY <1>0, <2>1, TouchesProgress
  <2>2. CASE ~Touches(t)
    <3>1. query' = [query EXCEPT ![t] = [query[t] EXCEPT !.at = "local", !.read = None]]
      BY <1>4, <2>2 DEF TouchUpsert, TouchFails
    <3> QED
      BY <1>0, <3>1 DEF Handler, Progress, Same
  <2> QED
    BY <2>1, <2>2
<1>5. CASE GroupOf(t)
  BY <1>0, <1>5 DEF GroupOf, Handler, Progress, Same
<1>6. CASE GroupOfFails(t)
  <2> DEFINE k == [query[t] EXCEPT !.at = "policy", !.group = Default]
  <2>1. PICK rec : query' = [query EXCEPT ![t] = Watch(k, rec, blocks)]
    BY <1>6 DEF GroupOfFails
  <2>2. k \in Handler /\ k.at = "policy"
    BY <1>0, Constants, ZenonT(30) DEF Handler, Stages
  <2> HIDE DEF k
  <2>3. Watch(k, rec, blocks).at = "policy"
    BY <2>2, WatchKeeps
  <2> QED
    BY <1>0, <2>1, <2>3 DEF Progress, Same
<1>7. CASE Evaluate(t)
  <2>1. CASE Blocked(t)
    BY <1>1, <1>7, <2>1 DEF Evaluate
  <2>2. CASE ~Blocked(t)
    <3>1. query' = [query EXCEPT ![t] = [query[t] EXCEPT !.at = "lookup", !.group = None]]
      BY <1>7, <2>2 DEF Evaluate
    <3> QED
      BY <1>0, <3>1 DEF Handler, Progress, Same
  <2> QED
    BY <2>1, <2>2
<1>8. CASE CacheGet(t)
  <2>1. CASE s = t
    BY <1>8, <2>1 DEF Progress
  <2>2. CASE s # t
    BY <1>0, <1>8, <2>2 DEF CacheGet, finish, Go, Progress, Same
  <2> QED
    BY <2>1, <2>2
<1>9. CASE Forward(t)
  BY <1>0, <1>9 DEF Forward, Progress, Same
<1>10. CASE Refuse(t)
  BY <1>1, <1>10 DEF Refuse
<1>11. CASE handleSpecial(t) \/ Put(t)
  BY <1>1, <1>11 DEF handleSpecial, Put
<1> QED
  BY <1>2, <1>3, <1>4, <1>5, <1>6, <1>7, <1>8, <1>9, <1>10, <1>11 DEF Handle

LEMMA NextProgress ==
  ASSUME Inv, [Next]_vars, NEW s \in Slots PROVE Progress(s)
<1>0. query \in [Slots -> Handler] /\ query[s] \in Handler
  BY DEF Inv, QueryInv
<1>1. CASE query' = query
  BY <1>1 DEF Progress, Same
<1>2. ASSUME NEW t \in Slots, Handle(t) PROVE Progress(s)
  BY <1>2, HandleProgress
<1>3. ASSUME NEW t \in Slots, Return(t) PROVE Progress(s)
  BY <1>0, <1>3, IdleShape DEF Return, Progress, Same
<1>4. ASSUME NEW t \in Slots, NEW c \in Clients, NEW n \in Names, Arrive(t, c, n) PROVE Progress(s)
  <2> DEFINE k == [Idle EXCEPT !.at = "start", !.client = c, !.name = n]
  <2>1. query' = [query EXCEPT ![t] = Watch(k, record, blocks)]
    BY <1>4 DEF Arrive
  <2>2. k \in Handler /\ k.at = "start"
    BY IdleShape DEF Idle, Handler, Stages
  <2> HIDE DEF k
  <2>3. Watch(k, record, blocks).at = "start"
    BY <2>2, WatchKeeps
  <2> QED
    BY <1>0, <2>1, <2>3 DEF Progress, Same
<1>5. ASSUME NEW c, NEW g, StoreClient(c, g) PROVE Progress(s)
  BY <1>0, <1>5, WatchedProgress DEF StoreClient
<1>6. ASSUME NEW a \in Admins, clientPatch(a) \/ clientDelete(a) \/ CallFails(a) PROVE Progress(s)
  BY <1>1, <1>5, <1>6 DEF clientPatch, clientDelete, CallFails, Patches, Deletes
<1>7. ASSUME NEW a \in Admins, NEW c \in Clients, NEW kind \in {"rename", "assign", "delete"}, NEW g \in Groups,
             ClientRead(a, c, kind, g)
      PROVE  Progress(s)
  BY <1>1, <1>7 DEF ClientRead
<1>8. ASSUME NEW g \in Groups, NEW n \in Names \ Local, PolicyChange(g, n) PROVE Progress(s)
  BY <1>0, <1>8, WatchedProgress DEF PolicyChange
<1>9. ASSUME NEW n \in Names \ Local, Publish(n) \/ Forget(n) PROVE Progress(s)
  BY <1>1, <1>9 DEF Publish, Forget
<1>10. ASSUME NEW c, Debounced(c) \/ SeedWrite \/ SeedFails \/ \E give : SeedRead(c, give) PROVE Progress(s)
  BY <1>1, <1>5, <1>10 DEF Debounced, SeedRead, SeedWrite, SeedFails
<1>11. CASE Flush
  BY <1>1, <1>11 DEF Flush
<1>12. CASE Restart
  <2>1. query'[s] = Idle
    BY <1>12 DEF Restart
  <2> QED
    BY <2>1, IdleShape DEF Progress
<1>13. CASE UNCHANGED vars
  BY <1>1, <1>13 DEF vars
<1> QED
  BY <1>2, <1>3, <1>4, <1>6, <1>7, <1>8, <1>9, <1>10, <1>11, <1>12, <1>13 DEF Next

(* Put takes failures as it takes answers (pipeline.go:169), and no query  *)
(* is ever answered from the cache with the failure of another one.        *)
THEOREM FailuresNotSharedAlways == Spec => FailuresNotShared
<1>1. Inv /\ [Next]_vars => [\A s \in Slots : query[s].at = "lookup" /\ query'[s].at = "done"
                                                => query'[s].answer.kind # "servfail"]_vars
  <2> SUFFICES ASSUME Inv, [Next]_vars, NEW s \in Slots, query[s].at = "lookup", query'[s].at = "done"
               PROVE  query'[s].answer.kind # "servfail"
    OBVIOUS
  <2>1. Progress(s) /\ query \in [Slots -> Handler] /\ query[s] \in Handler /\ Shape(query[s])
    BY NextProgress DEF Inv, QueryInv
  <2>2. CacheGet(s)
    BY <2>1 DEF Progress, Same, TouchGet, Forward
  <2>3. CASE cache[query[s].name] # None
    <3>1. query'[s].answer = cache[query[s].name]
      BY <2>1, <2>2, <2>3, FinishProgress DEF CacheGet
    <3>2. query[s].name \in Names
      BY <2>1 DEF Shape
    <3> QED
      BY <2>3, <3>1, <3>2 DEF Inv, CacheInv
  <2>4. CASE cache[query[s].name] = None
    <3>1. query'[s] = [query[s] EXCEPT !.at = "forward"]
      BY <2>1, <2>2, <2>4 DEF CacheGet, Go
    <3> QED
      BY <2>1, <3>1 DEF Handler
  <2> QED
    BY <2>3, <2>4
<1> QED
  BY <1>1, PipelineInvariant, PTL DEF Spec, FailuresNotShared

-----------------------------------------------------------------------------
(* What is noted as out of date is, and no handler is about to store it.   *)
StaleInv ==
    /\ \A n \in Names : outdated[n] \subseteq Older(n)
    /\ \A s \in Slots : query[s].at = "put" => query[s].answer \notin outdated[query[s].name]
    /\ FlushHolds

(* Nothing that is made up is out of date, nor is what upstreams give now. *)
LEMMA Fresh ==
  ASSUME Inv, NEW n \in Names
  PROVE  /\ Data(version[n]) \notin Older(n) /\ Synth("servfail") \notin Older(n)
         /\ None \notin Older(n) /\ Older(n) \subseteq Answers
<1>1. Older(n) \subseteq Answers \ {Data(version[n])}
  BY OlderAnswers DEF Inv, WorldInv
<1>2. None \notin Older(n)
  BY <1>1, Constants
<1>3. Synth("servfail") \notin Older(n)
  BY DEF Older, Data, Synth
<1> QED
  BY <1>1, <1>2, <1>3

(* The steps that leave versions and what is out of date alone and cache   *)
(* nothing new.                                                            *)
LEMMA QuietStale ==
  ASSUME Inv, StaleInv, [Next]_vars, \A s \in Slots : ~Forward(s), outdated' = outdated, version' = version,
         \A n \in Names : cache'[n] = cache[n] \/ cache'[n] = None
  PROVE  StaleInv'
<1>1. \A n \in Names : outdated'[n] \subseteq Older(n)'
  BY DEF StaleInv, Older
<1>2. ASSUME NEW s \in Slots, query'[s].at = "put" PROVE query'[s].answer \notin outdated'[query'[s].name]
  <2>1. Progress(s) /\ query \in [Slots -> Handler] /\ query[s] \in Handler
    BY NextProgress DEF Inv, QueryInv
  <2>2. Same(s)
    <3>1. ~TouchGet(s)
      <4>1. TouchGet(s) => query'[s] = [query[s] EXCEPT !.at = "upsert", !.read = record[query[s].client]]
        BY <2>1 DEF TouchGet
      <4>2. TouchGet(s) => query'[s].at = "upsert"
        BY <2>1, <4>1 DEF Handler
      <4> QED
        BY <1>2, <4>2
    <3>2. ~CacheGet(s)
      <4>1. CacheGet(s) => query'[s].at \in {"done", "forward"}
        BY <2>1, FinishProgress DEF CacheGet, Go, Handler
      <4> QED
        BY <1>2, <4>1
    <3> QED
      BY <1>2, <2>1, <3>1, <3>2 DEF Progress
  <2> QED
    BY <1>2, <2>2 DEF StaleInv, Same
<1>3. FlushHolds'
  <2> SUFFICES ASSUME NEW n \in Names PROVE cache'[n] \notin outdated'[n]
    BY DEF FlushHolds
  <2>1. None \notin outdated[n] /\ cache[n] \notin outdated[n]
    BY Fresh DEF StaleInv, FlushHolds
  <2> QED
    BY <2>1
<1> QED
  BY <1>1, <1>2, <1>3 DEF StaleInv

(* Forward takes the current answer, or none.                              *)
LEMMA ForwardStale ==
  ASSUME Inv, StaleInv, NEW t \in Slots, Forward(t) PROVE StaleInv'
<1>1. query[t].at = "forward" /\ UNCHANGED <<outdated, version, cache>>
  BY DEF Forward, world
<1>2. query \in [Slots -> Handler] /\ query[t] \in Handler /\ query[t].name \in Names
  BY <1>1 DEF Inv, QueryInv, Shape
<1>3. PICK answer \in {Data(version[query[t].name]), Synth("servfail")} :
         query' = [query EXCEPT ![t] = [query[t] EXCEPT !.at = "put", !.answer = answer]]
  BY DEF Forward
<1>4. query'[t].answer = answer /\ query'[t].name = query[t].name /\ \A s \in Slots : s # t => query'[s] = query[s]
  BY <1>2, <1>3 DEF Handler
<1>5. answer \notin outdated[query[t].name]
  BY <1>2, <1>3, Fresh DEF StaleInv
<1>6. \A s \in Slots : query'[s].at = "put" => query'[s].answer \notin outdated'[query'[s].name]
  BY <1>1, <1>4, <1>5 DEF StaleInv
<1>7. \A n \in Names : outdated'[n] \subseteq Older(n)'
  BY <1>1 DEF StaleInv, Older
<1> QED
  BY <1>1, <1>6, <1>7 DEF StaleInv, FlushHolds

(* What Put caches is what the handler had.                                *)
LEMMA PutStale ==
  ASSUME Inv, StaleInv, NEW t \in Slots, Put(t) PROVE StaleInv'
<1>1. /\ query[t].at = "put" /\ UNCHANGED <<outdated, version>> /\ finish(t, query[t].answer)
      /\ \/ cache' = [cache EXCEPT ![query[t].name] = query[t].answer]
         \/ UNCHANGED cache
  BY DEF Put, world
<1>2. query \in [Slots -> Handler] /\ query[t].name \in Names /\ cache \in [Names -> Answers \cup {None}]
  BY <1>1 DEF Inv, QueryInv, Shape, CacheInv
<1>3. query'[t].at = "done" /\ \A s \in Slots : s # t => query'[s] = query[s]
  BY <1>1, <1>2, FinishProgress, ZenonT(30) DEF finish
<1>4. FlushHolds'
  BY <1>1, <1>2 DEF StaleInv, FlushHolds
<1>5. \A n \in Names : outdated'[n] \subseteq Older(n)'
  BY <1>1 DEF StaleInv, Older
<1> QED
  BY <1>1, <1>3, <1>4, <1>5 DEF StaleInv

(* Flush and Restart empty the cache and note what is out of date and in   *)
(* nobody's hands.                                                         *)
LEMMA EmptyStale ==
  ASSUME Inv, version' = version, cache' = [n \in Names |-> None],
         outdated' = [n \in Names |-> Older(n) \ {query'[s].answer : s \in
                        {t \in Slots : query'[t].at = "put" /\ query'[t].name = n}}],
         \A s \in Slots : query'[s].at = "put" => query'[s].name \in Names
  PROVE  StaleInv'
<1>1. \A n \in Names : outdated'[n] \subseteq Older(n)'
  BY DEF Older
<1>2. \A s \in Slots : query'[s].at = "put" => query'[s].answer \notin outdated'[query'[s].name]
  OBVIOUS
<1>3. FlushHolds'
  BY Fresh DEF FlushHolds
<1> QED
  BY <1>1, <1>2, <1>3 DEF StaleInv

LEMMA FlushStale ==
  ASSUME Inv, StaleInv, Flush PROVE StaleInv'
<1>1. /\ UNCHANGED <<version, query>> /\ cache' = [n \in Names |-> None]
      /\ outdated' = [n \in Names |-> Older(n) \ {query'[s].answer : s \in
                        {t \in Slots : query'[t].at = "put" /\ query'[t].name = n}}]
  BY DEF Flush, Held
<1>2. \A s \in Slots : query'[s].at = "put" => query'[s].name \in Names
  BY <1>1 DEF Inv, QueryInv, Shape
<1> QED
  BY <1>1, <1>2, EmptyStale

LEMMA PublishStale ==
  ASSUME Inv, StaleInv, NEW m \in Names, Publish(m) PROVE StaleInv'
<1>1. /\ UNCHANGED <<cache, query, outdated>> /\ version' = [version EXCEPT ![m] = version[m] + 1]
      /\ version \in [Names -> Versions] /\ \A n \in Names : version[n] \in Int
  BY DEF Publish, Inv, WorldInv, Versions
<1>2. ASSUME NEW n \in Names PROVE Older(n) \subseteq Older(n)'
  <2>1. version'[n] \in Int /\ version[n] <= version'[n]
    BY <1>1
  <2>2. 1..(version[n] - 1) \subseteq 1..(version'[n] - 1)
    BY <1>1, <2>1
  <2> QED
    BY <2>2 DEF Older, Data
<1>3. \A n \in Names : outdated'[n] \subseteq Older(n)'
  BY <1>1, <1>2 DEF StaleInv
<1> QED
  BY <1>1, <1>3 DEF StaleInv, FlushHolds

LEMMA RestartStale ==
  ASSUME Inv, StaleInv, Restart PROVE StaleInv'
<1>1. /\ version' = version /\ outdated' = [n \in Names |-> Older(n)] /\ cache' = [n \in Names |-> None]
      /\ \A s \in Slots : query'[s].at # "put"
  BY IdleShape DEF Restart, world
<1>2. \A n \in Names : {t \in Slots : query'[t].at = "put" /\ query'[t].name = n} = {}
  BY <1>1
<1>3. outdated' = [n \in Names |-> Older(n) \ {query'[s].answer : s \in
                        {t \in Slots : query'[t].at = "put" /\ query'[t].name = n}}]
  BY <1>1, <1>2
<1> QED
  BY <1>1, <1>3, EmptyStale

LEMMA InitStale == Init => StaleInv
<1> SUFFICES ASSUME Init PROVE StaleInv
  OBVIOUS
<1>1. /\ outdated = [n \in Names |-> {}] /\ \A s \in Slots : query[s].at # "put"
  BY IdleShape DEF Init
<1> QED
  BY <1>1 DEF StaleInv, FlushHolds

LEMMA NextStale == Inv /\ StaleInv /\ [Next]_vars => StaleInv'
<1> SUFFICES ASSUME Inv, StaleInv, [Next]_vars PROVE StaleInv'
  OBVIOUS
<1>1. CASE \E t \in Slots : Forward(t)
  BY <1>1, ForwardStale
<1>2. CASE \E t \in Slots : Put(t)
  BY <1>2, PutStale
<1>3. CASE Flush
  BY <1>3, FlushStale
<1>4. CASE \E m \in Names : Publish(m)
  BY <1>4, PublishStale
<1>5. CASE Restart
  BY <1>5, RestartStale
<1>6. CASE /\ ~(\E t \in Slots : Forward(t) \/ Put(t)) /\ ~Flush
           /\ ~(\E m \in Names : Publish(m)) /\ ~Restart
  <2>1. /\ outdated' = outdated /\ version' = version
        /\ cache' = cache \/ \E n \in Names : Forget(n)
    <3>1. ASSUME NEW t \in Slots, Handle(t) PROVE UNCHANGED <<outdated, version, cache>>
      BY <1>6, <3>1 DEF Handle, Refuse, Touch, TouchGet, TouchUpsert, TouchFails, handleSpecial, GroupOf, GroupOfFails,
                        Evaluate, CacheGet, world
    <3>2. ASSUME NEW t \in Slots, Return(t) PROVE UNCHANGED <<outdated, version, cache>>
      BY <3>2 DEF Return, world
    <3>3. ASSUME NEW t \in Slots, NEW c \in Clients, NEW n \in Names, Arrive(t, c, n)
          PROVE  UNCHANGED <<outdated, version, cache>>
      BY <3>3 DEF Arrive, world
    <3>4. ASSUME NEW a \in Admins, clientPatch(a) \/ clientDelete(a) \/ CallFails(a)
          PROVE  UNCHANGED <<outdated, version, cache>>
      BY <3>4 DEF clientPatch, clientDelete, CallFails, world
    <3>5. ASSUME NEW a \in Admins, NEW c \in Clients, NEW kind \in {"rename", "assign", "delete"}, NEW g \in Groups,
                 ClientRead(a, c, kind, g)
          PROVE  UNCHANGED <<outdated, version, cache>>
      BY <3>5 DEF ClientRead
    <3>6. ASSUME NEW g \in Groups, NEW n \in Names \ Local, PolicyChange(g, n) PROVE UNCHANGED <<outdated, version, cache>>
      BY <3>6 DEF PolicyChange
    <3>7. ASSUME NEW n \in Names, Forget(n) PROVE UNCHANGED <<outdated, version>>
      BY <3>7 DEF Forget, world
    <3>8. ASSUME NEW c, Debounced(c) \/ SeedWrite \/ SeedFails \/ \E give : SeedRead(c, give)
          PROVE  UNCHANGED <<outdated, version, cache>>
      BY <3>8 DEF Debounced, SeedRead, SeedWrite, SeedFails, world
    <3>9. CASE UNCHANGED vars
      BY <3>9 DEF vars, world
    <3> QED
      BY <1>6, <3>1, <3>2, <3>3, <3>4, <3>5, <3>6, <3>7, <3>8, <3>9 DEF Next
  <2>2. \A n \in Names : cache'[n] = cache[n] \/ cache'[n] = None
    <3>1. ASSUME NEW n \in Names, Forget(n), NEW m \in Names PROVE cache'[m] = cache[m] \/ cache'[m] = None
      BY <3>1 DEF Forget, Inv, CacheInv
    <3> QED
      BY <2>1, <3>1
  <2> QED
    BY <1>6, <2>1, <2>2, QuietStale
<1> QED
  BY <1>1, <1>2, <1>3, <1>4, <1>5, <1>6

(* However queries, changed answers, flushes and restarts interleave, what *)
(* was out of date at a flush never comes back into the cache, but for the *)
(* very answers that handlers were about to store then (pipeline.go:164).  *)
THEOREM FlushHoldsAlways == Spec => []FlushHolds
<1>1. StaleInv => FlushHolds
  BY DEF StaleInv
<1> QED
  BY <1>1, PipelineInvariant, InitStale, NextStale, PTL DEF Spec

-----------------------------------------------------------------------------
(* Groups that the record of a client may have: the one last given to it,  *)
(* the default group after a deletion, and what was about to be written    *)
(* back when the group was given.                                          *)
Came(c, g) == g = assigned[c] \/ (assigned[c] = None /\ g = Default) \/ g \in stale[c]

KeepInv == \A c \in Clients : Came(c, record[c]) /\ \A g \in Pending(c) : Came(c, g)

LEMMA NoCallAt == NoCall.at = "idle" /\ NoSeeding.client = None
  BY DEF NoCall, NoSeeding

(* Who is about to write a record back: a handler, a request or a reload.  *)
LEMMA PendingSources ==
  ASSUME NEW c, NEW g
  PROVE  g \in Pending(c) <=> \/ \E s \in Slots : /\ query[s].at = "upsert" /\ query[s].client = c
                                                  /\ g = TouchedGroup(query[s].read)
                              \/ \E a \in Admins : call[a].at = "rename" /\ call[a].client = c /\ g = call[a].group
                              \/ seeding.client = c /\ ~seeding.given /\ g = seeding.group
  BY DEF Pending

LEMMA PendingSourcesNext ==
  ASSUME NEW c, NEW g, g \in Pending(c)'
  PROVE  \/ \E s \in Slots : /\ query'[s].at = "upsert" /\ query'[s].client = c
                             /\ g = TouchedGroup(query'[s].read)
         \/ \E a \in Admins : call'[a].at = "rename" /\ call'[a].client = c /\ g = call'[a].group
         \/ seeding'.client = c /\ ~seeding'.given /\ g = seeding'.group
  BY DEF Pending, TouchedGroup

(* A handler that is about to write a record has just read it, or had it   *)
(* before,                                                                 *)
LEMMA Upserts ==
  ASSUME Inv, [Next]_vars, NEW s \in Slots, query'[s].at = "upsert"
  PROVE  \/ Same(s)
         \/ TouchGet(s) /\ query'[s].client = query[s].client /\ query'[s].read = record[query[s].client]
<1>1. Progress(s) /\ query \in [Slots -> Handler] /\ query[s] \in Handler
  BY NextProgress DEF Inv, QueryInv
<1>2. ~CacheGet(s)
  <2>1. CacheGet(s) => query'[s].at \in {"done", "forward"}
    BY <1>1, FinishProgress DEF CacheGet, Go, Handler
  <2> QED
    BY <2>1
<1>3. ~Forward(s)
  <2>1. Forward(s) => \E answer : query'[s] = [query[s] EXCEPT !.at = "put", !.answer = answer]
    BY <1>1, ZenonT(30) DEF Forward
  <2>2. Forward(s) => query'[s].at = "put"
    BY <1>1, <2>1, ZenonT(30) DEF Handler
  <2> QED
    BY <2>2
<1>4. TouchGet(s) => query'[s] = [query[s] EXCEPT !.at = "upsert", !.read = record[query[s].client]]
  BY <1>1 DEF TouchGet
<1>5. TouchGet(s) => query'[s].client = query[s].client /\ query'[s].read = record[query[s].client]
  BY <1>1, <1>4 DEF Handler
<1> QED
  BY <1>1, <1>2, <1>3, <1>5 DEF Progress

(* and so has a request,                                                   *)
LEMMA Renames ==
  ASSUME Inv, [Next]_vars, NEW a \in Admins, call'[a].at = "rename"
  PROVE  \/ call'[a] = call[a]
         \/ record[call'[a].client] # None /\ call'[a].group = record[call'[a].client]
<1>1. call \in [Admins -> Request]
  BY DEF Inv, CallInv
<1>2. CASE call' = call
  BY <1>2
<1>3. CASE \E b \in Admins : call' = [call EXCEPT ![b] = NoCall]
  BY <1>1, <1>3, NoCallAt
<1>4. CASE \E b \in Admins, c \in Clients, kind \in {"rename", "assign", "delete"}, g \in Groups : ClientRead(b, c, kind, g)
  <2>1. PICK b \in Admins, c \in Clients, kind \in {"rename", "assign", "delete"}, g \in Groups : ClientRead(b, c, kind, g)
    BY <1>4
  <2> DEFINE r == [at |-> kind, client |-> c, group |-> IF kind = "assign" THEN g ELSE record[c]]
  <2>2. call' = [call EXCEPT ![b] = r] /\ record[c] # None
    BY <2>1 DEF ClientRead
  <2>3. r.client = c /\ (r.at = "rename" => r.group = record[c])
    OBVIOUS
  <2> HIDE DEF r
  <2> QED
    BY <1>1, <2>2, <2>3
<1>5. CASE Restart
  <2>1. call'[a] = NoCall
    BY <1>5 DEF Restart
  <2> QED
    BY <2>1, NoCallAt
<1>6. \/ call' = call \/ Restart
      \/ \E b \in Admins : call' = [call EXCEPT ![b] = NoCall]
      \/ \E b \in Admins, c \in Clients, kind \in {"rename", "assign", "delete"}, g \in Groups : ClientRead(b, c, kind, g)
  <2>1. ASSUME NEW t \in Slots, Handle(t) PROVE call' = call
    BY <2>1 DEF Handle, Refuse, Touch, TouchGet, TouchUpsert, TouchFails, handleSpecial, GroupOf, GroupOfFails,
                Evaluate, CacheGet, Forward, Put
  <2>2. ASSUME NEW t \in Slots, NEW c, NEW n, Return(t) \/ Arrive(t, c, n) PROVE call' = call
    BY <2>2 DEF Return, Arrive
  <2>3. ASSUME NEW b \in Admins, clientPatch(b) \/ clientDelete(b) \/ CallFails(b) PROVE call' = [call EXCEPT ![b] = NoCall]
    BY <2>3 DEF clientPatch, clientDelete, CallFails, Patches, Deletes
  <2>4. ASSUME NEW g, NEW n, PolicyChange(g, n) \/ Publish(n) \/ Forget(n) \/ Flush PROVE call' = call
    BY <2>4 DEF PolicyChange, Publish, Forget, Flush
  <2>5. ASSUME NEW c, Debounced(c) \/ SeedWrite \/ SeedFails \/ \E give : SeedRead(c, give) PROVE call' = call
    BY <2>5 DEF Debounced, SeedRead, SeedWrite, SeedFails
  <2>6. CASE UNCHANGED vars
    BY <2>6 DEF vars
  <2> QED
    BY <2>1, <2>2, <2>3, <2>4, <2>5, <2>6 DEF Next
<1> QED
  BY <1>2, <1>3, <1>4, <1>5, <1>6

(* and a reload.                                                           *)
LEMMA Seedings ==
  ASSUME Inv, [Next]_vars, seeding'.client # None, ~seeding'.given
  PROVE  \/ seeding' = seeding
         \/ seeding'.group = TouchedGroup(record[seeding'.client])
<1>1. \/ seeding' = seeding \/ seeding' = NoSeeding
      \/ \E c, give : SeedRead(c, give)
  <2>1. ASSUME NEW t \in Slots, Handle(t) PROVE seeding' = seeding
    BY <2>1 DEF Handle, Refuse, Touch, TouchGet, TouchUpsert, TouchFails, handleSpecial, GroupOf, GroupOfFails,
                Evaluate, CacheGet, Forward, Put, store
  <2>2. ASSUME NEW t \in Slots, NEW c, NEW n, Return(t) \/ Arrive(t, c, n) PROVE seeding' = seeding
    BY <2>2 DEF Return, Arrive, store
  <2>3. ASSUME NEW b \in Admins, clientPatch(b) \/ clientDelete(b) \/ CallFails(b) PROVE seeding' = seeding
    BY <2>3 DEF clientPatch, clientDelete, CallFails
  <2>4. ASSUME NEW b \in Admins, NEW c, NEW kind, NEW g, ClientRead(b, c, kind, g) PROVE seeding' = seeding
    BY <2>4 DEF ClientRead, store
  <2>5. ASSUME NEW g, NEW n, PolicyChange(g, n) \/ Publish(n) \/ Forget(n) \/ Flush PROVE seeding' = seeding
    BY <2>5 DEF PolicyChange, Publish, Forget, Flush, store
  <2>6. ASSUME NEW c, Debounced(c) PROVE seeding' = seeding
    BY <2>6 DEF Debounced
  <2>7. CASE SeedWrite \/ SeedFails \/ Restart
    BY <2>7 DEF SeedWrite, SeedFails, Restart
  <2>8. CASE UNCHANGED vars
    BY <2>8 DEF vars, store
  <2> QED
    BY <2>1, <2>2, <2>3, <2>4, <2>5, <2>6, <2>7, <2>8 DEF Next
<1>2. ASSUME NEW c, NEW give, SeedRead(c, give) PROVE seeding'.group = TouchedGroup(record[seeding'.client])
  <2>1. seeding' = [client |-> c, group |-> SeededGroup(give, record[c]), given |-> give # None]
    BY <1>2 DEF SeedRead
  <2>2. seeding'.client = c /\ seeding'.group = SeededGroup(give, record[c]) /\ seeding'.given = (give # None)
    BY <2>1
  <2>3. give = None
    BY <2>2
  <2> QED
    BY <2>2, <2>3 DEF SeededGroup
<1> QED
  BY <1>1, <1>2, NoCallAt

(* So what is about to be written back was so before, or is in the store.  *)
LEMMA NextPending ==
  ASSUME Inv, [Next]_vars, NEW c \in Clients, NEW g, g \in Pending(c)'
  PROVE  g \in Pending(c) \/ g = TouchedGroup(record[c])
<1>1. ASSUME NEW s \in Slots, query'[s].at = "upsert", query'[s].client = c, g = TouchedGroup(query'[s].read)
      PROVE  g \in Pending(c) \/ g = TouchedGroup(record[c])
  BY <1>1, Upserts, PendingSources DEF Same
<1>2. ASSUME NEW a \in Admins, call'[a].at = "rename", call'[a].client = c, g = call'[a].group
      PROVE  g \in Pending(c) \/ g = TouchedGroup(record[c])
  BY <1>2, Renames, PendingSources DEF TouchedGroup
<1>3. ASSUME seeding'.client = c, ~seeding'.given, g = seeding'.group
      PROVE  g \in Pending(c) \/ g = TouchedGroup(record[c])
  BY <1>3, Seedings, PendingSources, Constants
<1> QED
  BY <1>1, <1>2, <1>3, PendingSourcesNext

(* A write by a request or a reload reads nothing.                         *)
LEMMA WritePending ==
  ASSUME Inv, NEW c \in Clients, NEW g, StoreClient(c, g),
         \/ UNCHANGED seeding /\ \E a \in Admins : call' = [call EXCEPT ![a] = NoCall]
         \/ UNCHANGED call /\ seeding' = NoSeeding,
         NEW d \in Clients
  PROVE  Pending(d)' \subseteq Pending(d)
<1>1. \A s \in Slots : query'[s].at = query[s].at /\ query'[s].client = query[s].client /\ query'[s].read = query[s].read
  <2>1. \A s \in Slots : query'[s] = Watch(query[s], record', blocks) /\ query[s] \in Handler
    BY DEF StoreClient, Inv, QueryInv
  <2> QED
    BY <2>1, WatchKeeps
<1>2. \A a \in Admins : call'[a].at = "rename" => call'[a] = call[a]
  BY NoCallAt DEF Inv, CallInv
<1>3. seeding'.client # None => seeding' = seeding
  BY NoCallAt
<1> SUFFICES ASSUME NEW x, x \in Pending(d)' PROVE x \in Pending(d)
  OBVIOUS
<1> QED
  BY <1>1, <1>2, <1>3, PendingSources, PendingSourcesNext, Constants

(* What a step does to the records: a client is given a group, or what was *)
(* pending is written.                                                     *)
Gives(c, g) == /\ Give(c, g) /\ record' = [record EXCEPT ![c] = g]
               /\ \A d \in Clients : Pending(d)' \subseteq Pending(d)
WritesBack == /\ UNCHANGED <<assigned, stale>>
              /\ \A c \in Clients : record'[c] = record[c] \/ record'[c] \in Pending(c)

LEMMA RequestWrites ==
  ASSUME Inv, NEW a \in Admins, clientPatch(a) \/ clientDelete(a) \/ CallFails(a)
  PROVE  WritesBack \/ \E c \in Clients, g \in Groups \cup {None} : Gives(c, g)
<1> DEFINE c == call[a].client
<1>1. UNCHANGED seeding
  BY DEF clientPatch, clientDelete, CallFails
<1>2. record \in Table
  BY DEF Inv, StoreInv
<1>3. CASE Patches(a)
  <2>1. /\ call[a].at \in {"rename", "assign"} /\ StoreClient(c, call[a].group)
        /\ call' = [call EXCEPT ![a] = NoCall]
    BY <1>3 DEF Patches
  <2>2. c \in Clients /\ call[a].group \in Groups
    BY <2>1 DEF Inv, CallInv, RequestOK
  <2>3. CASE call[a].at = "assign"
    <3>1. Give(c, call[a].group)
      BY <1>3, <2>3 DEF Patches
    <3>2. \A d \in Clients : Pending(d)' \subseteq Pending(d)
      BY <1>1, <2>1, <2>2, WritePending
    <3> QED
      BY <2>1, <2>2, <3>1, <3>2 DEF Gives, StoreClient
  <2>4. CASE call[a].at = "rename"
    <3>1. UNCHANGED <<assigned, stale>>
      BY <1>3, <2>4 DEF Patches
    <3>2. call[a].group \in Pending(c)
      BY <2>4, PendingSources
    <3> QED
      BY <1>2, <2>1, <3>1, <3>2 DEF WritesBack, StoreClient, Table
  <2> QED
    BY <2>1, <2>3, <2>4
<1>4. CASE Deletes(a) /\ record[c] # None
  <2>1. StoreClient(c, None) /\ Give(c, None) /\ call' = [call EXCEPT ![a] = NoCall] /\ call[a].at = "delete"
    BY <1>4 DEF Deletes
  <2>2. c \in Clients
    BY <2>1 DEF Inv, CallInv, RequestOK
  <2>3. \A d \in Clients : Pending(d)' \subseteq Pending(d)
    BY <1>1, <2>1, <2>2, WritePending
  <2> QED
    BY <2>1, <2>2, <2>3 DEF Gives, StoreClient
<1>5. CASE ~Patches(a) /\ ~(Deletes(a) /\ record[c] # None)
  <2>1. UNCHANGED <<record, assigned, stale>>
    BY <1>5 DEF clientPatch, clientDelete, CallFails, Deletes
  <2> QED
    BY <2>1 DEF WritesBack
<1> QED
  BY <1>3, <1>4, <1>5

LEMMA SeedWrites ==
  ASSUME Inv, SeedWrite
  PROVE  WritesBack \/ \E c \in Clients, g \in Groups \cup {None} : Gives(c, g)
<1> DEFINE c == seeding.client
           g == seeding.group
<1>1. /\ c # None /\ StoreClient(c, g) /\ seeding' = NoSeeding /\ UNCHANGED call
      /\ IF seeding.given THEN Give(c, g) ELSE UNCHANGED <<assigned, stale>>
  BY DEF SeedWrite
<1>2. c \in Clients /\ g \in Groups /\ record \in Table
  BY <1>1 DEF Inv, StoreInv, SeedingOK
<1>3. CASE seeding.given
  <2>1. \A d \in Clients : Pending(d)' \subseteq Pending(d)
    BY <1>1, <1>2, WritePending
  <2> QED
    BY <1>1, <1>2, <1>3, <2>1 DEF Gives, StoreClient
<1>4. CASE ~seeding.given
  <2>1. g \in Pending(c)
    BY <1>4, PendingSources
  <2> QED
    BY <1>1, <1>2, <1>4, <2>1 DEF WritesBack, StoreClient, Table
<1> QED
  BY <1>3, <1>4

LEMMA NextWrites ==
  ASSUME Inv, [Next]_vars, ~Restart
  PROVE  WritesBack \/ \E c \in Clients, g \in Groups \cup {None} : Gives(c, g)
<1>1. ASSUME UNCHANGED <<record, assigned, stale>> PROVE WritesBack
  BY <1>1 DEF WritesBack
<1>2. ASSUME NEW t \in Slots, Touches(t), UNCHANGED <<assigned, stale>> PROVE WritesBack
  <2>1. query[t].at = "upsert" /\ record' = [record EXCEPT ![query[t].client] = TouchedGroup(query[t].read)]
    BY <1>2 DEF Touches
  <2>2. TouchedGroup(query[t].read) \in Pending(query[t].client)
    BY <2>1, PendingSources
  <2> QED
    BY <1>2, <2>1, <2>2 DEF WritesBack, Inv, StoreInv, Table
<1>3. ASSUME NEW t \in Slots, Handle(t) PROVE WritesBack
  <2>1. CASE Touches(t) /\ (TouchUpsert(t) \/ TouchFails(t))
    BY <1>2, <2>1 DEF TouchUpsert, TouchFails
  <2>2. CASE ~(Touches(t) /\ (TouchUpsert(t) \/ TouchFails(t)))
    <3>1. UNCHANGED <<record, assigned, stale>>
      BY <1>3, <2>2 DEF Handle, Refuse, Touch, TouchGet, TouchUpsert, TouchFails, handleSpecial, GroupOf, GroupOfFails,
                        Evaluate, CacheGet, Forward, Put, store
    <3> QED
      BY <1>1, <3>1
  <2> QED
    BY <2>1, <2>2
<1>4. ASSUME NEW t \in Slots, NEW c, NEW n, Return(t) \/ Arrive(t, c, n) PROVE WritesBack
  BY <1>1, <1>4 DEF Return, Arrive, store
<1>5. ASSUME NEW b \in Admins, NEW c, NEW kind, NEW g, ClientRead(b, c, kind, g) PROVE WritesBack
  BY <1>1, <1>5 DEF ClientRead, store
<1>6. ASSUME NEW g, NEW n, PolicyChange(g, n) \/ Publish(n) \/ Forget(n) \/ Flush PROVE WritesBack
  BY <1>1, <1>6 DEF PolicyChange, Publish, Forget, Flush, store
<1>7. ASSUME NEW c, Debounced(c) \/ SeedFails \/ \E give : SeedRead(c, give) PROVE WritesBack
  BY <1>1, <1>7 DEF Debounced, SeedFails, SeedRead
<1>8. CASE UNCHANGED vars
  BY <1>1, <1>8 DEF vars, store
<1> QED
  BY <1>3, <1>4, <1>5, <1>6, <1>7, <1>8, RequestWrites, SeedWrites DEF Next

(* What is read of a record that may have its group may be written back.   *)
LEMMA CameBack ==
  ASSUME Inv, NEW c \in Clients, Came(c, record[c])
  PROVE  Came(c, TouchedGroup(record[c]))
<1>1. CASE record[c] # None
  BY <1>1 DEF TouchedGroup
<1>2. CASE record[c] = None
  <2>1. None \notin stale[c] /\ Default # None
    BY Constants DEF Inv, StoreInv
  <2>2. assigned[c] = None
    BY <1>2, <2>1 DEF Came
  <2> QED
    BY <1>2, <2>2 DEF TouchedGroup, Came
<1> QED
  BY <1>1, <1>2

LEMMA WritesBackKeep ==
  ASSUME Inv, KeepInv, [Next]_vars, WritesBack PROVE KeepInv'
<1> SUFFICES ASSUME NEW c \in Clients
             PROVE  Came(c, record[c])' /\ \A g \in Pending(c)' : Came(c, g)'
  BY DEF KeepInv
<1>1. ASSUME NEW g, Came(c, g) PROVE Came(c, g)'
  BY <1>1 DEF Came, WritesBack
<1>2. Came(c, record'[c]) /\ (Came(c, record'[c]) => Came(c, record[c])')
  BY DEF KeepInv, WritesBack, Came
<1>3. ASSUME NEW g, g \in Pending(c)' PROVE Came(c, g)'
  <2>1. g \in Pending(c) \/ g = TouchedGroup(record[c])
    BY <1>3, NextPending
  <2>2. Came(c, g)
    BY <2>1, CameBack DEF KeepInv
  <2> QED
    BY <1>1, <2>2
<1> QED
  BY <1>2, <1>3

LEMMA GivesKeep ==
  ASSUME Inv, KeepInv, NEW d \in Clients, NEW x \in Groups \cup {None}, Gives(d, x) PROVE KeepInv'
<1>1. /\ assigned' = [assigned EXCEPT ![d] = x] /\ stale' = [stale EXCEPT ![d] = Pending(d)]
      /\ record' = [record EXCEPT ![d] = x]
      /\ record \in Table /\ assigned \in Table /\ stale \in [Clients -> SUBSET Groups]
  BY DEF Gives, Give, Inv, StoreInv
<1> SUFFICES ASSUME NEW c \in Clients
             PROVE  Came(c, record[c])' /\ \A g \in Pending(c)' : Came(c, g)'
  BY DEF KeepInv
<1>2. Pending(c)' \subseteq Pending(c)
  BY DEF Gives
<1>3. CASE c = d
  <2>1. record'[c] = x /\ assigned'[c] = x /\ stale'[c] = Pending(c)
    BY <1>1, <1>3 DEF Table
  <2> QED
    BY <1>2, <2>1 DEF Came
<1>4. CASE c # d
  <2>1. record'[c] = record[c] /\ assigned'[c] = assigned[c] /\ stale'[c] = stale[c]
    BY <1>1, <1>4 DEF Table
  <2> QED
    BY <1>2, <2>1 DEF Came, KeepInv
<1> QED
  BY <1>3, <1>4

LEMMA RestartKeep ==
  ASSUME Inv, KeepInv, Restart PROVE KeepInv'
<1>1. PICK conf \in Configs :
         /\ record' = seedConfigClients(conf, record)
         /\ assigned' = [c \in Clients |-> IF c \in {d \in DOMAIN conf : conf[d] # None} THEN conf[c] ELSE assigned[c]]
         /\ stale' = [c \in Clients |-> IF c \in {d \in DOMAIN conf : conf[d] # None} THEN {} ELSE stale[c]]
  BY DEF Restart
<1>2. query' = [s \in Slots |-> Idle] /\ call' = [a \in Admins |-> NoCall] /\ seeding' = NoSeeding
  BY DEF Restart
<1> SUFFICES ASSUME NEW c \in Clients
             PROVE  Came(c, record[c])' /\ \A g \in Pending(c)' : Came(c, g)'
  BY DEF KeepInv
<1>3. Pending(c)' = {}
  BY <1>2, IdleShape, NoCallAt, Constants, PendingSourcesNext
<1>4. Came(c, record[c]) /\ Came(c, TouchedGroup(record[c]))
  BY CameBack DEF KeepInv
<1>5. CASE c \in DOMAIN conf /\ conf[c] # None
  <2>1. record'[c] = conf[c] /\ assigned'[c] = conf[c]
    BY <1>1, <1>5 DEF seedConfigClients, SeededGroup
  <2> QED
    BY <1>3, <2>1 DEF Came
<1>6. CASE ~(c \in DOMAIN conf /\ conf[c] # None)
  <2>1. /\ record'[c] = record[c] \/ record'[c] = TouchedGroup(record[c])
        /\ assigned'[c] = assigned[c] /\ stale'[c] = stale[c]
    BY <1>1, <1>6 DEF seedConfigClients, SeededGroup
  <2> QED
    BY <1>3, <1>4, <2>1 DEF Came
<1> QED
  BY <1>5, <1>6

LEMMA InitKeep == Init => KeepInv
<1> SUFFICES ASSUME Init PROVE KeepInv
  OBVIOUS
<1>1. /\ assigned = record /\ query = [s \in Slots |-> Idle] /\ call = [a \in Admins |-> NoCall]
      /\ seeding = NoSeeding
  BY DEF Init
<1>2. \A c \in Clients : Pending(c) = {}
  BY <1>1, IdleShape, NoCallAt, Constants, PendingSources
<1> QED
  BY <1>1, <1>2 DEF KeepInv, Came

LEMMA NextKeep == Inv /\ KeepInv /\ [Next]_vars => KeepInv'
  BY NextWrites, WritesBackKeep, GivesKeep, RestartKeep

(* A group that clientPatch, the configuration or a reload gave to a       *)
(* client stays, and a deleted client comes back in the default group      *)
(* only: ClientID.Touch, renames and the seeding of entries without a      *)
(* group write back what they read, and only a write that was under way    *)
(* when the group was given can undo it (client_id.go:65, main.go:1370).   *)
THEOREM AssignmentKeptAlways == Spec => []AssignmentKept
<1>1. KeepInv => AssignmentKept
  BY DEF KeepInv, Came, AssignmentKept
<1> QED
  BY <1>1, PipelineInvariant, InitKeep, NextKeep, PTL DEF Spec
=============================================================================
