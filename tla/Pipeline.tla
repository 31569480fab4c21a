------------------------------ MODULE Pipeline ------------------------------
(***************************************************************************)
(* A DNS query from its arrival to its answer, Pipeline.Handle of          *)
(* internal/dns/pipeline.go, with the components that it calls reduced to  *)
(* what they promise: the rate limiter says yes or no (RateLimiter), the   *)
(* policy engine decides for a group (PolicyEngine), the cache may forget  *)
(* but returns what was stored last (TTLCache), the pool returns an answer *)
(* or an error (UpstreamPool), the store is a map (DurableStore) in which  *)
(* a failed call may have had its effect (that the JSON store forgets such *)
(* an effect at the next start is the subject of FileStore).               *)
(* Handlers run concurrently with one another and with administrators who  *)
(* change clients and policy and flush the cache.  Counters are in         *)
(* Statistics, the log in LogFiles and Fanout.                             *)
(***************************************************************************)
EXTENDS Integers, FiniteSets

CONSTANTS Slots,         \* queries in flight
          Admins,        \* API requests in flight
          Clients,       \* client keys: the MAC address, or the IP without one
          Names, Local,  \* names asked for; those that handleSpecial answers
          Groups, Default,
          Configs,       \* the client entries that the configuration may have when it is
                         \* loaded: for each key the group given, or None
          MaxVersion,    \* bound on the changes of an authoritative answer
          MaxRequests,   \* bound on the administrators' requests
          MaxFaults,     \* bound on store failures, reloads and restarts
          None

Versions == 1..MaxVersion
Synthetic == {"refused", "local", "blocked", "servfail"}

(* An answer of an upstream, and one that Sis makes up. *)
Data(v) == [kind |-> "data", ver |-> v]
Synth(kind) == [kind |-> kind, ver |-> 0]
Answers == {Data(v) : v \in Versions} \cup {Synth(kind) : kind \in Synthetic}

ASSUME PipelineAssumption ==
    /\ Default \in Groups /\ Local \subseteq Names
    /\ Configs # {} /\ \A conf \in Configs : /\ DOMAIN conf \subseteq Clients
                                             /\ \A c \in DOMAIN conf : conf[c] \in Groups \cup {None}
    /\ {MaxRequests, MaxFaults} \subseteq Nat /\ MaxVersion \in Nat \ {0}
    /\ None \notin Groups \cup Clients \cup Names \cup Admins \cup Answers

VARIABLES record,    \* the store's clients: the group of each, None without a record
          touched,   \* ClientID.touched, as the keys inside their debounce time
          blocks,    \* the policy: the names that each group blocks
          cache,     \* the answer cached for each name
          version,   \* the answer that the upstreams give
          query,     \* the handlers
          call,      \* the administrators' requests
          seeding,   \* a reload at work on a client of the configuration
          requests, faults,
          assigned,  \* history: the group last given to a client, None after a deletion
          stale,     \* history: the groups about to be written back for each client when it
                     \* was last given one
          outdated   \* history: the answers that were so when the cache was last flushed,
                     \* but for those that a handler was about to store

store == <<record, touched, assigned, stale, seeding>>
world == <<blocks, version, requests>>
vars == <<store, world, cache, query, call, faults, outdated>>

Idle == [at |-> "idle", client |-> None, name |-> None, read |-> None, group |-> None,
         answer |-> None, held |-> {}, may |-> {}]
NoCall == [at |-> "idle", client |-> None, group |-> None]
NoSeeding == [client |-> None, group |-> None, given |-> FALSE]

GroupIn(rec, c) == IF rec[c] = None THEN Default ELSE rec[c]

Init == /\ record \in [Clients -> Groups \cup {None}]
        /\ \E conf \in Configs : \A c \in DOMAIN conf :
              record[c] # None /\ (conf[c] # None => record[c] = conf[c])
        /\ touched = {}
        /\ blocks \in [Groups -> SUBSET (Names \ Local)]
        /\ cache = [n \in Names |-> None] /\ version = [n \in Names |-> 1]
        /\ query = [s \in Slots |-> Idle]
        /\ call = [a \in Admins |-> NoCall]
        /\ seeding = NoSeeding
        /\ requests = 0 /\ faults = 0
        /\ assigned = record /\ stale = [c \in Clients |-> {}]
        /\ outdated = [n \in Names |-> {}]
-----------------------------------------------------------------------------
(* History of a handler: the groups that its client had so far, and what   *)
(* the policy said of them meanwhile.  Local names are not asked for.      *)
Watch(h, rec, pol) ==
    IF h.client = None \/ h.name \in Local THEN h
    ELSE LET held == h.held \cup {GroupIn(rec, h.client)}
         IN  [h EXCEPT !.held = held,
                       !.may = h.may \cup {IF h.name \in pol[g] THEN "blocked" ELSE "open" : g \in held}]

Go(s, at) == query' = [query EXCEPT ![s] = [query[s] EXCEPT !.at = at]]

(* finish: the answer leaves.  The counters and the log are elsewhere; the *)
(* history is kept for answers that follow the policy.                     *)
finish(s, answer) ==
    query' = [query EXCEPT ![s] = [Idle EXCEPT !.at = "done", !.answer = answer,
                 !.may = IF query[s].at \in {"start", "local"} THEN {} ELSE query[s].may]]

Arrive(s, c, n) ==
    /\ query[s].at = "idle"
    /\ query' = [query EXCEPT ![s] = Watch([Idle EXCEPT !.at = "start", !.client = c, !.name = n], record, blocks)]
    /\ UNCHANGED <<store, world, cache, call, faults, outdated>>

(* The limiter refuses, with an answer for TCP only; or the query has      *)
(* another opcode, no question, or another class than IN ("refused" stands *)
(* for the rcodes of all these, and for no answer).                        *)
Refuse(s) == /\ query[s].at = "start"
             /\ finish(s, Synth("refused"))
             /\ UNCHANGED <<store, world, cache, call, faults, outdated>>
-----------------------------------------------------------------------------
(* ClientID.Touch: the debounce check and its mark under the mutex, then a *)
(* read and a write of the store without it.  A failure is ignored, and    *)
(* the mark stays.                                                         *)
Touch(s) == /\ query[s].at = "start"
            /\ Go(s, IF query[s].client \in touched THEN "local" ELSE "get")
            /\ touched' = touched \cup {query[s].client}
            /\ UNCHANGED <<record, assigned, stale, seeding, world, cache, call, faults, outdated>>

TouchGet(s) == /\ query[s].at = "get"
               /\ query' = [query EXCEPT ![s] = [query[s] EXCEPT !.at = "upsert", !.read = record[query[s].client]]]
               /\ UNCHANGED <<store, world, cache, call, faults, outdated>>

(* A new client starts in the default group; a known one keeps its own. *)
TouchedGroup(r) == IF r = None THEN Default ELSE r

Touches(s) ==
    /\ query[s].at = "upsert"
    /\ record' = [record EXCEPT ![query[s].client] = TouchedGroup(query[s].read)]
    /\ query' = [h \in Slots |->
                   Watch(IF h = s THEN [query[s] EXCEPT !.at = "local", !.read = None] ELSE query[h], record', blocks)]

TouchUpsert(s) == Touches(s) /\ UNCHANGED <<touched, assigned, stale, seeding, world, cache, call, faults, outdated>>

TouchFails(s) == /\ query[s].at \in {"get", "upsert"} /\ faults < MaxFaults
                 /\ faults' = faults + 1
                 /\ \/ Touches(s)
                    \/ /\ query' = [query EXCEPT ![s] = [query[s] EXCEPT !.at = "local", !.read = None]]
                       /\ UNCHANGED record
                 /\ UNCHANGED <<touched, assigned, stale, seeding, world, cache, call, outdated>>
-----------------------------------------------------------------------------
handleSpecial(s) == /\ query[s].at = "local" /\ query[s].name \in Local
                    /\ finish(s, Synth("local"))
                    /\ UNCHANGED <<store, world, cache, call, faults, outdated>>

(* StoreClientResolver.GroupOf: without a record the default group. *)
GroupOf(s) ==
    /\ query[s].at = "local" /\ query[s].name \notin Local
    /\ query' = [query EXCEPT ![s] = [query[s] EXCEPT !.at = "policy", !.group = GroupIn(record, query[s].client)]]
    /\ UNCHANGED <<store, world, cache, call, faults, outdated>>

(* It takes an error for "no record": the history notes the default group. *)
GroupOfFails(s) ==
    /\ query[s].at = "local" /\ query[s].name \notin Local /\ faults < MaxFaults
    /\ query' = [query EXCEPT ![s] = Watch([query[s] EXCEPT !.at = "policy", !.group = Default],
                                           [record EXCEPT ![query[s].client] = None], blocks)]
    /\ faults' = faults + 1
    /\ UNCHANGED <<store, world, cache, call, outdated>>

Blocked(s) == query[s].name \in blocks[query[s].group]
EvaluateM(s) == /\ query[s].at = "policy"
                /\ IF Blocked(s) /\ cache[query[s].name] = None THEN finish(s, Synth("blocked"))
                   ELSE query' = [query EXCEPT ![s] = [query[s] EXCEPT !.at = "lookup", !.group = None]]
                /\ UNCHANGED <<store, world, cache, call, faults, outdated>>
Evaluate(s) == /\ query[s].at = "policy"
               /\ IF Blocked(s) THEN finish(s, Synth("blocked"))
                  ELSE query' = [query EXCEPT ![s] = [query[s] EXCEPT !.at = "lookup", !.group = None]]
               /\ UNCHANGED <<store, world, cache, call, faults, outdated>>

CacheGet(s) == /\ query[s].at = "lookup"
               /\ IF cache[query[s].name] # None THEN finish(s, cache[query[s].name]) ELSE Go(s, "forward")
               /\ UNCHANGED <<store, world, cache, call, faults, outdated>>

Forward(s) == /\ query[s].at = "forward"
              /\ \E answer \in {Data(version[query[s].name]), Synth("servfail")} :
                    query' = [query EXCEPT ![s] = [query[s] EXCEPT !.at = "put", !.answer = answer]]
              /\ UNCHANGED <<store, world, cache, call, faults, outdated>>

(* Handle puts failures too; ttlFor gives them no lifetime. *)
CacheableM(answer) == TRUE
Cacheable(answer) == answer.kind # "servfail"

Put(s) == LET n == query[s].name
              answer == query[s].answer
          IN  /\ query[s].at = "put"
              /\ \/ Cacheable(answer) /\ cache' = [cache EXCEPT ![n] = answer]
                 \/ UNCHANGED cache
              /\ finish(s, answer)
              /\ UNCHANGED <<store, world, call, faults, outdated>>

Return(s) == /\ query[s].at = "done"
             /\ query' = [query EXCEPT ![s] = Idle]
             /\ UNCHANGED <<store, world, cache, call, faults, outdated>>

Handle(s) == \/ Refuse(s)
             \/ Touch(s) \/ TouchGet(s) \/ TouchUpsert(s) \/ TouchFails(s)
             \/ handleSpecial(s) \/ GroupOf(s) \/ GroupOfFails(s) \/ Evaluate(s)
             \/ CacheGet(s) \/ Forward(s) \/ Put(s)
-----------------------------------------------------------------------------
(* clientPatch and clientDelete read the record first and answer 404       *)
(* without one.  A patch may leave the group as it was read.               *)
ClientRead(a, c, kind, g) ==
    /\ call[a].at = "idle" /\ requests < MaxRequests
    /\ record[c] # None
    /\ call' = [call EXCEPT ![a] = [at |-> kind, client |-> c, group |-> IF kind = "assign" THEN g ELSE record[c]]]
    /\ requests' = requests + 1
    /\ UNCHANGED <<store, blocks, version, cache, query, faults, outdated>>

(* Groups that were read and are about to be written back, by a handler, a *)
(* request that leaves the group alone, or a reload whose entry for the    *)
(* client has none.                                                        *)
Pending(c) ==
    {TouchedGroup(query[s].read) : s \in {t \in Slots : query[t].at = "upsert" /\ query[t].client = c}}
    \cup {call[a].group : a \in {b \in Admins : call[b].at = "rename" /\ call[b].client = c}}
    \cup IF seeding.client = c /\ ~seeding.given THEN {seeding.group} ELSE {}

(* History: c is given group g, or deleted. *)
Give(c, g) == /\ assigned' = [assigned EXCEPT ![c] = g]
              /\ stale' = [stale EXCEPT ![c] = Pending(c)]

StoreClient(c, g) == /\ record' = [record EXCEPT ![c] = g]
                     /\ query' = [s \in Slots |-> Watch(query[s], record', blocks)]

Patches(a) ==
    /\ call[a].at \in {"rename", "assign"}
    /\ StoreClient(call[a].client, call[a].group)
    /\ IF call[a].at = "assign" THEN Give(call[a].client, call[a].group) ELSE UNCHANGED <<assigned, stale>>
    /\ call' = [call EXCEPT ![a] = NoCall]

clientPatch(a) == Patches(a) /\ UNCHANGED <<touched, seeding, world, cache, faults, outdated>>

(* The record may have gone since: then the request fails. *)
Deletes(a) ==
    /\ call[a].at = "delete"
    /\ call' = [call EXCEPT ![a] = NoCall]
    /\ IF record[call[a].client] = None THEN UNCHANGED <<record, query, assigned, stale>>
       ELSE StoreClient(call[a].client, None) /\ Give(call[a].client, None)

clientDelete(a) == Deletes(a) /\ UNCHANGED <<touched, seeding, world, cache, faults, outdated>>

CallFails(a) == /\ call[a].at # "idle" /\ faults < MaxFaults
                /\ faults' = faults + 1
                /\ \/ Patches(a) \/ Deletes(a)
                   \/ /\ call' = [call EXCEPT ![a] = NoCall]
                      /\ UNCHANGED <<record, assigned, stale, query>>
                /\ UNCHANGED <<touched, seeding, world, cache, outdated>>

(* History of a flush: the answers of a name that are out of date, and     *)
(* those that a handler has in hand.                                       *)
Older(n) == {Data(v) : v \in 1..(version[n] - 1)}
Held(n) == {query[s].answer : s \in {t \in Slots : query[t].at = "put" /\ query[t].name = n}}

(* POST /system/cache/flush.  A handler that has its answer is not told. *)
FlushM == /\ requests < MaxRequests
          /\ requests' = requests + 1
          /\ outdated' = [n \in Names |-> Older(n) \ Held(n)]
          /\ UNCHANGED <<store, blocks, version, cache, query, call, faults>>
Flush == /\ requests < MaxRequests
         /\ cache' = [n \in Names |-> None]
         /\ requests' = requests + 1
         /\ outdated' = [n \in Names |-> Older(n) \ Held(n)]
         /\ UNCHANGED <<store, blocks, version, query, call, faults>>

(* Anything that changes the policy: lists, custom entries, groups. *)
PolicyChange(g, n) ==
    /\ requests < MaxRequests
    /\ blocks' = [blocks EXCEPT ![g] = IF n \in blocks[g] THEN blocks[g] \ {n} ELSE blocks[g] \cup {n}]
    /\ query' = [s \in Slots |-> Watch(query[s], record, blocks')]
    /\ requests' = requests + 1
    /\ UNCHANGED <<store, version, cache, call, faults, outdated>>
-----------------------------------------------------------------------------
(* The world: an answer changes, an entry expires or is evicted, debounce  *)
(* time passes, the process is restarted.                                  *)
Publish(n) == /\ version[n] < MaxVersion
              /\ version' = [version EXCEPT ![n] = version[n] + 1]
              /\ UNCHANGED <<store, blocks, requests, cache, query, call, faults, outdated>>

Forget(n) == /\ cache[n] # None
             /\ cache' = [cache EXCEPT ![n] = None]
             /\ UNCHANGED <<store, world, query, call, faults, outdated>>

Debounced(c) == /\ c \in touched
                /\ touched' = touched \ {c}
                /\ UNCHANGED <<record, assigned, stale, seeding, world, cache, query, call, faults, outdated>>

(* seedConfigClients: the group of the entry, else the one in the store.   *)
SeededGroupM(give, r) == IF give # None THEN give ELSE Default
SeededGroup(give, r) == IF give # None THEN give ELSE TouchedGroup(r)

(* A reload by SIGHUP seeds a running server, one client after the other:  *)
(* the record is read,                                                     *)
SeedRead(c, give) == /\ seeding = NoSeeding /\ faults < MaxFaults
                     /\ faults' = faults + 1
                     /\ seeding' = [client |-> c, group |-> SeededGroup(give, record[c]), given |-> give # None]
                     /\ UNCHANGED <<record, touched, assigned, stale, world, cache, query, call, outdated>>

(* and written back.                                                       *)
SeedWrite == /\ seeding.client # None
             /\ StoreClient(seeding.client, seeding.group)
             /\ IF seeding.given THEN Give(seeding.client, seeding.group) ELSE UNCHANGED <<assigned, stale>>
             /\ seeding' = NoSeeding
             /\ UNCHANGED <<touched, world, cache, call, faults, outdated>>

SeedFails == /\ seeding.client # None
             /\ seeding' = NoSeeding
             /\ UNCHANGED <<record, touched, assigned, stale, world, cache, query, call, faults, outdated>>

(* runServe seeds before anybody else is there. *)
seedConfigClients(conf, rec) ==
    [c \in Clients |-> IF c \in DOMAIN conf THEN SeededGroup(conf[c], rec[c]) ELSE rec[c]]

Restart == /\ faults < MaxFaults
           /\ faults' = faults + 1
           /\ \E conf \in Configs :
                 LET given == {c \in DOMAIN conf : conf[c] # None}
                 IN  /\ record' = seedConfigClients(conf, record)
                     /\ assigned' = [c \in Clients |-> IF c \in given THEN conf[c] ELSE assigned[c]]
                     /\ stale' = [c \in Clients |-> IF c \in given THEN {} ELSE stale[c]]
           /\ seeding' = NoSeeding
           /\ touched' = {}
           /\ cache' = [n \in Names |-> None]
           /\ query' = [s \in Slots |-> Idle] /\ call' = [a \in Admins |-> NoCall]
           /\ outdated' = [n \in Names |-> Older(n)]
           /\ UNCHANGED world

Next == \/ \E s \in Slots : Handle(s) \/ Return(s) \/ \E c \in Clients, n \in Names : Arrive(s, c, n)
        \/ \E a \in Admins : \/ clientPatch(a) \/ clientDelete(a) \/ CallFails(a)
                             \/ \E c \in Clients, kind \in {"rename", "assign", "delete"}, g \in Groups : ClientRead(a, c, kind, g)
        \/ Flush \/ \E g \in Groups, n \in Names \ Local : PolicyChange(g, n)
        \/ \E n \in Names \ Local : Publish(n) \/ Forget(n)
        \/ \E c \in Clients : Debounced(c)
        \/ \E conf \in Configs : \E c \in DOMAIN conf : SeedRead(c, conf[c])
        \/ SeedWrite \/ SeedFails \/ Restart

Spec == Init /\ [][Next]_vars
-----------------------------------------------------------------------------
Stages == {"idle", "start", "get", "upsert", "local", "policy", "lookup", "forward", "put", "done"}

TypeOK ==
    /\ record \in [Clients -> Groups \cup {None}] /\ assigned \in [Clients -> Groups \cup {None}]
    /\ touched \subseteq Clients /\ stale \in [Clients -> SUBSET Groups]
    /\ seeding \in [client : Clients \cup {None}, group : Groups \cup {None}, given : BOOLEAN]
    /\ blocks \in [Groups -> SUBSET (Names \ Local)]
    /\ cache \in [Names -> Answers \cup {None}]
    /\ version \in [Names -> Versions] /\ outdated \in [Names -> SUBSET Answers]
    /\ query \in [Slots -> [at : Stages, client : Clients \cup {None}, name : Names \cup {None},
                            read : Groups \cup {None}, group : Groups \cup {None},
                            answer : Answers \cup {None},
                            held : SUBSET Groups, may : SUBSET {"blocked", "open"}]]
    /\ \A s \in Slots : query[s].at = "done" => query[s].answer # None
    /\ call \in [Admins -> [at : {"idle", "rename", "assign", "delete"},
                            client : Clients \cup {None}, group : Groups \cup {None}]]
    /\ requests \in 0..MaxRequests /\ faults \in 0..MaxFaults

(* Clients in different groups share one cache, and the policy changes     *)
(* while queries are in flight.  A query is refused by the policy only if  *)
(* some group that its client had meanwhile blocked the name then, and     *)
(* answered, from the cache or by an upstream, only if one did not.        *)
Served == \A s \in Slots : query[s].at = "done" =>
    /\ query[s].answer.kind = "blocked" => "blocked" \in query[s].may
    /\ query[s].answer.kind \in {"data", "servfail"} => "open" \in query[s].may

(* Handle stores failures like answers (pipeline.go:169): none may reach a *)
(* query that could have asked an upstream itself.                         *)
FailuresNotShared == [][\A s \in Slots :
    query[s].at = "lookup" /\ query'[s].at = "done" => query'[s].answer.kind # "servfail"]_vars

(* A group given to a client by the API, or by the configuration at start  *)
(* or at a reload, stays until it is changed, and a deleted client comes   *)
(* back in the default group only: Touch, renames and the seeding of       *)
(* entries without a group write back what they read.  Only a write that   *)
(* was already under way when the group was given can undo it, with the    *)
(* group that it had read (client_id.go:65, main.go:1370).                 *)
AssignmentKept == \A c \in Clients :
    \/ record[c] = assigned[c]
    \/ assigned[c] = None /\ record[c] = Default
    \/ record[c] \in stale[c]

(* What was out of date when the cache was flushed never comes back into   *)
(* it, from whatever stage the handlers are at, but for the very answers   *)
(* that they had in hand and were about to store (pipeline.go:164).        *)
FlushHolds == \A n \in Names : cache[n] \notin outdated[n]

(* What holds between any two steps of concurrent queries and requests:    *)
(* well-typed state, an answer for every query that is done, and the one   *)
(* that its policy allows.                                                 *)
Consistent == TypeOK /\ Served
=============================================================================
