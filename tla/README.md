# Formal models of Sis

Sis is a filtering DNS forwarder for a small network: it answers DNS queries of
its clients over UDP and TCP, blocks names by lists, groups and schedules,
forwards the rest over DNS-over-HTTPS, caches answers, and is administered
through an HTTP API. This directory holds TLA+ models of its parts, the TLC
configurations that check them on small instances, and TLAPS proofs of what
holds on instances of any size. `PROJECT.json` maps every definition to the
source lines that it models.

    tlc -config MCCache.cfg MCCache      # check one model
    tlapm CacheProofs.tla                # check one module's proofs

## 1. The system

One process. `runServe` (`cmd/sis/main.go`) builds the components, starts the
DNS server and the HTTP server, and runs background goroutines (blocklist sync,
upstream prober, session cleanup, statistics flush, SIGHUP and SIGUSR handlers).

| Component | State | Operations | Talks to |
|---|---|---|---|
| DNS server, worker pool (`dns/server.go`, `dns/workers.go`) | listeners, loops, queue, TCP slots, wait group | Start, accept, read, Submit, Shutdown | pipeline |
| Query pipeline (`dns/pipeline.go`) | rate limiter pointer | Handle, Reconfigure | limiter, client registry, policy, cache, pool, statistics, query log |
| Cache (`dns/cache.go`) | map and LRU list of entries with deadlines, options | Get, Put, Flush, Reconfigure | - |
| Rate limiters (`dns/ratelimit.go`, `api/ratelimit.go`) | token buckets; fixed windows | Allow, prune, trim | - |
| Client registry (`dns/client_id.go`, `api/clients.go`) | client records in the store, times of last touch | Touch, PATCH, DELETE, seeding at start | store |
| Upstream pool (`upstream/pool.go`, `doh.go`) | clients with failure counters and health, probe interval | Forward, Test, probe, Replace | upstream servers |
| Policy engine (`policy/engine.go`, `group.go`, `domains.go`) | compiled groups, allowlists, lists, custom lists | For, Evaluate, ReplaceList, Add/Remove custom, ReloadConfig | client registry |
| Blocklist sync (`policy/sync.go`, `fetcher.go`) | time of the last run of each list, cache files with validators | tick, SyncOne, Fetch | list servers, policy engine |
| Configuration (`config/*`, `api/config_mutation.go`) | file, holder, history | applyConfig, Reload, Load, Save, Validate | every component that can be reconfigured |
| Stores (`store/file.go`, `store/sqlite.go`) | map of JSON values; SQLite tables | get, put, delete, scan, migrate, verify, transfer | disk |
| Sessions (`api/auth.go`) | sessions in the store | setup, login, logout, renewal, cleanup | store, configuration |
| Custom lists (`api/custom_blocklist.go`, `allowlist.go`) | entries in store and engine | add, delete | store, policy engine |
| Logs (`log/*`) | open file, ring of recent entries, subscribers | Write, Rotate, subscribe, Reconfigure | disk |
| Statistics (`stats/*`) | counters, last snapshot | increments, Flush | store |

What is hard in it:

* *No common lock.* Components have a mutex each and none covers a sequence of
  calls. Configuration changes, list syncs, client updates and custom list edits
  are sequences of separately locked steps by several goroutines.
* *State read, lock released, state used.* The pool's candidate list, the
  policy snapshot of a query, the list record of a sync, the configuration that
  a request edits.
* *Files.* The store, the configuration and the list cache are saved with
  rename; a crash, a full disk or a second writer can fall between two steps.
* *Shutdown and start-up failure* with loops, workers and connections running.
* *Timers and boundaries.* TTL arithmetic, schedules over midnight, retry rounds.

`PROJECT.json` lists these places under "hazards", each with the properties that
cover it.

## 2. Plan

| | Modules | Models | State |
|---|---|---|---|
| A | `TTLCache`, `Cache`, `CacheProofs` | cache, with abstract promise | done, proved |
| B | `UpstreamPool`, `UpstreamPoolProofs` | forwarding pool | done, safety proved |
| C | `DNSServer`, `ServiceProofs` | start and shutdown | done, safety proved |
| D | `BlocklistSync`, `BlocklistProofs` | sync, fetcher, list cache | done, safety proved |
| E | `ConfigApply`, `OperatorProofs` | configuration changes | done, safety proved |
| F | `DurableStore`, `FileStore`, `FileStoreProofs` | JSON store, with abstract promise | done, proved |
| G | `Schedule`, `PolicyProofs` | schedules | done, proved |
| H | `Domains`, `PolicyEngine`, `PolicyProofs` | trie, engine, evaluation of a query | done, proved |
| I | `SnapshotStore`, `SQLiteStore`, `StoreTransfer`, `OperatorProofs` | SQLite store with abstract promise, migrations; import, export, backup, restore | done, proved |
| J | `Pipeline`, `PipelineProofs` | a query through limiter, client registry, policy, cache and pool, beside the API | done, safety proved |
| K | `RateLimiter`, `Statistics`, `TopCounters`, `LogFiles`, `Fanout`, `ServiceProofs` | what a query leaves behind | done, safety proved |
| L | `Sessions`, `CustomLists`, `LoginLimiter`, `ServiceProofs` | state of the administration API | done, safety proved |

No safety property of the plan is left without a theorem; liveness stays with TLC
(section 4).

Each component has one run for what holds of it, with the largest instance that is
checked in a minute or two. Small components that do not share state have a run
together (`runtime`, `admin_api`): a behaviour chooses one of them in `focus` and
lets the others rest. A disagreement between code and documentation that keeps
an operator from starting the program has a run of its own (`config_poison`).

## 3. The modules

A module that ends in `Proofs` holds the theorems of the module in its name
(`BlocklistProofs` those of `BlocklistSync`; `PolicyProofs` those of `Schedule`, `Domains`
and `PolicyEngine`; `OperatorProofs` those of `ConfigApply`, `SQLiteStore` and
`StoreTransfer`; `ServiceProofs` those of the DNS server and of the small components of
the runs `runtime` and `admin_api`); a module that starts with `MC` holds the values of the constants. Operators whose
name ends in `M` are faulty variants of the definition that follows them. They
are not used by the specifications; each shows that a property notices the
fault when it is put in the definition's place.

A module's type invariant is checked together with the safety invariant next to
it, under the name `Consistent` (`LimiterSound`, `StatsSound`, `TransferConsistent`); the
parts keep their names, which are used below.

Many of the guarantees below have exceptions: overlaps or failures that the code
does not handle. They are not left out of the models. A history variable
(`disturbed`, `raced`, `contest`, `stale`, `outdated`, `rivals`, `crossed`, `unsure`, `late`, `split`,
`mixed`, `partial`, `twice`) records that the overlap happened, and the property holds for everything
else. So each property says exactly where the guarantee ends, and section 5 lists these
places.

### Cache (`dns/cache.go`)

`idx` is the map, `lru` the list of keys from the most to the least recently used,
`opts` the current options, `now` the clock in ticks. Every method holds the
mutex, so each of its outcomes is one action: `GetAbsent`, `GetExpired`,
`GetUndecodable`, `GetHit`, `PutSkipped`, `PutExisting`, `PutNew`, `Flush`,
`Reconfigure`. A message is its response code and the lifetimes of its records.
Ticks are finer than seconds, because the remaining lifetime is truncated to
seconds, and 0 becomes 1.

`TTLCache` is what callers may rely on: a hit returns a message that was stored,
with lifetimes no longer than allowed, and anything may be forgotten at any time.
`Cache` implements it (`ImplementsPromise`).

Run `cache`: three questions, limits that shrink below the number of entries,
positive, negative and failed answers, four ticks (two seconds), enough for an
entry to be stored, aged, hit and expired. Checks the agreement of map and list
(`IndexAgrees`: without it the eviction loop could spin), the limit, that eviction
takes the least recently used, and the refinement.

Proved for all values of the constants: `TypeOK`, `IndexAgrees`, `WithinLimit`
(together inductive), `EvictsLeastRecent` and the refinement. The refinement uses that
every entry of the map was stored with the deadline that `ttlFor` gives, and that the
map survives `Trim` restricted to the keys kept; the eviction order, that the list
orders its keys as the history of uses does (`Ordered`).

### UpstreamPool (`upstream/pool.go`, `doh.go`)

`clients` is the pool's map from IDs to clients; a client has the generation of the
`Replace` that installed it, its error counter and its health. A call of `Forward`
reads its candidates once, then alternates between an exchange with a server
(outside the lock) and recording the result (inside it, by ID). The prober
and operator tests do the same. Servers in `Flaky` go up and down.

Run `upstream_pool`: a query, a tester, the prober, one Replace that drops an
upstream or changes its threshold, two upstreams of which one comes and goes,
thresholds one and two, one retry. The tester and the query are two concurrent
recorders of outcomes, so late failures, late successes and outcomes of replaced
clients all occur. The health flag and the counter never disagree
(`CircuitConsistent`), each call ends and fails only after having contacted each
candidate in every round (`CallsEnd`, `ExhaustsCandidates`), and an upstream that
stays up is healthy again and again (`Recovers`). Fairness: the prober's ticker
fires, and a call in progress goes on; exchanges and the backoff have timeouts.

Proved: `TypeOK`, `CircuitConsistent` and `ExhaustsCandidates`, for any upstreams, callers
and number of retries. The inductive invariant adds that a call between exchange and
recording has a candidate, and the prober a client; `CountInv` counts: contacts made and
candidates left in this round are together those of all rounds begun.

### DNSServer (`dns/server.go`, `dns/workers.go`)

Loops, workers, connections and queued jobs are interchangeable, so the state
counts them, together with the wait group and the TCP slots. A loop that is back from
its socket has something in hand: a datagram before `Submit` (`datagrams`), a connection
before it asks for a slot (`accepted`), and one with a slot before `wg.Add`
(`admitted`). Each can outlive the close of the listeners, so that `wg.Add` runs beside
the `wg.Wait` of Shutdown or of a failed `Start`, and a job is submitted to a closed
pool. `Start` binds a UDP and a
TCP listener for each address, may fail at each, and then cleans up. Shutdown is
called by several goroutines, each with its own deadline; the first starts the
goroutine that closes, waits and joins the workers.

Run `dns_server`: two addresses, two workers, a queue of one, one TCP slot, one
connection at a time between its close and `wg.Done`, two callers: enough for a bind
failure after something started, two loops with a connection in hand for one slot, a
full queue and racing callers. Checks that the wait group and the slots
are exact (`Accounting`), that nothing runs after a completed shutdown or a
failed start, and that start and shutdown complete and callers return. Fairness:
goroutines that can go on do, closed sockets make their loops return, and jobs
end (each wait in `Handle` has a timeout). The server ends, so deadlock is not
checked. Jobs and connections are served without fairness as long as nothing is
closed: a server may be idle.

Proved for any number of addresses, workers, slots and callers: `TypeOK`,
`Accounting`, `ShutdownComplete`, `FailedStartClean`. `Phases` is the strengthening:
which goroutines can exist in each phase of start and shutdown. Why a late `wg.Add` does
no harm is in `Accounting`: the loop that calls it is itself counted, so the wait group is
not at zero (`accepted + admitted <= tcpLoops`).

### BlocklistSync (`policy/sync.go`, `fetcher.go`, `api/blocklist_crud.go`)

The content of a list is the URL it came from and the version published there.
`text` and `meta` are the two cache files of a list, written one after the other,
`lists` the engine's map, `fresh` stands for `lastRun` within the interval. The
periodic sync and forced syncs are processes that go through request, reply,
the two writes, swap and mark; each may fail, and the program may restart
at any point. An edit changes file, engine and holder in turn.

Run `sync`: the periodic sync and a forced one, one list that can be enabled,
disabled, deleted and moved between a server with validators and a plain file, two
versions, one edit, one crash. `ConditionalSound`: a server never answers
"not modified" to validators that vouch for another text. `NeverZeroed`: no
failure empties a list. `Refreshed`: an enabled list is at last as published. Two
overlapping syncs of a list, and another URL, put it in `disturbed`, for which
the first and the last are not promised. Fairness: the ticker and each sync go on,
and a server or disk that is tried again and again for a list succeeds at last
(strong fairness for `Reply` and the writes).

Proved for any lists, servers and number of forced syncs: `TypeOK`, `NeverZeroed`, and
`ConditionalSound` where distinct lists have distinct cache files (`Apart`). Two IDs
with one safe name break it, see section 5, so `Apart` is a hypothesis of that theorem
and the model does not assume it.

### ConfigApply (`api/config_mutation.go`, `config/reload.go`, `config/holder.go`)

A configuration is the set of edits made to the first one. A call is a sequence of
stages: `APIOrder` for requests, `HUPOrder` for SIGHUP; each stage takes the
configuration over in one component or fails and ends the call with what was done so far
in place. `Refused` are the edits that validation accepts and the engine cannot compile.
The operator edits the file by hand, and the program crashes and restarts.

* `config`: two calls that may overlap at every stage, four calls in all, an edit that
  compiles and one that does not, one crash: two calls that overlap, and two that meet
  what they left. `contest` are the edits that overlapping calls disagree about since there
  was last no call, `contested` all that ever were. What the holder has is in the file but for
  `contested` (`FileAgrees`); once all calls have ended and one succeeded, the components
  differ only in `contest`, so that a change on its own brings all together whatever
  failed or overlapped before (`SuccessHeals`); an acknowledged edit stays in the file
  unless calls disagreed about it (`AckedDurable`); no component ever runs what
  cannot be compiled (`NeverRefused`), and what the holder has was recorded first
  (`HolderInHistory`). The callers are alike, so the run uses symmetry; calls are bounded,
  so behaviours end.
* `config_poison`: a disagreement (section 5), found with requests of the API and
  restarts only (`APISpec`).

Proved for any number of callers, edits and calls: all five. The inductive invariant `Inv` says
which stages a call has behind it when it reaches the engine, the history and the
holder; `MeetInv` adds what each call knows of file, holder and the other calls (`Told`),
which is everything but what they disagree about.

### FileStore (`store/file.go`)

`data` is the map in memory; `dir` is the content that the file's name stands for,
and `disks` the contents that a power loss may leave, more than one between a
rename and the next sync of the directory. `mu` and `plock` are the locks, `op`
the calls. `Put`, `Delete` and `Close` start a call; `lockPrefix`, `Refuse`, `Change`,
`WriteTemp`, `Rename`, `SyncDir` and `SaveFails` are its steps. `Kill` and `PowerLoss`
end with `Open`. Readers wait for `mu`, so they see `visible`.

`DurableStore` is the promise. Each key has a visible value and a set of values
that it may have after a crash; each caller has what it asked for and how its last call
ended. A caller is told of success only in the step that leaves one possibility for every
key, the one it asked for, so that a store that acknowledges before the directory is
synced does not implement it; a write that ends with an error is visible and may or may
not survive. `told` of `FileStore` is what the caller of `Put`, `Delete` or `Close` got
back, and `requested` maps an operation under way to what was asked.

Run `store`: two callers, two keys with different prefixes, one value, one
crash. Refinement, one writer at a time, and every call returns. Fairness: Go's
mutexes do not starve a waiter (strong fairness on taking a lock); a save goes on.

Proved: `TypeOK`, `OneWriter` and the refinement. The inductive invariant: the
holder of `mu` is the caller in a save; the map differs from the last
visible one in the one key being written; after the rename the name stands for
the map in memory; a closed store has no save under way and one content on disk (`Sealed`).

### Schedule (`policy/group.go`)

`ActiveAt` is the code's function of schedule, day and minute. `InWindow` is the
meaning: a window opens on each day of the schedule and lasts until the clock
shows the other bound; with equal bounds it is the whole day. Proved for weeks and
days of any length (`ActiveAtCorrect`): two days or more since the window's day
exceed every window, which leaves today and yesterday, the two cases of the code.
The run `policy_decisions` uses `ActiveAt` as the code does and `InWindow` to say
what the decision should be.

### PolicyEngine (`policy/engine.go`, `domains.go`, `group.go`)

`Domains` has the trie: nodes are the paths to them, and stay when an entry is
deleted. `PolicyEngine` makes pointers explicit, because queries evaluate
without the lock on pointers taken under it: `heap` has the objects, `eng` and each
query their pointers. Updates allocate a changed copy and swap. A query takes
its snapshot (`For`), then checks allowlists, base lists, schedules and custom list
in steps of their own. `want` records what the answer should be by the sets of
entries at the moment of `For`.

Run `policy_decisions`: two lists, two groups, one with a schedule over midnight at
the end of the week and one within a day, three configurations (one does not
compile), one query at a time, up to four updates. Each query is decided by
what the engine held when it asked; the list blamed is right (`DecisionsRight`).
Queries do not change anything, so one at a time is enough.

`Valid` stands for the labels accepted by `validLabel` and the IDNA profile, among all
`Labels` that a name may have.

Proved for any labels, lists, groups, configurations, updates and number of queries:
the walk of `Match` finds an entry exactly when some suffix of the name in whole labels
is one (`MatchCorrect`), deletions before it included, and `DecisionsRight`. The proof
rests on two facts: each trie in use has the nodes on the way to its entries (`Closed`),
and no update changes an object that a query points to, so that the verdict of the
snapshot stays what it was when `For` took it.

### SQLiteStore, StoreTransfer (`store/sqlite.go`, `transfer.go`, `maintenance.go`, `verify.go`, backup in `cmd/sis/main.go`)

Every record is kept twice: as JSON in `kv`, which exports and backups read, and as a
row of its collection's table, which the program reads. `db` is the database as
committed, `disk` what a power loss leaves (`synchronous = NORMAL`: a database
committed earlier). Opening runs the migrations step by step: a table is created and
`kv` read, and a later transaction copies what was read; so it is on every open, also
of a command beside a running server. The stored version only chooses where it begins;
it may also be unreadable, an error that the code ignores, and then all migrations are
applied again and store lower versions for a while. `StoreTransfer` adds those commands: export,
compaction and backup may run beside the server, import and restore while it is
stopped. `scan`, which reads `kv` for export and backup, reports no error: it may come
back with none or some of the rows. `SnapshotStore` is the promise: whole transactions, and after a power loss
the content of some earlier moment.

Run `store_transfer`: one record in each of the five collections, databases of
versions 0, 1 and 3 (of three, which stand for the seven: all from the third on have the
same steps), one write, one fault, one command; a power loss undoes at most one
transaction. An upgrade of any age, cut short anywhere, loses and invents nothing
(`TablesAgree`), verification counts by column as by key (`CountsAgree`), an import or
restore that reports success has exactly the rows of its source (`ImportExact`), and the
program sees whole transactions only (`ImplementsSnapshots`). Deadlock is not
checked: commands, writes and faults are bounded, so behaviours end.

Proved for any keys, values, old databases, number of migrations, writes, faults and
commands, and for power losses that undo any number of transactions: all four. The
inductive invariant says of an opener that the tables behind it agree with `kv` and that
what it has read is what its table misses (`OpenerOK`); of every database committed,
the one on disk too, that a row is missing or as in `kv` (`Legal`); of an import, which
records are over (`Imported`). That an opener goes through all tables each time, whatever
the stored version says, is what the proof needs after a power loss; that custom list
records carry no value is what the kept rows of `custom_lists` need.

### Pipeline (`dns/pipeline.go`, `client_id.go`, `api/clients.go`, `policy/store_resolver.go`)

A handler goes through limiter, Touch (debounce, read, write), local names, group
lookup, policy, cache, upstream and cache store; every call of another component is a step
of its own, and the components are what their own modules promise. Administrators
change and delete clients in two steps (read, write), flush the cache and change the
policy; answers change, entries expire, the store fails with or without effect, and the
process restarts. `Configs` are the client entries that the configuration may have when it
is loaded, with or without a group. A reload by SIGHUP seeds each of them in two steps of
a running server, read (`SeedRead`) and write (`SeedWrite`): an entry without a group
writes back the group that it read, or creates the record. At a start the same happens
before anything else runs, in one step.

Run `pipeline`: two queries and one API request in flight, two clients, one new and
one in a group that blocks the name, for which the configuration has an entry with that
group or, when it is loaded again, without one; a local name, two
versions of the answer, one request, one fault. A query is blocked or answered only as some
group that its client had meanwhile allows (`Served`), although groups share the
cache; a failed forward reaches no other query (`FailuresNotShared`); assignments
survive queries, renames, reloads and restarts (`AssignmentKept`). The only other group
that a client may be found in is one that was read before it was given its own and
written back after: `stale` has, for each client, the groups that were about to be
written back at that moment, whether by a handler, a rename or a reload. A flush holds
(`FlushHolds`): of what was out of date when it emptied the cache nothing comes back but
the very answers that handlers had in hand then (`outdated`). `MCNext` leaves out that a
query waits on arrival or with its answer (which is the same as arriving later and leaving
earlier), that the configured client asks for the local name, and that its debounce time
passes before a restart. Two queries are the smallest number in
which one overtakes the other between two of its steps. What the JSON store forgets at a
restart after a failed save is the subject of `FileStore` and left out here.

### Run `runtime`

* `RateLimiter` (`dns/ratelimit.go`): the clock is read before the mutex is taken, so
  calls overtake one another and a bucket's elapsed time may be negative. The table stays
  within its bound, an address gets no more than the burst and what is earned
  (`RateBounded`), and what a late call takes is given back (`NotStarved`). Two
  addresses, a table of one, two callers, prune and age bounds within six ticks.
* `Statistics` (`stats/aggregator.go`, `counters.go`): increments beside a flush that
  reads counter by counter and writes three rows, each write failing with or without
  effect, and restarts. Day and hour rows, in memory and on disk, miss nothing that a
  successful flush saw, and count it once unless a failed flush is repeated
  (`RollupsExact`). Three minutes, each an hour and two of them a day, two queries, a
  failure and a restart.
* `TopCounters`: the bounded top lists. One is dropped only for as many others as are
  kept with as high a count (`TopKept`); four domains for a table of three pruned to one.
* `LogFiles` (`log/query.go`, `rotate.go`): descriptors and names apart, rotations by
  size and signal, compression in the background, two reconfigurations at once, failed
  writes and rotations, restarts. What Write accepted is on disk (`NoEntryLost`); only a
  failed log refuses entries (`RefusesOnlyBroken`).
* `Fanout` (`log/fanout.go`): a send that finds a full channel drops the oldest in
  three separate attempts, beside the replay of the ring. Two subscribers, ring and buffer of
  two, four entries. No entry twice (`AtMostOnce`), and the newest is never the one that is lost
  (`NewestDelivered`).

### Run `admin_api`

* `Sessions` (`api/auth.go`, `store/file.go`): setup, login, a use (read, check,
  renew), logout, the hourly cleanup, failed store calls, restarts. `LogoutHolds`,
  `KeptAlive`, `FirstUserKept`. Two handlers, three users, one token, a lifetime
  of one tick and three dates, so that a session is made, used, renewed and expires.
  Two setups may overlap (`rivals`), and then file and holder may have either of
  the two users, but never the third.
* `CustomLists` (`api/custom_blocklist.go`, `allowlist.go`): store, then engine; two
  editors, two domains with and without wildcard, four edits, a failure and a restart.
  `ListsAgree`.
* `LoginLimiter` (`api/ratelimit.go`): fixed windows per host, with requests that
  overtake one another. `AttemptsBounded`: in any time as long as a window at most twice
  the limit passes. From a limit of three on this needs an exception: a request that
  waits for the mutex until its window is over is counted in a later one, and then three
  windows count requests of one stretch; their bound is three times the limit less two,
  as the first and the third opened outside it. Two hosts, seven requests, limit two
  (where both bounds are four), four ticks: the run shows the bound at the edge of two
  windows. The case of three takes eleven requests and is left to the proof.

In both runs clocks and counters are bounded, so behaviours end and deadlock is
not checked.

## 4. What is proved and what is only checked

| Module | Proved for every value of the constants | Only checked by TLC |
|---|---|---|
| Cache | `TypeOK`, `IndexAgrees`, `WithinLimit` (`Consistent`), `EvictsLeastRecent`, `ImplementsPromise` | - |
| UpstreamPool | `TypeOK`, `CircuitConsistent` (`Consistent`), `ExhaustsCandidates` | liveness (`CallsEnd`, `Recovers`) |
| DNSServer | `TypeOK`, `Accounting` (`Consistent`), `ShutdownComplete`, `FailedStartClean` | liveness (`Terminates`) |
| BlocklistSync | `TypeOK`, `NeverZeroed`; for lists with cache files of their own `ConditionalSound` (`Consistent`) | liveness (`Refreshed`) |
| ConfigApply | `TypeOK`, `NeverRefused`, `HolderInHistory`, `FileAgrees` (`Consistent`), `SuccessHeals`, `AckedDurable` | - |
| FileStore | `TypeOK`, `OneWriter` (`Consistent`), `KeepsPromise` | liveness |
| Schedule, Domains, PolicyEngine | `ActiveAtCorrect`, `MatchCorrect`, `DecisionsRight` (`Consistent`) | - |
| SQLiteStore, StoreTransfer | `TypeOK`, `TablesAgree` (`TransferConsistent`), `CountsAgree`, `ImportExact`, `ImplementsSnapshots` | - |
| Pipeline | `TypeOK`, `Served` (`Consistent`), `FailuresNotShared`, `FlushHolds`, `AssignmentKept` | - |
| Sessions | `LogoutHolds`, `KeptAlive`, `FirstUserKept` | - |
| CustomLists | `ListsAgree` | - |
| RateLimiter | `RateBounded`, `NotStarved`, table bound (`LimiterSound`) | - |
| TopCounters | `TopKept` | - |
| LogFiles | `NoEntryLost`, `RefusesOnlyBroken` | - |
| Fanout | `AtMostOnce`, `NewestDelivered` (`Delivered`) | - |
| Statistics | `RollupsExact` in memory and on disk (`StatsSound`) | - |
| LoginLimiter | `AttemptsBounded` | - |

The inductive invariants are in the proof modules, each part with a comment:

* `Inv` (Pipeline): what a handler has seen by each place it can be at (its group, its
  verdict, whose answer it holds), which carries `Served` over the cache entry that
  another handler left. `StaleInv` adds that no handler is about to store what a flush
  noted as out of date, and that only such answers were noted; `KeepInv` that whatever handlers, renames
  and reloads are about to write back for a client is its group or was `Pending` when the
  client was given it.
* `Ordered` (Cache): the list has each key once, in the order of the last uses.
* `CountInv` (UpstreamPool): `contacts` and the candidates left are, in every step of a
  call, the number of candidates times the rounds begun (and one more between an
  exchange and its record).
* `Phases` (DNSServer): which goroutines can exist in each phase of start and shutdown.
* `SyncInv` (BlocklistSync): for a list that is not in `disturbed` at most one sync is
  under way, its cached text is of the URL in use, the validators are no newer than the
  text, and what the sync carries is no older than the text it writes over (`Guarded`).
* `Inv` (PolicyEngine): a query's pointers lead to sound tries, it carries the verdict of
  its own snapshot, and the part of `Evaluate` behind it has found nothing; the engine's
  three pointers are distinct and lead to sound objects.
* `TransferInv` (SQLiteStore, StoreTransfer): see section 3.
* `MeetInv` (ConfigApply): what a call is going to apply agrees with the other calls under
  way, with the components that it has behind it, and, once it has saved, with the
  file, but for the contested edits.
* `SessionsInv`, `OwnerInv` (Sessions): file, holder and the setups under way have nobody
  but the rivals once there is a user; a request that passed the check holds a token
  that was in the store, and a renewal keeps its user; `ListsInv` (CustomLists): an
  entry that is not excepted has at most one request under way, and without one store
  and engine agree; `LimiterInv`: the tokens of a bucket and the time from its `seen` to
  its `latest` are together between 0 and `Full`, and with what was granted at most
  `Full` and the time since the observer began; `TopInv`; `WindowInv` (LoginLimiter):
  windows of a host follow one another by more than a window, an attempt has a number of
  its own in its window, and one that a later window counted came after the earlier one
  was opened (`InTurn`), which the prunings guarantee (`Followed`); `FlushInv`
  (Statistics): a flush carries what lies between the last success and its reading of the
  counters; `LogInv`: what was accepted is
  in a file that has a name or that a live descriptor writes; `FanoutInv`: ring,
  channel and what was received are ascending, and apart.

The proofs assume only the named ASSUMEs of the modules: ranges of constants, at least
one version where something is published, and that the values that stand for "none"
are none of the values they are told apart from. TLC evaluates them on each run.

What stays with TLC is liveness under fairness, which the prover cannot do. Sums and
numbers of attempts are cardinalities (`Total`, `Within`): what a step adds to them
follows from the cardinality of unions, products and intervals, without an induction
over the data that are summed.

## 5. Where code and documentation disagree, and where guarantees end

Run `config_poison` ends with a counterexample: a request that is answered with an
error has already saved a file that the program cannot start from. `PROJECT.json`
quotes the lines.

The others are behaviours of the models without a run of their own; most are the
exceptions that properties name.

Configuration, lists and policy:

* `api/config_mutation.go:27`: two requests at once leave file and holder with different
  configurations; `ARCHITECTURE.md:526` says "This makes the config file the
  durable source of truth". They differ in what the two requests disagree about
  (`contested`). `api/groups.go:53`: a request edits what the holder has, so a
  hand edit that was not reloaded is overwritten.
* `config/reload.go:51`: a reload that fails half way leaves components with
  different configurations; `.project/SPECIFICATION.md:505` says "Errors during
  reload keep the running config."
* `policy/fetcher.go:168`: two overlapping syncs of a list leave old text under new
  validators, and the list stays old.
* `policy/sync.go:87`: a list disabled and enabled again, or given a new URL, within
  its interval is not loaded before the interval is over, and the request for the new URL
  carries the validators of the old one (`policy/fetcher.go:97`);
  `.project/TASKS.md:327` says "Blocklist URL changes trigger re-fetch."
* `policy/sync.go:106`: a sync in flight brings back a list disabled meanwhile, until
  the next change.
* `policy/fetcher.go:211`: two list IDs with the same safe name share a cache file and
  can exchange their content. The model takes `SafeID` as a constant; the run has one list,
  and the theorem names the condition (`Apart`).
* `policy/domains.go:82`: a name with a label such as `_tcp` under a listed domain is not
  matched; the comment at line 77 promises every suffix.
* `api/custom_blocklist.go:71`: a domain and its wildcard are two keys of the store and
  one entry of the engine, so deleting one unblocks both until the next start; a failed add
  is listed by the JSON store and not blocked.

Queries and clients:

* `dns/client_id.go:65`: Touch writes back a record that the API changed or deleted
  meanwhile, and the assignment is lost. `policy/store_resolver.go:17`: a store error puts a
  client in the default group for that query. `cmd/sis/main.go:1370`: a reload
  does the same for configured clients without a group; line 1386: the group that the API
  gave a configured client is replaced by the configured one at the next start or reload.
* `dns/pipeline.go:164`: an answer that was fetched before a flush is stored after it.
* `upstream/pool.go:60`: a configured probe interval is never used, because the
  default is assigned before the test whether one was assigned (`IntervalOf`);
  line 280 calls it "the configured health probe interval".
* `upstream/pool.go:225`: failures are recorded by ID, so a client installed by
  Replace can be marked unhealthy by failures of its predecessor.
* `dns/server.go:178`: `shutdownMu` is held while the workers are joined, so a
  second Shutdown caller waits beyond its deadline for a slow job.
* `dns/server.go:295`: a transient accept error ends its listener for good, and the server
  stays ready.

Stores and backups:

* `store/sqlite.go:1483`: an export or a backup whose query of `kv` fails, at once or after
  some rows, has none or some of the records and is reported as a success; line 70: an
  unreadable schema version counts as none.
* `store/sqlite.go:170`: a backup or export of a running server's database copies rows
  that it read before, over what the server wrote since; `CHANGELOG.md:54` says that the
  tables are "kept in sync" with `kv`.
* `cmd/sis/main.go:875`: an encrypted backup is compressed outside the encryption and the
  reader expects it inside, so that it is never readable. Line 819: a backup that fails
  closes its archive, which then reads as one without a store.

Logs and statistics:

* `log/query.go:67`: Reconfigure opens the file before it takes the mutex; a rotation
  in between, with compression, deletes the file that the log goes on in. A query in flight is written in the
  privacy mode that it was prepared with.
* `log/rotate.go:72`: a rotation that fails after the close, and a single failed write
  (`json.Encoder` keeps its error), refuse all entries until the log is configured again.
* `log/fanout.go:35`: entries published during the replay come between the old ones.
* `stats/aggregator.go:82`: a flush that failed is repeated in the rows that it had reached.
  `stats/counters.go:188`: "a consistent point-in-time view" is read counter by counter.

Administration:

* `api/auth.go:32`: two setups pass the check together, and the second owner replaces the
  first; a setup whose session cannot be stored answers with an error and has an owner.
* `api/auth.go:150`: a use that read a session before its logout stores it again;
  line 101: logout ignores a failed deletion. Line 146 and `store/file.go:400`: a
  session that was renewed meanwhile is deleted as expired.
* `api/ratelimit.go:46`: a request timed before a pruning and counted after it reopens
  a window that is over.
* `api/ratelimit.go:50`: a request that got the mutex only after its window ended is
  counted in the next one, so that with a limit of five up to thirteen logins, not ten,
  pass within a minute.

## 6. What is not modelled

* Without state, or formatting only: configuration validation and defaults, list
  parsing, message rewriting (EDNS, synthetic answers), HTTP routing and headers,
  metrics, tracing, CLI argument handling.
* External: the DoH transport, IDNA, password hashing, SQL, the operating system.
* The browser interface and the shell scripts.
* Left out of modelled parts: retention of rotated logs by age (`EvictOld`), the latency
  histogram (independent counters), privacy hashing and redaction (conversions
  of a single entry), the ARP table (it chooses a client's key).
* Abstracted in the modelled parts: DNS names and messages to what the component
  looks at, YAML and JSON to the values they carry, time to ticks or to
  "within the interval". Integers in the modelled parts are counters and
  durations far from the bounds of their types.
