---------------------------- MODULE UpstreamPool ----------------------------
(***************************************************************************)
(* The DoH forwarding pool of internal/upstream/pool.go: queries forwarded *)
(* through a candidate list read once per call, a failure counter per      *)
(* client that opens its circuit, a prober that closes it again, operator  *)
(* tests, and a Replace that swaps every client while calls are in flight. *)
(*                                                                         *)
(* The pool's lock is held only to read the candidates and to record an    *)
(* outcome; the exchange with the server happens in between, without it.   *)
(* Each lock section and each exchange is one step.  Exchanges are         *)
(* recorded by upstream ID, while a candidate is a particular client:      *)
(* client g of upstream id is the one installed by the g-th Replace.       *)
(***************************************************************************)
EXTENDS Integers, Sequences, FiniteSets

CONSTANTS Ids,               \* upstream IDs
          Callers,           \* goroutines that forward queries
          Configs,           \* upstream lists handed to Replace
          Flaky,             \* upstreams whose servers come and go
          None,
          maxRetries,        \* 2 in the code
          DefaultThreshold,  \* 3 in the code
          DefaultInterval,   \* one minute in the code
          MaxErrors,         \* no test is begun on a client with that many errors
          MaxGen             \* bound on the number of Replace calls

(* A configuration lists distinct IDs: Validate rejects duplicates.  Zero  *)
(* stands for an omitted threshold or interval.                            *)
Upstream == [id : Ids, threshold : Nat, interval : Nat]
Distinct(c) == \A i, j \in DOMAIN c : c[i].id = c[j].id => i = j

Client == [gen : Nat, rank : Nat, healthy : BOOLEAN, errors : Nat, threshold : Nat \ {0}]
Candidate == [id : Ids, gen : Nat, rank : Nat]
Pending == [id : Ids, phase : {"ok", "fail"}]
Call == [phase : {"idle", "try", "ok", "fail"}, cands : SUBSET Candidate,
         left : SUBSET Candidate, attempt : Nat, contacts : Nat,
         result : {"none", "ok", "failed", "canceled"}]

ASSUME PoolAssumption ==
    /\ \A c \in Configs : c \in Seq(Upstream) /\ Distinct(c)
    /\ Configs # {}
    /\ maxRetries \in Nat
    /\ DefaultThreshold \in Nat \ {0}
    /\ DefaultInterval \in Nat \ {0}
    /\ MaxErrors \in Nat
    /\ MaxGen \in Nat
    /\ None \notin Client
    /\ None \notin Pending

VARIABLES clients,   \* Pool.clients: ID -> pooledClient; rank is its position
          probeInterval,
          gen,       \* how many Replace calls there have been
          up,        \* the upstreams whose servers answer (external)
          call,      \* Forward in progress, per caller
          test,      \* Test in progress: None, or [id, phase]
          probe,     \* ProbeUnhealthy in progress: clients left to probe
          probed     \* outcome of the prober's current exchange

poolVars == <<clients, probeInterval, gen>>
vars == <<clients, probeInterval, gen, up, call, test, probe, probed>>

Configured == {id \in Ids : clients[id] # None}
-----------------------------------------------------------------------------
(* Replace: new, healthy clients; in-flight calls keep the old ones. *)
Threshold(u) == IF u.threshold > 0 THEN u.threshold ELSE DefaultThreshold

NewClient(c, g, id) ==
    IF \E i \in DOMAIN c : c[i].id = id
    THEN LET i == CHOOSE i \in DOMAIN c : c[i].id = id
         IN  [gen |-> g, rank |-> i, healthy |-> TRUE, errors |-> 0,
              threshold |-> Threshold(c[i])]
    ELSE None

(* The loop assigns a configured interval only `if ... p.probeInterval <=  *)
(* 0', after the field was set to its default.                             *)
IntervalOf(c) ==
    LET p == DefaultInterval
    IN  IF p <= 0 /\ \E i \in DOMAIN c : c[i].interval > 0
        THEN c[CHOOSE i \in DOMAIN c : c[i].interval > 0].interval ELSE p

Install(c, g) == /\ clients' = [id \in Ids |-> NewClient(c, g, id)]
                 /\ probeInterval' = IntervalOf(c)
                 /\ gen' = g

Idle == [phase |-> "idle", cands |-> {}, left |-> {}, attempt |-> 0,
         contacts |-> 0, result |-> "none"]

Init == /\ \E c \in Configs :
             /\ clients = [id \in Ids |-> NewClient(c, 0, id)]
             /\ probeInterval = IntervalOf(c)
        /\ gen = 0
        /\ up = [id \in Ids |-> TRUE]
        /\ call = [c \in Callers |-> Idle]
        /\ test = None
        /\ probe = None
        /\ probed = "none"

Replace == /\ gen < MaxGen
           /\ \E c \in Configs : Install(c, gen + 1)
           /\ UNCHANGED <<up, call, test, probe, probed>>
-----------------------------------------------------------------------------
(* The two lock sections that record an outcome.  Both look the client up  *)
(* by ID and do nothing when the ID is no longer configured.               *)
markSuccessM(id) ==
    clients' = IF id \in Configured THEN [clients EXCEPT ![id].healthy = TRUE] ELSE clients
markSuccess(id) ==
    clients' = IF id \in Configured
               THEN [clients EXCEPT ![id] = [@ EXCEPT !.healthy = TRUE, !.errors = 0]]
               ELSE clients

Failed(p) == [p EXCEPT !.errors = @ + 1,
                       !.healthy = IF p.errors + 1 >= p.threshold THEN FALSE ELSE @]
markFailure(id) ==
    clients' = IF id \in Configured
               THEN [clients EXCEPT ![id] = Failed(@)]
               ELSE clients

(* The configured clients with the given health, and the loops' order of   *)
(* visiting them: as declared.                                             *)
Select(healthy) ==
    {[id |-> id, gen |-> clients[id].gen, rank |-> clients[id].rank] :
        id \in {i \in Configured : clients[i].healthy = healthy}}
First(cands) == CHOOSE x \in cands : \A y \in cands : x.rank <= y.rank
-----------------------------------------------------------------------------
(* Forward. *)
Begin(c) ==
    /\ call[c].phase = "idle"
    /\ call' = [call EXCEPT ![c] = [Idle EXCEPT !.phase = "try", !.cands = Select(TRUE),
                                                 !.left = Select(TRUE)]]
    /\ UNCHANGED <<poolVars, up, test, probe, probed>>

Current(c) == First(call[c].left)
RoundOver(c) == call[c].phase = "try" /\ call[c].left = {}

(* candidate.Forward: an exchange may fail whether or not the server is up *)
(* (a timeout, a bad answer, a canceled query), and succeeds only if it is.*)
Exchange(c) ==
    /\ call[c].phase = "try"
    /\ call[c].left # {}
    /\ \E outcome \in {"fail"} \cup (IF up[Current(c).id] THEN {"ok"} ELSE {}) :
         call' = [call EXCEPT ![c] = [call[c] EXCEPT !.phase = outcome, !.contacts = @ + 1]]
    /\ UNCHANGED <<poolVars, up, test, probe, probed>>

Succeed(c) ==
    /\ call[c].phase = "ok"
    /\ markSuccess(Current(c).id)
    /\ call' = [call EXCEPT ![c] = [Idle EXCEPT !.result = "ok"]]
    /\ UNCHANGED <<probeInterval, gen, up, test, probe, probed>>

Fail(c) ==
    /\ call[c].phase = "fail"
    /\ markFailure(Current(c).id)
    /\ call' = [call EXCEPT ![c] = [call[c] EXCEPT !.phase = "try", !.left = @ \ {Current(c)}]]
    /\ UNCHANGED <<probeInterval, gen, up, test, probe, probed>>

(* The backoff between rounds ends by timer or by cancellation. *)
LastRoundM(c) == call[c].attempt >= maxRetries - 1
LastRound(c) == call[c].attempt >= maxRetries

NextRound(c) ==
    /\ RoundOver(c)
    /\ ~LastRound(c)
    /\ call' = [call EXCEPT ![c] = [call[c] EXCEPT !.attempt = @ + 1, !.left = call[c].cands]]
    /\ UNCHANGED <<poolVars, up, test, probe, probed>>

CancelWait(c) ==
    /\ RoundOver(c)
    /\ ~LastRound(c)
    /\ call' = [call EXCEPT ![c] = [Idle EXCEPT !.result = "canceled"]]
    /\ UNCHANGED <<poolVars, up, test, probe, probed>>

GiveUpM(c) ==
    /\ RoundOver(c)
    /\ LastRound(c)
    /\ call[c].cands # {}
    /\ call' = [call EXCEPT ![c] = [Idle EXCEPT !.result = "failed"]]
    /\ UNCHANGED <<poolVars, up, test, probe, probed>>
GiveUp(c) ==
    /\ RoundOver(c)
    /\ LastRound(c)
    /\ call' = [call EXCEPT ![c] = [Idle EXCEPT !.result = "failed"]]
    /\ UNCHANGED <<poolVars, up, test, probe, probed>>
-----------------------------------------------------------------------------
(* Test: an operator's probe of one upstream, recorded either way. *)
BeginTest(id) ==
    /\ test = None
    /\ id \in Configured
    /\ clients[id].errors < MaxErrors
    /\ \E outcome \in {"fail"} \cup (IF up[id] THEN {"ok"} ELSE {}) :
         test' = [id |-> id, phase |-> outcome]
    /\ UNCHANGED <<poolVars, up, call, probe, probed>>

EndTest ==
    /\ test # None
    /\ \/ test.phase = "ok" /\ markSuccess(test.id)
       \/ test.phase = "fail" /\ markFailure(test.id)
    /\ test' = None
    /\ UNCHANGED <<probeInterval, gen, up, call, probe, probed>>

(* RunHealthProber's tick and ProbeUnhealthy.  A failed probe is not       *)
(* recorded.  A probe succeeds if the server is up: that is what up means. *)
Tick ==
    /\ probe = None
    /\ probe' = Select(FALSE)
    /\ UNCHANGED <<poolVars, up, call, test, probed>>

ProbeExchange ==
    /\ probe # None /\ probe # {} /\ probed = "none"
    /\ probed' = IF up[First(probe).id] THEN "ok" ELSE "fail"
    /\ UNCHANGED <<poolVars, up, call, test, probe>>

ProbeRecordM ==
    /\ probed # "none"
    /\ UNCHANGED clients
    /\ probe' = probe \ {First(probe)}
    /\ probed' = "none"
    /\ UNCHANGED <<probeInterval, gen, up, call, test>>
ProbeRecord ==
    /\ probed # "none"
    /\ IF probed = "ok" THEN markSuccess(First(probe).id) ELSE UNCHANGED clients
    /\ probe' = probe \ {First(probe)}
    /\ probed' = "none"
    /\ UNCHANGED <<probeInterval, gen, up, call, test>>

ProbeEnd ==
    /\ probe = {}
    /\ probe' = None
    /\ UNCHANGED <<poolVars, up, call, test, probed>>

(* Servers come and go (external). *)
Toggle(id) == /\ id \in Flaky
              /\ up' = [up EXCEPT ![id] = ~@]
              /\ UNCHANGED <<poolVars, call, test, probe, probed>>

Forward(c) == \/ Begin(c) \/ Exchange(c) \/ Succeed(c) \/ Fail(c)
              \/ NextRound(c) \/ CancelWait(c) \/ GiveUp(c)
Prober == Tick \/ ProbeExchange \/ ProbeRecord \/ ProbeEnd

Next == \/ \E c \in Callers : Forward(c)
        \/ \E id \in Ids : BeginTest(id) \/ Toggle(id)
        \/ EndTest
        \/ Prober
        \/ Replace

Spec == Init /\ [][Next]_vars

(* The prober's goroutine and its ticker run until shutdown; a call in     *)
(* progress is bounded by the client's timeouts and the backoff timers.    *)
FairSpec == /\ Spec
            /\ WF_vars(Prober)
            /\ \A c \in Callers : WF_vars(call[c].phase # "idle" /\ Forward(c))
-----------------------------------------------------------------------------
TypeOK ==
    /\ clients \in [Ids -> Client \cup {None}]
    /\ probeInterval \in Nat \ {0}
    /\ gen \in Nat
    /\ up \in [Ids -> BOOLEAN]
    /\ call \in [Callers -> Call]
    /\ test \in Pending \cup {None}
    /\ probe \in (SUBSET Candidate) \cup {None}
    /\ probed \in {"none", "ok", "fail"}

(* The flag and the counter tell the same story however calls, probes,     *)
(* tests and Replace interleave: a client is skipped exactly when it has   *)
(* failed threshold times since its last success.  Every success closes    *)
(* the circuit completely, so one later failure cannot reopen it early.    *)
CircuitConsistent ==
    \A id \in Configured : clients[id].healthy <=> clients[id].errors < clients[id].threshold

(* A Forward that reports failure, rather than cancellation, has contacted *)
(* every candidate once per round, although Replace or the circuit breaker *)
(* may have dropped those candidates from the pool in the meantime.        *)
ExhaustsCandidates ==
    [][\A c \in Callers : call[c].phase # "idle" /\ call'[c].result = "failed" =>
            call[c].contacts = Cardinality(call[c].cands) * (maxRetries + 1)]_vars

(* An upstream that stays up is not skipped for ever: the prober brings it *)
(* back, whatever in-flight failures are still to be recorded.             *)
Recovers == \A id \in Ids :
    <>[](up[id] /\ id \in Configured) => []<>(id \notin Configured \/ clients[id].healthy)

(* Every Forward returns, also when no upstream is healthy. *)
CallsEnd == \A c \in Callers : []<>(call[c].phase = "idle")

(* What holds between any two lock sections of queries, tests, probes and  *)
(* replacements: well-typed state, and a health flag that agrees with the  *)
(* failure counter.                                                        *)
Consistent == TypeOK /\ CircuitConsistent
=============================================================================
