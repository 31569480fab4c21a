------------------------- MODULE UpstreamPoolProofs -------------------------
(***************************************************************************)
(* Proofs about the upstream pool for any number of upstreams, callers,    *)
(* configurations and retries: its type invariant, the agreement of a      *)
(* client's health flag with its failure counter, and that a call which    *)
(* reports failure tried every candidate in every round.                   *)
(***************************************************************************)
EXTENDS UpstreamPool, TLAPS, WellFoundedInduction, FiniteSetTheorems

(* NewPool and Replace install clients of the right shape, all healthy. *)
LEMMA NewClientFacts ==
    ASSUME NEW c \in Configs, NEW g \in Nat, NEW id \in Ids
    PROVE  /\ NewClient(c, g, id) \in Client \cup {None}
           /\ NewClient(c, g, id) # None =>
                /\ NewClient(c, g, id).healthy
                /\ NewClient(c, g, id).errors < NewClient(c, g, id).threshold
<1>1. CASE \E i \in DOMAIN c : c[i].id = id
  <2> DEFINE i == CHOOSE i \in DOMAIN c : c[i].id = id
  <2>1. c \in Seq(Upstream)
    BY PoolAssumption
  <2>2. i \in Nat /\ c[i] \in Upstream
    BY <1>1, <2>1
  <2>3. Threshold(c[i]) \in Nat \ {0}
    BY <2>2, PoolAssumption DEF Threshold, Upstream
  <2>4. NewClient(c, g, id) = [gen |-> g, rank |-> i, healthy |-> TRUE, errors |-> 0,
                               threshold |-> Threshold(c[i])]
    BY <1>1 DEF NewClient
  <2> HIDE DEF i
  <2> QED BY <2>2, <2>3, <2>4 DEF Client
<1>2. CASE ~\E i \in DOMAIN c : c[i].id = id
  BY <1>2 DEF NewClient
<1> QED BY <1>1, <1>2

LEMMA IntervalFact ==
    ASSUME NEW c \in Configs
    PROVE  IntervalOf(c) \in Nat \ {0}
BY PoolAssumption DEF IntervalOf

(* The loops over candidates always find a first one to contact. *)
LEMMA FirstFact ==
    ASSUME NEW cands \in SUBSET Candidate, cands # {}
    PROVE  First(cands) \in cands
<1> DEFINE ranks == {y.rank : y \in cands}
<1>1. ranks \subseteq Nat /\ ranks # {}
  BY DEF Candidate
<1>2. PICK r \in ranks : \A q \in ranks : ~(<<q, r>> \in OpToRel(<, Nat))
  BY <1>1, NatLessThanWellFounded, WFMin, ZenonT(30)
<1>3. \A q \in ranks : ~(q < r)
  BY <1>1, <1>2 DEF OpToRel
<1>4. PICK x \in cands : x.rank = r
  OBVIOUS
<1>5. ASSUME NEW y \in cands PROVE x.rank <= y.rank
  <2>1. x.rank \in Nat /\ y.rank \in Nat /\ y.rank \in ranks
    BY DEF Candidate
  <2>2. ~(y.rank < x.rank)
    BY <1>3, <1>4, <2>1
  <2> QED BY <2>1, <2>2
<1> QED BY <1>5 DEF First

LEMMA SelectFact ==
    ASSUME clients \in [Ids -> Client \cup {None}], NEW h \in BOOLEAN
    PROVE  Select(h) \in SUBSET Candidate
<1>1. \A id \in Configured : clients[id] \in Client
  BY DEF Configured
<1> QED BY <1>1 DEF Select, Configured, Client, Candidate
-----------------------------------------------------------------------------
(* What the clients alone satisfy: their types and the circuit's state. *)
ClientsOK == /\ clients \in [Ids -> Client \cup {None}]
             /\ CircuitConsistent

LEMMA InstalledOK ==
    ASSUME NEW c \in Configs, NEW g \in Nat,
           clients' = [id \in Ids |-> NewClient(c, g, id)]
    PROVE  ClientsOK'
BY NewClientFacts DEF ClientsOK, CircuitConsistent, Configured, Client

(* The new record of a client whose exchange succeeded or failed. *)
LEMMA SucceededFacts ==
    ASSUME NEW p \in Client
    PROVE  LET new == [p EXCEPT !.healthy = TRUE, !.errors = 0]
           IN  /\ new \in Client
               /\ new.healthy <=> new.errors < new.threshold
<1> DEFINE new == [p EXCEPT !.healthy = TRUE, !.errors = 0]
<1>1. new \in Client
  BY DEF Client
<1>2. new.healthy /\ new.errors = 0 /\ new.threshold \in Nat \ {0}
  BY DEF Client
<1> HIDE DEF new
<1>3. new.healthy <=> new.errors < new.threshold
  BY <1>2
<1> QED BY <1>1, <1>3 DEF new

LEMMA FailedFacts ==
    ASSUME NEW p \in Client, p.healthy <=> p.errors < p.threshold
    PROVE  /\ Failed(p) \in Client
           /\ Failed(p).healthy <=> Failed(p).errors < Failed(p).threshold
<1>0. p.errors \in Nat /\ p.errors + 1 \in Nat
  BY DEF Client
<1>1. CASE p.errors + 1 >= p.threshold
  <2>1. Failed(p) = [p EXCEPT !.errors = p.errors + 1, !.healthy = FALSE]
    BY <1>1 DEF Failed
  <2>2. Failed(p) \in Client
    BY <1>0, <2>1 DEF Client
  <2>3. /\ Failed(p).errors = p.errors + 1
        /\ Failed(p).threshold = p.threshold
        /\ Failed(p).healthy = FALSE
    BY <1>0, <2>1 DEF Client
  <2>4. p.threshold \in Nat
    BY DEF Client
  <2> QED BY <1>0, <1>1, <2>2, <2>3, <2>4
<1>2. CASE ~(p.errors + 1 >= p.threshold)
  <2>1. Failed(p) = [p EXCEPT !.errors = p.errors + 1, !.healthy = p.healthy]
    BY <1>2 DEF Failed
  <2>2. Failed(p) \in Client
    BY <1>0, <2>1 DEF Client
  <2>3. /\ Failed(p).errors = p.errors + 1
        /\ Failed(p).threshold = p.threshold
        /\ Failed(p).healthy = p.healthy
    BY <1>0, <2>1 DEF Client
  <2>4. p.threshold \in Nat
    BY DEF Client
  <2> QED BY <1>0, <1>2, <2>2, <2>3, <2>4
<1> QED BY <1>1, <1>2

(* Replacing one client's record by a consistent one keeps them all so. *)
LEMMA UpdateOK ==
    ASSUME ClientsOK, NEW id \in Ids, NEW new \in Client,
           new.healthy <=> new.errors < new.threshold,
           clients' = [clients EXCEPT ![id] = new]
    PROVE  ClientsOK'
<1>1. clients' \in [Ids -> Client \cup {None}]
  BY DEF ClientsOK
<1>2. ASSUME NEW j \in Configured'
      PROVE  clients'[j].healthy <=> clients'[j].errors < clients'[j].threshold
  <2>1. CASE j = id
    BY <2>1 DEF ClientsOK, Configured
  <2>2. CASE j # id
    BY <2>2 DEF ClientsOK, Configured, CircuitConsistent
  <2> QED BY <2>1, <2>2
<1> QED BY <1>1, <1>2 DEF ClientsOK, CircuitConsistent

LEMMA markSuccessOK ==
    ASSUME ClientsOK, NEW id \in Ids, markSuccess(id)
    PROVE  ClientsOK'
<1>1. CASE id \in Configured
  <2>1. clients[id] \in Client
    BY <1>1 DEF ClientsOK, Configured
  <2> DEFINE new == [clients[id] EXCEPT !.healthy = TRUE, !.errors = 0]
  <2>2. new \in Client /\ (new.healthy <=> new.errors < new.threshold)
    BY <2>1, SucceededFacts, ZenonT(30)
  <2>3. clients' = [clients EXCEPT ![id] = new]
    BY <1>1 DEF markSuccess
  <2> HIDE DEF new
  <2> QED BY <2>2, <2>3, UpdateOK
<1>2. CASE id \notin Configured
  BY <1>2 DEF markSuccess, ClientsOK, CircuitConsistent, Configured
<1> QED BY <1>1, <1>2

LEMMA markFailureOK ==
    ASSUME ClientsOK, NEW id \in Ids, markFailure(id)
    PROVE  ClientsOK'
<1>1. CASE id \in Configured
  <2>1. clients[id] \in Client /\ (clients[id].healthy <=> clients[id].errors < clients[id].threshold)
    BY <1>1 DEF ClientsOK, Configured, CircuitConsistent
  <2> DEFINE new == Failed(clients[id])
  <2>2. new \in Client /\ (new.healthy <=> new.errors < new.threshold)
    BY <2>1, FailedFacts
  <2>3. clients' = [clients EXCEPT ![id] = new]
    BY <1>1 DEF markFailure
  <2> HIDE DEF new
  <2> QED BY <2>2, <2>3, UpdateOK
<1>2. CASE id \notin Configured
  BY <1>2 DEF markFailure, ClientsOK, CircuitConsistent, Configured
<1> QED BY <1>1, <1>2
-----------------------------------------------------------------------------
(* The inductive invariant.  The last two parts say that an outcome is     *)
(* only ever recorded for a candidate that exists.                         *)
HasCandidate == \A c \in Callers : call[c].phase \in {"ok", "fail"} => call[c].left # {}
HasProbe == probed # "none" => probe # None /\ probe # {}
IInv == TypeOK /\ CircuitConsistent /\ HasCandidate /\ HasProbe

(* The updates Forward makes to the record of its progress. *)
LEMMA CallUpdates ==
    ASSUME NEW r \in Call
    PROVE  /\ \A p \in {"ok", "fail"} : [r EXCEPT !.phase = p, !.contacts = @ + 1] \in Call
           /\ \A x : [r EXCEPT !.phase = "try", !.left = @ \ {x}] \in Call
           /\ [r EXCEPT !.attempt = @ + 1, !.left = r.cands] \in Call
           /\ \A v \in {"ok", "failed", "canceled"} : [Idle EXCEPT !.result = v] \in Call
<1>0. /\ r.attempt \in Nat /\ r.attempt + 1 \in Nat
      /\ r.contacts \in Nat /\ r.contacts + 1 \in Nat
  BY DEF Call
<1>1. \A p \in {"ok", "fail"} : [r EXCEPT !.phase = p, !.contacts = @ + 1] \in Call
  BY <1>0 DEF Call
<1>2. \A x : [r EXCEPT !.phase = "try", !.left = @ \ {x}] \in Call
  BY DEF Call
<1>3. [r EXCEPT !.attempt = @ + 1, !.left = r.cands] \in Call
  BY <1>0 DEF Call
<1>4. \A v \in {"ok", "failed", "canceled"} : [Idle EXCEPT !.result = v] \in Call
  BY DEF Call, Idle
<1> QED BY <1>1, <1>2, <1>3, <1>4, ZenonT(30)

LEMMA InitInv == Init => IInv
<1> SUFFICES ASSUME Init PROVE IInv
  OBVIOUS
<1>1. PICK c \in Configs : clients = [id \in Ids |-> NewClient(c, 0, id)] /\ probeInterval = IntervalOf(c)
  BY DEF Init
<1>2. clients \in [Ids -> Client \cup {None}] /\ CircuitConsistent
  BY <1>1, NewClientFacts DEF CircuitConsistent, Configured, Client
<1>3. probeInterval \in Nat \ {0}
  BY <1>1, IntervalFact
<1>4. Idle \in Call
  BY DEF Idle, Call
<1> QED
  <2>1. call \in [Callers -> Call] /\ \A x \in Callers : call[x].phase = "idle"
    BY <1>4 DEF Init, Idle
  <2>2. TypeOK
    BY <1>2, <1>3, <2>1 DEF Init, TypeOK
  <2>3. HasCandidate /\ HasProbe
    BY <2>1 DEF Init, HasCandidate, HasProbe
  <2> QED BY <1>2, <2>2, <2>3 DEF IInv

LEMMA NextInv == IInv /\ [Next]_vars => IInv'
<1> SUFFICES ASSUME IInv, [Next]_vars PROVE IInv'
  OBVIOUS
<1> USE PoolAssumption
<1>0. ClientsOK
  BY DEF ClientsOK, IInv, TypeOK
<1>a. UNCHANGED clients => CircuitConsistent'
  BY DEF IInv, CircuitConsistent, Configured
<1>b. Idle \in Call
  BY DEF Idle, Call
<1>1. ASSUME NEW c \in Callers, Begin(c) PROVE IInv'
  <2>1. Select(TRUE) \in SUBSET Candidate
    BY SelectFact DEF IInv, TypeOK
  <2>2. call' \in [Callers -> Call] /\ call'[c].phase = "try"
    BY <1>1, <2>1, <1>b DEF Begin, IInv, TypeOK, Call, Idle
  <2>3. HasCandidate'
    BY <1>1, <2>2 DEF Begin, IInv, TypeOK, HasCandidate
  <2> QED
    BY <1>1, <1>a, <2>2, <2>3 DEF Begin, poolVars, IInv, TypeOK, HasProbe
<1>2. ASSUME NEW c \in Callers, Exchange(c) PROVE IInv'
  <2>1. call' \in [Callers -> Call]
    <3>1. call[c] \in Call
      BY DEF IInv, TypeOK
    <3>2. PICK p \in {"ok", "fail"} :
            call' = [call EXCEPT ![c] = [call[c] EXCEPT !.phase = p, !.contacts = @ + 1]]
      BY <1>2 DEF Exchange
    <3> DEFINE w == [call[c] EXCEPT !.phase = p, !.contacts = @ + 1]
    <3>3. w \in Call
      BY <3>1, CallUpdates, ZenonT(30)
    <3>4. call' = [call EXCEPT ![c] = w]
      BY <3>2
    <3> HIDE DEF w
    <3> QED BY <3>3, <3>4 DEF IInv, TypeOK
  <2>2. HasCandidate'
    BY <1>2 DEF Exchange, IInv, TypeOK, HasCandidate, Call
  <2> QED
    BY <1>2, <1>a, <2>1, <2>2 DEF Exchange, poolVars, IInv, TypeOK, HasProbe
<1>3. ASSUME NEW c \in Callers, Succeed(c) \/ Fail(c) PROVE IInv'
  <2>1. Current(c) \in Candidate /\ Current(c).id \in Ids
    <3>1. call[c].left # {} /\ call[c].left \in SUBSET Candidate
      BY <1>3 DEF Succeed, Fail, IInv, HasCandidate, TypeOK, Call
    <3>2. Current(c) \in call[c].left
      BY <3>1, FirstFact DEF Current
    <3> QED BY <3>1, <3>2 DEF Candidate
  <2>2. ClientsOK'
    BY <1>0, <1>3, <2>1, markSuccessOK, markFailureOK DEF Succeed, Fail
  <2>3. call' \in [Callers -> Call] /\ call'[c].phase \in {"idle", "try"}
    <3>1. call[c] \in Call /\ call \in [Callers -> Call]
      BY DEF IInv, TypeOK
    <3>2. CASE Succeed(c)
      BY <3>1, <3>2, CallUpdates, ZenonT(30) DEF Succeed, Idle
    <3>3. CASE Fail(c)
      <4> DEFINE w == [call[c] EXCEPT !.phase = "try", !.left = @ \ {Current(c)}]
      <4>1. w \in Call
        BY <3>1, CallUpdates, ZenonT(30)
      <4>2. w.phase = "try"
        BY <3>1 DEF Call
      <4>3. call' = [call EXCEPT ![c] = w]
        BY <3>3 DEF Fail
      <4> HIDE DEF w
      <4> QED BY <3>1, <4>1, <4>2, <4>3
    <3> QED BY <1>3, <3>2, <3>3
  <2>4. HasCandidate'
    BY <1>3, <2>3 DEF Succeed, Fail, IInv, TypeOK, HasCandidate
  <2> QED
    BY <1>3, <2>2, <2>3, <2>4
    DEF Succeed, Fail, IInv, TypeOK, HasProbe, ClientsOK
<1>4. ASSUME NEW c \in Callers, NextRound(c) \/ CancelWait(c) \/ GiveUp(c) PROVE IInv'
  <2>1. call' \in [Callers -> Call] /\ call'[c].phase \in {"idle", "try"}
    <3>1. call[c] \in Call /\ call \in [Callers -> Call]
      BY DEF IInv, TypeOK
    <3>2. CASE NextRound(c)
      <4> DEFINE w == [call[c] EXCEPT !.attempt = @ + 1, !.left = call[c].cands]
      <4>1. w \in Call
        BY <3>1, CallUpdates, ZenonT(30)
      <4>2. w.phase = "try"
        BY <3>1, <3>2 DEF Call, NextRound, RoundOver
      <4>3. call' = [call EXCEPT ![c] = w]
        BY <3>2 DEF NextRound
      <4> HIDE DEF w
      <4> QED BY <3>1, <4>1, <4>2, <4>3
    <3>3. CASE CancelWait(c) \/ GiveUp(c)
      BY <3>1, <3>3, CallUpdates, ZenonT(30) DEF CancelWait, GiveUp, Idle
    <3> QED BY <1>4, <3>2, <3>3
  <2>2. HasCandidate'
    BY <1>4, <2>1 DEF NextRound, CancelWait, GiveUp, IInv, TypeOK, HasCandidate
  <2> QED
    BY <1>4, <1>a, <2>1, <2>2
    DEF NextRound, CancelWait, GiveUp, poolVars, IInv, TypeOK, HasProbe
<1>5. ASSUME NEW id \in Ids, BeginTest(id) PROVE IInv'
  <2>1. clients[id] \in Client
    BY <1>5 DEF BeginTest, Configured, IInv, TypeOK
  <2>2. test' \in Pending
    BY <1>5, <2>1 DEF BeginTest, Pending, Client
  <2> QED
    BY <1>5, <1>a, <2>2 DEF BeginTest, poolVars, IInv, TypeOK, HasCandidate, HasProbe
<1>6. ASSUME NEW id \in Ids, Toggle(id) PROVE IInv'
  BY <1>6, <1>a DEF Toggle, poolVars, IInv, TypeOK, HasCandidate, HasProbe
<1>7. ASSUME EndTest PROVE IInv'
  <2>1. test.id \in Ids
    BY <1>7 DEF EndTest, IInv, TypeOK, Pending
  <2>2. ClientsOK'
    BY <1>0, <1>7, <2>1, markSuccessOK, markFailureOK DEF EndTest
  <2> QED
    BY <1>7, <2>2 DEF EndTest, IInv, TypeOK, HasCandidate, HasProbe, ClientsOK
<1>8. ASSUME Tick PROVE IInv'
  <2>1. Select(FALSE) \in SUBSET Candidate
    BY SelectFact DEF IInv, TypeOK
  <2>2. HasProbe'
    BY <1>8 DEF Tick, IInv, HasProbe
  <2> QED
    BY <1>8, <1>a, <2>1, <2>2 DEF Tick, poolVars, IInv, TypeOK, HasCandidate
<1>9. ASSUME ProbeExchange PROVE IInv'
  BY <1>9, <1>a DEF ProbeExchange, poolVars, IInv, TypeOK, HasCandidate, HasProbe
<1>10. ASSUME ProbeRecord PROVE IInv'
  <2>1. probe \in SUBSET Candidate /\ First(probe) \in Candidate /\ First(probe).id \in Ids
    <3>1. probe \in SUBSET Candidate /\ probe # {}
      BY <1>10 DEF ProbeRecord, IInv, HasProbe, TypeOK
    <3>2. First(probe) \in probe
      BY <3>1, FirstFact
    <3> QED BY <3>1, <3>2 DEF Candidate
  <2>2. ClientsOK'
    <3>1. CASE probed = "ok"
      BY <1>0, <1>10, <2>1, <3>1, markSuccessOK DEF ProbeRecord
    <3>2. CASE probed # "ok"
      BY <1>0, <1>10, <3>2, <1>a DEF ProbeRecord, ClientsOK
    <3> QED BY <3>1, <3>2
  <2> QED
    BY <1>10, <2>1, <2>2
    DEF ProbeRecord, IInv, TypeOK, HasCandidate, HasProbe, ClientsOK
<1>11. ASSUME ProbeEnd PROVE IInv'
  <2>1. probed = "none" /\ probed' = probed
    BY <1>11 DEF ProbeEnd, IInv, HasProbe
  <2>2. TypeOK'
    BY <1>11 DEF ProbeEnd, poolVars, IInv, TypeOK
  <2>3. HasCandidate' /\ HasProbe'
    BY <1>11, <2>1 DEF ProbeEnd, IInv, HasCandidate, HasProbe
  <2> QED BY <1>11, <1>a, <2>2, <2>3 DEF ProbeEnd, poolVars, IInv
<1>12. ASSUME Replace PROVE IInv'
  <2>1. PICK c \in Configs : Install(c, gen + 1)
    BY <1>12 DEF Replace
  <2>2. gen + 1 \in Nat
    BY DEF IInv, TypeOK
  <2>3. ClientsOK'
    BY <2>1, <2>2, InstalledOK DEF Install
  <2>4. probeInterval' \in Nat \ {0}
    BY <2>1, IntervalFact DEF Install
  <2> QED
    BY <1>12, <2>1, <2>2, <2>3, <2>4
    DEF Replace, Install, IInv, TypeOK, HasCandidate, HasProbe, ClientsOK
<1>13. ASSUME UNCHANGED vars PROVE IInv'
  BY <1>13, <1>a DEF vars, IInv, TypeOK, HasCandidate, HasProbe
<1> QED
  BY <1>1, <1>2, <1>3, <1>4, <1>5, <1>6, <1>7, <1>8, <1>9, <1>10, <1>11, <1>12, <1>13
  DEF Next, Forward, Prober

(* Types of the pool and of every call, test and probe in flight. *)
THEOREM PoolTypeCorrect == Spec => []TypeOK
<1>1. IInv => TypeOK
  BY DEF IInv
<1> QED BY <1>1, InitInv, NextInv, PTL DEF Spec

(* The circuit breaker's flag and counter agree after every lock section,  *)
(* however many queries, probes, tests and replacements interleave.        *)
THEOREM CircuitCorrect == Spec => []CircuitConsistent
<1>1. IInv => CircuitConsistent
  BY DEF IInv
<1> QED BY <1>1, InitInv, NextInv, PTL DEF Spec

(* Types and circuit breaker together, for any number of callers, upstreams*)
(* and replacements.                                                       *)
THEOREM PoolConsistent == Spec => []Consistent
<1>1. IInv => Consistent
  BY DEF IInv, Consistent
<1> QED BY <1>1, InitInv, NextInv, PTL DEF Spec
-----------------------------------------------------------------------------
(* How far a call of Forward has come: with each candidate that it has     *)
(* behind it goes one exchange in every round.  Exchanges are counted when *)
(* they are made and candidates dropped when they are recorded, so between *)
(* the two the count is one ahead.                                         *)
Ahead(c) == IF call[c].phase = "try" THEN 0 ELSE 1
Counted(c) ==
  call[c].phase # "idle" =>
    /\ IsFiniteSet(call[c].cands) /\ call[c].left \subseteq call[c].cands
    /\ call[c].attempt <= maxRetries /\ call[c].result = "none"
    /\ call[c].contacts + Cardinality(call[c].left)
         = Cardinality(call[c].cands) * (call[c].attempt + 1) + Ahead(c)

CountInv == IInv /\ IsFiniteSet(Configured) /\ \A c \in Callers : Counted(c)

(* A configuration lists finitely many upstreams, and so the pool has      *)
(* finitely many clients.                                                  *)
LEMMA InstalledFinite ==
    ASSUME NEW c \in Configs, NEW g \in Nat, NEW s, s = [id \in Ids |-> NewClient(c, g, id)]
    PROVE  IsFiniteSet({id \in Ids : s[id] # None})
<1> DEFINE ids == {c[i].id : i \in 1..Len(c)}
<1>1. c \in Seq(Upstream) /\ Len(c) \in Nat /\ DOMAIN c = 1..Len(c)
  BY PoolAssumption
<1>2. IsFiniteSet(1..Len(c))
  BY <1>1, FS_Interval
<1>3. IsFiniteSet(ids)
  <2> DEFINE f == [i \in 1..Len(c) |-> c[i].id]
  <2>1. f \in Surjection(1..Len(c), ids)
    BY DEF Surjection
  <2> HIDE DEF f, ids
  <2> QED
    BY <1>2, <2>1, FS_Surjection
<1>4. {id \in Ids : s[id] # None} \subseteq ids
  BY <1>1 DEF NewClient
<1> QED
  BY <1>3, <1>4, FS_Subset

LEMMA SelectFinite ==
    ASSUME IsFiniteSet(Configured), NEW h PROVE IsFiniteSet(Select(h))
<1> DEFINE ids == {i \in Configured : clients[i].healthy = h}
           f == [id \in ids |-> [id |-> id, gen |-> clients[id].gen, rank |-> clients[id].rank]]
<1>1. IsFiniteSet(ids)
  BY FS_Subset
<1>2. f \in Surjection(ids, Select(h))
  BY DEF Surjection, Select
<1> HIDE DEF ids, f
<1> QED
  BY <1>1, <1>2, FS_Surjection

(* The clients that are configured change with Replace only. *)
LEMMA MarkKeepsConfigured ==
    ASSUME clients \in [Ids -> Client \cup {None}], NEW id \in Ids, markSuccess(id) \/ markFailure(id)
    PROVE  Configured' = Configured
<1>1. CASE id \in Configured
  <2>1. clients[id] \in Client
    BY <1>1 DEF Configured
  <2>2. PICK new : new # None /\ clients' = [clients EXCEPT ![id] = new]
    <3>1. CASE markSuccess(id)
      <4> DEFINE new == [clients[id] EXCEPT !.healthy = TRUE, !.errors = 0]
      <4>1. new \in Client /\ clients' = [clients EXCEPT ![id] = new]
        BY <1>1, <2>1, <3>1, SucceededFacts, ZenonT(30) DEF markSuccess
      <4> HIDE DEF new
      <4> QED
        BY <4>1, PoolAssumption
    <3>2. CASE markFailure(id)
      <4>1. Failed(clients[id]) # None
        <5>1. Failed(clients[id]) \in Client
          <6>1. clients[id].errors \in Nat /\ clients[id].errors + 1 \in Nat
            BY <2>1 DEF Client
          <6> QED
            BY <2>1, <6>1 DEF Failed, Client
        <5> QED
          BY <5>1, PoolAssumption
      <4>2. clients' = [clients EXCEPT ![id] = Failed(clients[id])]
        BY <1>1, <3>2 DEF markFailure
      <4> QED
        BY <4>1, <4>2
    <3> QED
      BY <3>1, <3>2
  <2> QED
    BY <1>1, <2>2 DEF Configured
<1>2. CASE id \notin Configured
  BY <1>2 DEF markSuccess, markFailure, Configured
<1> QED
  BY <1>1, <1>2

(* Other calls are not touched by a step of this one. *)
LEMMA CountOne ==
    ASSUME CountInv, NEW c \in Callers, NEW w, call' = [call EXCEPT ![c] = w],
           \/ w.phase = "idle"
           \/ /\ IsFiniteSet(w.cands) /\ w.left \subseteq w.cands
              /\ w.attempt <= maxRetries /\ w.result = "none"
              /\ w.contacts + Cardinality(w.left)
                   = Cardinality(w.cands) * (w.attempt + 1) + (IF w.phase = "try" THEN 0 ELSE 1)
    PROVE  \A d \in Callers : Counted(d)'
<1>1. call \in [Callers -> Call]
  BY DEF CountInv, IInv, TypeOK
<1>2. call'[c] = w /\ \A d \in Callers \ {c} : call'[d] = call[d]
  BY <1>1
<1>3. ASSUME NEW d \in Callers PROVE Counted(d)'
  <2>1. CASE d = c
    BY <1>2, <2>1 DEF Counted, Ahead
  <2>2. CASE d # c
    <3>1. call'[d] = call[d] /\ Counted(d)
      BY <1>2, <2>2 DEF CountInv
    <3> QED
      BY <3>1 DEF Counted, Ahead
  <2> QED
    BY <2>1, <2>2
<1> QED
  BY <1>3

LEMMA ForwardCounts ==
    ASSUME CountInv, NEW c \in Callers, Forward(c)
    PROVE  \A d \in Callers : Counted(d)'
<1> USE PoolAssumption
<1>1. /\ call \in [Callers -> Call] /\ call[c] \in Call /\ Counted(c)
      /\ maxRetries \in Nat
  BY DEF CountInv, IInv, TypeOK
<1>2. /\ call[c].attempt \in Nat /\ call[c].contacts \in Nat /\ call[c].left \subseteq Candidate
  BY <1>1 DEF Call
<1>3. call[c].phase # "idle" => /\ IsFiniteSet(call[c].left) /\ Cardinality(call[c].left) \in Nat
                                /\ Cardinality(call[c].cands) \in Nat
  BY <1>1, FS_Subset, FS_CardinalityType DEF Counted
<1>4. CASE Begin(c)
  <2> DEFINE s == Select(TRUE)
             w == [Idle EXCEPT !.phase = "try", !.cands = s, !.left = s]
  <2>1. call' = [call EXCEPT ![c] = w]
    BY <1>4 DEF Begin
  <2>2. IsFiniteSet(s) /\ Cardinality(s) \in Nat
    BY SelectFinite, FS_CardinalityType DEF CountInv
  <2>3. /\ w.phase = "try" /\ w.cands = s /\ w.left = s /\ w.attempt = 0 /\ w.contacts = 0 /\ w.result = "none"
    BY DEF Idle
  <2> HIDE DEF w, s
  <2>4. w.contacts + Cardinality(w.left) = Cardinality(w.cands) * (w.attempt + 1) + 0
    BY <2>2, <2>3
  <2>5. w.left \subseteq w.cands /\ IsFiniteSet(w.cands) /\ w.attempt <= maxRetries
    BY <1>1, <2>2, <2>3
  <2> QED
    BY <2>1, <2>3, <2>4, <2>5, CountOne
<1>5. CASE Exchange(c)
  <2>1. PICK p \in {"ok", "fail"} :
          call' = [call EXCEPT ![c] = [call[c] EXCEPT !.phase = p, !.contacts = call[c].contacts + 1]]
    BY <1>5 DEF Exchange
  <2> DEFINE w == [call[c] EXCEPT !.phase = p, !.contacts = call[c].contacts + 1]
  <2>2. /\ w.phase = p /\ w.contacts = call[c].contacts + 1 /\ w.cands = call[c].cands /\ w.left = call[c].left
        /\ w.attempt = call[c].attempt /\ w.result = call[c].result /\ call' = [call EXCEPT ![c] = w]
    BY <1>1, <2>1 DEF Call
  <2>3. call[c].phase = "try"
    BY <1>5 DEF Exchange
  <2> HIDE DEF w
  <2>4. w.contacts + Cardinality(w.left) = Cardinality(w.cands) * (w.attempt + 1) + 1
    BY <1>1, <1>2, <1>3, <2>2, <2>3 DEF Counted, Ahead
  <2> QED
    BY <1>1, <2>2, <2>3, <2>4, CountOne DEF Counted
<1>6. CASE Succeed(c) \/ CancelWait(c) \/ GiveUp(c)
  <2>1. PICK r \in {"ok", "canceled", "failed"} : call' = [call EXCEPT ![c] = [Idle EXCEPT !.result = r]]
    BY <1>6 DEF Succeed, CancelWait, GiveUp
  <2> DEFINE w == [Idle EXCEPT !.result = r]
  <2>2. w.phase = "idle" /\ call' = [call EXCEPT ![c] = w]
    BY <2>1 DEF Idle
  <2> HIDE DEF w
  <2> QED
    BY <2>2, CountOne
<1>7. CASE Fail(c)
  <2> DEFINE x == Current(c)
             w == [call[c] EXCEPT !.phase = "try", !.left = call[c].left \ {x}]
  <2>1. call' = [call EXCEPT ![c] = w] /\ call[c].phase = "fail"
    BY <1>7 DEF Fail
  <2>2. call[c].left # {}
    BY <2>1 DEF CountInv, IInv, HasCandidate
  <2>3. x \in call[c].left
    BY <1>2, <2>2, FirstFact DEF Current
  <2> HIDE DEF x
  <2>4. /\ w.phase = "try" /\ w.contacts = call[c].contacts /\ w.cands = call[c].cands
        /\ w.left = call[c].left \ {x} /\ w.attempt = call[c].attempt /\ w.result = call[c].result
    BY <1>1 DEF Call
  <2> HIDE DEF w
  <2>5. Cardinality(w.left) = Cardinality(call[c].left) - 1
    <3> DEFINE l == call[c].left
    <3>1. IsFiniteSet(l) /\ x \in l
      BY <1>3, <2>1, <2>3
    <3> HIDE DEF l
    <3>2. Cardinality(l \ {x}) = Cardinality(l) - 1
      BY <3>1, FS_RemoveElement
    <3> QED
      BY <2>4, <3>2 DEF l
  <2>6. w.contacts + Cardinality(w.left) = Cardinality(w.cands) * (w.attempt + 1) + 0
    <3> DEFINE m == Cardinality(call[c].cands) * (call[c].attempt + 1)
               k == Cardinality(call[c].left)
    <3>1. m \in Nat /\ k \in Nat /\ call[c].contacts \in Nat
      BY <1>2, <1>3, <2>1
    <3>2. call[c].contacts + k = m + 1
      BY <1>1, <2>1 DEF Counted, Ahead
    <3> HIDE DEF m, k
    <3>3. call[c].contacts + (k - 1) = m + 0
      BY <3>1, <3>2, SMTT(30)
    <3> QED
      BY <2>4, <2>5, <3>3 DEF m, k
  <2> QED
    BY <1>1, <2>1, <2>4, <2>6, CountOne DEF Counted
<1>8. CASE NextRound(c)
  <2> DEFINE w == [call[c] EXCEPT !.attempt = call[c].attempt + 1, !.left = call[c].cands]
  <2>1. /\ call' = [call EXCEPT ![c] = w] /\ call[c].phase = "try" /\ call[c].left = {}
        /\ ~(call[c].attempt >= maxRetries)
    BY <1>8 DEF NextRound, RoundOver, LastRound
  <2>2. /\ w.phase = "try" /\ w.contacts = call[c].contacts /\ w.cands = call[c].cands
        /\ w.left = call[c].cands /\ w.attempt = call[c].attempt + 1 /\ w.result = call[c].result
    BY <1>1, <2>1 DEF Call
  <2> HIDE DEF w
  <2>3. call[c].contacts = Cardinality(call[c].cands) * (call[c].attempt + 1)
    BY <1>1, <1>2, <1>3, <2>1, FS_EmptySet DEF Counted, Ahead
  <2>4. w.contacts + Cardinality(w.left) = Cardinality(w.cands) * (w.attempt + 1) + 0
    <3> DEFINE n == Cardinality(call[c].cands)
               a == call[c].attempt
    <3>1. n \in Nat /\ a \in Nat
      BY <1>2, <1>3, <2>1
    <3> HIDE DEF n, a
    <3>2. n * (a + 1) + n = n * ((a + 1) + 1)
      BY <3>1
    <3> QED
      BY <3>1, <3>2, <2>2, <2>3 DEF n, a
  <2>5. w.attempt <= maxRetries
    BY <1>1, <1>2, <2>1, <2>2
  <2> QED
    BY <1>1, <2>1, <2>2, <2>4, <2>5, CountOne DEF Counted
<1> QED
  BY <1>4, <1>5, <1>6, <1>7, <1>8 DEF Forward

LEMMA InitCount == Init => CountInv
<1> SUFFICES ASSUME Init PROVE CountInv
  OBVIOUS
<1>1. IsFiniteSet(Configured)
  BY InstalledFinite DEF Init, Configured
<1>2. \A c \in Callers : Counted(c)
  BY DEF Init, Counted, Idle
<1> QED
  BY <1>1, <1>2, InitInv DEF CountInv

LEMMA NextCount == CountInv /\ [Next]_vars => CountInv'
<1> SUFFICES ASSUME CountInv, [Next]_vars PROVE CountInv'
  OBVIOUS
<1>1. IInv'
  BY NextInv DEF CountInv
<1>2. /\ clients \in [Ids -> Client \cup {None}] /\ gen \in Nat
      /\ (test = None \/ test.id \in Ids)
  BY DEF CountInv, IInv, TypeOK, Pending
<1>3. IsFiniteSet(Configured)'
  <2>1. CASE clients' = clients
    BY <2>1 DEF CountInv, Configured
  <2>2. CASE Replace
    <3>1. PICK c \in Configs : clients' = [id \in Ids |-> NewClient(c, gen + 1, id)]
      BY <2>2 DEF Replace, Install
    <3> QED
      BY <1>2, <3>1, InstalledFinite DEF Configured
  <2>3. ASSUME NEW id \in Ids, markSuccess(id) \/ markFailure(id) PROVE IsFiniteSet(Configured)'
    BY <1>2, <2>3, MarkKeepsConfigured DEF CountInv
  <2>4. ASSUME NEW c \in Callers, Succeed(c) \/ Fail(c) PROVE Current(c).id \in Ids
    <3>1. call[c].left # {} /\ call[c].left \in SUBSET Candidate
      BY <2>4 DEF Succeed, Fail, CountInv, IInv, HasCandidate, TypeOK, Call
    <3> QED
      BY <3>1, FirstFact DEF Current, Candidate
  <2>5. ASSUME ProbeRecord PROVE First(probe).id \in Ids
    <3>1. probe \in SUBSET Candidate /\ probe # {}
      BY <2>5 DEF ProbeRecord, CountInv, IInv, HasProbe, TypeOK
    <3> QED
      BY <3>1, FirstFact DEF Candidate
  <2>6. \/ clients' = clients \/ Replace
        \/ \E id \in Ids : markSuccess(id) \/ markFailure(id)
    <3>1. ASSUME NEW c \in Callers, Forward(c)
          PROVE  clients' = clients \/ \E id \in Ids : markSuccess(id) \/ markFailure(id)
      BY <2>4, <3>1, ZenonT(30) DEF Forward, Begin, Exchange, Succeed, Fail, NextRound, CancelWait, GiveUp, poolVars
    <3>2. ASSUME EndTest PROVE \E id \in Ids : markSuccess(id) \/ markFailure(id)
      BY <1>2, <3>2 DEF EndTest
    <3>3. ASSUME Prober PROVE clients' = clients \/ \E id \in Ids : markSuccess(id) \/ markFailure(id)
      BY <2>5, <3>3 DEF Prober, Tick, ProbeExchange, ProbeRecord, ProbeEnd, poolVars
    <3> QED
      BY <3>1, <3>2, <3>3 DEF Next, BeginTest, Toggle, poolVars, vars
  <2> QED
    BY <2>1, <2>2, <2>3, <2>6
<1>4. \A c \in Callers : Counted(c)'
  <2>1. ASSUME call' = call PROVE \A c \in Callers : Counted(c)'
    BY <2>1 DEF CountInv, Counted, Ahead
  <2>2. call' = call \/ \E c \in Callers : Forward(c)
    BY DEF Next, BeginTest, Toggle, EndTest, Prober, Tick, ProbeExchange, ProbeRecord, ProbeEnd, Replace, vars
  <2> QED
    BY <2>1, <2>2, ForwardCounts
<1> QED
  BY <1>1, <1>3, <1>4 DEF CountInv

(* A Forward that reports failure has contacted each candidate it started  *)
(* with once in every round, for any number of candidates and rounds, and  *)
(* although other calls, probes and Replace change the pool meanwhile.     *)
THEOREM ExhaustsCorrect == Spec => ExhaustsCandidates
<1>1. ASSUME CountInv, [Next]_vars, NEW c \in Callers, call[c].phase # "idle", call'[c].result = "failed"
      PROVE  call[c].contacts = Cardinality(call[c].cands) * (maxRetries + 1)
  <2>1. /\ call \in [Callers -> Call] /\ Counted(c) /\ call[c].result = "none" /\ maxRetries \in Nat
    BY <1>1, PoolAssumption DEF CountInv, IInv, TypeOK, Counted
  <2>2. PICK d \in Callers : Forward(d) /\ call' # call
    BY <1>1, <2>1 DEF Next, BeginTest, Toggle, EndTest, Prober, Tick, ProbeExchange, ProbeRecord, ProbeEnd, Replace, vars
  <2>3. d = c
    BY <1>1, <2>1, <2>2, ZenonT(30) DEF Forward, Begin, Exchange, Succeed, Fail, NextRound, CancelWait, GiveUp
  <2>4. GiveUp(c)
    <3>1. ASSUME Begin(c) \/ Succeed(c) \/ CancelWait(c) PROVE FALSE
      BY <1>1, <2>1, <3>1 DEF Begin, Succeed, CancelWait, Idle
    <3>2. ASSUME Exchange(c) \/ Fail(c) \/ NextRound(c) PROVE FALSE
      <4>1. call'[c].result = call[c].result
        <5>1. CASE Exchange(c)
          BY <2>1, <5>1 DEF Exchange, Call
        <5>2. CASE Fail(c)
          BY <2>1, <5>2 DEF Fail, Call
        <5>3. CASE NextRound(c)
          BY <2>1, <5>3 DEF NextRound, Call
        <5> QED
          BY <3>2, <5>1, <5>2, <5>3
      <4> QED
        BY <1>1, <2>1, <4>1
    <3> QED
      BY <2>2, <2>3, <3>1, <3>2 DEF Forward
  <2>5. call[c].phase = "try" /\ call[c].left = {} /\ call[c].attempt >= maxRetries
    BY <2>4 DEF GiveUp, RoundOver, LastRound
  <2>6. call[c].attempt = maxRetries /\ call[c].contacts \in Nat /\ Cardinality(call[c].cands) \in Nat
    BY <1>1, <2>1, <2>5, FS_CardinalityType DEF Counted, Call
  <2> QED
    BY <2>1, <2>5, <2>6, FS_EmptySet DEF Counted, Ahead
<1>2. CountInv /\ [Next]_vars =>
        [\A c \in Callers : call[c].phase # "idle" /\ call'[c].result = "failed" =>
            call[c].contacts = Cardinality(call[c].cands) * (maxRetries + 1)]_vars
  BY <1>1
<1>3. Spec => []CountInv
  BY InitCount, NextCount, PTL DEF Spec
<1> QED
  BY <1>2, <1>3, PTL DEF Spec, ExhaustsCandidates
=============================================================================
