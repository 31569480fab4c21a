----------------------------- MODULE RateLimiter -----------------------------
(***************************************************************************)
(* The per-address token buckets of internal/dns/ratelimit.go.  Allow      *)
(* reads the clock before it takes the mutex, so calls may be processed in *)
(* another order than they were timed.  The limiter's table is pruned once *)
(* in a while and trimmed at its limit, and Pipeline.Reconfigure replaces  *)
(* the limiter while calls hold the old one.                               *)
(*                                                                         *)
(* Time is counted so that one unit of a token is earned per tick: a token *)
(* has Cost units, the tick is 1/(qps * Cost) of a second.                 *)
(***************************************************************************)
EXTENDS Integers, FiniteSets

CONSTANTS Addresses, Callers,
          Cost,        \* ticks to earn a token
          Burst,       \* of the configuration, in tokens
          MaxBuckets,
          PruneEvery,  \* a minute, in ticks
          PruneAge,    \* five minutes
          MaxTime, MaxReplaces, NoTime

Full == Burst * Cost

(* rateBucket, with three history fields: the latest `now' that it was     *)
(* used with, and the units handed out since an observer began to count    *)
(* them, with the time of that.                                            *)
Bucket == [tokens : Int, seen : Int, latest : Int, granted : Int, since : Int]

ASSUME LimiterAssumption ==
    /\ Cost \in Nat \ {0} /\ Burst \in Nat \ {0} /\ MaxBuckets \in Nat \ {0}
    /\ PruneEvery \in Nat /\ PruneAge \in Nat
    /\ MaxTime \in Nat /\ MaxReplaces \in Nat
    /\ NoTime \notin Int /\ NoTime \notin Bucket

VARIABLES time,
          buckets,    \* RateLimiter.buckets, NoTime where the map has no key
          nextPrune,  \* NoTime: the zero time
          reading,    \* a caller's `now', NoTime while it is not in Allow
          replaces

limiterVars == <<time, buckets, nextPrune, reading, replaces>>

NewBucket(now) == [tokens |-> Full, seen |-> now, latest |-> now, granted |-> 0, since |-> now]
NoBuckets == [a \in Addresses |-> NoTime]

Used(table) == {a \in Addresses : table[a] # NoTime}
Only(table, kept) == [a \in Addresses |-> IF a \in kept THEN table[a] ELSE NoTime]

LimiterInit == /\ time = 0 /\ buckets = NoBuckets /\ nextPrune = NoTime
               /\ reading = [p \in Callers |-> NoTime]
               /\ replaces = 0

Tick == /\ time < MaxTime
        /\ time' = time + 1
        /\ UNCHANGED <<buckets, nextPrune, reading, replaces>>

ReadClock(p) == /\ reading[p] = NoTime
                /\ reading' = [reading EXCEPT ![p] = time]
                /\ UNCHANGED <<time, buckets, nextPrune, replaces>>
-----------------------------------------------------------------------------
(* trimLocked: the longest unused go first, never the exempt one; equals   *)
(* in any order.                                                           *)
Trimmed(table, exempt) ==
    IF Cardinality(Used(table)) <= MaxBuckets THEN {table}
    ELSE {Only(table, kept) : kept \in
            {ks \in SUBSET Used(table) :
               /\ Cardinality(ks) = MaxBuckets
               /\ Used(table) \cap exempt \subseteq ks
               /\ \A a \in ks \ exempt, b \in Used(table) \ ks : table[b].seen <= table[a].seen}}

(* pruneLocked, when it is due. *)
Prunes(now) == nextPrune = NoTime \/ now > nextPrune
Pruned(now) == IF Prunes(now)
               THEN Trimmed(Only(buckets, {a \in Used(buckets) : now - buckets[a].seen <= PruneAge}), {})
               ELSE {buckets}

(* The bucket that a call finds or makes, which trims the table. *)
Entered(table, a, now) ==
    IF table[a] # NoTime THEN {table} ELSE Trimmed([table EXCEPT ![a] = NewBucket(now)], {a})

RefillM(t, elapsed) == t + elapsed
Refill(t, elapsed) == IF t + elapsed > Full THEN Full ELSE t + elapsed

Take(b, now) == LET t == Refill(b.tokens, now - b.seen)
                    cost == IF t < Cost THEN 0 ELSE Cost
                IN  [tokens |-> t - cost, seen |-> now, latest |-> IF now > b.latest THEN now ELSE b.latest,
                     granted |-> b.granted + cost, since |-> b.since]

NextPrune(now) == now + PruneEvery

Allow(p, a) ==
    /\ reading[p] # NoTime
    /\ \E pruned \in Pruned(reading[p]) : \E table \in Entered(pruned, a, reading[p]) :
          buckets' = [table EXCEPT ![a] = Take(table[a], reading[p])]
    /\ nextPrune' = IF Prunes(reading[p]) THEN NextPrune(reading[p]) ELSE nextPrune
    /\ reading' = [reading EXCEPT ![p] = NoTime]
    /\ UNCHANGED <<time, replaces>>

(* Pipeline.Reconfigure: a new limiter.  A caller that has the old one     *)
(* leaves nothing in the new one.                                          *)
ReplaceLimiter ==
    /\ replaces < MaxReplaces
    /\ replaces' = replaces + 1
    /\ buckets' = NoBuckets /\ nextPrune' = NoTime
    /\ reading' = [p \in Callers |-> NoTime]
    /\ UNCHANGED time

(* An observer may begin to count at any moment of a bucket's life. *)
Observe(a) == /\ buckets[a] # NoTime
              /\ buckets' = [buckets EXCEPT ![a] = [buckets[a] EXCEPT !.granted = 0, !.since = buckets[a].latest]]
              /\ UNCHANGED <<time, nextPrune, reading, replaces>>

LimiterNext == \/ Tick \/ ReplaceLimiter \/ \E a \in Addresses : Observe(a)
               \/ \E p \in Callers : ReadClock(p) \/ \E a \in Addresses : Allow(p, a)

LimiterSpec == LimiterInit /\ [][LimiterNext]_limiterVars
-----------------------------------------------------------------------------
LimiterTypeOK ==
    /\ time \in 0..MaxTime
    /\ buckets \in [Addresses -> Bucket \cup {NoTime}]
    /\ nextPrune \in Nat \cup {NoTime}
    /\ reading \in [Callers -> 0..MaxTime \cup {NoTime}]
    /\ replaces \in 0..MaxReplaces

(* The table never has more buckets than configured. *)
TableBounded == Cardinality(Used(buckets)) <= MaxBuckets

(* However calls overtake one another between the clock and the mutex: in  *)
(* any stretch of a bucket's life an address gets no more than the burst   *)
(* and what is earned between the first and the last reading in it.        *)
RateBounded == \A a \in Used(buckets) :
    buckets[a].granted <= Full + (buckets[a].latest - buckets[a].since)

(* What a late call takes from a bucket (its elapsed time is negative,     *)
(* ratelimit.go:86) is given back: an address that was quiet for the time  *)
(* of one token is served.                                                 *)
NotStarved == \A a \in Used(buckets) :
    Refill(buckets[a].tokens, (buckets[a].latest + Cost) - buckets[a].seen) >= Cost

(* What any order of calls, prunings and replacements leaves: well-typed   *)
(* buckets within the bound of the table, none of which gave too much or   *)
(* refuses for ever.                                                       *)
LimiterSound == LimiterTypeOK /\ TableBounded /\ RateBounded /\ NotStarved
=============================================================================
