-------------------------------- MODULE Cache --------------------------------
(***************************************************************************)
(* The DNS response cache of internal/dns/cache.go: a map from questions   *)
(* to entries, a doubly linked list that orders them by recency of use, a  *)
(* size limit and TTL clamps that a configuration change may replace while *)
(* entries are live.  Every method runs under the cache's mutex, so each   *)
(* is one step.                                                            *)
(*                                                                         *)
(* A message keeps what the cache looks at: its rcode and, for the answer  *)
(* and the authority/additional sections, the set of record lifetimes in   *)
(* seconds (OPT records, which setTTL skips, are left out).  The clock     *)
(* counts ticks, TicksPerSecond to the second, because an entry's deadline *)
(* is finer than the seconds a record can express.                         *)
(***************************************************************************)
EXTENDS Integers, Sequences, FiniteSets, FiniteSetsExt, SequencesExt

CONSTANTS Keys,            \* cacheKey values
          Msgs,            \* responses handed to Put
          OptionSets,      \* CacheOptions values handed to Reconfigure
          Defaults,        \* NewCache's defaults (100000, 1m, 24h, 1h)
          None,            \* a nil list element; no result yet
          TicksPerSecond,
          MaxNow           \* bound on the modelled clock

Opts == [maxEntries : Nat, minTTL : Nat, maxTTL : Nat, negTTL : Nat]
PosOpts == [maxEntries : Nat \ {0}, minTTL : Nat \ {0},
            maxTTL : Nat \ {0}, negTTL : Nat \ {0}]
RCodes == {"NOERROR", "NXDOMAIN", "SERVFAIL"}
Message == [rcode : RCodes, answer : SUBSET Nat, ns : SUBSET Nat]
Entry == [msg : Msgs, expires : Nat]
Result == [key : Keys, msg : Message \cup {None}]

ASSUME CacheAssumption ==
    /\ Msgs \subseteq Message
    /\ OptionSets \subseteq Opts
    /\ Defaults \in PosOpts
    /\ None \notin Entry
    /\ None \notin Message
    /\ None \notin Result
    /\ TicksPerSecond \in Nat \ {0}
    /\ MaxNow \in Nat

VARIABLES items,    \* Cache.items: Keys -> entry, None where the map has no key
          lru,      \* Cache.lru: keys of the list's elements, front first
          opts,     \* maxEntries, minTTL, maxTTL, negTTL
          now,      \* Cache.now()
          out,      \* what the last Get returned
          recency   \* history: every key ever used, most recent use first

vars == <<items, lru, opts, now, out, recency>>

Cached == {k \in Keys : items[k] # None}
-----------------------------------------------------------------------------
(* NewCache: an option that is not positive takes its default. *)
Default(v, d) == IF v <= 0 THEN d ELSE v

NewCache(o) == [maxEntries |-> Default(o.maxEntries, Defaults.maxEntries),
                minTTL |-> Default(o.minTTL, Defaults.minTTL),
                maxTTL |-> Default(o.maxTTL, Defaults.maxTTL),
                negTTL |-> Default(o.negTTL, Defaults.negTTL)]

Init == /\ items = [k \in Keys |-> None]
        /\ lru = <<>>
        /\ \E o \in OptionSets : opts = NewCache(o)
        /\ now = 0
        /\ out = None
        /\ recency = <<>>

(* list.Remove of the element of k, wherever it stands. *)
Unlink(s, k) == LET p == CHOOSE i \in DOMAIN s : s[i] = k
                IN  [i \in 1..(Len(s) - 1) |-> IF i < p THEN s[i] ELSE s[i + 1]]

MoveToFrontM(s, k) == s
MoveToFront(s, k) == <<k>> \o Unlink(s, k)

(* The eviction loop, `for len(items) > maxEntries { remove(lru.Back()) }'. *)
Trim(s, n) == IF Len(s) > n THEN SubSeq(s, 1, n) ELSE s

KeepOnly(f, s) == [k \in Keys |-> IF k \in Range(s) THEN f[k] ELSE None]

(* Bookkeeping of the history variable: k is used now. *)
Used(k) == recency' = IF k \in Range(recency) THEN <<k>> \o Unlink(recency, k)
                                              ELSE <<k>> \o recency

(* ttlFor: negative answers take negTTL, failures are not cached (0), the  *)
(* rest live as long as their shortest record, clamped.                    *)
TtlFor(m) ==
    IF m.rcode = "NXDOMAIN" \/ (m.rcode = "NOERROR" /\ m.answer = {})
    THEN opts.negTTL
    ELSE IF m.rcode # "NOERROR" THEN 0
    ELSE LET t == Min(m.answer) * TicksPerSecond
             u == IF t < opts.minTTL THEN opts.minTTL ELSE t
         IN  IF u > opts.maxTTL THEN opts.maxTTL ELSE u

SetTTLM(ttls, r) == {r : t \in ttls}
SetTTL(ttls, r) == {IF t > r THEN r ELSE t : t \in ttls}

(* The lifetime a hit reports: whole seconds left, at least one. *)
Remaining(e) == LET s == (e.expires - now) \div TicksPerSecond
                IN  IF s = 0 THEN 1 ELSE s

Expired(e) == e.expires <= now
-----------------------------------------------------------------------------
removeM(k) == /\ items' = [items EXCEPT ![k] = None]
              /\ UNCHANGED lru
remove(k) == /\ items' = [items EXCEPT ![k] = None]
             /\ lru' = Unlink(lru, k)

Miss(k) == out' = [key |-> k, msg |-> None]

GetAbsent(k) == /\ items[k] = None
                /\ Miss(k)
                /\ UNCHANGED <<items, lru, opts, now, recency>>

GetExpired(k) == /\ items[k] # None
                 /\ Expired(items[k])
                 /\ remove(k)
                 /\ Miss(k)
                 /\ UNCHANGED <<opts, now, recency>>

(* The stored wire form does not decode (the DNS library's answer). *)
GetUndecodable(k) == /\ items[k] # None
                     /\ ~Expired(items[k])
                     /\ remove(k)
                     /\ Miss(k)
                     /\ UNCHANGED <<opts, now, recency>>

GetHit(k) ==
    /\ items[k] # None
    /\ ~Expired(items[k])
    /\ LET e == items[k]
           r == Remaining(e)
       IN  out' = [key |-> k,
                   msg |-> [rcode |-> e.msg.rcode,
                            answer |-> SetTTL(e.msg.answer, r),
                            ns |-> SetTTL(e.msg.ns, r)]]
    /\ lru' = MoveToFront(lru, k)
    /\ Used(k)
    /\ UNCHANGED <<items, opts, now>>

Get(k) == GetAbsent(k) \/ GetExpired(k) \/ GetUndecodable(k) \/ GetHit(k)

(* Put leaves the cache alone when the message has no TTL, and also when   *)
(* Pack cannot encode it, which may happen to any message.                 *)
PutSkipped(m) == UNCHANGED vars

PutExisting(k, m) ==
    /\ TtlFor(m) > 0
    /\ items[k] # None
    /\ items' = [items EXCEPT ![k] = [msg |-> m, expires |-> now + TtlFor(m)]]
    /\ lru' = MoveToFront(lru, k)
    /\ Used(k)
    /\ UNCHANGED <<opts, now, out>>

PutNew(k, m) ==
    /\ TtlFor(m) > 0
    /\ items[k] = None
    /\ lru' = Trim(<<k>> \o lru, opts.maxEntries)
    /\ items' = KeepOnly([items EXCEPT ![k] = [msg |-> m, expires |-> now + TtlFor(m)]],
                         lru')
    /\ Used(k)
    /\ UNCHANGED <<opts, now, out>>

Put(k, m) == PutSkipped(m) \/ PutExisting(k, m) \/ PutNew(k, m)

Flush == /\ items' = [k \in Keys |-> None]
         /\ lru' = <<>>
         /\ UNCHANGED <<opts, now, out, recency>>

Reconfigure(o) == /\ opts' = NewCache(o)
                  /\ lru' = Trim(lru, opts'.maxEntries)
                  /\ items' = KeepOnly(items, lru')
                  /\ UNCHANGED <<now, out, recency>>

(* Time passes (external). *)
Tick == /\ now < MaxNow
        /\ now' = now + 1
        /\ UNCHANGED <<items, lru, opts, out, recency>>

Next == \/ \E k \in Keys : Get(k)
        \/ \E k \in Keys, m \in Msgs : Put(k, m)
        \/ Flush
        \/ \E o \in OptionSets : Reconfigure(o)
        \/ Tick

Spec == Init /\ [][Next]_vars
-----------------------------------------------------------------------------
TypeOK ==
    /\ items \in [Keys -> Entry \cup {None}]
    /\ lru \in Seq(Keys)
    /\ opts \in PosOpts
    /\ now \in Nat
    /\ out \in {None} \cup Result
    /\ recency \in Seq(Keys)

(* The map and the list describe the same entries: each cached key has     *)
(* exactly one list element and no element is left without its key.  The   *)
(* eviction loops of Put and Reconfigure end only because of it: with an   *)
(* empty list and a map over its limit, remove(nil) makes no progress and  *)
(* the loop would spin under the mutex.                                    *)
NoDuplicates(s) == \A i, j \in DOMAIN s : s[i] = s[j] => i = j
IndexAgrees == NoDuplicates(lru) /\ Range(lru) = Cached

(* The cache never holds more than the entries its current options allow,  *)
(* also right after Reconfigure lowered the limit under live entries.      *)
WithinLimit == Len(lru) <= opts.maxEntries

(* When Put or Reconfigure makes room, what goes was used less recently    *)
(* than everything that stays, judged by the history of uses and not by    *)
(* the list: a Get hit and an overwriting Put both count as uses.          *)
MoreRecent(j, k) == \E p, q \in DOMAIN recency' :
                        recency'[p] = j /\ recency'[q] = k /\ p < q
MakesRoom == (\E k \in Keys, m \in Msgs : Put(k, m)) \/ (\E o \in OptionSets : Reconfigure(o))
EvictsLeastRecent ==
    [][MakesRoom => \A k \in Cached \ Cached', j \in Cached' : MoreRecent(j, k)]_vars

(* The cache implements the abstract promise: it may forget, but a hit is  *)
(* the response stored last, before its deadline, lifetimes only lowered.  *)
Promise == INSTANCE TTLCache WITH store <- items, reply <- out
ImplementsPromise == Promise!ASpec

(* What every method of the cache leaves behind, in whatever order they are*)
(* called: well-typed state, a map and a list that agree, and no more      *)
(* entries than the options in force allow.                                *)
Consistent == TypeOK /\ IndexAgrees /\ WithinLimit
=============================================================================
