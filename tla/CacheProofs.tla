----------------------------- MODULE CacheProofs -----------------------------
(***************************************************************************)
(* Proofs about the DNS response cache for every set of questions,         *)
(* responses and options: its type invariant, the agreement of map and     *)
(* list, the size limit, the choice of what is evicted, and that it        *)
(* implements the promise of TTLCache.                                     *)
(***************************************************************************)
EXTENDS Cache, TLAPS, SequenceTheorems, WellFoundedInduction

(* A nonempty set of record lifetimes has a smallest one (ttlFor). *)
LEMMA MinNat ==
    ASSUME NEW S \in SUBSET Nat, S # {}
    PROVE  Min(S) \in Nat
<1>1. PICK x \in S : \A y \in S : ~(<<y, x>> \in OpToRel(<, Nat))
  BY NatLessThanWellFounded, WFMin, ZenonT(30)
<1>2. \A y \in S : ~(y < x)
  BY <1>1 DEF OpToRel
<1>3. \A y \in S : x =< y
  BY <1>2
<1>4. Min(S) \in S
  BY <1>3 DEF Min
<1> QED
  BY <1>4

(* Unlinking the element of k shortens the list by exactly that element. *)
LEMMA UnlinkFacts ==
    ASSUME NEW S, NEW s \in Seq(S), NEW k \in Range(s)
    PROVE  /\ Unlink(s, k) \in Seq(S)
           /\ Len(Unlink(s, k)) = Len(s) - 1
           /\ NoDuplicates(s) => /\ NoDuplicates(Unlink(s, k))
                                 /\ Range(Unlink(s, k)) = Range(s) \ {k}
<1> DEFINE p == CHOOSE i \in DOMAIN s : s[i] = k
           u == Unlink(s, k)
<1>1. p \in 1..Len(s) /\ s[p] = k /\ Len(s) \in Nat
  BY DEF Range
<1>2. u = [i \in 1..(Len(s) - 1) |-> IF i < p THEN s[i] ELSE s[i + 1]]
  BY DEF Unlink
<1> HIDE DEF p, u
<1>3. u \in Seq(S) /\ Len(u) = Len(s) - 1
  BY <1>1, <1>2
<1>4. ASSUME NoDuplicates(s) PROVE NoDuplicates(u)
  BY <1>1, <1>2, <1>4 DEF NoDuplicates
<1>5. ASSUME NoDuplicates(s) PROVE Range(u) \subseteq Range(s) \ {k}
  <2>1. ASSUME NEW i \in 1..(Len(s) - 1)
        PROVE  u[i] \in Range(s) \ {k}
    BY <1>1, <1>2, <1>5 DEF NoDuplicates, Range
  <2> QED BY <1>3, <2>1 DEF Range
<1>6. ASSUME NEW x \in Range(s) \ {k} PROVE x \in Range(u)
  <2>1. PICK i \in 1..Len(s) : s[i] = x
    BY DEF Range
  <2>2. i # p
    BY <1>1, <2>1
  <2>3. CASE i < p
    <3>1. i \in 1..(Len(s) - 1) /\ u[i] = x
      BY <1>1, <1>2, <2>1, <2>3
    <3> QED BY <1>3, <3>1 DEF Range
  <2>4. CASE i > p
    <3>1. i - 1 \in 1..(Len(s) - 1) /\ u[i - 1] = x
      BY <1>1, <1>2, <2>1, <2>4
    <3> QED BY <1>3, <3>1 DEF Range
  <2> QED BY <1>1, <2>1, <2>2, <2>3, <2>4
<1> QED
  BY <1>3, <1>4, <1>5, <1>6 DEF u

(* PushFront of a key that is not listed keeps the list without repeats. *)
LEMMA PushFrontFacts ==
    ASSUME NEW S, NEW s \in Seq(S), NEW k \in S
    PROVE  /\ <<k>> \o s \in Seq(S)
           /\ Len(<<k>> \o s) = Len(s) + 1
           /\ Range(<<k>> \o s) = {k} \cup Range(s)
           /\ NoDuplicates(s) /\ k \notin Range(s) => NoDuplicates(<<k>> \o s)
<1> DEFINE t == <<k>> \o s
<1>1. /\ t \in Seq(S) /\ Len(t) = Len(s) + 1
      /\ \A i \in 1..Len(t) : t[i] = IF i = 1 THEN k ELSE s[i - 1]
  OBVIOUS
<1> HIDE DEF t
<1>2. ASSUME NEW i \in 1..Len(t) PROVE t[i] \in {k} \cup Range(s)
  BY <1>1 DEF Range
<1>3. ASSUME NEW x \in Range(s) PROVE x \in Range(t)
  <2>1. PICK i \in 1..Len(s) : s[i] = x
    BY DEF Range
  <2>2. i + 1 \in 1..Len(t) /\ t[i + 1] = x
    BY <1>1, <2>1
  <2> QED BY <1>1, <2>2 DEF Range
<1>4. k \in Range(t)
  <2>1. 1 \in 1..Len(t) /\ t[1] = k
    BY <1>1
  <2> QED BY <1>1, <2>1 DEF Range
<1>5. Range(t) = {k} \cup Range(s)
  <2>1. Range(t) \subseteq {k} \cup Range(s)
    BY <1>1, <1>2 DEF Range
  <2> QED BY <1>3, <1>4, <2>1
<1>6. NoDuplicates(s) /\ k \notin Range(s) => NoDuplicates(t)
  BY <1>1, SMTT(30) DEF NoDuplicates, Range
<1> QED
  BY <1>1, <1>5, <1>6 DEF t

(* Trimming keeps a prefix of at most n elements. *)
LEMMA TrimFacts ==
    ASSUME NEW S, NEW s \in Seq(S), NEW n \in Nat
    PROVE  /\ Trim(s, n) \in Seq(S)
           /\ Len(Trim(s, n)) <= n
           /\ Range(Trim(s, n)) \subseteq Range(s)
           /\ NoDuplicates(s) => NoDuplicates(Trim(s, n))
           /\ n > 0 /\ s # <<>> => s[1] \in Range(Trim(s, n))
<1>1. CASE Len(s) > n
  <2> DEFINE t == SubSeq(s, 1, n)
  <2>1. /\ t \in Seq(S) /\ Len(t) = n
        /\ \A i \in 1..n : t[i] = s[i]
    BY <1>1, SubSeqProperties
  <2>2. Trim(s, n) = t
    BY <1>1 DEF Trim
  <2> HIDE DEF t
  <2> QED BY <1>1, <2>1, <2>2 DEF Range, NoDuplicates
<1>2. CASE ~(Len(s) > n)
  <2>1. Trim(s, n) = s
    BY <1>2 DEF Trim
  <2>2. s # <<>> => 1 \in DOMAIN s
    OBVIOUS
  <2> QED BY <1>2, <2>1, <2>2 DEF Range
<1> QED BY <1>1, <1>2
-----------------------------------------------------------------------------
(* NewCache never yields a zero limit or TTL: defaults replace them. *)
LEMMA NewCacheType ==
    ASSUME NEW o \in Opts
    PROVE  NewCache(o) \in PosOpts
BY CacheAssumption DEF NewCache, Default, Opts, PosOpts

(* A stored entry's lifetime is a natural number of ticks. *)
LEMMA TtlForType ==
    ASSUME opts \in PosOpts, NEW m \in Msgs
    PROVE  TtlFor(m) \in Nat
<1>1. m \in Message
  BY CacheAssumption
<1>2. m.answer # {} => Min(m.answer) \in Nat
  BY <1>1, MinNat DEF Message
<1>3. m.answer # {} => Min(m.answer) * TicksPerSecond \in Nat
  BY <1>2, CacheAssumption
<1> HIDE DEF Min
<1> QED
  BY <1>1, <1>3 DEF TtlFor, PosOpts

LEMMA UsedType ==
    ASSUME recency \in Seq(Keys), NEW k \in Keys, Used(k)
    PROVE  recency' \in Seq(Keys)
<1>1. CASE k \in Range(recency)
  BY <1>1, UnlinkFacts, PushFrontFacts DEF Used
<1>2. CASE k \notin Range(recency)
  BY <1>2, PushFrontFacts DEF Used
<1> QED BY <1>1, <1>2

(* Moving a listed key to the front permutes the list. *)
LEMMA MoveToFrontFacts ==
    ASSUME NEW s \in Seq(Keys), NoDuplicates(s), NEW k \in Range(s)
    PROVE  /\ MoveToFront(s, k) \in Seq(Keys)
           /\ Len(MoveToFront(s, k)) = Len(s)
           /\ NoDuplicates(MoveToFront(s, k))
           /\ Range(MoveToFront(s, k)) = Range(s)
<1>1. k \in Keys /\ Len(s) \in Nat
  BY DEF Range
<1>2. /\ Unlink(s, k) \in Seq(Keys)
      /\ Len(Unlink(s, k)) = Len(s) - 1
      /\ NoDuplicates(Unlink(s, k))
      /\ Range(Unlink(s, k)) = Range(s) \ {k}
  BY UnlinkFacts
<1>3. /\ <<k>> \o Unlink(s, k) \in Seq(Keys)
      /\ Len(<<k>> \o Unlink(s, k)) = Len(s) - 1 + 1
      /\ Range(<<k>> \o Unlink(s, k)) = {k} \cup (Range(s) \ {k})
      /\ NoDuplicates(<<k>> \o Unlink(s, k))
  BY <1>1, <1>2, PushFrontFacts
<1>4. {k} \cup (Range(s) \ {k}) = Range(s) /\ Len(s) - 1 + 1 = Len(s)
  BY <1>1
<1> QED BY <1>3, <1>4 DEF MoveToFront

(* What eviction leaves in the map is what it leaves in the list. *)
LEMMA KeepOnlyFacts ==
    ASSUME NEW f \in [Keys -> Entry \cup {None}], NEW s \in Seq(Keys),
           \A k \in Range(s) : f[k] # None
    PROVE  /\ KeepOnly(f, s) \in [Keys -> Entry \cup {None}]
           /\ {k \in Keys : KeepOnly(f, s)[k] # None} = Range(s)
<1>1. Range(s) \subseteq Keys
  BY DEF Range
<1> QED BY <1>1 DEF KeepOnly
-----------------------------------------------------------------------------
(* The inductive invariant.  IndexAgrees and WithinLimit need each other   *)
(* and the types: the loop bound counts list elements while the code       *)
(* counts map keys, which is the same only because they agree.             *)
IInv == TypeOK /\ IndexAgrees /\ WithinLimit

LEMMA InitInv == Init => IInv
<1> SUFFICES ASSUME Init PROVE IInv
  OBVIOUS
<1>1. opts \in PosOpts
  BY NewCacheType, CacheAssumption DEF Init
<1>2. lru = <<>> /\ Range(lru) = {} /\ Cached = {}
  BY DEF Init, Range, Cached
<1> QED
  BY <1>1, <1>2 DEF Init, IInv, TypeOK, IndexAgrees, WithinLimit, NoDuplicates, PosOpts

LEMMA RemoveInv ==
    ASSUME IInv, NEW k \in Keys, items[k] # None, remove(k), Miss(k),
           UNCHANGED <<opts, now, recency>>
    PROVE  IInv'
<1>1. k \in Range(lru) /\ lru \in Seq(Keys) /\ Len(lru) \in Nat
  BY DEF IInv, IndexAgrees, Cached, TypeOK
<1>2. /\ lru' \in Seq(Keys) /\ Len(lru') = Len(lru) - 1
      /\ NoDuplicates(lru') /\ Range(lru') = Range(lru) \ {k}
  BY <1>1, UnlinkFacts DEF remove, IInv, IndexAgrees
<1>3. items' \in [Keys -> Entry \cup {None}] /\ Cached' = Cached \ {k}
  BY DEF remove, IInv, TypeOK, Cached
<1>4. TypeOK'
  BY <1>2, <1>3 DEF Miss, IInv, TypeOK, Result
<1>5. IndexAgrees' /\ WithinLimit'
  BY <1>1, <1>2, <1>3 DEF IInv, TypeOK, IndexAgrees, WithinLimit, PosOpts
<1> QED BY <1>4, <1>5 DEF IInv

LEMMA NextInv == IInv /\ [Next]_vars => IInv'
<1> SUFFICES ASSUME IInv, [Next]_vars PROVE IInv'
  OBVIOUS
<1> USE CacheAssumption
<1>1. ASSUME NEW k \in Keys, GetAbsent(k) PROVE IInv'
  <2>1. TypeOK'
    BY <1>1 DEF GetAbsent, Miss, IInv, TypeOK, Result
  <2> QED
    BY <1>1, <2>1 DEF GetAbsent, IInv, IndexAgrees, WithinLimit, Cached
<1>2. ASSUME NEW k \in Keys, GetExpired(k) PROVE IInv'
  BY <1>2, RemoveInv DEF GetExpired
<1>3. ASSUME NEW k \in Keys, GetUndecodable(k) PROVE IInv'
  BY <1>3, RemoveInv DEF GetUndecodable
<1>4. ASSUME NEW k \in Keys, GetHit(k) PROVE IInv'
  <2>1. k \in Range(lru) /\ lru \in Seq(Keys) /\ NoDuplicates(lru)
    BY <1>4 DEF GetHit, IInv, IndexAgrees, Cached, TypeOK
  <2>2. /\ lru' \in Seq(Keys) /\ Len(lru') = Len(lru)
        /\ NoDuplicates(lru') /\ Range(lru') = Range(lru)
    BY <1>4, <2>1, MoveToFrontFacts DEF GetHit
  <2>3. recency' \in Seq(Keys)
    BY <1>4, UsedType DEF GetHit, IInv, TypeOK
  <2>4. items[k] \in Entry /\ items[k].msg \in Message
    BY <1>4 DEF GetHit, IInv, TypeOK, Entry
  <2>5. Remaining(items[k]) \in Nat
    <3>1. items[k].expires - now \in Nat
      BY <1>4, <2>4 DEF GetHit, Expired, Entry, IInv, TypeOK
    <3>2. (items[k].expires - now) \div TicksPerSecond \in Nat
      BY <3>1
    <3> QED BY <3>2 DEF Remaining
  <2>6. out' \in Result
    BY <1>4, <2>4, <2>5 DEF GetHit, Message, SetTTL, Result
  <2>7. TypeOK'
    BY <1>4, <2>2, <2>3, <2>6 DEF GetHit, IInv, TypeOK
  <2> QED
    BY <1>4, <2>2, <2>7 DEF GetHit, IInv, IndexAgrees, WithinLimit, Cached
<1>5. ASSUME NEW k \in Keys, NEW m \in Msgs, PutExisting(k, m) PROVE IInv'
  <2>1. k \in Range(lru) /\ lru \in Seq(Keys) /\ NoDuplicates(lru)
    BY <1>5 DEF PutExisting, IInv, IndexAgrees, Cached, TypeOK
  <2>2. /\ lru' \in Seq(Keys) /\ Len(lru') = Len(lru)
        /\ NoDuplicates(lru') /\ Range(lru') = Range(lru)
    BY <1>5, <2>1, MoveToFrontFacts DEF PutExisting
  <2>3. recency' \in Seq(Keys)
    BY <1>5, UsedType DEF PutExisting, IInv, TypeOK
  <2>4. [msg |-> m, expires |-> now + TtlFor(m)] \in Entry
    BY <1>5, TtlForType DEF Entry, IInv, TypeOK
  <2>5. items' \in [Keys -> Entry \cup {None}] /\ Cached' = Cached
    BY <1>5, <2>4 DEF PutExisting, IInv, TypeOK, Cached
  <2>6. TypeOK'
    BY <1>5, <2>2, <2>3, <2>5 DEF PutExisting, IInv, TypeOK
  <2> QED
    BY <1>5, <2>2, <2>5, <2>6 DEF PutExisting, IInv, IndexAgrees, WithinLimit
<1>6. ASSUME NEW k \in Keys, NEW m \in Msgs, PutNew(k, m) PROVE IInv'
  <2> DEFINE e == [msg |-> m, expires |-> now + TtlFor(m)]
             f == [items EXCEPT ![k] = e]
  <2>1. k \notin Range(lru) /\ lru \in Seq(Keys) /\ NoDuplicates(lru)
    BY <1>6 DEF PutNew, IInv, IndexAgrees, Cached, TypeOK
  <2>2. /\ <<k>> \o lru \in Seq(Keys)
        /\ NoDuplicates(<<k>> \o lru) /\ Range(<<k>> \o lru) = {k} \cup Range(lru)
    BY <2>1, PushFrontFacts
  <2>3. opts.maxEntries \in Nat
    BY DEF IInv, TypeOK, PosOpts
  <2>4. /\ lru' \in Seq(Keys) /\ Len(lru') <= opts.maxEntries
        /\ NoDuplicates(lru') /\ Range(lru') \subseteq {k} \cup Range(lru)
    BY <1>6, <2>2, <2>3, TrimFacts DEF PutNew
  <2>5. e \in Entry
    BY TtlForType DEF Entry, IInv, TypeOK
  <2>6. f \in [Keys -> Entry \cup {None}] /\ \A j \in Range(lru') : f[j] # None
    BY <1>6, <2>4, <2>5 DEF IInv, TypeOK, IndexAgrees, Cached
  <2>7. items' = KeepOnly(f, lru')
    BY <1>6 DEF PutNew
  <2>8. items' \in [Keys -> Entry \cup {None}] /\ Cached' = Range(lru')
    BY <2>4, <2>6, <2>7, KeepOnlyFacts DEF Cached
  <2>9. recency' \in Seq(Keys)
    BY <1>6, UsedType DEF PutNew, IInv, TypeOK
  <2>10. TypeOK'
    BY <1>6, <2>4, <2>8, <2>9 DEF PutNew, IInv, TypeOK
  <2> QED
    BY <1>6, <2>4, <2>8, <2>10 DEF PutNew, IInv, IndexAgrees, WithinLimit
<1>7. ASSUME Flush PROVE IInv'
  <2>1. lru' = <<>> /\ Range(lru') = {} /\ Cached' = {}
    BY <1>7 DEF Flush, Range, Cached
  <2> QED
    BY <1>7, <2>1 DEF Flush, IInv, TypeOK, IndexAgrees, WithinLimit, NoDuplicates, PosOpts
<1>8. ASSUME NEW o \in OptionSets, Reconfigure(o) PROVE IInv'
  <2>1. opts' \in PosOpts /\ opts'.maxEntries \in Nat
    BY <1>8, NewCacheType DEF Reconfigure, PosOpts
  <2>2. /\ lru' \in Seq(Keys) /\ Len(lru') <= opts'.maxEntries
        /\ NoDuplicates(lru') /\ Range(lru') \subseteq Range(lru)
    BY <1>8, <2>1, TrimFacts DEF Reconfigure, IInv, TypeOK, IndexAgrees
  <2>3. items \in [Keys -> Entry \cup {None}] /\ \A j \in Range(lru') : items[j] # None
    BY <2>2 DEF IInv, TypeOK, IndexAgrees, Cached
  <2>4. items' = KeepOnly(items, lru')
    BY <1>8 DEF Reconfigure
  <2>5. items' \in [Keys -> Entry \cup {None}] /\ Cached' = Range(lru')
    BY <2>2, <2>3, <2>4, KeepOnlyFacts DEF Cached
  <2>6. TypeOK'
    BY <1>8, <2>1, <2>2, <2>5 DEF Reconfigure, IInv, TypeOK
  <2> QED
    BY <2>2, <2>5, <2>6 DEF IInv, IndexAgrees, WithinLimit
<1>9. ASSUME Tick PROVE IInv'
  BY <1>9 DEF Tick, IInv, TypeOK, IndexAgrees, WithinLimit, Cached
<1>10. ASSUME UNCHANGED vars PROVE IInv'
  BY <1>10 DEF vars, IInv, TypeOK, IndexAgrees, WithinLimit, Cached
<1> QED
  BY <1>1, <1>2, <1>3, <1>4, <1>5, <1>6, <1>7, <1>8, <1>9, <1>10
  DEF Next, Get, Put, PutSkipped

(* The types of the cache's fields, through every method and resize. *)
THEOREM TypeCorrect == Spec => []TypeOK
<1>1. IInv => TypeOK
  BY DEF IInv
<1> QED BY <1>1, InitInv, NextInv, PTL DEF Spec

(* Map and list agree after every method, so the eviction loop terminates. *)
THEOREM IndexCorrect == Spec => []IndexAgrees
<1>1. IInv => IndexAgrees
  BY DEF IInv
<1> QED BY <1>1, InitInv, NextInv, PTL DEF Spec

(* The cache never exceeds the limit its current options give. *)
THEOREM LimitCorrect == Spec => []WithinLimit
<1>1. IInv => WithinLimit
  BY DEF IInv
<1> QED BY <1>1, InitInv, NextInv, PTL DEF Spec

(* What every method of the cache leaves behind, for all values of the     *)
(* constants.                                                              *)
THEOREM CacheConsistent == Spec => []Consistent
<1>1. IInv => Consistent
  BY DEF IInv, Consistent
<1> QED BY <1>1, InitInv, NextInv, PTL DEF Spec
-----------------------------------------------------------------------------
(* Whole seconds never exceed the ticks they are cut from. *)
LEMMA WholeSeconds ==
    ASSUME NEW d \in Nat
    PROVE  /\ d \div TicksPerSecond \in Nat
           /\ (d \div TicksPerSecond) * TicksPerSecond <= d
BY CacheAssumption

(* SetTTL at a hit lowers every lifetime to at most the remaining time. *)
LEMMA HitShortens ==
    ASSUME IInv, NEW k \in Keys, items[k] # None, ~Expired(items[k]),
           NEW ttls \in SUBSET Nat
    PROVE  Promise!Shortened(SetTTL(ttls, Remaining(items[k])), ttls,
                             items[k].expires - now)
<1> DEFINE d == items[k].expires - now
           r == Remaining(items[k])
           T == TicksPerSecond
<1>1. d \in Nat \ {0} /\ T \in Nat \ {0}
  BY CacheAssumption DEF IInv, TypeOK, Entry, Expired
<1>2. r \in Nat /\ r * T < d + T
  <2>1. d \div T \in Nat /\ (d \div T) * T <= d
    BY <1>1, WholeSeconds
  <2>2. CASE d \div T = 0
    BY <1>1, <2>2 DEF Remaining
  <2>3. CASE d \div T # 0
    <3>1. r = d \div T
      BY <2>3 DEF Remaining
    <3>2. r * T <= d
      BY <2>1, <3>1
    <3> QED BY <1>1, <2>1, <3>1, <3>2
  <2> QED BY <2>2, <2>3
<1> HIDE DEF d, r, T
<1>3. ASSUME NEW t \in Nat, t <= r PROVE t * T < d + T
  <2>1. t * T <= r * T
    BY <1>1, <1>2, <1>3
  <2> QED BY <1>1, <1>2, <2>1
<1>4. \A t \in SetTTL(ttls, r) : t \in Nat /\ t <= r /\ \E u \in ttls : t <= u
  BY <1>2 DEF SetTTL
<1>5. \A u \in ttls : \E t \in SetTTL(ttls, r) : t <= u
  BY <1>2, SMTT(30) DEF SetTTL
<1> QED
  BY <1>3, <1>4, <1>5 DEF Promise!Shortened, d, r, T

(* The cache implements the promise its users rely on, for every limit,    *)
(* TTL policy and sequence of reconfigurations: Get, Put, Flush,           *)
(* Reconfigure and expiry map to storing, forgetting and answering.        *)
THEOREM CacheImplementsPromise == Spec => ImplementsPromise
<1>1. Init => Promise!AInit
  BY DEF Init, Promise!AInit
<1>2. ASSUME IInv, [Next]_vars PROVE [Promise!ANext]_(Promise!avars)
  <2> USE CacheAssumption
  <2>1. ASSUME NEW k \in Keys, GetAbsent(k) PROVE Promise!AMiss(k)
    BY <2>1 DEF GetAbsent, Miss, Promise!AMiss, Promise!Forgets
  <2>2. ASSUME NEW k \in Keys, GetExpired(k) PROVE Promise!AMiss(k)
    BY <1>2, <2>2 DEF GetExpired, remove, Miss, Promise!AMiss, Promise!Forgets,
                      IInv, TypeOK
  <2>3. ASSUME NEW k \in Keys, GetUndecodable(k) PROVE Promise!AMiss(k)
    BY <1>2, <2>3 DEF GetUndecodable, remove, Miss, Promise!AMiss, Promise!Forgets,
                      IInv, TypeOK
  <2>4. ASSUME NEW k \in Keys, GetHit(k) PROVE Promise!AHit(k)
    <3>1. /\ items[k] # None /\ ~Expired(items[k])
          /\ UNCHANGED <<items, now>>
      BY <2>4 DEF GetHit
    <3>2. items[k] \in Entry /\ items[k].msg \in Message /\ items[k].expires > now
      BY <1>2, <3>1 DEF IInv, TypeOK, Entry, Expired
    <3>3. out' = [key |-> k,
                  msg |-> [rcode |-> items[k].msg.rcode,
                           answer |-> SetTTL(items[k].msg.answer, Remaining(items[k])),
                           ns |-> SetTTL(items[k].msg.ns, Remaining(items[k]))]]
      BY <2>4 DEF GetHit
    <3>4. items[k].msg.answer \in SUBSET Nat /\ items[k].msg.ns \in SUBSET Nat
      BY <3>2 DEF Message
    <3>5. /\ Promise!Shortened(out'.msg.answer, items[k].msg.answer,
                               items[k].expires - now)
          /\ Promise!Shortened(out'.msg.ns, items[k].msg.ns, items[k].expires - now)
      BY <1>2, <3>1, <3>3, <3>4, HitShortens
    <3>6. out' # None /\ out'.msg # None
      <4>1. Remaining(items[k]) \in Nat
        <5>1. (items[k].expires - now) \div TicksPerSecond \in Nat
          <6>1. items[k].expires - now \in Nat
            BY <1>2, <3>2 DEF Entry, IInv, TypeOK
          <6> QED BY <6>1, WholeSeconds
        <5> QED BY <5>1 DEF Remaining
      <4>2. out'.msg \in Message
        BY <3>2, <3>3, <3>4, <4>1 DEF Message, SetTTL
      <4>3. out' \in Result
        BY <3>3, <4>2 DEF Result
      <4> QED BY <4>2, <4>3
    <3> QED
      BY <3>1, <3>2, <3>3, <3>5, <3>6 DEF Promise!AHit
  <2>5. ASSUME NEW k \in Keys, NEW m \in Msgs, PutExisting(k, m) PROVE Promise!AStore(k)
    <3>1. [msg |-> m, expires |-> now + TtlFor(m)] \in Entry /\ TtlFor(m) \in Nat
      BY <1>2, TtlForType DEF Entry, IInv, TypeOK
    <3>2. items' = [items EXCEPT ![k] = [msg |-> m, expires |-> now + TtlFor(m)]]
      BY <2>5 DEF PutExisting
    <3> QED
      BY <1>2, <2>5, <3>1, <3>2 DEF PutExisting, Promise!AStore, IInv, TypeOK
  <2>6. ASSUME NEW k \in Keys, NEW m \in Msgs, PutNew(k, m) PROVE Promise!AStore(k)
    <3>1. [msg |-> m, expires |-> now + TtlFor(m)] \in Entry /\ TtlFor(m) \in Nat
      BY <1>2, TtlForType DEF Entry, IInv, TypeOK
    <3>2. k \in Range(lru')
      <4>1. lru \in Seq(Keys) /\ opts.maxEntries \in Nat \ {0}
        BY <1>2 DEF IInv, TypeOK, PosOpts
      <4> DEFINE w == <<k>> \o lru
      <4>2. w \in Seq(Keys) /\ w[1] = k /\ w # <<>>
        BY <4>1
      <4>3. lru' = Trim(w, opts.maxEntries)
        BY <2>6 DEF PutNew
      <4> HIDE DEF w
      <4>4. w[1] \in Range(Trim(w, opts.maxEntries))
        BY <4>1, <4>2, TrimFacts
      <4> QED BY <4>2, <4>3, <4>4
    <3>3. items' = KeepOnly([items EXCEPT ![k] = [msg |-> m, expires |-> now + TtlFor(m)]],
                            lru')
      BY <2>6 DEF PutNew
    <3>4. items'[k] = [msg |-> m, expires |-> now + TtlFor(m)]
      BY <1>2, <3>2, <3>3 DEF KeepOnly, IInv, TypeOK
    <3>5. \A j \in Keys \ {k} : items'[j] \in {items[j], None}
      BY <1>2, <3>3 DEF KeepOnly, IInv, TypeOK
    <3> QED
      <4>1. items'[k] # None /\ items'[k].msg \in Msgs
        BY <3>1, <3>4
      <4>2. items'[k].expires > now /\ UNCHANGED <<now, out>>
        BY <1>2, <2>6, <3>1, <3>4 DEF PutNew, IInv, TypeOK
      <4> QED BY <3>5, <4>1, <4>2 DEF Promise!AStore
  <2>7. ASSUME Flush PROVE Promise!AForget
    BY <2>7 DEF Flush, Promise!AForget, Promise!Forgets
  <2>8. ASSUME NEW o \in OptionSets, Reconfigure(o) PROVE Promise!AForget
    BY <2>8 DEF Reconfigure, KeepOnly, Promise!AForget, Promise!Forgets
  <2>9. ASSUME Tick PROVE Promise!ATick
    BY <1>2, <2>9 DEF Tick, Promise!ATick, IInv, TypeOK
  <2>10. ASSUME UNCHANGED vars PROVE UNCHANGED Promise!avars
    BY <2>10 DEF vars, Promise!avars
  <2> QED
    BY <1>2, <2>1, <2>2, <2>3, <2>4, <2>5, <2>6, <2>7, <2>8, <2>9, <2>10
    DEF Next, Get, Put, PutSkipped, Promise!ANext
<1> QED
  BY <1>1, <1>2, InitInv, NextInv, PTL DEF Spec, ImplementsPromise, Promise!ASpec
-----------------------------------------------------------------------------
(* The order of a list: a stands before b. *)
Before(s, a, b) == \E p, q \in DOMAIN s : s[p] = a /\ s[q] = b /\ p < q

(* The list orders its keys as the history of uses does.  This is what the *)
(* choice of the last element for eviction rests on.                       *)
Ordered == /\ NoDuplicates(recency) /\ Range(lru) \subseteq Range(recency)
           /\ \A a, b : Before(lru, a, b) => Before(recency, a, b)

LEMMA BeforeInRange == ASSUME NEW s, NEW a, NEW b, Before(s, a, b) PROVE a \in Range(s) /\ b \in Range(s)
  BY DEF Before, Range

(* Unlinking keeps the order of the others. *)
LEMMA UnlinkBefore ==
    ASSUME NEW S, NEW s \in Seq(S), NoDuplicates(s), NEW k \in Range(s), NEW a, NEW b
    PROVE  Before(Unlink(s, k), a, b) <=> Before(s, a, b) /\ a # k /\ b # k
<1> DEFINE p == CHOOSE i \in DOMAIN s : s[i] = k
           u == Unlink(s, k)
<1>1. p \in 1..Len(s) /\ s[p] = k /\ Len(s) \in Nat
  BY DEF Range
<1>2. u = [i \in 1..(Len(s) - 1) |-> IF i < p THEN s[i] ELSE s[i + 1]]
  BY DEF Unlink
<1> HIDE DEF p, u
<1>3. ASSUME Before(u, a, b) PROVE Before(s, a, b) /\ a # k /\ b # k
  <2>1. PICK i, j \in 1..(Len(s) - 1) : u[i] = a /\ u[j] = b /\ i < j
    BY <1>2, <1>3 DEF Before
  <2> DEFINE i1 == IF i < p THEN i ELSE i + 1
             j1 == IF j < p THEN j ELSE j + 1
  <2>2. i1 \in 1..Len(s) /\ j1 \in 1..Len(s) /\ i1 < j1 /\ i1 # p /\ j1 # p
    BY <1>1, <2>1
  <2>3. s[i1] = a /\ s[j1] = b
    BY <1>1, <1>2, <2>1
  <2> HIDE DEF i1, j1
  <2>4. a # k /\ b # k
    BY <1>1, <2>2, <2>3 DEF NoDuplicates
  <2> QED
    BY <2>2, <2>3, <2>4 DEF Before
<1>4. ASSUME Before(s, a, b), a # k, b # k PROVE Before(u, a, b)
  <2>1. PICK i, j \in 1..Len(s) : s[i] = a /\ s[j] = b /\ i < j
    BY <1>4 DEF Before
  <2> DEFINE i1 == IF i < p THEN i ELSE i - 1
             j1 == IF j < p THEN j ELSE j - 1
  <2>2. i # p /\ j # p
    BY <1>1, <1>4, <2>1
  <2>3. i1 \in 1..(Len(s) - 1) /\ j1 \in 1..(Len(s) - 1) /\ i1 < j1
    BY <1>1, <2>1, <2>2
  <2>4. u[i1] = a /\ u[j1] = b
    BY <1>1, <1>2, <2>1, <2>2, <2>3
  <2> HIDE DEF i1, j1
  <2>5. DOMAIN u = 1..(Len(s) - 1)
    BY <1>2
  <2> QED
    BY <2>3, <2>4, <2>5 DEF Before
<1> QED
  BY <1>3, <1>4 DEF u

(* A key pushed to the front stands before all others. *)
LEMMA PushBefore ==
    ASSUME NEW S, NEW s \in Seq(S), NEW k \in S, NEW a, NEW b
    PROVE  Before(<<k>> \o s, a, b) <=> (a = k /\ b \in Range(s)) \/ Before(s, a, b)
<1> DEFINE t == <<k>> \o s
<1>1. /\ t \in Seq(S) /\ Len(t) = Len(s) + 1 /\ Len(s) \in Nat
      /\ \A i \in 1..Len(t) : t[i] = IF i = 1 THEN k ELSE s[i - 1]
  OBVIOUS
<1> HIDE DEF t
<1>2. DOMAIN t = 1..Len(t) /\ DOMAIN s = 1..Len(s)
  BY <1>1
<1>3. ASSUME Before(t, a, b) PROVE (a = k /\ b \in Range(s)) \/ Before(s, a, b)
  <2>1. PICK i, j \in 1..Len(t) : t[i] = a /\ t[j] = b /\ i < j
    BY <1>2, <1>3 DEF Before
  <2>2. j - 1 \in 1..Len(s) /\ s[j - 1] = b
    BY <1>1, <2>1
  <2>3. CASE i = 1
    BY <1>1, <1>2, <2>1, <2>2, <2>3 DEF Range
  <2>4. CASE i # 1
    <3>1. i - 1 \in 1..Len(s) /\ s[i - 1] = a /\ i - 1 < j - 1
      BY <1>1, <2>1, <2>4
    <3> QED
      BY <1>2, <2>2, <3>1 DEF Before
  <2> QED
    BY <2>3, <2>4
<1>4. ASSUME a = k, b \in Range(s) PROVE Before(t, a, b)
  <2>1. PICK j \in 1..Len(s) : s[j] = b
    BY <1>2, <1>4 DEF Range
  <2>2. 1 \in 1..Len(t) /\ j + 1 \in 1..Len(t) /\ t[1] = a /\ t[j + 1] = b /\ 1 < j + 1
    BY <1>1, <1>4, <2>1
  <2> QED
    BY <1>2, <2>2 DEF Before
<1>5. ASSUME Before(s, a, b) PROVE Before(t, a, b)
  <2>1. PICK i, j \in 1..Len(s) : s[i] = a /\ s[j] = b /\ i < j
    BY <1>2, <1>5 DEF Before
  <2>2. i + 1 \in 1..Len(t) /\ j + 1 \in 1..Len(t) /\ t[i + 1] = a /\ t[j + 1] = b /\ i + 1 < j + 1
    BY <1>1, <2>1
  <2> QED
    BY <1>2, <2>2 DEF Before
<1> QED
  BY <1>3, <1>4, <1>5 DEF t

(* Trimming keeps the order, and what it cuts off stands behind the rest. *)
LEMMA TrimBefore ==
    ASSUME NEW S, NEW s \in Seq(S), NEW n \in Nat, NEW a, NEW b
    PROVE  /\ Before(Trim(s, n), a, b) => Before(s, a, b)
           /\ a \in Range(Trim(s, n)) /\ b \in Range(s) \ Range(Trim(s, n)) => Before(s, a, b)
<1>1. CASE Len(s) > n
  <2> DEFINE t == SubSeq(s, 1, n)
  <2>1. /\ t \in Seq(S) /\ Len(t) = n /\ Len(s) \in Nat /\ DOMAIN t = 1..n /\ DOMAIN s = 1..Len(s)
        /\ \A i \in 1..n : t[i] = s[i]
    BY <1>1, SubSeqProperties
  <2>2. Trim(s, n) = t
    BY <1>1 DEF Trim
  <2> HIDE DEF t
  <2>3. Before(t, a, b) => Before(s, a, b)
    BY <1>1, <2>1 DEF Before
  <2>4. ASSUME a \in Range(t), b \in Range(s) \ Range(t) PROVE Before(s, a, b)
    <3>1. PICK i \in 1..n, j \in 1..Len(s) : t[i] = a /\ s[j] = b
      BY <2>1, <2>4 DEF Range
    <3>2. j \notin 1..n
      BY <2>1, <2>4, <3>1 DEF Range
    <3>3. i < j /\ i \in DOMAIN s /\ s[i] = a /\ j \in DOMAIN s
      BY <1>1, <2>1, <3>1, <3>2
    <3> QED
      BY <3>1, <3>3 DEF Before
  <2> QED
    BY <2>2, <2>3, <2>4
<1>2. CASE ~(Len(s) > n)
  BY <1>2 DEF Trim
<1> QED
  BY <1>1, <1>2

(* A use puts the key before all others, in the history as in the list. *)
LEMMA MovedBefore ==
    ASSUME NEW s \in Seq(Keys), NoDuplicates(s), NEW k \in Range(s), NEW a, NEW b
    PROVE  Before(MoveToFront(s, k), a, b)
             <=> (a = k /\ b \in Range(s) \ {k}) \/ (Before(s, a, b) /\ a # k /\ b # k)
<1> DEFINE u == Unlink(s, k)
<1>0. k \in Keys
  BY DEF Range
<1>1. u \in Seq(Keys) /\ Range(u) = Range(s) \ {k}
  BY UnlinkFacts
<1>2. Before(u, a, b) <=> Before(s, a, b) /\ a # k /\ b # k
  BY UnlinkBefore
<1>3. MoveToFront(s, k) = <<k>> \o u
  BY DEF MoveToFront
<1> HIDE DEF u
<1> QED
  BY <1>0, <1>1, <1>2, <1>3, PushBefore

LEMMA UsedBefore ==
    ASSUME recency \in Seq(Keys), NoDuplicates(recency), NEW k \in Keys, Used(k)
    PROVE  /\ NoDuplicates(recency') /\ Range(recency') = Range(recency) \cup {k}
           /\ \A a, b : Before(recency', a, b)
                 <=> (a = k /\ b \in Range(recency) \ {k}) \/ (Before(recency, a, b) /\ a # k /\ b # k)
<1>1. CASE k \in Range(recency)
  <2>1. recency' = MoveToFront(recency, k)
    BY <1>1 DEF Used, MoveToFront
  <2> QED
    BY <1>1, <2>1, MoveToFrontFacts, MovedBefore
<1>2. CASE k \notin Range(recency)
  <2>1. recency' = <<k>> \o recency
    BY <1>2 DEF Used
  <2>2. NoDuplicates(recency') /\ Range(recency') = Range(recency) \cup {k}
    BY <1>2, <2>1, PushFrontFacts
  <2>3. ASSUME NEW a, NEW b
        PROVE  Before(recency', a, b)
                 <=> (a = k /\ b \in Range(recency) \ {k}) \/ (Before(recency, a, b) /\ a # k /\ b # k)
    <3>1. Before(recency', a, b) <=> (a = k /\ b \in Range(recency)) \/ Before(recency, a, b)
      BY <2>1, PushBefore
    <3>2. Before(recency, a, b) => a # k /\ b # k
      BY <1>2, BeforeInRange
    <3> QED
      BY <1>2, <3>1, <3>2
  <2> QED
    BY <2>2, <2>3
<1> QED
  BY <1>1, <1>2

(* A hit and an overwriting Put move the key to the front of both. *)
LEMMA MoveOrdered ==
    ASSUME IInv, Ordered, NEW k \in Keys, items[k] # None, lru' = MoveToFront(lru, k), Used(k)
    PROVE  Ordered'
<1>1. /\ k \in Range(lru) /\ lru \in Seq(Keys) /\ NoDuplicates(lru) /\ recency \in Seq(Keys)
      /\ NoDuplicates(recency) /\ Range(lru) \subseteq Range(recency)
  BY DEF IInv, IndexAgrees, Cached, TypeOK, Ordered
<1>2. Range(lru') = Range(lru) /\ \A a, b : Before(lru', a, b)
          <=> (a = k /\ b \in Range(lru) \ {k}) \/ (Before(lru, a, b) /\ a # k /\ b # k)
  BY <1>1, MoveToFrontFacts, MovedBefore
<1>3. /\ NoDuplicates(recency') /\ Range(recency') = Range(recency) \cup {k}
      /\ \A a, b : Before(recency', a, b)
            <=> (a = k /\ b \in Range(recency) \ {k}) \/ (Before(recency, a, b) /\ a # k /\ b # k)
  BY <1>1, UsedBefore
<1> QED
  BY <1>1, <1>2, <1>3 DEF Ordered

(* A new key stands before what the list had, before anything is evicted.  *)
LEMMA PushOrdered ==
    ASSUME IInv, Ordered, NEW k \in Keys, items[k] = None, Used(k)
    PROVE  /\ NoDuplicates(recency') /\ Range(<<k>> \o lru) \subseteq Range(recency')
           /\ \A a, b : Before(<<k>> \o lru, a, b) => Before(recency', a, b)
<1>1. /\ k \notin Range(lru) /\ lru \in Seq(Keys) /\ recency \in Seq(Keys)
      /\ NoDuplicates(recency) /\ Range(lru) \subseteq Range(recency)
  BY DEF IInv, IndexAgrees, Cached, TypeOK, Ordered
<1>2. Range(<<k>> \o lru) = {k} \cup Range(lru)
  BY <1>1, PushFrontFacts
<1>3. /\ NoDuplicates(recency') /\ Range(recency') = Range(recency) \cup {k}
      /\ \A a, b : Before(recency', a, b)
            <=> (a = k /\ b \in Range(recency) \ {k}) \/ (Before(recency, a, b) /\ a # k /\ b # k)
  BY <1>1, UsedBefore
<1>4. ASSUME NEW a, NEW b, Before(<<k>> \o lru, a, b) PROVE Before(recency', a, b)
  <2>1. (a = k /\ b \in Range(lru)) \/ Before(lru, a, b)
    BY <1>1, <1>4, PushBefore
  <2>2. Before(lru, a, b) => a # k /\ b # k /\ Before(recency, a, b)
    BY <1>1, BeforeInRange DEF Ordered
  <2> QED
    BY <1>1, <1>3, <2>1, <2>2
<1> QED
  BY <1>1, <1>2, <1>3, <1>4

LEMMA NextOrdered == IInv /\ Ordered /\ [Next]_vars => Ordered'
<1> SUFFICES ASSUME IInv, Ordered, [Next]_vars PROVE Ordered'
  OBVIOUS
<1>0. lru \in Seq(Keys) /\ NoDuplicates(lru)
  BY DEF IInv, TypeOK, IndexAgrees
<1>1. CASE UNCHANGED <<lru, recency>>
  BY <1>1 DEF Ordered
<1>2. ASSUME NEW k \in Keys, items[k] # None, remove(k), recency' = recency PROVE Ordered'
  <2>1. k \in Range(lru) /\ lru' = Unlink(lru, k)
    BY <1>2 DEF IInv, IndexAgrees, Cached, remove
  <2>2. Range(lru') \subseteq Range(lru)
    BY <1>0, <2>1, UnlinkFacts
  <2>3. \A a, b : Before(lru', a, b) => Before(lru, a, b)
    BY <1>0, <2>1, UnlinkBefore
  <2> QED
    BY <1>2, <2>2, <2>3 DEF Ordered
<1>3. ASSUME NEW k \in Keys, GetHit(k) PROVE Ordered'
  BY <1>3, MoveOrdered DEF GetHit
<1>4. ASSUME NEW k \in Keys, NEW m \in Msgs, PutExisting(k, m) PROVE Ordered'
  BY <1>4, MoveOrdered DEF PutExisting
<1>5. ASSUME NEW k \in Keys, NEW m \in Msgs, PutNew(k, m) PROVE Ordered'
  <2> DEFINE t == <<k>> \o lru
  <2>1. t \in Seq(Keys) /\ opts.maxEntries \in Nat /\ lru' = Trim(t, opts.maxEntries)
    BY <1>0, <1>5, PushFrontFacts DEF PutNew, IInv, TypeOK, PosOpts
  <2>2. /\ NoDuplicates(recency') /\ Range(t) \subseteq Range(recency')
        /\ \A a, b : Before(t, a, b) => Before(recency', a, b)
    BY <1>5, PushOrdered DEF PutNew
  <2> HIDE DEF t
  <2>3. Range(lru') \subseteq Range(t) /\ \A a, b : Before(lru', a, b) => Before(t, a, b)
    BY <2>1, TrimFacts, TrimBefore
  <2> QED
    BY <2>2, <2>3 DEF Ordered
<1>6. CASE Flush
  <2>1. lru' = <<>> /\ recency' = recency
    BY <1>6 DEF Flush
  <2>2. Range(lru') = {} /\ \A a, b : ~Before(lru', a, b)
    BY <2>1 DEF Range, Before
  <2> QED
    BY <2>1, <2>2 DEF Ordered
<1>7. ASSUME NEW o \in OptionSets, Reconfigure(o) PROVE Ordered'
  <2>1. lru' = Trim(lru, opts'.maxEntries) /\ recency' = recency /\ opts'.maxEntries \in Nat
    BY <1>7, NewCacheType, CacheAssumption DEF Reconfigure, PosOpts
  <2>2. Range(lru') \subseteq Range(lru) /\ \A a, b : Before(lru', a, b) => Before(lru, a, b)
    BY <1>0, <2>1, TrimFacts, TrimBefore
  <2> QED
    BY <2>1, <2>2 DEF Ordered
<1> QED
  BY <1>1, <1>2, <1>3, <1>4, <1>5, <1>6, <1>7
  DEF Next, Get, GetAbsent, GetExpired, GetUndecodable, Put, PutSkipped, Tick, vars

(* Whenever room is made, by a new entry or by a lower limit, what goes    *)
(* was used less recently than everything that stays, for any number of    *)
(* entries evicted at once.                                                *)
THEOREM EvictionCorrect == Spec => EvictsLeastRecent
<1>1. Init => Ordered
  <2> SUFFICES ASSUME Init PROVE Ordered
    OBVIOUS
  <2> QED
    BY DEF Init, Ordered, NoDuplicates, Range, Before
<1>2. ASSUME IInv, IInv', Ordered, MakesRoom, NEW k \in Cached \ Cached', NEW j \in Cached'
      PROVE  MoreRecent(j, k)
  <2>1. /\ lru \in Seq(Keys) /\ k \in Range(lru) /\ k \notin Range(lru') /\ j \in Range(lru')
    BY <1>2 DEF IInv, TypeOK, IndexAgrees
  <2>2. ASSUME NEW x \in Keys, NEW m \in Msgs, PutSkipped(m) \/ PutExisting(x, m) PROVE FALSE
    <3>1. k \in Keys /\ items[k] # None /\ items'[k] = None
      BY <1>2 DEF Cached
    <3>2. CASE PutSkipped(m)
      BY <3>1, <3>2 DEF PutSkipped, vars
    <3>3. CASE PutExisting(x, m)
      <4>1. [msg |-> m, expires |-> now + TtlFor(m)] \in Entry
        BY <1>2, TtlForType DEF Entry, IInv, TypeOK
      <4> QED
        BY <1>2, <3>1, <3>3, <4>1, CacheAssumption DEF PutExisting, IInv, TypeOK
    <3> QED
      BY <2>2, <3>2, <3>3
  <2>3. ASSUME NEW x \in Keys, NEW m \in Msgs, PutNew(x, m) PROVE Before(recency', j, k)
    <3> DEFINE t == <<x>> \o lru
    <3>1. t \in Seq(Keys) /\ opts.maxEntries \in Nat /\ lru' = Trim(t, opts.maxEntries) /\ k \in Range(t)
      BY <1>2, <2>1, <2>3, PushFrontFacts DEF PutNew, IInv, TypeOK, PosOpts
    <3>2. \A a, b : Before(t, a, b) => Before(recency', a, b)
      BY <1>2, <2>3, PushOrdered DEF PutNew
    <3> HIDE DEF t
    <3> QED
      BY <2>1, <3>1, <3>2, TrimBefore
  <2>4. ASSUME NEW o \in OptionSets, Reconfigure(o) PROVE Before(recency', j, k)
    <3>1. lru' = Trim(lru, opts'.maxEntries) /\ recency' = recency /\ opts'.maxEntries \in Nat
      BY <2>4, NewCacheType, CacheAssumption DEF Reconfigure, PosOpts
    <3> QED
      BY <1>2, <2>1, <3>1, TrimBefore DEF Ordered
  <2>5. Before(recency', j, k)
    BY <1>2, <2>2, <2>3, <2>4 DEF MakesRoom, Put
  <2> QED
    BY <2>5 DEF Before, MoreRecent
<1>3. IInv /\ IInv' /\ Ordered =>
        [MakesRoom => \A k \in Cached \ Cached', j \in Cached' : MoreRecent(j, k)]_vars
  BY <1>2
<1> QED
  BY <1>1, <1>3, InitInv, NextInv, NextOrdered, PTL DEF Spec, EvictsLeastRecent
=============================================================================
