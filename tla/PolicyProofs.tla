---------------------------- MODULE PolicyProofs -----------------------------
(***************************************************************************)
(* Proofs about the policy engine: schedules are right for weeks and days  *)
(* of any length, the walk through the trie finds exactly the suffixes of  *)
(* a name, and each query is decided by what the engine held when it asked,*)
(* for any lists, groups, configurations and number of queries.            *)
(***************************************************************************)
EXTENDS PolicyEngine, FiniteSetTheorems, SequenceTheorems, TLAPS

(* A day or more since the window's day puts the elapsed time beyond the   *)
(* minutes that DaysSince counts.                                          *)
LEMMA ManyDays ==
  ASSUME NEW k \in Int, NEW m \in Nat, k >= 2
  PROVE  k * m >= 2 * m
OBVIOUS

LEMMA DaysSinceType ==
  ASSUME NEW d \in Days, NEW e \in Days
  PROVE  /\ DaysSince(d, e) \in 0..(WeekDays - 1)
         /\ DaysSince(d, e) = 0 <=> d = e
         /\ DaysSince(d, e) = 1 <=> d = yesterday(e)
BY CalendarAssumption DEF Days, DaysSince, yesterday

(* The three forms of a window, from the time since its day began. *)
LEMMA ElapsedForms ==
  ASSUME NEW s \in Windows, NEW d \in s.days, NEW e \in Days, NEW m \in Minutes,
         s.from # s.to
  PROVE  Elapsed(s, d, e, m) \in 0..(Length(s) - 1)
           <=> \/ d = e /\ m >= s.from /\ (s.from < s.to => m < s.to)
               \/ d = yesterday(e) /\ s.to < s.from /\ m < s.to
<1> DEFINE k == DaysSince(d, e)
<1>1. d \in Days /\ s.from \in Minutes /\ s.to \in Minutes
  BY DEF Windows
<1>2. k \in 0..(WeekDays - 1) /\ (k = 0 <=> d = e) /\ (k = 1 <=> d = yesterday(e))
  BY <1>1, DaysSinceType
<1>3. yesterday(e) # e
  BY CalendarAssumption DEF yesterday, Days
<1> HIDE DEF k
<1>4. CASE k = 0
  <2>1. Elapsed(s, d, e, m) = m - s.from
    BY <1>1, <1>4, CalendarAssumption DEF Elapsed, k, Minutes
  <2> QED
    BY <1>1, <1>2, <1>3, <1>4, <2>1, CalendarAssumption DEF Length, Minutes
<1>5. CASE k = 1
  <2>1. Elapsed(s, d, e, m) = DayMinutes + m - s.from
    BY <1>1, <1>5, CalendarAssumption DEF Elapsed, k, Minutes
  <2> QED
    BY <1>1, <1>2, <1>3, <1>5, <2>1, CalendarAssumption DEF Length, Minutes
<1>6. CASE k >= 2
  <2>1. k * DayMinutes \in Int /\ k * DayMinutes >= 2 * DayMinutes
    BY <1>2, <1>6, ManyDays, CalendarAssumption
  <2>2. Elapsed(s, d, e, m) = k * DayMinutes + m - s.from
    BY DEF Elapsed, k
  <2> QED
    BY <1>1, <1>2, <1>6, <2>1, <2>2, CalendarAssumption DEF Length, Minutes
<1> QED
  BY <1>2, <1>4, <1>5, <1>6, CalendarAssumption

(* CompiledSchedule.ActiveAt is true exactly inside the windows that the   *)
(* schedule means, over midnight and over the end of the week.             *)
THEOREM ActiveAtCorrect ==
  ASSUME NEW s \in Windows, NEW e \in Days, NEW m \in Minutes
  PROVE  ActiveAt(s, e, m) <=> InWindow(s, e, m)
<1>1. s.from \in Minutes /\ s.to \in Minutes /\ s.days \subseteq Days
  BY DEF Windows
<1>2. CASE s.from = s.to
  BY <1>2 DEF ActiveAt, InWindow
<1>3. CASE s.from # s.to
  <2>1. InWindow(s, e, m)
          <=> \/ e \in s.days /\ m >= s.from /\ (s.from < s.to => m < s.to)
              \/ yesterday(e) \in s.days /\ s.to < s.from /\ m < s.to
    BY <1>3, ElapsedForms DEF InWindow
  <2> QED
    BY <1>1, <1>3, <2>1, CalendarAssumption DEF ActiveAt, Minutes
<1> QED
  BY <1>2, <1>3

-----------------------------------------------------------------------------
(* Paths of a name are names. *)
LEMMA PathFacts ==
  ASSUME NEW S, NEW s \in Seq(S), NEW n \in 0..Len(s)
  PROVE  /\ Path(s, n) \in Seq(S) /\ Len(Path(s, n)) = n
         /\ \A i \in 1..n : Path(s, n)[i] = s[i]
         /\ n = Len(s) => Path(s, n) = s
<1>1. n \in Int /\ \A i \in 1..n : s[i] \in S
  OBVIOUS
<1>2. /\ SubSeq(s, 1, n) \in Seq(S)
      /\ Len(SubSeq(s, 1, n)) = (IF 1 <= n THEN n - 1 + 1 ELSE 0)
      /\ \A i \in 1..(n - 1 + 1) : SubSeq(s, 1, n)[i] = s[1 + i - 1]
  BY <1>1, SubSeqProperties
<1>3. n = Len(s) => SubSeq(s, 1, n) = s
  BY SubSeqFull
<1> QED
  BY <1>1, <1>2, <1>3 DEF Path

LEMMA PathOfPath ==
  ASSUME NEW S, NEW s \in Seq(S), NEW n \in 0..Len(s), NEW m \in 0..n
  PROVE  Path(Path(s, n), m) = Path(s, m)
<1>1. Path(s, n) \in Seq(S) /\ Len(Path(s, n)) = n /\ \A i \in 1..n : Path(s, n)[i] = s[i]
  BY PathFacts
<1>2. m \in 0..Len(s) /\ m \in 0..Len(Path(s, n))
  BY <1>1
<1>3. /\ Path(s, m) \in Seq(S) /\ Len(Path(s, m)) = m
      /\ \A i \in 1..m : Path(s, m)[i] = s[i]
  BY <1>2, PathFacts
<1>4. /\ Path(Path(s, n), m) \in Seq(S) /\ Len(Path(Path(s, n), m)) = m
      /\ \A i \in 1..m : Path(Path(s, n), m)[i] = Path(s, n)[i]
  BY <1>1, <1>2, PathFacts
<1>5. \A i \in 1..m : Path(Path(s, n), m)[i] = Path(s, m)[i]
  BY <1>1, <1>3, <1>4
<1> QED
  BY <1>3, <1>4, <1>5, SeqEqual

(* A name of valid labels is a name of valid labels. *)
LEMMA NormalType ==
  ASSUME NEW name \in Seq(Labels), Normal(name)
  PROVE  name \in Seq(Valid) /\ Len(name) \in Nat /\ Len(name) > 0
BY DEF Normal

(* The state that Add, Delete and compilation leave a trie in: besides the *)
(* nodes on the way to each entry, entries that are names.                 *)
Closed(t) == /\ t.terminal \subseteq t.nodes /\ t.nodes \subseteq Seq(Valid)
             /\ \A p \in t.nodes : Len(p) > 0 /\ \A n \in 1..Len(p) : Path(p, n) \in t.nodes
Sound(t) == /\ t \in Trie /\ Closed(t)
            /\ IsFiniteSet(t.terminal) /\ t.size = Cardinality(t.terminal)

(* The paths to an entry are nodes. *)
LEMMA ClosedPath ==
  ASSUME NEW t, Closed(t), NEW name \in Seq(Labels), NEW k \in 0..Len(name),
         Path(name, k) \in t.terminal, NEW n \in 1..k
  PROVE  Path(name, n) \in t.nodes
<1>1. Path(name, k) \in t.nodes /\ Len(Path(name, k)) = k
  BY PathFacts DEF Closed
<1>2. Path(Path(name, k), n) \in t.nodes
  BY <1>1 DEF Closed
<1>3. n \in 0..k
  OBVIOUS
<1> QED
  BY <1>2, <1>3, PathOfPath

(* Domains.Match walks from the root and stops at the first entry or where *)
(* a label is missing.  It finds an entry exactly when some suffix of the  *)
(* name, in whole labels, is one.                                          *)
THEOREM MatchCorrect ==
  ASSUME NEW t, Closed(t), NEW name \in Seq(Labels)
  PROVE  Match(t, name) <=> Normal(name) /\ Under(name, t.terminal)
<1> DEFINE L == Len(name)
           entry(n) == Path(name, n) \in t.terminal
           node(n) == Path(name, n) \in t.nodes
           walks(f) == f = [n \in 0..L |-> IF n = L THEN entry(n)
                                           ELSE entry(n) \/ (node(n + 1) /\ f[n + 1])]
           walk == CHOOSE f : walks(f)
           found == [n \in 0..L |-> \E k \in n..L : entry(k)]
<1>1. Match(t, name) <=> Normal(name) /\ walk[0]
  BY DEF Match
<1>2. L \in Nat
  OBVIOUS
<1>3. \A n \in 1..L : (\E k \in n..L : entry(k)) => node(n)
  <2> SUFFICES ASSUME NEW n \in 1..L, NEW k \in n..L, entry(k) PROVE node(n)
    OBVIOUS
  <2>1. k \in 0..Len(name) /\ n \in 1..k
    BY <1>2
  <2> QED
    BY <2>1, ClosedPath
<1>4. ~entry(0)
  <2>1. Path(name, 0) \in Seq(Labels) /\ Len(Path(name, 0)) = 0
    BY <1>2, PathFacts
  <2> QED
    BY <2>1 DEF Closed
<1> HIDE DEF entry, node, L
<1>5. walks(found)
  <2> SUFFICES ASSUME NEW n \in 0..L
               PROVE  found[n] = IF n = L THEN entry(n) ELSE entry(n) \/ (node(n + 1) /\ found[n + 1])
    BY DEF entry
  <2>1. CASE n = L
    <3>1. \A k : k \in n..L <=> k = n
      BY <1>2, <2>1
    <3>2. found[n] <=> entry(n)
      BY <3>1
    <3>3. found[n] = (\E k \in n..L : entry(k)) /\ found[n] \in BOOLEAN /\ entry(n) \in BOOLEAN
      BY DEF entry
    <3> HIDE DEF found
    <3>4. found[n] = entry(n)
      BY <3>2, <3>3
    <3>5. (IF n = L THEN entry(n) ELSE entry(n) \/ (node(n + 1) /\ found[n + 1])) = entry(n)
      BY <2>1
    <3> QED
      BY <3>4, <3>5
  <2>2. CASE n # L
    <3>1. n + 1 \in 1..L /\ n + 1 \in 0..L /\ \A k : k \in n..L <=> k = n \/ k \in (n + 1)..L
      BY <1>2, <2>2
    <3>2. found[n + 1] => node(n + 1)
      BY <1>3, <3>1
    <3>3. found[n] <=> entry(n) \/ found[n + 1]
      BY <3>1
    <3> QED
      BY <2>2, <3>2, <3>3, Zenon
  <2> QED
    BY <2>1, <2>2
<1>6. walks(walk)
  BY <1>5
<1> HIDE DEF walk
<1>7. \A n \in 0..L : walk[n] <=> found[n]
  <2> DEFINE differ == {k \in 0..L : ~(walk[L - k] <=> found[L - k])}
             less == OpToRel(<, Nat)
  <2>1. CASE differ = {}
    <3>1. \A n \in 0..L : L - n \in 0..L /\ L - (L - n) = n
      BY <1>2
    <3> QED
      BY <2>1, <3>1
  <2>2. CASE differ # {}
    <3>1. differ \subseteq Nat
      BY <1>2
    <3>2. IsWellFoundedOn(less, Nat)
      BY NatLessThanWellFounded, ZenonT(30)
    <3> HIDE DEF less
    <3>3. PICK k \in differ : \A j \in differ : ~(<<j, k>> \in less)
      BY <2>2, <3>1, <3>2, WFMin
    <3>4. \A j \in differ : ~(j < k)
      BY <3>1, <3>3 DEF less, OpToRel
    <3>5. k \in 0..L
      OBVIOUS
    <3>6. CASE k = 0
      <4>1. walk[L] <=> found[L]
        BY <1>2, <1>5, <1>6
      <4> QED
        BY <1>2, <3>6, <4>1
    <3>7. CASE k # 0
      <4> DEFINE n == L - k
      <4>1. /\ k - 1 \in 0..L /\ k - 1 < k
            /\ n \in 0..L /\ n # L /\ n + 1 = L - (k - 1) /\ n + 1 \in 0..L
        BY <1>2, <3>5, <3>7
      <4>2. walk[n + 1] <=> found[n + 1]
        BY <3>4, <4>1
      <4> HIDE DEF n
      <4>3. walk[n] <=> entry(n) \/ (node(n + 1) /\ walk[n + 1])
        BY <1>6, <4>1
      <4>4. found[n] <=> entry(n) \/ (node(n + 1) /\ found[n + 1])
        BY <1>5, <4>1
      <4> QED
        BY <4>2, <4>3, <4>4 DEF n
    <3> QED
      BY <3>6, <3>7
  <2> QED
    BY <2>1, <2>2
<1>8. walk[0] <=> \E k \in 1..L : entry(k)
  <2>1. 0 \in 0..L /\ \A k : k \in 0..L <=> k = 0 \/ k \in 1..L
    BY <1>2
  <2> QED
    BY <1>4, <1>7, <2>1
<1>9. Under(name, t.terminal) <=> \E k \in 1..L : entry(k)
  BY DEF Under, L, entry
<1> QED
  BY <1>1, <1>8, <1>9
-----------------------------------------------------------------------------
(* The operations keep tries sound: size counts the entries, and no node   *)
(* on the way to an entry is missing, whatever was deleted before.         *)
LEMMA NewSound == Sound(NewDomains)
BY FS_EmptySet DEF Sound, Closed, NewDomains, Trie

LEMMA PathsOf ==
  ASSUME NEW name \in Seq(Valid), Len(name) > 0
  PROVE  LET way == {Path(name, n) : n \in 1..Len(name)}
         IN  /\ way \subseteq Seq(Valid) /\ name \in way
             /\ \A p \in way : Len(p) > 0 /\ \A n \in 1..Len(p) : Path(p, n) \in way
<1> DEFINE way == {Path(name, n) : n \in 1..Len(name)}
<1>1. \A n \in 1..Len(name) : Path(name, n) \in Seq(Valid) /\ Len(Path(name, n)) = n
  BY PathFacts
<1>2. Len(name) \in 1..Len(name) /\ Path(name, Len(name)) = name
  BY PathFacts
<1>3. ASSUME NEW p \in way, NEW n \in 1..Len(p)
      PROVE  Path(p, n) \in way
  <2>1. PICK m \in 1..Len(name) : p = Path(name, m)
    OBVIOUS
  <2>2. m \in 0..Len(name) /\ n \in 0..m /\ n \in 1..Len(name)
    BY <1>1, <2>1
  <2>3. Path(p, n) = Path(name, n)
    BY <2>1, <2>2, PathOfPath
  <2> QED
    BY <2>2, <2>3
<1>4. \A p \in way : Len(p) > 0
  BY <1>1
<1> QED
  BY <1>1, <1>2, <1>3, <1>4

LEMMA AddSound ==
  ASSUME NEW t, Sound(t), NEW p \in AnyPattern, CanAdd(t, p)
  PROVE  Sound(Add(t, p))
<1> DEFINE way == {Path(p.name, n) : n \in 1..Len(p.name)}
           u == Add(t, p)
<1>1. p.name \in Seq(Valid) /\ Len(p.name) > 0 /\ p.name \notin t.terminal
  BY NormalType DEF CanAdd, AnyPattern
<1>2. /\ way \subseteq Seq(Valid) /\ p.name \in way
      /\ \A r \in way : Len(r) > 0 /\ \A n \in 1..Len(r) : Path(r, n) \in way
  BY <1>1, PathsOf
<1>3. u.nodes = t.nodes \cup way /\ u.terminal = t.terminal \cup {p.name} /\ u.size = t.size + 1
      /\ u = [nodes |-> u.nodes, terminal |-> u.terminal, size |-> u.size]
  BY DEF Add
<1> HIDE DEF way, u
<1>4. Closed(u)
  BY <1>2, <1>3 DEF Sound, Closed
<1>5. IsFiniteSet(u.terminal) /\ u.size = Cardinality(u.terminal)
  BY <1>1, <1>3, FS_AddElement DEF Sound
<1>6. u \in Trie
  BY <1>3, <1>4 DEF Sound, Closed, Trie
<1> QED
  BY <1>4, <1>5, <1>6 DEF Sound, u

LEMMA DeleteSound ==
  ASSUME NEW t, Sound(t), NEW p, CanDelete(t, p)
  PROVE  Sound(Delete(t, p))
<1> DEFINE u == Delete(t, p)
<1>1. /\ t \in Trie
      /\ u.nodes = t.nodes /\ u.terminal = t.terminal \ {p.name} /\ u.size = t.size - 1
      /\ u = [nodes |-> u.nodes, terminal |-> u.terminal, size |-> u.size]
  <2>1. t \in Trie
    BY DEF Sound
  <2>2. /\ u = [t EXCEPT !.terminal = t.terminal \ {p.name}, !.size = t.size - 1]
        /\ t = [nodes |-> t.nodes, terminal |-> t.terminal, size |-> t.size]
    BY <2>1 DEF Trie, Delete
  <2> HIDE DEF u
  <2>3. u = [nodes |-> t.nodes, terminal |-> t.terminal \ {p.name}, size |-> t.size - 1]
    BY <2>2
  <2> QED
    BY <2>1, <2>3
<1> HIDE DEF u
<1>2. Closed(u)
  BY <1>1 DEF Sound, Closed
<1>3. IsFiniteSet(u.terminal) /\ u.size = Cardinality(u.terminal)
  BY <1>1, FS_RemoveElement, ZenonT(30) DEF Sound, CanDelete
<1>4. u.size \in Nat
  BY <1>3, FS_CardinalityType
<1>5. u \in Trie
  BY <1>1, <1>2, <1>4 DEF Closed, Trie
<1> QED
  BY <1>2, <1>3, <1>5 DEF Sound, u

LEMMA CompiledClosed ==
  ASSUME NEW ps \in SUBSET AnyPattern, \A p \in ps : Normal(p.name)
  PROVE  Closed(Compiled(ps)) /\ Compiled(ps).terminal = Entries(ps)
<1> DEFINE way(p) == {Path(p.name, n) : n \in 1..Len(p.name)}
           u == Compiled(ps)
<1>1. \A p \in ps : p.name \in Seq(Valid) /\ Len(p.name) > 0
  BY NormalType DEF AnyPattern
<1>2. \A p \in ps : /\ way(p) \subseteq Seq(Valid) /\ p.name \in way(p)
                    /\ \A r \in way(p) : Len(r) > 0 /\ \A n \in 1..Len(r) : Path(r, n) \in way(p)
  BY <1>1, PathsOf
<1>3. u.nodes = UNION {way(p) : p \in ps} /\ u.terminal = {p.name : p \in ps}
  BY DEF Compiled
<1> HIDE DEF way, u
<1>4. u.terminal \subseteq u.nodes /\ u.nodes \subseteq Seq(Valid)
  BY <1>2, <1>3
<1>5. ASSUME NEW r \in u.nodes
      PROVE  Len(r) > 0 /\ \A n \in 1..Len(r) : Path(r, n) \in u.nodes
  <2>1. PICK p \in ps : r \in way(p)
    BY <1>3
  <2>2. way(p) \subseteq u.nodes
    BY <1>3
  <2> QED
    BY <1>2, <2>1, <2>2
<1> QED
  BY <1>3, <1>4, <1>5 DEF Closed, Entries, u

LEMMA CompiledSound ==
  ASSUME NEW ps \in SUBSET AnyPattern, IsFiniteSet(ps), \A p \in ps : Normal(p.name)
  PROVE  Sound(Compiled(ps))
<1> DEFINE names == {p.name : p \in ps}
           f == [p \in ps |-> p.name]
<1>1. f \in Surjection(ps, names)
  BY DEF Surjection
<1>2. IsFiniteSet(names)
  BY <1>1, FS_Surjection
<1>3. Cardinality(names) \in Nat
  BY <1>2, FS_CardinalityType
<1>4. /\ Closed(Compiled(ps))
      /\ Compiled(ps).terminal = names /\ Compiled(ps).size = Cardinality(names)
  BY CompiledClosed DEF Compiled
<1>5. Compiled(ps) = [nodes |-> Compiled(ps).nodes, terminal |-> Compiled(ps).terminal,
                      size |-> Compiled(ps).size]
  BY DEF Compiled
<1>6. Compiled(ps) \in Trie
  BY <1>3, <1>4, <1>5 DEF Closed, Trie
<1> QED
  BY <1>2, <1>4, <1>6 DEF Sound
-----------------------------------------------------------------------------
(* What the engine and each query point to are sound tries and list maps.  *)
Places == {"idle", "allow", "base", "schedule", "custom", "done"}
Reasons == {"none", "blocklist", "schedule"}
Blamed == Lists \cup {Custom, None}
EngineRec == [cfg : Configs, lists : Refs, custom : Refs, customAllow : Refs]
QueryRec == [at : Places, name : Names \cup {None}, cfg : Configs \cup {None},
             group : SomeGroup \cup {None}, now : Times \cup {None},
             lists : Refs \cup {None}, custom : Refs \cup {None}, customAllow : Refs \cup {None},
             list : Blamed, reason : Reasons,
             want : SUBSET (Lists \cup {Custom})]

ListsSound(m) == m \in ListMap /\ \A l \in Lists : m[l] # None => Sound(m[l])
Holds(m, b, a) == ListsSound(m) /\ Sound(b) /\ Sound(a)

(* What a snapshot s with list map m, custom list b and allowlist a says   *)
(* of its name, by the walks that Evaluate does.                           *)
Allowed(s, a) == \/ Match(Compiled(s.cfg.allow), s.name)
                 \/ Match(a, s.name)
                 \/ Match(Compiled(s.group.allow), s.name)
Blocks(s, m, l) == m[l] # None /\ Match(m[l], s.name)
Verdict(s, m, b, a) ==
  IF Allowed(s, a) THEN {}
  ELSE {l \in Effective(s.group, s.now) : Blocks(s, m, l)}
       \cup (IF Match(b, s.name) THEN {Custom} ELSE {})

Base(s) == {s.group.base[n] : n \in 1..Len(s.group.base)}
Right(s) == /\ s.reason = "none" <=> s.want = {}
            /\ s.reason # "none" => s.list \in s.want
            /\ s.reason = "schedule" => s.want \cap Base(s) = {}
            /\ s.list = Custom => s.want = {Custom}

(* A query carries the verdict of its own snapshot, and has behind it what *)
(* Evaluate has looked at before.                                          *)
SnapshotOK(s) == /\ s.name \in Names /\ s.cfg \in Configs /\ Compiles(s.cfg)
                 /\ s.group \in SomeGroup /\ Distinct(s.group.allow) /\ s.now \in Times
                 /\ s.lists \in Refs /\ s.custom \in Refs /\ s.customAllow \in Refs
Progress(s, m, b, a) ==
  /\ s.want = Verdict(s, m, b, a)
  /\ s.at \in {"base", "schedule", "custom"} => ~Allowed(s, a)
  /\ s.at \in {"schedule", "custom"} => \A l \in Base(s) : ~Blocks(s, m, l)
  /\ s.at = "custom" => \A l \in Effective(s.group, s.now) : ~Blocks(s, m, l)
  /\ s.at = "done" => Right(s)
QueryOK(s, m, b, a) == SnapshotOK(s) /\ Holds(m, b, a) /\ Progress(s, m, b, a)

EngineOK == /\ eng \in EngineRec /\ Compiles(eng.cfg)
            /\ eng.lists # eng.custom /\ eng.lists # eng.customAllow /\ eng.custom # eng.customAllow
            /\ Holds(heap[eng.lists], heap[eng.custom], heap[eng.customAllow])
HeapOK == DOMAIN heap = Refs /\ heap = [r \in Refs |-> heap[r]]
RestOK == groupOf \in [Clients -> Groups \cup {None}] /\ updates \in 0..MaxUpdates
QueriesOK ==
  /\ q \in [Queries -> QueryRec]
  /\ \A i \in Queries :
       IF q[i].at = "idle" THEN q[i] = NoQuery
       ELSE QueryOK(q[i], heap[q[i].lists], heap[q[i].custom], heap[q[i].customAllow])
Inv == EngineOK /\ HeapOK /\ RestOK /\ QueriesOK
-----------------------------------------------------------------------------
(* The loops of Evaluate find a first list and a first schedule. *)
LEMMA FirstFact ==
  ASSUME NEW S \in SUBSET Nat, S # {}
  PROVE  First(S) \in S
<1>1. PICK x \in S : \A y \in S : ~(<<y, x>> \in OpToRel(<, Nat))
  BY NatLessThanWellFounded, WFMin, ZenonT(30)
<1>2. \A y \in S : ~(y < x)
  BY <1>1 DEF OpToRel
<1>3. \A y \in S : x <= y
  BY <1>2
<1> QED
  BY <1>3 DEF First

(* The lists in effect by the windows that schedules mean are those in     *)
(* effect by ActiveAt.                                                     *)
LEMMA EffectiveFacts ==
  ASSUME NEW g \in SomeGroup, NEW now \in Times
  PROVE  /\ Active(g, now) \subseteq 1..Len(g.schedules) /\ Len(g.schedules) \in Nat
         /\ Effective(g, now) \subseteq Lists
         /\ \A n \in 1..Len(g.base) : g.base[n] \in Effective(g, now) /\ g.base[n] \in Lists
         /\ \A n \in 1..Len(g.schedules) : /\ g.schedules[n].block \in Seq(Lists)
                                           /\ Len(g.schedules[n].block) \in Nat
         /\ \A l : l \in Effective(g, now) <=>
              \/ \E n \in 1..Len(g.base) : l = g.base[n]
              \/ \E n \in Active(g, now) : \E m \in 1..Len(g.schedules[n].block) :
                   l = g.schedules[n].block[m]
<1> DEFINE open == {n \in 1..Len(g.schedules) : InWindow(g.schedules[n].window, now[1], now[2])}
<1>1. now[1] \in Days /\ now[2] \in Minutes
  BY PolicyAssumption
<1>2. /\ g.schedules \in Seq(SomeSchedule) /\ g.base \in Seq(Lists)
      /\ Len(g.schedules) \in Nat /\ Len(g.base) \in Nat
  BY DEF SomeGroup
<1>3. \A n \in 1..Len(g.schedules) : g.schedules[n] \in SomeSchedule
  BY <1>2
<1>4. \A n \in 1..Len(g.schedules) : /\ g.schedules[n].window \in Windows
                                     /\ g.schedules[n].block \in Seq(Lists)
                                     /\ Len(g.schedules[n].block) \in Nat
  BY <1>3 DEF SomeSchedule
<1>5. Active(g, now) = open
  BY <1>1, <1>4, ActiveAtCorrect DEF Active
<1>6. \A l : l \in Effective(g, now) <=>
              \/ \E n \in 1..Len(g.base) : l = g.base[n]
              \/ \E n \in open : \E m \in 1..Len(g.schedules[n].block) :
                   l = g.schedules[n].block[m]
  BY DEF Effective
<1>7. open \subseteq 1..Len(g.schedules)
  OBVIOUS
<1> HIDE DEF open
<1>8. \A n \in 1..Len(g.base) : g.base[n] \in Lists
  BY <1>2
<1>9. \A n \in open : \A m \in 1..Len(g.schedules[n].block) : g.schedules[n].block[m] \in Lists
  BY <1>4, <1>7
<1>10. Effective(g, now) \subseteq Lists
  BY <1>6, <1>8, <1>9
<1>11. \A n \in 1..Len(g.base) : g.base[n] \in Effective(g, now)
  BY <1>6
<1> QED
  BY <1>2, <1>4, <1>5, <1>6, <1>7, <1>8, <1>10, <1>11, Zenon

(* What a query should be answered, by the sets of entries, is what the    *)
(* walks through the tries of its snapshot say.                            *)
LEMMA CulpritsRight ==
  ASSUME NEW s, SnapshotOK(s),
         Holds(heap[eng.lists], heap[eng.custom], heap[eng.customAllow])
  PROVE  Culprits(s.cfg, s.group, s.now, s.name, heap)
           = Verdict(s, heap[eng.lists], heap[eng.custom], heap[eng.customAllow])
<1> DEFINE m == heap[eng.lists]
           b == heap[eng.custom]
           a == heap[eng.customAllow]
           name == s.name
           c == Entries(s.cfg.allow)
           g == Entries(s.group.allow)
           eff == Effective(s.group, s.now)
<1>1. name \in Seq(Labels)
  BY NamesAssumption DEF SnapshotOK
<1>2. Match(a, name) <=> Normal(name) /\ Under(name, a.terminal)
  BY <1>1, MatchCorrect DEF Holds, Sound
<1>3. Match(b, name) <=> Normal(name) /\ Under(name, b.terminal)
  BY <1>1, MatchCorrect DEF Holds, Sound
<1>4. Match(Compiled(s.cfg.allow), name) <=> Normal(name) /\ Under(name, c)
  <2>1. s.cfg.allow \in SUBSET AnyPattern /\ \A p \in s.cfg.allow : Normal(p.name)
    BY ConfigsAssumption DEF SnapshotOK, IsConfig, Compiles, Distinct
  <2> QED
    BY <1>1, <2>1, CompiledClosed, MatchCorrect
<1>5. Match(Compiled(s.group.allow), name) <=> Normal(name) /\ Under(name, g)
  <2>1. s.group.allow \in SUBSET AnyPattern /\ \A p \in s.group.allow : Normal(p.name)
    BY DEF SnapshotOK, SomeGroup, Distinct
  <2> QED
    BY <1>1, <2>1, CompiledClosed, MatchCorrect
<1>6. eff \subseteq Lists
  BY EffectiveFacts DEF SnapshotOK
<1>7. \A l \in eff : Blocks(s, m, l) <=> m[l] # None /\ Normal(name) /\ Under(name, m[l].terminal)
  <2> SUFFICES ASSUME NEW l \in eff, m[l] # None
               PROVE  Match(m[l], name) <=> Normal(name) /\ Under(name, m[l].terminal)
    BY DEF Blocks
  <2>1. Closed(m[l])
    BY <1>6 DEF Holds, ListsSound, Sound
  <2> QED
    BY <1>1, <2>1, MatchCorrect
<1>8. Under(name, c \cup g \cup a.terminal) <=> Under(name, c) \/ Under(name, g) \/ Under(name, a.terminal)
  BY DEF Under
<1>9. Culprits(s.cfg, s.group, s.now, name, heap)
        = IF ~Normal(name) \/ Under(name, c \cup g \cup a.terminal) THEN {}
          ELSE {l \in eff : m[l] # None /\ Under(name, m[l].terminal)}
               \cup (IF Under(name, b.terminal) THEN {Custom} ELSE {})
  BY DEF Culprits
<1>10. Verdict(s, m, b, a)
        = IF Allowed(s, a) THEN {}
          ELSE {l \in eff : Blocks(s, m, l)} \cup (IF Match(b, name) THEN {Custom} ELSE {})
  BY DEF Verdict
<1>11. Allowed(s, a) <=> Normal(name) /\ (Under(name, c) \/ Under(name, g) \/ Under(name, a.terminal))
  BY <1>2, <1>4, <1>5 DEF Allowed
<1> HIDE DEF m, b, a, name, c, g, eff
<1>12. CASE ~Normal(name)
  <2>1. {l \in eff : Blocks(s, m, l)} = {}
    BY <1>7, <1>12
  <2> QED
    BY <1>3, <1>9, <1>10, <1>11, <1>12, <2>1 DEF m, b, a, name
<1>13. CASE Normal(name)
  <2>1. {l \in eff : Blocks(s, m, l)} = {l \in eff : m[l] # None /\ Under(name, m[l].terminal)}
    BY <1>7, <1>13
  <2> QED
    BY <1>3, <1>8, <1>9, <1>10, <1>11, <1>13, <2>1 DEF m, b, a, name
<1> QED
  BY <1>12, <1>13
-----------------------------------------------------------------------------
(* The steps of Evaluate, on a snapshot. *)

(* Only the place and the answer of a query change while it is evaluated. *)
LEMMA SetPlace ==
  ASSUME NEW s \in QueryRec, NEW at \in Places \ {"idle"}
  PROVE  LET k == [s EXCEPT !.at = at]
         IN  /\ k \in QueryRec /\ k.at = at /\ k.name = s.name /\ k.cfg = s.cfg /\ k.group = s.group
             /\ k.now = s.now /\ k.lists = s.lists /\ k.custom = s.custom
             /\ k.customAllow = s.customAllow /\ k.want = s.want
             /\ k.list = s.list /\ k.reason = s.reason
BY DEF QueryRec

Done(s, reason, list) == [s EXCEPT !.at = "done", !.reason = reason, !.list = list]

LEMMA SetAnswer ==
  ASSUME NEW s \in QueryRec, NEW reason \in Reasons,
         NEW list \in Blamed
  PROVE  LET k == Done(s, reason, list)
         IN  /\ k \in QueryRec /\ k.at = "done" /\ k.name = s.name /\ k.cfg = s.cfg /\ k.group = s.group
             /\ k.now = s.now /\ k.lists = s.lists /\ k.custom = s.custom
             /\ k.customAllow = s.customAllow /\ k.want = s.want
             /\ k.list = list /\ k.reason = reason
<1> DEFINE k1 == [s EXCEPT !.at = "done"]
           k2 == [k1 EXCEPT !.reason = reason]
           k3 == [k2 EXCEPT !.list = list]
<1>1. /\ k1 \in QueryRec /\ k1.at = "done" /\ k1.name = s.name /\ k1.cfg = s.cfg /\ k1.group = s.group
      /\ k1.now = s.now /\ k1.lists = s.lists /\ k1.custom = s.custom
      /\ k1.customAllow = s.customAllow /\ k1.want = s.want
  BY SetPlace DEF Places
<1>2. Done(s, reason, list) = k3
  BY DEF Done
<1> HIDE DEF k1
<1>3. /\ k2 \in QueryRec /\ k2.at = k1.at /\ k2.name = k1.name /\ k2.cfg = k1.cfg /\ k2.group = k1.group
      /\ k2.now = k1.now /\ k2.lists = k1.lists /\ k2.custom = k1.custom
      /\ k2.customAllow = k1.customAllow /\ k2.want = k1.want /\ k2.reason = reason
  BY <1>1 DEF QueryRec
<1> HIDE DEF k2
<1>4. /\ k3 \in QueryRec /\ k3.at = k2.at /\ k3.name = k2.name /\ k3.cfg = k2.cfg /\ k3.group = k2.group
      /\ k3.now = k2.now /\ k3.lists = k2.lists /\ k3.custom = k2.custom
      /\ k3.customAllow = k2.customAllow /\ k3.want = k2.want /\ k3.list = list /\ k3.reason = k2.reason
  BY <1>3 DEF QueryRec
<1> HIDE DEF k3
<1> QED
  BY <1>1, <1>2, <1>3, <1>4

(* The verdict depends on the snapshot alone. *)
LEMMA SameVerdict ==
  ASSUME NEW s, NEW k, NEW m, NEW b, NEW a,
         k.name = s.name, k.cfg = s.cfg, k.group = s.group, k.now = s.now
  PROVE  /\ Verdict(k, m, b, a) = Verdict(s, m, b, a)
         /\ Allowed(k, a) <=> Allowed(s, a)
         /\ \A l : Blocks(k, m, l) <=> Blocks(s, m, l)
         /\ Base(k) = Base(s)
<1>1. Allowed(k, a) <=> Allowed(s, a)
  BY DEF Allowed
<1>2. \A l : Blocks(k, m, l) <=> Blocks(s, m, l)
  BY DEF Blocks
<1>3. Base(k) = Base(s)
  BY DEF Base
<1>4. {l \in Effective(k.group, k.now) : Blocks(k, m, l)} = {l \in Effective(s.group, s.now) : Blocks(s, m, l)}
  BY <1>2
<1> QED
  BY <1>1, <1>2, <1>3, <1>4 DEF Verdict

(* A query that goes on to the next place. *)
LEMMA GoOn ==
  ASSUME NEW s \in QueryRec, NEW m, NEW b, NEW a, QueryOK(s, m, b, a), NEW at \in Places \ {"idle", "done"},
         at \in {"base", "schedule", "custom"} => ~Allowed(s, a),
         at \in {"schedule", "custom"} => \A l \in Base(s) : ~Blocks(s, m, l),
         at = "custom" => \A l \in Effective(s.group, s.now) : ~Blocks(s, m, l)
  PROVE  LET k == [s EXCEPT !.at = at]
         IN  /\ k \in QueryRec /\ k.at # "idle" /\ QueryOK(k, m, b, a)
             /\ k.lists = s.lists /\ k.custom = s.custom /\ k.customAllow = s.customAllow
<1> DEFINE k == [s EXCEPT !.at = at]
<1>1. /\ k \in QueryRec /\ k.at = at /\ k.name = s.name /\ k.cfg = s.cfg /\ k.group = s.group
      /\ k.now = s.now /\ k.lists = s.lists /\ k.custom = s.custom
      /\ k.customAllow = s.customAllow /\ k.want = s.want
  BY SetPlace
<1> HIDE DEF k
<1>2. /\ Verdict(k, m, b, a) = Verdict(s, m, b, a) /\ Base(k) = Base(s)
      /\ Allowed(k, a) <=> Allowed(s, a)
      /\ \A l : Blocks(k, m, l) <=> Blocks(s, m, l)
  BY <1>1, SameVerdict
<1>3. SnapshotOK(k)
  BY <1>1 DEF QueryOK, SnapshotOK
<1>4. Progress(k, m, b, a)
  BY <1>1, <1>2 DEF QueryOK, Progress
<1> QED
  BY <1>1, <1>3, <1>4 DEF QueryOK, k

(* A query that is answered. *)
LEMMA Answered ==
  ASSUME NEW s \in QueryRec, NEW m, NEW b, NEW a, QueryOK(s, m, b, a),
         NEW reason \in Reasons, NEW list \in Blamed,
         reason = "none" <=> s.want = {},
         reason # "none" => list \in s.want,
         reason = "schedule" => s.want \cap Base(s) = {},
         list = Custom => s.want = {Custom}
  PROVE  LET k == Done(s, reason, list)
         IN  /\ k \in QueryRec /\ k.at # "idle" /\ QueryOK(k, m, b, a)
             /\ k.lists = s.lists /\ k.custom = s.custom /\ k.customAllow = s.customAllow
<1> DEFINE k == Done(s, reason, list)
<1>1. /\ k \in QueryRec /\ k.at = "done" /\ k.name = s.name /\ k.cfg = s.cfg /\ k.group = s.group
      /\ k.now = s.now /\ k.lists = s.lists /\ k.custom = s.custom
      /\ k.customAllow = s.customAllow /\ k.want = s.want
      /\ k.list = list /\ k.reason = reason
  BY SetAnswer
<1> HIDE DEF k
<1>2. Verdict(k, m, b, a) = Verdict(s, m, b, a) /\ Base(k) = Base(s)
  BY <1>1, SameVerdict
<1>3. SnapshotOK(k)
  BY <1>1 DEF QueryOK, SnapshotOK
<1>4. Right(k)
  BY <1>1, <1>2 DEF Right
<1>5. Progress(k, m, b, a)
  BY <1>1, <1>2, <1>4 DEF QueryOK, Progress
<1> QED
  BY <1>1, <1>3, <1>5 DEF QueryOK, k
-----------------------------------------------------------------------------
(* A step that changes one query only. *)
LEMMA QueryStep ==
  ASSUME Inv, NEW i \in Queries, NEW k \in QueryRec, k.at # "idle",
         q' = [q EXCEPT ![i] = k], UNCHANGED <<heap, eng, groupOf, updates>>,
         QueryOK(k, heap[k.lists], heap[k.custom], heap[k.customAllow])
  PROVE  Inv'
<1>1. q \in [Queries -> QueryRec] /\ q' \in [Queries -> QueryRec] /\ q'[i] = k
  BY DEF Inv, QueriesOK
<1>2. \A j \in Queries : j # i => q'[j] = q[j]
  BY <1>1
<1>3. ASSUME NEW j \in Queries
      PROVE  IF q'[j].at = "idle" THEN q'[j] = NoQuery
             ELSE QueryOK(q'[j], heap'[q'[j].lists], heap'[q'[j].custom], heap'[q'[j].customAllow])
  <2>1. CASE j = i
    BY <1>1, <2>1
  <2>2. CASE j # i
    BY <1>2, <2>2 DEF Inv, QueriesOK
  <2> QED
    BY <2>1, <2>2
<1>4. QueriesOK'
  BY <1>1, <1>3 DEF QueriesOK
<1>5. EngineOK' /\ HeapOK' /\ RestOK'
  BY DEF Inv, EngineOK, HeapOK, RestOK
<1> QED
  BY <1>4, <1>5 DEF Inv

LEMMA ForInv ==
  ASSUME Inv, NEW i \in Queries, NEW client \in Clients, NEW name \in Names, NEW now \in Times,
         For(i, client, name, now), updates' = updates
  PROVE  Inv'
<1> DEFINE g == GroupFor(eng.cfg, client)
           k == [at |-> "allow", name |-> name, cfg |-> eng.cfg, group |-> g, now |-> now,
                 lists |-> eng.lists, custom |-> eng.custom, customAllow |-> eng.customAllow,
                 list |-> None, reason |-> "none",
                 want |-> Culprits(eng.cfg, g, now, name, heap)]
<1>1. q' = [q EXCEPT ![i] = k] /\ UNCHANGED <<heap, eng, groupOf, updates>>
  BY DEF For
<1>2. /\ eng \in EngineRec /\ Compiles(eng.cfg)
      /\ Holds(heap[eng.lists], heap[eng.custom], heap[eng.customAllow])
  BY DEF Inv, EngineOK
<1>3. eng.cfg \in Configs /\ eng.lists \in Refs /\ eng.custom \in Refs /\ eng.customAllow \in Refs
  BY <1>2 DEF EngineRec
<1>4. g \in SomeGroup /\ Distinct(g.allow)
  <2>1. eng.cfg.groups \in [DOMAIN eng.cfg.groups -> SomeGroup]
    BY <1>3, ConfigsAssumption DEF IsConfig
  <2>2. PICK x \in DOMAIN eng.cfg.groups : g = eng.cfg.groups[x]
    BY <1>2 DEF GroupFor, Compiles
  <2> QED
    BY <1>2, <2>1, <2>2 DEF Compiles
<1> HIDE DEF g
<1>5. /\ k.at = "allow" /\ k.name = name /\ k.cfg = eng.cfg /\ k.group = g /\ k.now = now
      /\ k.lists = eng.lists /\ k.custom = eng.custom /\ k.customAllow = eng.customAllow
      /\ k.list = None /\ k.reason = "none"
      /\ k.want = Culprits(eng.cfg, g, now, name, heap)
      /\ k = [at |-> k.at, name |-> k.name, cfg |-> k.cfg, group |-> k.group, now |-> k.now,
              lists |-> k.lists, custom |-> k.custom, customAllow |-> k.customAllow,
              list |-> k.list, reason |-> k.reason, want |-> k.want]
  OBVIOUS
<1> HIDE DEF k
<1>6. SnapshotOK(k)
  BY <1>2, <1>3, <1>4, <1>5 DEF SnapshotOK
<1>7. k.want = Verdict(k, heap[k.lists], heap[k.custom], heap[k.customAllow])
  <2>1. Culprits(k.cfg, k.group, k.now, k.name, heap)
          = Verdict(k, heap[eng.lists], heap[eng.custom], heap[eng.customAllow])
    BY <1>2, <1>6, CulpritsRight
  <2> QED
    BY <1>5, <2>1
<1>8. k.want \in SUBSET (Lists \cup {Custom})
  <2>1. Effective(k.group, k.now) \subseteq Lists
    BY <1>4, <1>5, EffectiveFacts
  <2> QED
    BY <1>7, <2>1 DEF Verdict
<1>9. k \in QueryRec
  BY <1>3, <1>4, <1>5, <1>8 DEF QueryRec, Places, Reasons, Blamed
<1>10. QueryOK(k, heap[k.lists], heap[k.custom], heap[k.customAllow])
  BY <1>2, <1>5, <1>6, <1>7 DEF QueryOK, Progress
<1> QED
  BY <1>1, <1>5, <1>9, <1>10, QueryStep

(* The steps of Evaluate start from a query with a sound snapshot. *)
LEMMA InProgress ==
  ASSUME Inv, NEW i \in Queries, q[i].at # "idle"
  PROVE  /\ q[i] \in QueryRec
         /\ QueryOK(q[i], heap[q[i].lists], heap[q[i].custom], heap[q[i].customAllow])
         /\ q[i].group \in SomeGroup /\ q[i].now \in Times
         /\ \A l : matchList(i, l) <=> Blocks(q[i], heap[q[i].lists], l)
         /\ q[i].want = Verdict(q[i], heap[q[i].lists], heap[q[i].custom], heap[q[i].customAllow])
BY DEF Inv, QueriesOK, QueryOK, SnapshotOK, Progress, matchList, Blocks

(* Go and Decide, by what the facts about the snapshot allow. *)
LEMMA GoInv ==
  ASSUME Inv, NEW i \in Queries, NEW at \in {"base", "schedule", "custom"}, q[i].at # "idle",
         Go(i, at), updates' = updates,
         ~Allowed(q[i], heap[q[i].customAllow]),
         at \in {"schedule", "custom"} => \A l \in Base(q[i]) : ~matchList(i, l),
         at = "custom" => \A l \in Effective(q[i].group, q[i].now) : ~matchList(i, l)
  PROVE  Inv'
<1> DEFINE s == q[i]
           k == [s EXCEPT !.at = at]
           m == heap[s.lists]
           b == heap[s.custom]
           a == heap[s.customAllow]
<1>1. /\ s \in QueryRec /\ QueryOK(s, m, b, a)
      /\ \A l : matchList(i, l) <=> Blocks(s, m, l)
  BY InProgress
<1>2. at \in Places \ {"idle", "done"}
  BY DEF Places
<1>3. /\ at \in {"schedule", "custom"} => \A l \in Base(s) : ~Blocks(s, m, l)
      /\ at = "custom" => \A l \in Effective(s.group, s.now) : ~Blocks(s, m, l)
      /\ ~Allowed(s, a)
  BY <1>1
<1>4. q' = [q EXCEPT ![i] = k] /\ UNCHANGED <<heap, eng, groupOf, updates>>
  BY DEF Go
<1> HIDE DEF s, m, b, a
<1>5. /\ k \in QueryRec /\ k.at # "idle" /\ QueryOK(k, m, b, a)
      /\ k.lists = s.lists /\ k.custom = s.custom /\ k.customAllow = s.customAllow
  BY <1>1, <1>2, <1>3, GoOn
<1> HIDE DEF k
<1>6. QueryOK(k, heap[k.lists], heap[k.custom], heap[k.customAllow])
  BY <1>5 DEF m, b, a
<1> QED
  BY <1>4, <1>5, <1>6, QueryStep

LEMMA DecideInv ==
  ASSUME Inv, NEW i \in Queries, q[i].at # "idle",
         NEW reason \in Reasons, NEW list \in Blamed,
         Decide(i, reason, list), updates' = updates,
         reason = "none" <=> q[i].want = {},
         reason # "none" => list \in q[i].want,
         reason = "schedule" => q[i].want \cap Base(q[i]) = {},
         list = Custom => q[i].want = {Custom}
  PROVE  Inv'
<1> DEFINE s == q[i]
           k == Done(s, reason, list)
           m == heap[s.lists]
           b == heap[s.custom]
           a == heap[s.customAllow]
<1>1. s \in QueryRec /\ QueryOK(s, m, b, a)
  BY InProgress
<1>2. q' = [q EXCEPT ![i] = k] /\ UNCHANGED <<heap, eng, groupOf, updates>>
  BY DEF Decide, Done
<1>3. /\ reason = "none" <=> s.want = {}
      /\ reason # "none" => list \in s.want
      /\ reason = "schedule" => s.want \cap Base(s) = {}
      /\ list = Custom => s.want = {Custom}
  OBVIOUS
<1> HIDE DEF s, m, b, a
<1>4. /\ k \in QueryRec /\ k.at # "idle" /\ QueryOK(k, m, b, a)
      /\ k.lists = s.lists /\ k.custom = s.custom /\ k.customAllow = s.customAllow
  BY <1>1, <1>3, Answered
<1> HIDE DEF k
<1>5. QueryOK(k, heap[k.lists], heap[k.custom], heap[k.customAllow])
  BY <1>4 DEF m, b, a
<1> QED
  BY <1>2, <1>4, <1>5, QueryStep

LEMMA CheckAllowInv ==
  ASSUME Inv, NEW i \in Queries, CheckAllow(i), updates' = updates
  PROVE  Inv'
<1>1. q[i].at # "idle"
  BY DEF CheckAllow
<1>2. q[i].want = Verdict(q[i], heap[q[i].lists], heap[q[i].custom], heap[q[i].customAllow])
  BY <1>1, InProgress
<1>3. CASE Allowed(q[i], heap[q[i].customAllow])
  <2>1. Decide(i, "none", None)
    BY <1>3 DEF CheckAllow, Allowed
  <2>2. q[i].want = {}
    BY <1>2, <1>3 DEF Verdict
  <2>3. "none" \in Reasons /\ None \in Blamed /\ None # Custom
    BY PolicyAssumption DEF Reasons, Blamed
  <2> QED
    BY <1>1, <2>1, <2>2, <2>3, DecideInv
<1>4. CASE ~Allowed(q[i], heap[q[i].customAllow])
  <2>1. Go(i, "base")
    BY <1>4 DEF CheckAllow, Allowed
  <2> QED
    BY <1>1, <1>4, <2>1, GoInv
<1> QED
  BY <1>3, <1>4

(* A list in effect that has the name is one to blame. *)
LEMMA ToBlame ==
  ASSUME Inv, NEW i \in Queries, q[i].at \in {"base", "schedule", "custom"}
  PROVE  /\ ~Allowed(q[i], heap[q[i].customAllow])
         /\ q[i].want = {l \in Effective(q[i].group, q[i].now) : matchList(i, l)}
                        \cup (IF Match(heap[q[i].custom], q[i].name) THEN {Custom} ELSE {})
         /\ q[i].at \in {"schedule", "custom"} => \A l \in Base(q[i]) : ~matchList(i, l)
         /\ q[i].at = "custom" => \A l \in Effective(q[i].group, q[i].now) : ~matchList(i, l)
<1>1. /\ QueryOK(q[i], heap[q[i].lists], heap[q[i].custom], heap[q[i].customAllow])
      /\ \A l : matchList(i, l) <=> Blocks(q[i], heap[q[i].lists], l)
      /\ q[i].want = Verdict(q[i], heap[q[i].lists], heap[q[i].custom], heap[q[i].customAllow])
  BY InProgress
<1>2. Progress(q[i], heap[q[i].lists], heap[q[i].custom], heap[q[i].customAllow])
  BY <1>1 DEF QueryOK
<1>3. ~Allowed(q[i], heap[q[i].customAllow])
  BY <1>2 DEF Progress
<1>4. {l \in Effective(q[i].group, q[i].now) : matchList(i, l)}
        = {l \in Effective(q[i].group, q[i].now) : Blocks(q[i], heap[q[i].lists], l)}
  BY <1>1
<1> QED
  BY <1>1, <1>2, <1>3, <1>4 DEF Progress, Verdict

LEMMA CheckBaseInv ==
  ASSUME Inv, NEW i \in Queries, CheckBase(i), updates' = updates
  PROVE  Inv'
<1> DEFINE g == q[i].group
           hits == Hits(i, g.base)
           l == g.base[First(hits)]
<1>1. q[i].at # "idle" /\ q[i].at \in {"base", "schedule", "custom"}
  BY DEF CheckBase
<1>2. g \in SomeGroup /\ q[i].now \in Times
  BY <1>1, InProgress
<1>3. /\ Len(g.base) \in Nat
      /\ \A n \in 1..Len(g.base) : g.base[n] \in Effective(g, q[i].now) /\ g.base[n] \in Lists
  BY <1>2, EffectiveFacts DEF SomeGroup
<1>4. /\ ~Allowed(q[i], heap[q[i].customAllow])
      /\ \A x \in Effective(g, q[i].now) : matchList(i, x) => x \in q[i].want
  BY <1>1, ToBlame
<1>5. CASE hits # {}
  <2>1. hits \in SUBSET Nat
    BY <1>3 DEF Hits
  <2>2. First(hits) \in hits
    BY <1>5, <2>1, FirstFact
  <2>3. l \in Lists /\ l \in q[i].want
    BY <1>3, <1>4, <2>2 DEF Hits
  <2>4. Decide(i, "blocklist", l)
    BY <1>5 DEF CheckBase
  <2>5. "blocklist" \in Reasons /\ l \in Blamed /\ l # Custom
    BY <2>3, PolicyAssumption DEF Reasons, Blamed
  <2> HIDE DEF l
  <2> QED
    BY <1>1, <2>3, <2>4, <2>5, DecideInv
<1>6. CASE hits = {}
  <2>1. Go(i, "schedule")
    BY <1>6 DEF CheckBase
  <2>2. \A x \in Base(q[i]) : ~matchList(i, x)
    BY <1>6 DEF Hits, Base
  <2> QED
    BY <1>1, <1>4, <2>1, <2>2, GoInv
<1> QED
  BY <1>5, <1>6

LEMMA CheckSchedulesInv ==
  ASSUME Inv, NEW i \in Queries, CheckSchedules(i), updates' = updates
  PROVE  Inv'
<1> DEFINE g == q[i].group
           s == g.schedules
           eff == Effective(g, q[i].now)
           active == Active(g, q[i].now)
           hits == {n \in active : Hits(i, s[n].block) # {}}
           n == First(hits)
           m == First(Hits(i, s[n].block))
           l == s[n].block[m]
<1>1. q[i].at # "idle" /\ q[i].at = "schedule"
  BY DEF CheckSchedules
<1>2. g \in SomeGroup /\ q[i].now \in Times
  BY <1>1, InProgress
<1>3. /\ active \subseteq 1..Len(s) /\ Len(s) \in Nat
      /\ eff \subseteq Lists
      /\ \A x \in 1..Len(s) : Len(s[x].block) \in Nat
      /\ \A x : x \in eff <=>
              \/ \E y \in 1..Len(g.base) : x = g.base[y]
              \/ \E y \in active : \E z \in 1..Len(s[y].block) : x = s[y].block[z]
  BY <1>2, EffectiveFacts
<1>4. /\ ~Allowed(q[i], heap[q[i].customAllow])
      /\ q[i].want = {x \in eff : matchList(i, x)}
                     \cup (IF Match(heap[q[i].custom], q[i].name) THEN {Custom} ELSE {})
      /\ \A x \in Base(q[i]) : ~matchList(i, x)
  BY <1>1, ToBlame
<1>5. IF hits # {} THEN Decide(i, "schedule", l) ELSE Go(i, "custom")
  BY ZenonT(30) DEF CheckSchedules
<1> HIDE DEF active
<1>6. CASE hits # {}
  <2>1. hits \in SUBSET Nat
    <3>1. hits \subseteq active
      OBVIOUS
    <3> HIDE DEF hits
    <3> QED
      BY <1>3, <3>1
  <2>2. n \in hits
    BY <1>6, <2>1, FirstFact
  <2>3. n \in active /\ n \in 1..Len(s) /\ Hits(i, s[n].block) # {}
    BY <1>3, <2>2, ZenonT(30)
  <2> HIDE DEF n, hits
  <2>4. Hits(i, s[n].block) \in SUBSET Nat
    BY <1>3, <2>3 DEF Hits
  <2>5. m \in Hits(i, s[n].block)
    BY <2>3, <2>4, FirstFact
  <2>6. m \in 1..Len(s[n].block) /\ matchList(i, l)
    BY <2>5, ZenonT(30) DEF Hits
  <2> HIDE DEF m
  <2>7. l \in eff
    BY <1>3, <2>3, <2>6
  <2>8. l \in Lists /\ l \in q[i].want
    BY <1>3, <1>4, <2>6, <2>7, ZenonT(30)
  <2>9. q[i].want \cap Base(q[i]) = {}
    <3>1. Base(q[i]) \subseteq Lists
      BY <1>2, EffectiveFacts DEF Base
    <3> QED
      BY <1>4, <3>1, PolicyAssumption
  <2>10. "schedule" \in Reasons /\ l \in Blamed /\ l # Custom
    BY <2>8, PolicyAssumption DEF Reasons, Blamed
  <2>11. Decide(i, "schedule", l)
    BY <1>5, <1>6
  <2> HIDE DEF l
  <2> QED
    BY <1>1, <2>8, <2>9, <2>10, <2>11, DecideInv
<1>7. CASE hits = {}
  <2>1. Go(i, "custom")
    BY <1>5, <1>7
  <2>2. ASSUME NEW x \in eff PROVE ~matchList(i, x)
    <3>1. CASE \E y \in 1..Len(g.base) : x = g.base[y]
      BY <1>4, <3>1 DEF Base
    <3>2. CASE \E y \in active : \E z \in 1..Len(s[y].block) : x = s[y].block[z]
      BY <1>7, <3>2 DEF Hits
    <3> QED
      BY <1>3, <3>1, <3>2
  <2> QED
    BY <1>1, <1>4, <2>1, <2>2, GoInv
<1> QED
  BY <1>6, <1>7

LEMMA CheckCustomInv ==
  ASSUME Inv, NEW i \in Queries, CheckCustom(i), updates' = updates
  PROVE  Inv'
<1>1. q[i].at # "idle" /\ q[i].at = "custom"
  BY DEF CheckCustom
<1>2. q[i].want = IF Match(heap[q[i].custom], q[i].name) THEN {Custom} ELSE {}
  BY <1>1, ToBlame
<1>3. {"none", "blocklist"} \subseteq Reasons /\ {None, Custom} \subseteq Blamed /\ None # Custom
  BY PolicyAssumption DEF Reasons, Blamed
<1>4. CASE Match(heap[q[i].custom], q[i].name)
  <2>1. Decide(i, "blocklist", Custom) /\ q[i].want = {Custom}
    BY <1>2, <1>4 DEF CheckCustom
  <2> QED
    BY <1>1, <1>3, <2>1, DecideInv
<1>5. CASE ~Match(heap[q[i].custom], q[i].name)
  <2>1. Decide(i, "none", None) /\ q[i].want = {}
    BY <1>2, <1>5 DEF CheckCustom
  <2> QED
    BY <1>1, <1>3, <2>1, DecideInv
<1> QED
  BY <1>4, <1>5
-----------------------------------------------------------------------------
(* Collection keeps what the engine and the queries point to. *)
LEMMA CollectFacts ==
  ASSUME NEW h, NEW e, NEW qs
  PROVE  /\ DOMAIN Collect(h, e, qs) = Refs
         /\ Collect(h, e, qs) = [r \in Refs |-> Collect(h, e, qs)[r]]
         /\ \A r \in Refs \cap Reach(e) : Collect(h, e, qs)[r] = h[r]
         /\ \A i \in Queries : \A r \in Refs \cap Reach(qs[i]) : Collect(h, e, qs)[r] = h[r]
<1> DEFINE live == Reach(e) \cup UNION {Reach(qs[i]) : i \in Queries}
<1>1. Collect(h, e, qs) = [r \in Refs |-> IF r \in live THEN h[r] ELSE None]
  BY DEF Collect
<1>2. Reach(e) \subseteq live /\ \A i \in Queries : Reach(qs[i]) \subseteq live
  OBVIOUS
<1> HIDE DEF live
<1> QED
  BY <1>1, <1>2

(* A free place is none that the engine or a query points to. *)
LEMMA FreeIsFresh ==
  ASSUME Inv, NEW r \in Refs, heap[r] = None
  PROVE  /\ r \notin Reach(eng)
         /\ \A i \in Queries : q[i].at # "idle" => r \notin Reach(q[i])
<1>1. \A m, b, a : Holds(m, b, a) => m # None /\ b # None /\ a # None
  BY PolicyAssumption DEF Holds, ListsSound, Sound
<1>2. Holds(heap[eng.lists], heap[eng.custom], heap[eng.customAllow])
  BY DEF Inv, EngineOK
<1>3. \A i \in Queries : q[i].at # "idle" =>
        Holds(heap[q[i].lists], heap[q[i].custom], heap[q[i].customAllow])
  BY DEF Inv, QueriesOK, QueryOK
<1> QED
  BY <1>1, <1>2, <1>3 DEF Reach

(* Queries do not notice an update that leaves their objects alone. *)
LEMMA QueriesKept ==
  ASSUME Inv, UNCHANGED q,
         \A i \in Queries : q[i].at # "idle" => \A r \in Refs \cap Reach(q[i]) : heap'[r] = heap[r]
  PROVE  QueriesOK'
<1>1. q' = q /\ q \in [Queries -> QueryRec]
  BY DEF Inv, QueriesOK
<1>2. ASSUME NEW i \in Queries, q[i].at # "idle"
      PROVE  QueryOK(q[i], heap'[q[i].lists], heap'[q[i].custom], heap'[q[i].customAllow])
  <2>1. QueryOK(q[i], heap[q[i].lists], heap[q[i].custom], heap[q[i].customAllow])
    BY <1>2 DEF Inv, QueriesOK
  <2>2. q[i].lists \in Refs /\ q[i].custom \in Refs /\ q[i].customAllow \in Refs
    BY <2>1 DEF QueryOK, SnapshotOK
  <2>3. /\ heap'[q[i].lists] = heap[q[i].lists] /\ heap'[q[i].custom] = heap[q[i].custom]
        /\ heap'[q[i].customAllow] = heap[q[i].customAllow]
    BY <1>2, <2>2 DEF Reach
  <2> QED
    BY <2>1, <2>3
<1>3. \A i \in Queries : q[i].at = "idle" => q[i] = NoQuery
  BY DEF Inv, QueriesOK
<1> QED
  BY <1>1, <1>2, <1>3 DEF QueriesOK

(* The engine points to a new object where it pointed to an old one. *)
LEMMA NewObject ==
  ASSUME Inv, NEW r \in Refs, heap[r] = None, NEW object,
         eng' \in EngineRec, Compiles(eng'.cfg),
         heap' = Collect([heap EXCEPT ![r] = object], eng', q), UNCHANGED <<groupOf, q>>,
         updates' \in 0..MaxUpdates,
         \/ /\ eng'.lists = r /\ ListsSound(object)
            /\ eng'.custom = eng.custom /\ eng'.customAllow = eng.customAllow
         \/ /\ eng'.custom = r /\ Sound(object)
            /\ eng'.lists = eng.lists /\ eng'.customAllow = eng.customAllow
         \/ /\ eng'.customAllow = r /\ Sound(object)
            /\ eng'.lists = eng.lists /\ eng'.custom = eng.custom
  PROVE  Inv'
<1> DEFINE h == [heap EXCEPT ![r] = object]
<1>1. h[r] = object /\ \A x \in Refs \ {r} : h[x] = heap[x]
  BY DEF Inv, HeapOK
<1> HIDE DEF h
<1>2. /\ DOMAIN heap' = Refs /\ heap' = [x \in Refs |-> heap'[x]]
      /\ \A x \in Refs \cap Reach(eng') : heap'[x] = h[x]
      /\ \A i \in Queries : \A x \in Refs \cap Reach(q[i]) : heap'[x] = h[x]
  <2>1. heap' = Collect(h, eng', q)
    BY DEF h
  <2>2. /\ DOMAIN Collect(h, eng', q) = Refs
        /\ Collect(h, eng', q) = [x \in Refs |-> Collect(h, eng', q)[x]]
        /\ \A x \in Refs \cap Reach(eng') : Collect(h, eng', q)[x] = h[x]
        /\ \A i \in Queries : \A x \in Refs \cap Reach(q[i]) : Collect(h, eng', q)[x] = h[x]
    BY CollectFacts
  <2> QED
    BY <2>1, <2>2
<1>3. r \notin Reach(eng) /\ \A i \in Queries : q[i].at # "idle" => r \notin Reach(q[i])
  BY FreeIsFresh
<1>4. QueriesOK'
  BY <1>1, <1>2, <1>3, QueriesKept, ZenonT(30)
<1>5. /\ eng'.lists \in Refs /\ eng'.custom \in Refs /\ eng'.customAllow \in Refs
      /\ heap'[eng'.lists] = h[eng'.lists] /\ heap'[eng'.custom] = h[eng'.custom]
      /\ heap'[eng'.customAllow] = h[eng'.customAllow]
  BY <1>2 DEF EngineRec, Reach
<1>6. /\ eng.lists \in Refs /\ eng.custom \in Refs /\ eng.customAllow \in Refs
      /\ eng.lists # r /\ eng.custom # r /\ eng.customAllow # r
      /\ eng.lists # eng.custom /\ eng.lists # eng.customAllow /\ eng.custom # eng.customAllow
      /\ ListsSound(heap[eng.lists]) /\ Sound(heap[eng.custom]) /\ Sound(heap[eng.customAllow])
  BY <1>3 DEF Inv, EngineOK, EngineRec, Reach, Holds
<1>7. EngineOK'
  BY <1>1, <1>5, <1>6 DEF EngineOK, Holds
<1>8. HeapOK'
  BY <1>2 DEF HeapOK
<1>9. RestOK'
  BY DEF Inv, RestOK
<1> QED
  BY <1>4, <1>7, <1>8, <1>9 DEF Inv

LEMMA SwapInv ==
  ASSUME Inv, NEW field \in {"lists", "custom", "customAllow"}, NEW object,
         Swap(field, object), updates' \in 0..MaxUpdates,
         IF field = "lists" THEN ListsSound(object) ELSE Sound(object)
  PROVE  Inv'
<1> DEFINE r == CHOOSE x \in Refs : heap[x] = None
<1>1. r \in Refs /\ heap[r] = None
  BY DEF Swap
<1>2. /\ eng' = [eng EXCEPT ![field] = r]
      /\ heap' = Collect([heap EXCEPT ![r] = object], eng', q)
      /\ UNCHANGED <<groupOf, q>>
  BY DEF Swap
<1> HIDE DEF r
<1>3. eng \in EngineRec /\ Compiles(eng.cfg)
  BY DEF Inv, EngineOK
<1>4. CASE field = "lists"
  <2>1. /\ eng' \in EngineRec /\ eng'.cfg = eng.cfg
        /\ eng'.lists = r /\ eng'.custom = eng.custom /\ eng'.customAllow = eng.customAllow
    BY <1>1, <1>2, <1>3, <1>4 DEF EngineRec
  <2> QED
    BY <1>1, <1>2, <1>3, <1>4, <2>1, NewObject
<1>5. CASE field = "custom"
  <2>1. /\ eng' \in EngineRec /\ eng'.cfg = eng.cfg
        /\ eng'.lists = eng.lists /\ eng'.custom = r /\ eng'.customAllow = eng.customAllow
    BY <1>1, <1>2, <1>3, <1>5 DEF EngineRec
  <2> QED
    BY <1>1, <1>2, <1>3, <1>5, <2>1, NewObject
<1>6. CASE field = "customAllow"
  <2>1. /\ eng' \in EngineRec /\ eng'.cfg = eng.cfg
        /\ eng'.lists = eng.lists /\ eng'.custom = eng.custom /\ eng'.customAllow = r
    BY <1>1, <1>2, <1>3, <1>6 DEF EngineRec
  <2> QED
    BY <1>1, <1>2, <1>3, <1>6, <2>1, NewObject
<1> QED
  BY <1>4, <1>5, <1>6

LEMMA ReloadInv ==
  ASSUME Inv, NEW c \in Configs, ReloadConfig(c), updates' \in 0..MaxUpdates
  PROVE  Inv'
<1> DEFINE lists == heap[eng.lists]
           kept == [l \in Lists |-> IF l \in c.enabled THEN lists[l] ELSE None]
           r == CHOOSE x \in Refs : heap[x] = None
<1>1. eng \in EngineRec /\ ListsSound(lists) /\ Compiles(c)
  BY DEF Inv, EngineOK, Holds, ReloadConfig
<1>2. CASE kept = lists
  <2>1. eng' = [eng EXCEPT !.cfg = c] /\ UNCHANGED <<heap, groupOf, q>>
    BY <1>2 DEF ReloadConfig
  <2>2. /\ eng' \in EngineRec /\ eng'.cfg = c
        /\ eng'.lists = eng.lists /\ eng'.custom = eng.custom /\ eng'.customAllow = eng.customAllow
    BY <1>1, <2>1 DEF EngineRec
  <2>3. EngineOK'
    BY <1>1, <2>1, <2>2 DEF Inv, EngineOK
  <2>4. QueriesOK'
    BY <2>1, QueriesKept
  <2>5. HeapOK' /\ RestOK'
    BY <2>1 DEF Inv, HeapOK, RestOK
  <2> QED
    BY <2>3, <2>4, <2>5 DEF Inv
<1>3. CASE kept # lists
  <2>1. r \in Refs /\ heap[r] = None
    BY <1>3 DEF ReloadConfig
  <2>2. /\ eng' = [eng EXCEPT !.cfg = c, !.lists = r]
        /\ heap' = Collect([heap EXCEPT ![r] = kept], eng', q)
        /\ UNCHANGED <<groupOf, q>>
    BY <1>3 DEF ReloadConfig
  <2>3. ListsSound(kept)
    BY <1>1 DEF ListsSound, ListMap
  <2> HIDE DEF r, kept
  <2> DEFINE e == [eng EXCEPT !.cfg = c]
             f == [e EXCEPT !.lists = r]
  <2>4. eng' = f
    BY <2>2
  <2>5. /\ e \in EngineRec /\ e.cfg = c
        /\ e.custom = eng.custom /\ e.customAllow = eng.customAllow
    BY <1>1 DEF EngineRec
  <2> HIDE DEF e
  <2>6. /\ f \in EngineRec /\ f.cfg = c /\ f.lists = r
        /\ f.custom = eng.custom /\ f.customAllow = eng.customAllow
    BY <2>1, <2>5 DEF EngineRec
  <2> HIDE DEF f
  <2>7. heap' = Collect([heap EXCEPT ![r] = kept], eng', q) /\ UNCHANGED <<groupOf, q>>
    BY <2>2, Zenon
  <2>8. /\ eng' \in EngineRec /\ Compiles(eng'.cfg) /\ eng'.lists = r
        /\ eng'.custom = eng.custom /\ eng'.customAllow = eng.customAllow
    BY <1>1, <2>4, <2>6
  <2> QED
    BY <2>1, <2>3, <2>7, <2>8, NewObject
<1> QED
  BY <1>2, <1>3

(* A query's objects may go when it has been answered. *)
LEMMA AnswerInv ==
  ASSUME Inv, NEW i \in Queries, Answer(i), updates' = updates
  PROVE  Inv'
<1>1. /\ q' = [q EXCEPT ![i] = NoQuery]
      /\ heap' = Collect(heap, eng, q')
      /\ UNCHANGED <<eng, groupOf>>
  BY DEF Answer
<1>2. NoQuery \in QueryRec /\ NoQuery.at = "idle"
  BY DEF NoQuery, QueryRec, Places, Blamed, Reasons
<1>3. /\ q \in [Queries -> QueryRec] /\ q' \in [Queries -> QueryRec] /\ q'[i] = NoQuery
      /\ \A j \in Queries \ {i} : q'[j] = q[j]
  BY <1>1, <1>2 DEF Inv, QueriesOK
<1>4. /\ DOMAIN heap' = Refs /\ heap' = [x \in Refs |-> heap'[x]]
      /\ \A x \in Refs \cap Reach(eng) : heap'[x] = heap[x]
      /\ \A j \in Queries : \A x \in Refs \cap Reach(q'[j]) : heap'[x] = heap[x]
  <2>1. /\ DOMAIN Collect(heap, eng, q') = Refs
        /\ Collect(heap, eng, q') = [x \in Refs |-> Collect(heap, eng, q')[x]]
        /\ \A x \in Refs \cap Reach(eng) : Collect(heap, eng, q')[x] = heap[x]
        /\ \A j \in Queries : \A x \in Refs \cap Reach(q'[j]) : Collect(heap, eng, q')[x] = heap[x]
    BY CollectFacts
  <2> QED
    BY <1>1, <2>1
<1>5. EngineOK'
  <2>1. eng.lists \in Refs /\ eng.custom \in Refs /\ eng.customAllow \in Refs
    BY DEF Inv, EngineOK, EngineRec
  <2>2. /\ heap'[eng.lists] = heap[eng.lists] /\ heap'[eng.custom] = heap[eng.custom]
        /\ heap'[eng.customAllow] = heap[eng.customAllow]
    BY <1>4, <2>1 DEF Reach
  <2> QED
    BY <1>1, <2>2 DEF Inv, EngineOK
<1>6. ASSUME NEW j \in Queries
      PROVE  IF q'[j].at = "idle" THEN q'[j] = NoQuery
             ELSE QueryOK(q'[j], heap'[q'[j].lists], heap'[q'[j].custom], heap'[q'[j].customAllow])
  <2>1. CASE j = i
    BY <1>2, <1>3, <2>1
  <2>2. CASE j # i /\ q[j].at = "idle"
    BY <1>3, <2>2 DEF Inv, QueriesOK
  <2>3. CASE j # i /\ q[j].at # "idle"
    <3>1. q'[j] = q[j] /\ QueryOK(q[j], heap[q[j].lists], heap[q[j].custom], heap[q[j].customAllow])
      BY <1>3, <2>3 DEF Inv, QueriesOK
    <3>2. q[j].lists \in Refs /\ q[j].custom \in Refs /\ q[j].customAllow \in Refs
      BY <3>1 DEF QueryOK, SnapshotOK
    <3>3. /\ heap'[q[j].lists] = heap[q[j].lists] /\ heap'[q[j].custom] = heap[q[j].custom]
          /\ heap'[q[j].customAllow] = heap[q[j].customAllow]
      BY <1>4, <3>1, <3>2 DEF Reach
    <3> QED
      BY <2>3, <3>1, <3>3
  <2> QED
    BY <2>1, <2>2, <2>3
<1>7. QueriesOK'
  BY <1>3, <1>6 DEF QueriesOK
<1>8. HeapOK' /\ RestOK'
  BY <1>1, <1>4 DEF Inv, HeapOK, RestOK
<1> QED
  BY <1>5, <1>7, <1>8 DEF Inv

LEMMA UpdateInv ==
  ASSUME Inv, Update
  PROVE  Inv'
<1>1. updates' \in 0..MaxUpdates
  BY PolicyAssumption DEF Inv, RestOK, Update
<1>2. /\ ListsSound(heap[eng.lists]) /\ Sound(heap[eng.custom]) /\ Sound(heap[eng.customAllow])
  BY DEF Inv, EngineOK, Holds
<1>3. ASSUME NEW p \in Patterns, AddCustomBlock(p) PROVE Inv'
  <2>1. Sound(Add(heap[eng.custom], p)) /\ Swap("custom", Add(heap[eng.custom], p))
    BY <1>2, <1>3, AddSound, NamesAssumption DEF AddCustomBlock
  <2> QED
    BY <1>1, <2>1, SwapInv
<1>4. ASSUME NEW p \in Patterns, RemoveCustomBlock(p) PROVE Inv'
  <2>1. Sound(Delete(heap[eng.custom], p)) /\ Swap("custom", Delete(heap[eng.custom], p))
    BY <1>2, <1>4, DeleteSound DEF RemoveCustomBlock
  <2> QED
    BY <1>1, <2>1, SwapInv
<1>5. ASSUME NEW p \in Patterns, AddCustomAllow(p) PROVE Inv'
  <2>1. Sound(Add(heap[eng.customAllow], p)) /\ Swap("customAllow", Add(heap[eng.customAllow], p))
    BY <1>2, <1>5, AddSound, NamesAssumption DEF AddCustomAllow
  <2> QED
    BY <1>1, <2>1, SwapInv
<1>6. ASSUME NEW p \in Patterns, RemoveCustomAllow(p) PROVE Inv'
  <2>1. Sound(Delete(heap[eng.customAllow], p)) /\ Swap("customAllow", Delete(heap[eng.customAllow], p))
    BY <1>2, <1>6, DeleteSound DEF RemoveCustomAllow
  <2> QED
    BY <1>1, <2>1, SwapInv
<1>7. ASSUME NEW l \in Lists, NEW feed \in Feeds \cup {None}, ReplaceList(l, feed) PROVE Inv'
  <2> DEFINE t == IF feed = None THEN None ELSE Compiled(feed)
             m == [heap[eng.lists] EXCEPT ![l] = t]
  <2>1. t = None \/ Sound(t)
    BY CompiledSound, FeedsAssumption
  <2>2. t \in Trie \cup {None}
    BY <2>1 DEF Sound
  <2> HIDE DEF t
  <2>3. ListsSound(m)
    BY <1>2, <2>1, <2>2 DEF ListsSound, ListMap
  <2>4. Swap("lists", m)
    BY <1>7 DEF ReplaceList, t
  <2> HIDE DEF m
  <2> QED
    BY <1>1, <2>3, <2>4, SwapInv
<1>8. ASSUME NEW c \in Configs, ReloadConfig(c) PROVE Inv'
  BY <1>1, <1>8, ReloadInv
<1>9. ASSUME NEW i \in Clients, NEW g \in Groups, MoveClient(i, g) PROVE Inv'
  <2>1. groupOf' \in [Clients -> Groups \cup {None}] /\ UNCHANGED <<heap, eng, q>>
    BY <1>9 DEF MoveClient, Inv, RestOK
  <2>2. QueriesOK'
    BY <2>1, QueriesKept
  <2>3. EngineOK' /\ HeapOK' /\ RestOK'
    BY <1>1, <2>1 DEF Inv, EngineOK, HeapOK, RestOK
  <2> QED
    BY <2>2, <2>3 DEF Inv
<1> QED
  BY <1>3, <1>4, <1>5, <1>6, <1>7, <1>8, <1>9 DEF Update
-----------------------------------------------------------------------------
LEMMA InitInv == Init => Inv
<1> SUFFICES ASSUME Init PROVE Inv
  OBVIOUS
<1>1. PICK c \in Configs, l \in Refs, b \in Refs, a \in Refs :
        Compiles(c) /\ l < b /\ b < a /\ NewEngine(c, l, b, a)
  BY DEF Init
<1>2. l # b /\ l # a /\ b # a
  BY <1>1, RefsAssumption
<1>3. /\ eng = [cfg |-> c, lists |-> l, custom |-> b, customAllow |-> a]
      /\ heap = [r \in Refs |-> IF r = l THEN [x \in Lists |-> None]
                                ELSE IF r \in {a, b} THEN NewDomains ELSE None]
  BY <1>1 DEF NewEngine
<1>4. /\ heap[l] = [x \in Lists |-> None] /\ heap[a] = NewDomains /\ heap[b] = NewDomains
      /\ HeapOK
  BY <1>2, <1>3 DEF HeapOK
<1>5. ListsSound([x \in Lists |-> None])
  BY DEF ListsSound, ListMap
<1>6. EngineOK
  BY <1>1, <1>2, <1>3, <1>4, <1>5, NewSound DEF EngineOK, EngineRec, Holds
<1>7. NoQuery \in QueryRec /\ NoQuery.at = "idle"
  BY DEF NoQuery, QueryRec, Places, Blamed, Reasons
<1>8. q = [i \in Queries |-> NoQuery]
  BY DEF Init
<1>9. QueriesOK
  BY <1>7, <1>8 DEF QueriesOK
<1>10. RestOK
  BY PolicyAssumption DEF Init, RestOK
<1> QED
  BY <1>4, <1>6, <1>9, <1>10 DEF Inv

LEMMA NextInv == Inv /\ [Next]_vars => Inv'
<1> SUFFICES ASSUME Inv, [Next]_vars PROVE Inv'
  OBVIOUS
<1>1. CASE Update
  BY <1>1, UpdateInv
<1>2. ASSUME NEW i \in Queries, Query(i) PROVE Inv'
  <2>1. updates' = updates
    BY <1>2 DEF Query
  <2>2. CASE \E c \in Clients, name \in Names, now \in Times : For(i, c, name, now)
    BY <2>1, <2>2, ForInv
  <2>3. CASE CheckAllow(i)
    BY <2>1, <2>3, CheckAllowInv
  <2>4. CASE CheckBase(i)
    BY <2>1, <2>4, CheckBaseInv
  <2>5. CASE CheckSchedules(i)
    BY <2>1, <2>5, CheckSchedulesInv
  <2>6. CASE CheckCustom(i)
    BY <2>1, <2>6, CheckCustomInv
  <2>7. CASE Answer(i)
    BY <2>1, <2>7, AnswerInv
  <2> QED
    BY <1>2, <2>2, <2>3, <2>4, <2>5, <2>6, <2>7 DEF Query, Evaluate
<1>3. CASE UNCHANGED vars
  <2>1. UNCHANGED <<heap, eng, groupOf, q, updates>>
    BY <1>3 DEF vars
  <2>2. QueriesOK'
    BY <2>1, QueriesKept
  <2>3. EngineOK' /\ HeapOK' /\ RestOK'
    BY <2>1 DEF Inv, EngineOK, HeapOK, RestOK
  <2> QED
    BY <2>2, <2>3 DEF Inv
<1> QED
  BY <1>1, <1>2, <1>3 DEF Next

LEMMA ThreeDistinct ==
  ASSUME NEW x, NEW y, NEW z, x # y, x # z, y # z
  PROVE  Cardinality({x, y, z}) = 3
<1> DEFINE one == {x}
           two == one \cup {y}
<1>1. IsFiniteSet(one) /\ Cardinality(one) = 1
  BY FS_Singleton
<1>2. y \notin one /\ z \notin two /\ {x, y, z} = two \cup {z}
  OBVIOUS
<1> HIDE DEF one
<1>3. IsFiniteSet(two) /\ Cardinality(two) = 2
  BY <1>1, <1>2, FS_AddElement
<1> HIDE DEF two
<1>4. Cardinality(two \cup {z}) = 3
  BY <1>2, <1>3, FS_AddElement
<1> QED
  BY <1>2, <1>4

LEMMA InvConsistent == Inv => Consistent
<1> SUFFICES ASSUME Inv PROVE Consistent
  OBVIOUS
<1>1. /\ eng \in EngineRec /\ Compiles(eng.cfg)
      /\ eng.lists # eng.custom /\ eng.lists # eng.customAllow /\ eng.custom # eng.customAllow
      /\ ListsSound(heap[eng.lists]) /\ Sound(heap[eng.custom]) /\ Sound(heap[eng.customAllow])
  BY DEF Inv, EngineOK, Holds
<1>2. Reach(eng) \subseteq Refs /\ eng.cfg \in Configs
  BY <1>1 DEF EngineRec, Reach
<1>3. Cardinality(Reach(eng)) = 3
  BY <1>1, ThreeDistinct DEF Reach
<1>4. DOMAIN heap[eng.lists] = Lists
  BY <1>1 DEF ListsSound, ListMap
<1>5. \A t \in Tries : TrieOK(t)
  <2>1. \A t \in Tries : Sound(t)
    BY <1>1 DEF Tries, ListsSound
  <2> QED
    BY <2>1 DEF Sound, Closed, TrieOK
<1>6. \A i \in Queries : q[i].at \in Places
  BY DEF Inv, QueriesOK, QueryRec
<1>7. TypeOK
  BY <1>1, <1>2, <1>3, <1>4, <1>5, <1>6 DEF TypeOK, Inv, HeapOK, RestOK, Places
<1>8. \A i \in Queries : q[i].at = "done" => Right(q[i])
  BY DEF Inv, QueriesOK, QueryOK, Progress
<1>9. DecisionsRight
  BY <1>8 DEF DecisionsRight, Right, Base
<1> QED
  BY <1>7, <1>9 DEF Consistent

(* Whatever updates arrive between its steps, a query is blocked exactly   *)
(* when some list in effect for its group had a suffix of the name when it *)
(* asked and no allowlist did, and it blames such a list; tries keep the   *)
(* way to every entry and count them.                                      *)
THEOREM PolicyConsistent == Spec => []Consistent
<1>1. Init => Inv
  BY InitInv
<1>2. Inv /\ [Next]_vars => Inv'
  BY NextInv
<1>3. Inv => Consistent
  BY InvConsistent
<1> QED
  BY <1>1, <1>2, <1>3, PTL DEF Spec
=============================================================================
