---------------------------- MODULE PolicyEngine ----------------------------
(***************************************************************************)
(* The policy engine of internal/policy/engine.go.  Updates take the lock, *)
(* copy what they change and swap a pointer; a query takes the pointers    *)
(* under the lock (For) and evaluates without it, while updates go on.     *)
(* Pointers are therefore explicit: heap holds the objects that the engine *)
(* or a query can reach.                                                   *)
(***************************************************************************)
EXTENDS Domains, Schedule

CONSTANTS Lists, Configs, Patterns, Names, Clients, Groups, Queries, Refs, None,
          Default,    \* the group "default"
          Custom,     \* the list id "custom"
          Feeds,      \* what the downloaded lists may contain
          Times,      \* <<day, minute>>
          MaxUpdates  \* bound on the updates of engine and client store

(* What validation lets through: groups and schedules name known lists.    *)
SomeSchedule == [window : Windows, block : Seq(Lists)]
SomeGroup == [base : Seq(Lists), allow : SUBSET AnyPattern, schedules : Seq(SomeSchedule)]
IsConfig(c) == /\ DOMAIN c.groups \subseteq Groups /\ c.groups \in [DOMAIN c.groups -> SomeGroup]
               /\ c.allow \subseteq AnyPattern /\ c.enabled \subseteq Lists
ListMap == [Lists -> Trie \cup {None}]

ASSUME PolicyAssumption == /\ Default \in Groups
                           /\ Custom \notin Lists /\ None \notin Lists \cup Refs \cup {Custom}
                           /\ None \notin Trie /\ None \notin ListMap
                           /\ Times \subseteq Days \X Minutes
                           /\ MaxUpdates \in Nat
ASSUME ConfigsAssumption == \A c \in Configs : IsConfig(c)
ASSUME NamesAssumption == Names \subseteq Seq(Labels) /\ Patterns \subseteq AnyPattern
(* A compiled list has only what Add accepted. *)
ASSUME FeedsAssumption ==
  /\ Feeds \subseteq SUBSET AnyPattern
  /\ \A feed \in Feeds : IsFiniteSet(feed) /\ \A p \in feed : Normal(p.name)
ASSUME RefsAssumption == Refs \subseteq Nat

VARIABLES heap,     \* the tries and list maps in memory
          eng,      \* Engine: the configuration, and pointers
          groupOf,  \* the client store's groups
          q,        \* queries being evaluated
          updates   \* counts the updates

vars == <<heap, eng, groupOf, q, updates>>

Reach(e) == {e.lists, e.custom, e.customAllow}
NoQuery == [at |-> "idle", name |-> None, cfg |-> None, group |-> None, now |-> None,
            lists |-> None, custom |-> None, customAllow |-> None,
            list |-> None, reason |-> "none", want |-> {}]

(* What neither the engine nor a query points to is collected. *)
Collect(h, e, qs) ==
  LET live == Reach(e) \cup UNION {Reach(qs[i]) : i \in Queries}
  IN  [r \in Refs |-> IF r \in live THEN h[r] ELSE None]

Entries(ps) == {p.name : p \in ps}

(* CompileGroups and the global allowlist: a domain may not be named twice. *)
Distinct(ps) == /\ \A p \in ps : Normal(p.name)
                /\ \A p1, p2 \in ps : p1.name = p2.name => p1 = p2
Compiles(c) == /\ Default \in DOMAIN c.groups
               /\ Distinct(c.allow)
               /\ \A g \in DOMAIN c.groups : Distinct(c.groups[g].allow)

NewEngine(c, l, b, a) ==
  /\ eng = [cfg |-> c, lists |-> l, custom |-> b, customAllow |-> a]
  /\ heap = [r \in Refs |-> IF r = l THEN [x \in Lists |-> None]
                            ELSE IF r \in {a, b} THEN NewDomains ELSE None]

Init == /\ \E c \in Configs, l, b, a \in Refs :
             Compiles(c) /\ l < b /\ b < a /\ a <= 3 /\ NewEngine(c, l, b, a)
        /\ groupOf = [i \in Clients |-> None]
        /\ q = [i \in Queries |-> NoQuery]
        /\ updates = 0
-----------------------------------------------------------------------------
(* Store a new object and let the engine point to it. *)
SwapM(field, object) == /\ heap' = [heap EXCEPT ![eng[field]] = object]
                        /\ UNCHANGED <<eng, groupOf, q>>
Swap(field, object) ==
  /\ \E r \in Refs : heap[r] = None
  /\ LET r == CHOOSE r \in Refs : heap[r] = None
     IN  /\ eng' = [eng EXCEPT ![field] = r]
         /\ heap' = Collect([heap EXCEPT ![r] = object], eng', q)
  /\ UNCHANGED <<groupOf, q>>

AddCustomBlock(p) == /\ CanAdd(heap[eng.custom], p)
                     /\ Swap("custom", Add(heap[eng.custom], p))
RemoveCustomBlock(p) == /\ CanDelete(heap[eng.custom], p)
                        /\ Swap("custom", Delete(heap[eng.custom], p))
AddCustomAllow(p) == /\ CanAdd(heap[eng.customAllow], p)
                     /\ Swap("customAllow", Add(heap[eng.customAllow], p))
RemoveCustomAllow(p) == /\ CanDelete(heap[eng.customAllow], p)
                        /\ Swap("customAllow", Delete(heap[eng.customAllow], p))

(* The sync brings a list, or takes it away. *)
ReplaceList(l, feed) ==
  Swap("lists", [heap[eng.lists] EXCEPT ![l] = IF feed = None THEN None ELSE Compiled(feed)])

(* Lists that are not enabled go; the map is copied only if there are any. *)
ReloadConfig(c) ==
  /\ Compiles(c)
  /\ LET lists == heap[eng.lists]
         kept == [l \in Lists |-> IF l \in c.enabled THEN lists[l] ELSE None]
     IN  IF kept = lists
         THEN eng' = [eng EXCEPT !.cfg = c] /\ UNCHANGED <<heap, groupOf, q>>
         ELSE /\ \E r \in Refs : heap[r] = None
              /\ LET r == CHOOSE r \in Refs : heap[r] = None
                 IN  /\ eng' = [eng EXCEPT !.cfg = c, !.lists = r]
                     /\ heap' = Collect([heap EXCEPT ![r] = kept], eng', q)
              /\ UNCHANGED <<groupOf, q>>

(* The client store's record of a client changes. *)
MoveClient(i, g) == groupOf' = [groupOf EXCEPT ![i] = g] /\ UNCHANGED <<heap, eng, q>>
-----------------------------------------------------------------------------
(* The group of a client: the stored one if the configuration has it. *)
GroupFor(c, i) == IF groupOf[i] \in DOMAIN c.groups THEN c.groups[groupOf[i]] ELSE c.groups[Default]

Active(g, now) == {n \in 1..Len(g.schedules) : ActiveAt(g.schedules[n].window, now[1], now[2])}

(* What a query should be answered, by what the engine holds and by the    *)
(* windows that the schedules mean: the lists that block the name, none if *)
(* an allowlist has it or if the lists cannot hold such a name.            *)
Effective(g, now) ==
  LET open == {n \in 1..Len(g.schedules) : InWindow(g.schedules[n].window, now[1], now[2])}
  IN  {g.base[n] : n \in 1..Len(g.base)}
      \cup UNION {{g.schedules[n].block[m] : m \in 1..Len(g.schedules[n].block)} : n \in open}
Culprits(c, g, now, name, h) ==
  LET allowed == Entries(c.allow) \cup Entries(g.allow) \cup h[eng.customAllow].terminal
      maps == h[eng.lists]
  IN  IF ~Normal(name) \/ Under(name, allowed) THEN {}
      ELSE {l \in Effective(g, now) : maps[l] # None /\ Under(name, maps[l].terminal)}
           \cup (IF Under(name, h[eng.custom].terminal) THEN {Custom} ELSE {})

For(i, client, name, now) ==
  /\ q[i].at = "idle"
  /\ LET g == GroupFor(eng.cfg, client)
     IN  q' = [q EXCEPT ![i] = [at |-> "allow", name |-> name, cfg |-> eng.cfg, group |-> g, now |-> now,
                                lists |-> eng.lists, custom |-> eng.custom, customAllow |-> eng.customAllow,
                                list |-> None, reason |-> "none",
                                want |-> Culprits(eng.cfg, g, now, name, heap)]]
  /\ UNCHANGED <<heap, eng, groupOf>>

(* Evaluate goes on at another place, or returns a decision. *)
Go(i, at) == /\ q' = [q EXCEPT ![i] = [q[i] EXCEPT !.at = at]]
             /\ UNCHANGED <<heap, eng, groupOf>>
Decide(i, reason, list) ==
  /\ q' = [q EXCEPT ![i] = [q[i] EXCEPT !.at = "done", !.reason = reason, !.list = list]]
  /\ UNCHANGED <<heap, eng, groupOf>>

matchList(i, l) == LET t == heap[q[i].lists][l] IN t # None /\ Match(t, q[i].name)
Hits(i, block) == {n \in 1..Len(block) : matchList(i, block[n])}
First(S) == CHOOSE n \in S : \A m \in S : n <= m

CheckAllow(i) ==
  /\ q[i].at = "allow"
  /\ IF \/ Match(Compiled(q[i].cfg.allow), q[i].name)
        \/ Match(heap[q[i].customAllow], q[i].name)
        \/ Match(Compiled(q[i].group.allow), q[i].name)
     THEN Decide(i, "none", None) ELSE Go(i, "base")

CheckBase(i) ==
  /\ q[i].at = "base"
  /\ LET hits == Hits(i, q[i].group.base)
     IN  IF hits # {} THEN Decide(i, "blocklist", q[i].group.base[First(hits)]) ELSE Go(i, "schedule")

CheckSchedules(i) ==
  /\ q[i].at = "schedule"
  /\ LET s == q[i].group.schedules
         hits == {n \in Active(q[i].group, q[i].now) : Hits(i, s[n].block) # {}}
     IN  IF hits # {}
         THEN Decide(i, "schedule", s[First(hits)].block[First(Hits(i, s[First(hits)].block))])
         ELSE Go(i, "custom")

CheckCustom(i) ==
  /\ q[i].at = "custom"
  /\ IF Match(heap[q[i].custom], q[i].name) THEN Decide(i, "blocklist", Custom) ELSE Decide(i, "none", None)

Answer(i) == /\ q[i].at = "done"
             /\ q' = [q EXCEPT ![i] = NoQuery]
             /\ heap' = Collect(heap, eng, q')
             /\ UNCHANGED <<eng, groupOf>>

Evaluate(i) == CheckAllow(i) \/ CheckBase(i) \/ CheckSchedules(i) \/ CheckCustom(i)

Update == /\ updates < MaxUpdates /\ updates' = updates + 1
          /\ \/ \E p \in Patterns : \/ AddCustomBlock(p) \/ RemoveCustomBlock(p)
                                   \/ AddCustomAllow(p) \/ RemoveCustomAllow(p)
             \/ \E l \in Lists, feed \in Feeds \cup {None} : ReplaceList(l, feed)
             \/ \E c \in Configs : ReloadConfig(c)
             \/ \E i \in Clients, g \in Groups : MoveClient(i, g)

Query(i) == /\ \/ \E c \in Clients, name \in Names, now \in Times : For(i, c, name, now)
               \/ Evaluate(i) \/ Answer(i)
            /\ UNCHANGED updates

Next == Update \/ \E i \in Queries : Query(i)

Spec == Init /\ [][Next]_vars
-----------------------------------------------------------------------------
Tries == {heap[eng.custom], heap[eng.customAllow]} \cup {heap[eng.lists][l] : l \in {x \in Lists : heap[eng.lists][x] # None}}

TypeOK == /\ eng.cfg \in Configs /\ Compiles(eng.cfg)
          /\ Reach(eng) \subseteq Refs /\ Cardinality(Reach(eng)) = 3
          /\ DOMAIN heap = Refs /\ DOMAIN heap[eng.lists] = Lists
          /\ \A t \in Tries : TrieOK(t)
          /\ groupOf \in [Clients -> Groups \cup {None}]
          /\ updates \in 0..MaxUpdates
          /\ \A i \in Queries : q[i].at \in {"idle", "allow", "base", "schedule", "custom", "done"}

(* A query is blocked exactly when, at the moment it asked, some list in   *)
(* effect for its group (or the custom list) had a suffix of the name and  *)
(* no allowlist did; updates that arrive while it is evaluated do not      *)
(* matter.  The list that is blamed is one of those, and a schedule or the *)
(* custom list only if no earlier kind of list is.                         *)
DecisionsRight ==
  \A i \in Queries : q[i].at = "done" =>
    LET base == {q[i].group.base[n] : n \in 1..Len(q[i].group.base)}
    IN  /\ q[i].reason = "none" <=> q[i].want = {}
        /\ q[i].reason # "none" => q[i].list \in q[i].want
        /\ q[i].reason = "schedule" => q[i].want \cap base = {}
        /\ q[i].list = Custom => q[i].want = {Custom}

(* What holds between any two steps of queries and updates: well-typed     *)
(* state, tries that lost no node a query may be walking on, and right     *)
(* decisions.                                                              *)
Consistent == TypeOK /\ DecisionsRight
=============================================================================
