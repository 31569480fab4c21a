---------------------------- MODULE LoginLimiter ----------------------------
(***************************************************************************)
(* The fixed-window limiter of internal/api/ratelimit.go: five logins per  *)
(* host and minute, and the API's own limit.  allowWith reads the clock    *)
(* before it takes the mutex, so that requests may be counted in another   *)
(* order than they were timed, and windows that are over are pruned.       *)
(***************************************************************************)
EXTENDS Integers, FiniteSets

CONSTANTS Hosts, Requests, Limit, Window,
          MaxClock, MaxAsks, NoWindow

ASSUME LoginLimiterAssumption ==
    /\ Limit \in Nat \ {0} /\ Window \in Nat \ {0} /\ MaxClock \in Nat /\ MaxAsks \in Nat
    /\ NoWindow \notin [count : Nat, reset : Nat] \cup Nat

VARIABLES wall,      \* the clock
          entries,   \* rateLimiter.entries, NoWindow where the map has no key
          pruneAt,   \* nextPrune, NoWindow: the zero time
          asked,     \* a request's `now', NoWindow while it is not in allowWith
          passed,    \* history: requests let through, with the window that counted them
          late,      \* history: a request was timed before a pruning and counted after it
          asks

windowVars == <<wall, entries, pruneAt, asked, passed, late, asks>>

WindowInit == /\ wall = 0 /\ pruneAt = NoWindow
              /\ entries = [h \in Hosts |-> NoWindow]
              /\ asked = [r \in Requests |-> NoWindow]
              /\ passed = {}
              /\ late = FALSE /\ asks = 0

WallTick == /\ wall < MaxClock
            /\ wall' = wall + 1
            /\ UNCHANGED <<entries, pruneAt, asked, passed, late, asks>>

Ask(r) == /\ asked[r] = NoWindow /\ asks < MaxAsks
          /\ asks' = asks + 1
          /\ asked' = [asked EXCEPT ![r] = wall]
          /\ UNCHANGED <<wall, entries, pruneAt, passed, late>>

Over(entry, now) == entry = NoWindow \/ now > entry.reset

(* pruneLocked, when it is due. *)
PruneDue(now) == pruneAt = NoWindow \/ now > pruneAt
prunedEntries(now) == [h \in Hosts |-> IF PruneDue(now) /\ Over(entries[h], now) THEN NoWindow ELSE entries[h]]

PassesM(count) == count - 1 <= Limit
Passes(count) == count <= Limit

allowWith(r, h) ==
    /\ asked[r] # NoWindow
    /\ LET now == asked[r]
           left == prunedEntries(now)
           entry == IF Over(left[h], now) THEN [count |-> 1, reset |-> now + Window]
                    ELSE [left[h] EXCEPT !.count = left[h].count + 1]
       IN  /\ entries' = [left EXCEPT ![h] = entry]
           /\ pruneAt' = IF PruneDue(now) THEN now + Window ELSE pruneAt
           /\ passed' = IF ~Passes(entry.count) THEN passed
                        ELSE passed \cup {[host |-> h, at |-> now, reset |-> entry.reset, nth |-> entry.count]}
           /\ late' = (late \/ (pruneAt # NoWindow /\ now + Window < pruneAt))
    /\ asked' = [asked EXCEPT ![r] = NoWindow]
    /\ UNCHANGED <<wall, asks>>

WindowNext == \/ WallTick
              \/ \E r \in Requests : Ask(r) \/ \E h \in Hosts : allowWith(r, h)

WindowSpec == WindowInit /\ [][WindowNext]_windowVars
-----------------------------------------------------------------------------
Within(h, t) == {a \in passed : a.host = h /\ a.at \in t..(t + Window)}

Overtaken(a) == a.at + Window < a.reset      \* counted in a window that was opened after it

(* A host gets at most the limit twice in any time as long as a window, as *)
(* fixed windows allow at their edges, unless requests overtake one        *)
(* another between the clock and the mutex: then a third window may count  *)
(* requests of that time, but the opening requests of the first and of the *)
(* third are outside it.  Not promised once a request was timed before a   *)
(* pruning and counted after it: it reopens a window that is over          *)
(* (ratelimit.go:46).                                                      *)
AttemptsBounded == ~late => \A h \in Hosts : \A t \in 0..MaxClock :
    \/ Cardinality(Within(h, t)) <= 2 * Limit
    \/ /\ \E a \in Within(h, t) : Overtaken(a)
       /\ Cardinality(Within(h, t)) <= 3 * Limit - 2
=============================================================================
