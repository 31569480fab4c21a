----------------------------- MODULE TopCounters -----------------------------
(***************************************************************************)
(* The bounded table of the most queried domains, Counters.domains of      *)
(* internal/stats/counters.go (the tables of blocked domains and of        *)
(* clients are its copies): when it is full and a new domain comes, it is  *)
(* pruned to the heaviest PruneTo.  Every operation holds the mutex.       *)
(***************************************************************************)
EXTENDS Integers, FiniteSets

CONSTANTS TopDomains, MaxTracked, PruneTo,
          MaxAdds   \* bound on the modelled queries

ASSUME TopAssumption == /\ PruneTo \in Nat /\ MaxTracked \in Nat /\ PruneTo < MaxTracked
                        /\ MaxAdds \in Nat

VARIABLES top,    \* Counters.domains, 0 for no entry
          adds

topVars == <<top, adds>>

TopInit == /\ top = [d \in TopDomains |-> 0] /\ adds = 0

Tracked(t) == {d \in TopDomains : t[d] > 0}

(* pruneTopCounters; equal counts in any order, which the code decides by  *)
(* name.                                                                   *)
pruneTopCountersM(t) == {[d \in TopDomains |-> IF d \in kept THEN t[d] ELSE 0] :
                 kept \in {ds \in SUBSET Tracked(t) :
                             /\ Cardinality(ds) = PruneTo
                             /\ \A d \in ds, e \in Tracked(t) \ ds : t[d] <= t[e]}}
pruneTopCounters(t) == {[d \in TopDomains |-> IF d \in kept THEN t[d] ELSE 0] :
                kept \in {ds \in SUBSET Tracked(t) :
                            /\ Cardinality(ds) = PruneTo
                            /\ \A d \in ds, e \in Tracked(t) \ ds : t[d] >= t[e]}}

incrementTopCounter(t, d) ==
    {[u EXCEPT ![d] = u[d] + 1] :
        u \in IF t[d] = 0 /\ Cardinality(Tracked(t)) >= MaxTracked THEN pruneTopCounters(t) ELSE {t}}

AddDomain(d) == /\ adds < MaxAdds
                /\ adds' = adds + 1
                /\ top' \in incrementTopCounter(top, d)

TopNext == \E d \in TopDomains : AddDomain(d)
TopSpec == TopInit /\ [][TopNext]_topVars
-----------------------------------------------------------------------------
(* The table stays within its bound, a domain that stays loses nothing,    *)
(* and one is dropped only when as many others as are kept were counted as *)
(* often.                                                                  *)
TopKept == [][/\ Cardinality(Tracked(top')) <= MaxTracked
              /\ \A d \in TopDomains : top'[d] # 0 => top'[d] \in {top[d], top[d] + 1}
              /\ \A d \in TopDomains : top[d] > 0 /\ top'[d] = 0 =>
                    Cardinality({e \in TopDomains \ {d} : top[e] >= top[d]}) >= PruneTo]_topVars
=============================================================================
