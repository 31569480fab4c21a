------------------------------- MODULE MCCache -------------------------------
(***************************************************************************)
(* A small instance of Cache: three questions, a limit of one or two       *)
(* entries, half-second ticks.  The messages are an answer whose shortest  *)
(* record is below one minimum, one that the maximum clamps, an NXDOMAIN   *)
(* and a SERVFAIL that must not be stored.                                 *)
(***************************************************************************)
EXTENDS Cache

MCMsgs == {[rcode |-> "NOERROR", answer |-> {1, 3}, ns |-> {2}],
           [rcode |-> "NOERROR", answer |-> {3}, ns |-> {}],
           [rcode |-> "NXDOMAIN", answer |-> {}, ns |-> {3}],
           [rcode |-> "SERVFAIL", answer |-> {}, ns |-> {}]}

MCDefaults == [maxEntries |-> 2, minTTL |-> 2, maxTTL |-> 5, negTTL |-> 3]

MCOptionSets == {[maxEntries |-> 0, minTTL |-> 0, maxTTL |-> 0, negTTL |-> 0],
                 [maxEntries |-> 1, minTTL |-> 4, maxTTL |-> 4, negTTL |-> 1]}

MCSymmetry == Permutations(Keys)
=============================================================================
