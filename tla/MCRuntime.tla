------------------------------ MODULE MCRuntime ------------------------------
(***************************************************************************)
(* The components beside the answering of queries that keep state of their *)
(* own and do not share it: rate limiter, statistics, top lists, log files *)
(* and log subscribers.  A behaviour chooses one of them and lets the      *)
(* others rest, so that one run checks all without their product.          *)
(***************************************************************************)
EXTENDS RateLimiter, Statistics, TopCounters, LogFiles, Fanout

VARIABLE focus

rest == <<limiterVars, statsVars, topVars, logVars, fanoutVars>>

MCInit == /\ focus \in {"limiter", "stats", "top", "log", "fanout"}
          /\ LimiterInit /\ StatsInit /\ TopInit /\ LogInit /\ FanoutInit

MCNext == /\ UNCHANGED focus
          /\ \/ focus = "limiter" /\ LimiterNext /\ UNCHANGED <<statsVars, topVars, logVars, fanoutVars>>
             \/ focus = "stats" /\ StatsNext /\ UNCHANGED <<limiterVars, topVars, logVars, fanoutVars>>
             \/ focus = "top" /\ TopNext /\ UNCHANGED <<limiterVars, statsVars, logVars, fanoutVars>>
             \/ focus = "log" /\ LogNext /\ UNCHANGED <<limiterVars, statsVars, topVars, fanoutVars>>
             \/ focus = "fanout" /\ FanoutNext /\ UNCHANGED <<limiterVars, statsVars, topVars, logVars>>

MCSpec == MCInit /\ [][MCNext]_<<focus, rest>>
=============================================================================
