------------------------------- MODULE MCAdmin -------------------------------
(***************************************************************************)
(* The state that the administration API keeps beside the configuration:   *)
(* sessions, custom lists and the limiter of logins.  They share nothing,  *)
(* so a behaviour chooses one of them and lets the others rest.            *)
(***************************************************************************)
EXTENDS Sessions, CustomLists, LoginLimiter, TLC

VARIABLE focus

MCInit == /\ focus \in {"sessions", "lists", "logins"}
          /\ SessionsInit /\ ListInit /\ WindowInit

MCNext == /\ UNCHANGED focus
          /\ \/ focus = "sessions" /\ SessionsNext /\ UNCHANGED <<listVars, windowVars>>
             \/ focus = "lists" /\ ListNext /\ UNCHANGED <<sessionVars, windowVars>>
             \/ focus = "logins" /\ WindowNext /\ UNCHANGED <<sessionVars, listVars>>

MCSpec == MCInit /\ [][MCNext]_<<focus, sessionVars, listVars, windowVars>>

Alike == Permutations(Handlers) \cup Permutations(Users)
=============================================================================
