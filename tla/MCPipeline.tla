----------------------------- MODULE MCPipeline -----------------------------
(***************************************************************************)
(* Two clients, one of them in a group that blocks a name, the other not   *)
(* known yet; a second name is local.  The configuration has an entry for  *)
(* the first, with the group or, when it is loaded again, without one.     *)
(***************************************************************************)
EXTENDS Pipeline, TLC

CONSTANTS c1, n1, kids

MCConfigs == {c1 :> kids, c1 :> None}

MCInit == /\ Init
          /\ record = [c \in Clients |-> IF c = c1 THEN kids ELSE None]
          /\ blocks = [g \in Groups |-> IF g = kids THEN {n1} ELSE {}]

(* Steps left out to keep the run small.  A query goes on at once when it  *)
(* has arrived, and leaves when it is answered: waiting there is arriving  *)
(* later.  Only the new client asks for the local name, and only for it    *)
(* debounce time passes while the server runs.                             *)
MCNext == /\ Next
          /\ \A s \in Slots : query[s].at \in {"start", "done"} => query'[s].at # query[s].at
          /\ \A s \in Slots : query'[s].name \in Local => query'[s].client # c1
          /\ c1 \in touched => c1 \in touched' \/ faults' # faults

MCSpec == MCInit /\ [][MCNext]_vars

Handlers == Permutations(Slots)
=============================================================================
