----------------------------- MODULE ConfigApply -----------------------------
(***************************************************************************)
(* How a new configuration reaches the running program: applyConfig of     *)
(* internal/api/config_mutation.go, behind every API call that changes     *)
(* settings and behind POST /system/config/reload, and Reloader.Reload,    *)
(* behind SIGHUP.  Both hand the configuration to one component after the  *)
(* other, and to the holder last; no lock covers the sequence.             *)
(*                                                                         *)
(* A configuration is the set of edits made to the one first started with. *)
(***************************************************************************)
EXTENDS Integers, Sequences

CONSTANTS Edits,      \* edits that pass config.Validate
          Refused,    \* those among them that the policy engine cannot compile
          Actors,     \* concurrent API requests and reloads
          MaxCalls,   \* bound on the calls of a behaviour
          MaxCrashes

ASSUME ApplyAssumption == /\ Refused \subseteq Edits
                          /\ MaxCalls \in Nat
                          /\ MaxCrashes \in Nat

Config == SUBSET Edits

(* The order in which components get the new configuration.  "salt" is the *)
(* Save of a generated log salt and "clients" the seeding of the store;    *)
(* "serving" stands for upstream pool, cache and pipeline, three calls in  *)
(* a row that cannot fail.                                                 *)
APIOrderM == <<"file", "history", "policy", "auditLog", "serving", "holder">>
APIOrder == <<"file", "history", "policy", "queryLog", "auditLog", "serving", "holder">>
HUPOrder == <<"salt", "policy", "clients", "queryLog", "auditLog", "serving", "history", "holder">>

Runtime == {"policy", "queryLog", "auditLog", "serving", "holder"}
Fallible == {"file", "salt", "clients", "history", "queryLog", "auditLog"}

VARIABLES up,       \* the process runs
          file,     \* the YAML file
          has,      \* has[c]: the configuration that component c works with
          booted,   \* the configuration that the process was started with
          history,  \* the snapshots in the store
          actor,    \* the calls under way
          acked,    \* edits whose request was answered with success
          calls, crashes,
          \* history of the calls that overlap:
          contest,   \* edits they disagree about, since there was last no call
          contested, \* edits that overlapping calls ever disagreed about
          healed     \* a call succeeded since there was last no call

races == <<contest, contested>>
vars == <<up, file, has, booted, history, actor, acked, calls, crashes, races, healed>>

NoCall == [at |-> 0, via |-> "none", next |-> {}, edit |-> {}]

Init == /\ up = TRUE
        /\ file = {}
        /\ has = [c \in Runtime \cup {"clients"} |-> {}]
        /\ booted = {} /\ history = {}
        /\ actor = [a \in Actors |-> NoCall]
        /\ acked = {}
        /\ calls = 0 /\ crashes = 0
        /\ contest = {} /\ contested = {} /\ healed = FALSE

Order(a) == IF actor[a].via = "hup" THEN HUPOrder ELSE APIOrder
Stage(a) == Order(a)[actor[a].at]
Busy(a) == actor[a].at > 0

Others(a) == {b \in Actors \ {a} : Busy(b)}
Differ(c, d) == (c \ d) \cup (d \ c)

(* A call begins with the configuration it is going to apply; the calls    *)
(* under way may know nothing of it.                                       *)
Enter(a, via, next, edit) ==
    LET disputed == UNION {Differ(next, actor[b].next) : b \in Others(a)} IN
    /\ calls < MaxCalls /\ calls' = calls + 1
    /\ actor' = [actor EXCEPT ![a] = [at |-> 1, via |-> via, next |-> next, edit |-> edit]]
    /\ contest' = IF Others(a) = {} THEN {} ELSE contest \cup disputed
    /\ contested' = contested \cup disputed
    /\ healed' = (healed /\ Others(a) # {})

Leave(a) == actor' = [actor EXCEPT ![a] = NoCall]
Last(a) == actor[a].at = Len(Order(a))
Advance(a) == /\ IF Last(a) THEN Leave(a)
                 ELSE actor' = [actor EXCEPT ![a] = [actor[a] EXCEPT !.at = actor[a].at + 1]]
              /\ healed' = (healed \/ Last(a))
-----------------------------------------------------------------------------
(* A request that changes a setting edits a copy of what the holder has.   *)
MutateM(a, e) == /\ up /\ ~Busy(a)
                 /\ e \notin has["holder"]
                 /\ Enter(a, "api", booted \cup {e}, {e})
                 /\ UNCHANGED <<booted, up, file, has, history, acked, crashes>>
Mutate(a, e) == /\ up /\ ~Busy(a)
                /\ e \notin has["holder"]
                /\ Enter(a, "api", has["holder"] \cup {e}, {e})
                /\ UNCHANGED <<booted, up, file, has, history, acked, crashes>>

(* POST /system/config/reload and SIGHUP start from the file. *)
Reload(a, via) == /\ up /\ ~Busy(a)
                  /\ Enter(a, via, file, {})
                  /\ UNCHANGED <<booted, up, file, has, history, acked, crashes>>

SaveFileM(a) == /\ Busy(a) /\ Stage(a) = "file"
                /\ Advance(a)
                /\ UNCHANGED <<booted, up, file, has, history, acked, calls, crashes, races>>
SaveFile(a) == /\ Busy(a) /\ Stage(a) = "file"
               /\ file' = actor[a].next
               /\ Advance(a)
               /\ UNCHANGED <<booted, up, has, history, acked, calls, crashes, races>>

(* The salt is saved if the file had none. *)
SaveSalt(a) == /\ Busy(a) /\ Stage(a) = "salt"
               /\ file' \in {file, actor[a].next}
               /\ Advance(a)
               /\ UNCHANGED <<booted, up, has, history, acked, calls, crashes, races>>

AppendHistory(a) == /\ Busy(a) /\ Stage(a) = "history"
                    /\ history' = history \cup {actor[a].next}
                    /\ Advance(a)
                    /\ UNCHANGED <<booted, up, file, has, acked, calls, crashes, races>>

(* ReloadConfig compiles groups and allowlists before it takes any over. *)
Compiles(c) == c \cap Refused = {}

ReloadPolicyM(a) == /\ Busy(a) /\ Stage(a) = "policy"
                    /\ has' = [has EXCEPT !["policy"] = actor[a].next]
                    /\ Advance(a)
                    /\ UNCHANGED <<booted, up, file, history, acked, calls, crashes, races>>
ReloadPolicy(a) == /\ Busy(a) /\ Stage(a) = "policy"
                   /\ Compiles(actor[a].next)
                   /\ has' = [has EXCEPT !["policy"] = actor[a].next]
                   /\ Advance(a)
                   /\ UNCHANGED <<booted, up, file, history, acked, calls, crashes, races>>

(* Reconfigure of the logs, Replace of the upstreams, Reconfigure of cache *)
(* and pipeline, seeding of clients.                                       *)
Reconfigure(a) == /\ Busy(a)
                  /\ Stage(a) \in {"clients", "queryLog", "auditLog", "serving"}
                  /\ has' = [has EXCEPT ![Stage(a)] = actor[a].next]
                  /\ Advance(a)
                  /\ UNCHANGED <<booted, up, file, history, acked, calls, crashes, races>>

Replace(a) == /\ Busy(a) /\ Stage(a) = "holder"
              /\ has' = [has EXCEPT !["holder"] = actor[a].next]
              /\ acked' = acked \cup actor[a].edit
              /\ Advance(a)
              /\ UNCHANGED <<booted, up, file, history, calls, crashes, races>>

(* The first stage that fails ends the call; nothing is taken back. *)
Fail(a) == /\ Busy(a)
           /\ \/ Stage(a) \in Fallible
              \/ Stage(a) = "policy" /\ ~Compiles(actor[a].next)
           /\ Leave(a)
           /\ UNCHANGED <<booted, up, file, has, history, acked, calls, crashes, races, healed>>

apply(a) == \/ SaveFile(a) \/ SaveSalt(a) \/ AppendHistory(a) \/ ReloadPolicy(a)
            \/ Reconfigure(a) \/ Replace(a) \/ Fail(a)
-----------------------------------------------------------------------------
(* The operator's editor (external). *)
EditFile(e) == /\ e \notin file
               /\ file' = file \cup {e}
               /\ UNCHANGED <<booted, up, has, history, actor, acked, calls, crashes, races, healed>>

Repair == /\ ~up
          /\ ~Compiles(file)
          /\ file' = file \ Refused
          /\ UNCHANGED <<booted, up, has, history, actor, acked, calls, crashes, races, healed>>

Crash == /\ up /\ crashes < MaxCrashes
         /\ up' = FALSE
         /\ crashes' = crashes + 1
         /\ actor' = [a \in Actors |-> NoCall]
         /\ UNCHANGED <<booted, file, has, history, acked, calls, races, healed>>

(* runServe: load the file and build every component from it, or exit. *)
runServe == /\ ~up
            /\ Compiles(file)
            /\ up' = TRUE
            /\ has' = [c \in DOMAIN has |-> file]
            /\ booted' = file
            /\ UNCHANGED <<file, history, actor, acked, calls, crashes, races, healed>>

Next == \/ \E a \in Actors : \/ \E e \in Edits : Mutate(a, e)
                             \/ \E via \in {"api", "hup"} : Reload(a, via)
                             \/ apply(a)
        \/ \E e \in Edits : EditFile(e)
        \/ Repair \/ Crash \/ runServe

Spec == Init /\ [][Next]_vars

(* API requests and restarts only: nobody edits the file by hand. *)
APINext == \/ \E a \in Actors : (\E e \in Edits : Mutate(a, e)) \/ apply(a)
           \/ Crash \/ runServe
APISpec == Init /\ [][APINext]_vars
-----------------------------------------------------------------------------
TypeOK == /\ up \in BOOLEAN
          /\ file \in Config
          /\ has \in [Runtime \cup {"clients"} -> Config]
          /\ booted \in Config /\ history \subseteq Config
          /\ actor \in [Actors -> [at : 0..Len(HUPOrder), via : {"none", "api", "hup"}, next : Config,
                                   edit : Config]]
          /\ acked \in Config
          /\ calls \in 0..MaxCalls /\ crashes \in 0..MaxCrashes
          /\ contest \in Config /\ contested \in Config /\ healed \in BOOLEAN

(* However requests and reloads interleave and fail, the policy engine and *)
(* the holder never have a configuration that does not compile.            *)
NeverRefused == up => /\ Compiles(has["policy"])
                      /\ Compiles(has["holder"])

(* Every configuration that the holder ever gets is a snapshot of the      *)
(* history first, or the one the process was started with: what was in     *)
(* force can be read there.                                                *)
HolderInHistory == up => has["holder"] \in history \cup {booted}

(* Calls that overlap have no lock between them: their turns at the file   *)
(* and at the holder may come in different orders, so that one ends with   *)
(* what one of them wrote and the other with what another did.  That is    *)
(* all they can do: what the holder has is in the file, except for edits   *)
(* that overlapping calls disagreed about.                                 *)
FileAgrees == up => has["holder"] \ file \subseteq contested

Quiet == up /\ \A a \in Actors : ~Busy(a)

(* When all calls have ended and one of those that overlapped succeeded,   *)
(* the components differ in nothing but what these calls disagreed about,  *)
(* whatever failures and overlaps before them left behind.  A change that  *)
(* succeeds with no other call beside it brings all to one configuration.  *)
SuccessHeals == Quiet /\ healed =>
                   \A c \in Runtime : Differ(has[c], has["holder"]) \subseteq contest

(* An edit that was answered with success is in the file, whatever failed, *)
(* overlapped or was retried since, so that a restart keeps it, unless a   *)
(* call that did not know of it overlapped one that did.                   *)
AckedDurable == acked \ contested \subseteq file

(* SPECIFICATION.md 9.2: "REST -> validate -> persist -> swap".  What the  *)
(* API persists can be started from.                                       *)
Restartable == Compiles(file)

(* What holds between any two stages of concurrent requests and reloads,   *)
(* wherever they failed: well-typed state, nothing in force that does not  *)
(* compile, nothing in force that was not recorded, and no more between    *)
(* file and holder than overlapping calls disagreed about.                 *)
Consistent == TypeOK /\ NeverRefused /\ HolderInHistory /\ FileAgrees
=============================================================================
