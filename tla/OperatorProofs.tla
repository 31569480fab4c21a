--------------------------- MODULE OperatorProofs ---------------------------
(***************************************************************************)
(* Proofs about what an operator does to a running installation: changes   *)
(* of the configuration, and commands on the SQLite store.                 *)
(*                                                                         *)
(* Configuration, for any number of concurrent calls, edits and restarts:  *)
(* the properties speak of components; why they hold is in the calls.  One *)
(* that has passed the policy stage carries a configuration that compiles, *)
(* one that has passed the history stage carries one that is recorded.     *)
(* What a call carries differs from the file, the holder and the other     *)
(* calls under way only in what overlapping calls disagree about.          *)
(*                                                                         *)
(* Store, for any records, old databases, interruptions and commands: an   *)
(* opener has made the tables behind it agree with kv, and carries what    *)
(* is missing in the one that it is at.                                    *)
(***************************************************************************)
EXTENDS ConfigApply, StoreTransfer, TLAPS

PolicyAt(via) == IF via = "hup" THEN 2 ELSE 3
HistoryAt(via) == IF via = "hup" THEN 7 ELSE 2
HolderAt(via) == IF via = "hup" THEN 8 ELSE 7

Passed(a) == /\ actor[a].at <= HolderAt(actor[a].via)
             /\ actor[a].at > PolicyAt(actor[a].via) => Compiles(actor[a].next)
             /\ actor[a].at > HistoryAt(actor[a].via) => actor[a].next \in history

Inv == /\ TypeOK
       /\ \A a \in Actors : Passed(a)
       /\ Compiles(has["policy"]) /\ Compiles(has["holder"])
       /\ has["holder"] \in history \cup {booted}

Call == [at : 0..8, via : {"none", "api", "hup"}, next : Config, edit : Config]

LEMMA OrderLengths == Len(HUPOrder) = 8 /\ Len(APIOrder) = 7
  BY DEF HUPOrder, APIOrder

(* Where the stages that matter stand in the two orders. *)
LEMMA Stages ==
  ASSUME NEW a \in Actors, actor[a] \in Call, Busy(a), actor[a].at <= HolderAt(actor[a].via)
  PROVE  /\ Stage(a) = "policy" <=> actor[a].at = PolicyAt(actor[a].via)
         /\ Stage(a) = "history" <=> actor[a].at = HistoryAt(actor[a].via)
         /\ Stage(a) = "holder" <=> actor[a].at = HolderAt(actor[a].via)
         /\ Len(Order(a)) = HolderAt(actor[a].via)
<1>1. CASE actor[a].via = "hup"
  <2>1. /\ HUPOrder[1] = "salt" /\ HUPOrder[2] = "policy" /\ HUPOrder[3] = "clients"
        /\ HUPOrder[4] = "queryLog" /\ HUPOrder[5] = "auditLog" /\ HUPOrder[6] = "serving"
        /\ HUPOrder[7] = "history" /\ HUPOrder[8] = "holder"
    BY DEF HUPOrder
  <2>2. actor[a].at \in 1..8
    BY <1>1 DEF Busy, Call, HolderAt
  <2> QED
    BY <1>1, <2>1, <2>2, OrderLengths DEF Stage, Order, PolicyAt, HistoryAt, HolderAt
<1>2. CASE actor[a].via # "hup"
  <2>1. /\ APIOrder[1] = "file" /\ APIOrder[2] = "history" /\ APIOrder[3] = "policy"
        /\ APIOrder[4] = "queryLog" /\ APIOrder[5] = "auditLog" /\ APIOrder[6] = "serving"
        /\ APIOrder[7] = "holder"
    BY DEF APIOrder
  <2>2. actor[a].at \in 1..7
    BY <1>2 DEF Busy, Call, HolderAt
  <2> QED
    BY <1>2, <2>1, <2>2, OrderLengths DEF Stage, Order, PolicyAt, HistoryAt, HolderAt
<1> QED
  BY <1>1, <1>2

LEMMA CallTypes == TypeOK => actor \in [Actors -> Call]
  BY OrderLengths DEF TypeOK, Call

LEMMA TypeFromParts ==
  ASSUME up \in BOOLEAN, file \in Config, has \in [Runtime \cup {"clients"} -> Config],
         booted \in Config, history \subseteq Config, actor \in [Actors -> Call],
         acked \in Config, calls \in 0..MaxCalls, crashes \in 0..MaxCrashes,
         contest \in Config, contested \in Config, healed \in BOOLEAN
  PROVE  TypeOK
  BY OrderLengths DEF TypeOK, Call

(* A step that changes one call keeps what is known of calls, if the new   *)
(* state of that call has it.                                              *)
LEMMA CallStep ==
  ASSUME Inv, history \subseteq history', NEW a \in Actors, NEW v \in Call,
         actor' = [actor EXCEPT ![a] = v],
         v.at <= HolderAt(v.via),
         v.at > PolicyAt(v.via) => Compiles(v.next),
         v.at > HistoryAt(v.via) => v.next \in history'
  PROVE  actor' \in [Actors -> Call] /\ \A b \in Actors : Passed(b)'
<1>1. actor \in [Actors -> Call] /\ \A b \in Actors : Passed(b)
  BY CallTypes DEF Inv
<1>2. ASSUME NEW b \in Actors PROVE Passed(b)'
  <2>1. CASE b = a
    BY <1>1, <2>1 DEF Passed
  <2>2. CASE b # a
    BY <1>1, <2>2 DEF Passed
  <2> QED
    BY <2>1, <2>2
<1> QED
  BY <1>1, <1>2

LEMMA LeaveStep ==
  ASSUME Inv, history \subseteq history', NEW a \in Actors, Leave(a)
  PROVE  actor' \in [Actors -> Call] /\ \A b \in Actors : Passed(b)'
<1> DEFINE v == NoCall
<1>1. v \in Call /\ v.at = 0
  BY DEF NoCall, Call, Config
<1>2. actor' = [actor EXCEPT ![a] = v]
  BY DEF Leave
<1> HIDE DEF v
<1>3. v.at <= HolderAt(v.via) /\ ~(v.at > PolicyAt(v.via)) /\ ~(v.at > HistoryAt(v.via))
  BY <1>1 DEF HolderAt, PolicyAt, HistoryAt
<1> QED
  BY <1>1, <1>2, <1>3, CallStep

(* A call goes on past the policy stage only with a configuration that     *)
(* compiles, and past the history stage only with one that is recorded.    *)
LEMMA AdvanceStep ==
  ASSUME Inv, history \subseteq history', NEW a \in Actors, Busy(a), Advance(a),
         Stage(a) = "policy" => Compiles(actor[a].next),
         Stage(a) = "history" => actor[a].next \in history'
  PROVE  actor' \in [Actors -> Call] /\ \A b \in Actors : Passed(b)'
<1>1. actor[a] \in Call /\ Passed(a)
  BY CallTypes DEF Inv
<1>2. Len(Order(a)) = HolderAt(actor[a].via)
  BY <1>1, Stages DEF Passed
<1>3. CASE actor[a].at = Len(Order(a))
  BY <1>3, LeaveStep DEF Advance, Last
<1>4. CASE actor[a].at # Len(Order(a))
  <2> DEFINE v == [actor[a] EXCEPT !.at = actor[a].at + 1]
  <2>1. /\ v.at = actor[a].at + 1
        /\ v.via = actor[a].via
        /\ v.next = actor[a].next
        /\ actor[a].at \in 0..8
        /\ actor[a].at < HolderAt(actor[a].via)
    BY <1>1, <1>2, <1>4 DEF Call, Passed, HolderAt
  <2>2. actor[a].at + 1 \in 0..8
    BY <2>1 DEF HolderAt
  <2>3. v \in Call
    BY <1>1, <2>2 DEF Call
  <2>4. actor' = [actor EXCEPT ![a] = v]
    BY <1>4 DEF Advance, Last
  <2> HIDE DEF v
  <2>5. v.at <= HolderAt(v.via)
    BY <2>1 DEF HolderAt
  <2>6. v.at > PolicyAt(v.via) => Compiles(v.next)
    <3>1. CASE actor[a].at = PolicyAt(actor[a].via)
      BY <3>1, <1>1, <2>1, Stages DEF Passed
    <3>2. CASE actor[a].at # PolicyAt(actor[a].via)
      BY <3>2, <1>1, <2>1 DEF Passed, PolicyAt
    <3> QED
      BY <3>1, <3>2
  <2>7. v.at > HistoryAt(v.via) => v.next \in history'
    <3>1. CASE actor[a].at = HistoryAt(actor[a].via)
      BY <3>1, <1>1, <2>1, Stages DEF Passed
    <3>2. CASE actor[a].at # HistoryAt(actor[a].via)
      BY <3>2, <1>1, <2>1 DEF Passed, HistoryAt
    <3> QED
      BY <3>1, <3>2
  <2> QED
    BY <2>3, <2>4, <2>5, <2>6, <2>7, CallStep
<1> QED
  BY <1>3, <1>4

LEMMA InitInv == Init => Inv
<1> SUFFICES ASSUME Init PROVE Inv
  OBVIOUS
<1>1. NoCall \in Call /\ NoCall.at = 0
  BY DEF NoCall, Call, Config
<1>2. actor \in [Actors -> Call] /\ \A a \in Actors : actor[a].at = 0
  BY <1>1 DEF Init
<1>3. \A a \in Actors : Passed(a)
  BY <1>2 DEF Passed, HolderAt, PolicyAt, HistoryAt
<1>4. has \in [Runtime \cup {"clients"} -> Config] /\ has["policy"] = {} /\ has["holder"] = {}
  BY DEF Init, Runtime, Config
<1>5. TypeOK
  <2>1. up \in BOOLEAN
    BY DEF Init
  <2>2. crashes \in 0..MaxCrashes
    BY ApplyAssumption DEF Init
  <2>3. /\ file \in Config /\ booted \in Config /\ history \subseteq Config /\ acked \in Config
        /\ contest \in Config /\ contested \in Config
    BY DEF Init, Config
  <2>4. calls \in 0..MaxCalls
    BY ApplyAssumption DEF Init
  <2>5. healed \in BOOLEAN
    BY DEF Init
  <2> QED
    BY <1>2, <1>4, <2>1, <2>2, <2>3, <2>4, <2>5, TypeFromParts
<1> QED
  BY <1>3, <1>4, <1>5 DEF Inv, Init, Compiles

(* The parts of the invariant, for a step. *)
LEMMA InvFromParts ==
  ASSUME up' \in BOOLEAN, file' \in Config, has' \in [Runtime \cup {"clients"} -> Config],
         booted' \in Config, history' \subseteq Config, actor' \in [Actors -> Call],
         acked' \in Config, calls' \in 0..MaxCalls, crashes' \in 0..MaxCrashes,
         contest' \in Config, contested' \in Config, healed' \in BOOLEAN,
         \A b \in Actors : Passed(b)',
         Compiles(has'["policy"]), Compiles(has'["holder"]),
         has'["holder"] \in history' \cup {booted'}
  PROVE  Inv'
<1>1. TypeOK'
  BY OrderLengths DEF TypeOK, Call
<1> QED
  BY <1>1 DEF Inv, Compiles

LEMMA CallInv == ASSUME Inv, NEW a \in Actors, apply(a) PROVE Inv'
<1>1. /\ up \in BOOLEAN /\ file \in Config /\ has \in [Runtime \cup {"clients"} -> Config]
      /\ booted \in Config /\ history \subseteq Config /\ acked \in Config
      /\ calls \in 0..MaxCalls /\ crashes \in 0..MaxCrashes
      /\ contest \in Config /\ contested \in Config /\ healed \in BOOLEAN
  BY DEF Inv, TypeOK
<1>2. actor[a] \in Call /\ Passed(a)
  BY CallTypes DEF Inv
<1>3. actor[a].next \in Config /\ actor[a].edit \in Config
  BY <1>2 DEF Call
<1>4. /\ Compiles(has["policy"]) /\ Compiles(has["holder"])
      /\ has["holder"] \in history \cup {booted}
  BY DEF Inv
<1>5. "policy" \in Runtime /\ "holder" \in Runtime
  BY DEF Runtime
<1>13. Advance(a) => healed' \in BOOLEAN
  BY DEF Advance
<1>6. CASE SaveFile(a)
  BY <1>1, <1>3, <1>4, <1>6, <1>13, AdvanceStep, InvFromParts DEF SaveFile, races
<1>7. CASE SaveSalt(a)
  BY <1>1, <1>3, <1>4, <1>7, <1>13, AdvanceStep, InvFromParts DEF SaveSalt, races
<1>8. CASE AppendHistory(a)
  BY <1>1, <1>3, <1>4, <1>8, <1>13, AdvanceStep, InvFromParts DEF AppendHistory, races
<1>9. CASE ReloadPolicy(a)
  <2>1. /\ has' \in [Runtime \cup {"clients"} -> Config]
        /\ has'["policy"] = actor[a].next /\ has'["holder"] = has["holder"]
    BY <1>1, <1>3, <1>5, <1>9 DEF ReloadPolicy
  <2> QED
    BY <1>1, <1>4, <1>9, <1>13, <2>1, AdvanceStep, InvFromParts DEF ReloadPolicy, races
<1>10. CASE Reconfigure(a)
  <2>1. /\ has' \in [Runtime \cup {"clients"} -> Config]
        /\ has'["policy"] = has["policy"] /\ has'["holder"] = has["holder"]
    BY <1>1, <1>3, <1>5, <1>10 DEF Reconfigure
  <2> QED
    BY <1>1, <1>4, <1>10, <1>13, <2>1, AdvanceStep, InvFromParts DEF Reconfigure, races
<1>11. CASE Replace(a)
  <2>1. /\ has' \in [Runtime \cup {"clients"} -> Config]
        /\ has'["policy"] = has["policy"] /\ has'["holder"] = actor[a].next
    BY <1>1, <1>3, <1>5, <1>11 DEF Replace
  <2>2. Compiles(actor[a].next) /\ actor[a].next \in history
    <3>1. actor[a].at = HolderAt(actor[a].via)
      BY <1>2, <1>11, Stages DEF Replace, Passed
    <3> QED
      BY <1>2, <3>1 DEF Passed, HolderAt, PolicyAt, HistoryAt
  <2>3. acked' \in Config
    BY <1>1, <1>3, <1>11 DEF Replace, Config
  <2> QED
    BY <1>1, <1>4, <1>11, <1>13, <2>1, <2>2, <2>3, AdvanceStep, InvFromParts DEF Replace, races
<1>12. CASE Fail(a)
  BY <1>1, <1>4, <1>12, LeaveStep, InvFromParts DEF Fail, races
<1> QED
  BY <1>6, <1>7, <1>8, <1>9, <1>10, <1>11, <1>12 DEF apply

(* A call begins before the stages that its configuration must pass. *)
LEMMA EnterInv ==
  ASSUME Inv, NEW a \in Actors, NEW via \in {"api", "hup"}, NEW next \in Config,
         NEW edit \in Config, Enter(a, via, next, edit),
         UNCHANGED <<booted, up, file, has, history, acked, crashes>>
  PROVE  Inv'
<1> DEFINE v == [at |-> 1, via |-> via, next |-> next, edit |-> edit]
<1>1. v \in Call /\ v.at = 1
  BY DEF Call
<1>2. actor' = [actor EXCEPT ![a] = v]
  BY DEF Enter
<1> HIDE DEF v
<1>3. v.at <= HolderAt(v.via) /\ ~(v.at > PolicyAt(v.via)) /\ ~(v.at > HistoryAt(v.via))
  BY <1>1 DEF HolderAt, PolicyAt, HistoryAt
<1>4. actor' \in [Actors -> Call] /\ \A b \in Actors : Passed(b)'
  BY <1>1, <1>2, <1>3, CallStep
<1> DEFINE disputed == UNION {Differ(next, actor[b].next) : b \in Others(a)}
<1>5. /\ calls < MaxCalls /\ calls' = calls + 1
      /\ contest' = IF Others(a) = {} THEN {} ELSE contest \cup disputed
      /\ contested' = contested \cup disputed
      /\ healed' = (healed /\ Others(a) # {})
  BY DEF Enter
<1>6. disputed \in Config
  <2>1. \A b \in Others(a) : actor[b].next \in Config
    BY CallTypes DEF Inv, Others, Call
  <2> QED
    BY <2>1 DEF Differ, Config
<1> HIDE DEF disputed
<1>7. contest' \in Config /\ contested' \in Config
  BY <1>5, <1>6 DEF Inv, TypeOK, Config
<1>8. calls' \in 0..MaxCalls
  BY <1>5, ApplyAssumption DEF Inv, TypeOK
<1>9. healed' \in BOOLEAN
  BY <1>5
<1> QED
  BY <1>4, <1>7, <1>8, <1>9, InvFromParts DEF Inv, TypeOK

(* Hand edits, crashes and starts. *)
LEMMA WorldInv ==
  ASSUME Inv, (\E e \in Edits : EditFile(e)) \/ Repair \/ Crash \/ runServe
  PROVE  Inv'
<1>1. /\ up \in BOOLEAN /\ file \in Config /\ has \in [Runtime \cup {"clients"} -> Config]
      /\ booted \in Config /\ history \subseteq Config /\ acked \in Config
      /\ calls \in 0..MaxCalls /\ crashes \in 0..MaxCrashes /\ actor \in [Actors -> Call]
      /\ contest \in Config /\ contested \in Config /\ healed \in BOOLEAN
  BY CallTypes DEF Inv, TypeOK
<1>2. /\ Compiles(has["policy"]) /\ Compiles(has["holder"])
      /\ has["holder"] \in history \cup {booted}
      /\ \A a \in Actors : Passed(a)
  BY DEF Inv
<1>3. (UNCHANGED <<actor, history>>) => \A a \in Actors : Passed(a)'
  BY <1>2 DEF Passed
<1>4. CASE \E e \in Edits : EditFile(e)
  <2>1. file' \in Config
    BY <1>1, <1>4 DEF EditFile, Config
  <2> QED
    BY <1>1, <1>2, <1>3, <1>4, <2>1, InvFromParts DEF EditFile, races
<1>5. CASE Repair
  <2>1. file' \in Config
    BY <1>1, <1>5 DEF Repair, Config
  <2> QED
    BY <1>1, <1>2, <1>3, <1>5, <2>1, InvFromParts DEF Repair, races
<1>6. CASE Crash
  <2>1. NoCall \in Call /\ NoCall.at = 0
    BY DEF NoCall, Call, Config
  <2>2. actor' \in [Actors -> Call] /\ \A a \in Actors : actor'[a].at = 0
    BY <1>6, <2>1 DEF Crash
  <2>3. \A a \in Actors : Passed(a)'
    BY <2>2 DEF Passed, HolderAt, PolicyAt, HistoryAt
  <2>4. up' \in BOOLEAN
    BY <1>6 DEF Crash
  <2>5. crashes' \in 0..MaxCrashes
    BY <1>1, <1>6, ApplyAssumption DEF Crash
  <2> QED
    BY <1>1, <1>2, <1>6, <2>2, <2>3, <2>4, <2>5, InvFromParts DEF Crash, races
<1>7. CASE runServe
  <2>1. /\ has' \in [Runtime \cup {"clients"} -> Config]
        /\ has'["policy"] = file /\ has'["holder"] = file
    BY <1>1, <1>7 DEF runServe, Runtime
  <2>2. up' \in BOOLEAN
    BY <1>7 DEF runServe
  <2> QED
    BY <1>1, <1>3, <1>7, <2>1, <2>2, InvFromParts DEF runServe, races
<1> QED
  BY <1>4, <1>5, <1>6, <1>7

LEMMA NextInv == Inv /\ [Next]_vars => Inv'
<1> SUFFICES ASSUME Inv, [Next]_vars PROVE Inv'
  OBVIOUS
<1>1. CASE UNCHANGED vars
  BY <1>1 DEF vars, races, Inv, TypeOK, Passed, Compiles
<1>2. ASSUME NEW a \in Actors, NEW e \in Edits, Mutate(a, e) PROVE Inv'
  <2>1. has["holder"] \cup {e} \in Config /\ {e} \in Config
    BY DEF Inv, TypeOK, Config, Runtime
  <2> QED
    BY <1>2, <2>1, EnterInv DEF Mutate
<1>3. ASSUME NEW a \in Actors, NEW via \in {"api", "hup"}, Reload(a, via) PROVE Inv'
  <2>1. file \in Config /\ {} \in Config
    BY DEF Inv, TypeOK, Config
  <2> QED
    BY <1>3, <2>1, EnterInv DEF Reload
<1> QED
  BY <1>1, <1>2, <1>3, CallInv, WorldInv DEF Next

LEMMA InvCorrect == Spec => []Inv
  BY InitInv, NextInv, PTL DEF Spec

(* Components, calls and files hold configurations in every state. *)
THEOREM ApplyTypeCorrect == Spec => []TypeOK
<1>1. Inv => TypeOK
  BY DEF Inv
<1> QED
  BY InvCorrect, <1>1, PTL

(* However many requests and reloads interleave and wherever they fail,    *)
(* neither the policy engine nor the holder ever has a configuration that  *)
(* does not compile.                                                       *)
THEOREM NeverRefusedCorrect == Spec => []NeverRefused
<1>1. Inv => NeverRefused
  BY DEF Inv, NeverRefused
<1> QED
  BY InvCorrect, <1>1, PTL

(* Every configuration in force was recorded first, by requests and by     *)
(* reloads alike, or is the one of the start.                              *)
THEOREM HistoryCorrect == Spec => []HolderInHistory
<1>1. Inv => HolderInHistory
  BY DEF Inv, HolderInHistory
<1> QED
  BY InvCorrect, <1>1, PTL

-----------------------------------------------------------------------------
(* Calls that overlap.  Two configurations are near if they differ only in *)
(* what calls contest.  Calls that are under way together are near; past   *)
(* a component's stage, that component is near what the call carries; and  *)
(* whatever the holder has is, up to contested edits, in the file and in   *)
(* every call under way.                                                   *)
PlaceOf(via, c) == CASE c = "policy" -> PolicyAt(via)
                     [] c = "queryLog" -> 4
                     [] c = "auditLog" -> 5
                     [] c = "serving" -> 6
                     [] c = "holder" -> HolderAt(via)

Near(k, c, d) == Differ(c, d) \subseteq k
Keeps(k, c, d) == c \ k \subseteq d

Told(a) == /\ up
           /\ actor[a].edit \subseteq actor[a].next
           /\ Keeps(contested, has["holder"], actor[a].next)
           /\ actor[a].via = "hup" \/ actor[a].at > 1 => Keeps(contested, actor[a].next, file)
           /\ \A c \in Runtime : healed \/ actor[a].at > PlaceOf(actor[a].via, c) =>
                                    Near(contest, has[c], actor[a].next)
           /\ \A b \in Actors : Busy(b) => Near(contest, actor[a].next, actor[b].next)

MeetInv == /\ contest \subseteq contested
           /\ \A a \in Actors : Busy(a) => Told(a)
           /\ up => Keeps(contested, has["holder"], file) /\ Keeps(contested, acked, has["holder"])
           /\ Keeps(contested, acked, file) /\ Compiles(acked)
           /\ healed => \A c, d \in Runtime : Near(contest, has[c], has[d])

LEMMA NearIs ==
  /\ \A k, c : Near(k, c, c)
  /\ \A k, c, d : Near(k, c, d) => Near(k, d, c)
  /\ \A k, c, d, e : Near(k, c, d) /\ Near(k, d, e) => Near(k, c, e)
  /\ \A k, l, c, d : k \subseteq l /\ Near(k, c, d) => Near(l, c, d)
  BY DEF Near, Differ

LEMMA KeepsIs ==
  /\ \A k, c : Keeps(k, c, c)
  /\ \A k, c, d, e : Keeps(k, c, d) /\ Keeps(k, d, e) => Keeps(k, c, e)
  /\ \A k, l, c, d : k \subseteq l /\ Keeps(k, c, d) => Keeps(l, c, d)
  /\ \A k, l, c, d : k \subseteq l /\ Near(k, c, d) => Keeps(l, c, d)
  /\ \A k, c, d, e : Keeps(k, c, e) /\ d \subseteq e => Keeps(k, c \cup d, e)
  BY DEF Keeps, Near, Differ

(* Where every component's stage stands. *)
LEMMA Places ==
  ASSUME NEW a \in Actors, actor[a] \in Call, Busy(a), actor[a].at <= HolderAt(actor[a].via)
  PROVE  /\ \A c \in Runtime : Stage(a) = c <=> actor[a].at = PlaceOf(actor[a].via, c)
         /\ Stage(a) = "file" <=> actor[a].via # "hup" /\ actor[a].at = 1
         /\ \A c \in Runtime : PlaceOf(actor[a].via, c) \in 1..HolderAt(actor[a].via)
<1>1. CASE actor[a].via = "hup"
  <2>1. /\ HUPOrder[1] = "salt" /\ HUPOrder[2] = "policy" /\ HUPOrder[3] = "clients"
        /\ HUPOrder[4] = "queryLog" /\ HUPOrder[5] = "auditLog" /\ HUPOrder[6] = "serving"
        /\ HUPOrder[7] = "history" /\ HUPOrder[8] = "holder"
    BY DEF HUPOrder
  <2>2. actor[a].at \in 1..8
    BY <1>1 DEF Busy, Call, HolderAt
  <2>3. /\ PlaceOf("hup", "policy") = 2 /\ PlaceOf("hup", "queryLog") = 4 /\ PlaceOf("hup", "auditLog") = 5
        /\ PlaceOf("hup", "serving") = 6 /\ PlaceOf("hup", "holder") = 8 /\ HolderAt("hup") = 8
    BY DEF PlaceOf, PolicyAt, HolderAt
  <2> QED
    BY <1>1, <2>1, <2>2, <2>3 DEF Stage, Order, Runtime
<1>2. CASE actor[a].via # "hup"
  <2> DEFINE via == actor[a].via
  <2>1. /\ APIOrder[1] = "file" /\ APIOrder[2] = "history" /\ APIOrder[3] = "policy"
        /\ APIOrder[4] = "queryLog" /\ APIOrder[5] = "auditLog" /\ APIOrder[6] = "serving"
        /\ APIOrder[7] = "holder"
    BY DEF APIOrder
  <2>2. actor[a].at \in 1..7
    BY <1>2 DEF Busy, Call, HolderAt
  <2>3. /\ PlaceOf(via, "policy") = 3 /\ PlaceOf(via, "queryLog") = 4 /\ PlaceOf(via, "auditLog") = 5
        /\ PlaceOf(via, "serving") = 6 /\ PlaceOf(via, "holder") = 7 /\ HolderAt(via) = 7
    BY <1>2 DEF PlaceOf, PolicyAt, HolderAt
  <2> QED
    BY <1>2, <2>1, <2>2, <2>3 DEF Stage, Order, Runtime
<1> QED
  BY <1>1, <1>2

(* A call ends after the holder's stage, and goes on after any other.      *)
LEMMA AdvanceCases ==
  ASSUME Inv, NEW a \in Actors, Busy(a), Advance(a)
  PROVE  /\ IF Stage(a) = "holder" THEN actor'[a].at = 0
            ELSE /\ actor'[a].at = actor[a].at + 1 /\ actor'[a].via = actor[a].via
                 /\ actor'[a].next = actor[a].next /\ actor'[a].edit = actor[a].edit
         /\ \A b \in Actors \ {a} : actor'[b] = actor[b]
         /\ healed' => healed \/ Stage(a) = "holder"
<1>1. actor \in [Actors -> Call] /\ actor[a] \in Call /\ Passed(a)
  BY CallTypes DEF Inv
<1>2. Stage(a) = "holder" <=> Last(a)
  BY <1>1, Stages DEF Passed, Last
<1>3. \A b \in Actors \ {a} : actor'[b] = actor[b]
  BY <1>1 DEF Advance, Leave
<1>4. healed' => healed \/ Stage(a) = "holder"
  BY <1>2 DEF Advance
<1>5. CASE Stage(a) = "holder"
  BY <1>1, <1>2, <1>3, <1>4, <1>5 DEF Advance, Leave, NoCall
<1>6. CASE Stage(a) # "holder"
  <2>1. actor'[a] = [actor[a] EXCEPT !.at = actor[a].at + 1]
    BY <1>1, <1>2, <1>6 DEF Advance
  <2> QED
    BY <1>1, <1>3, <1>4, <1>6, <2>1 DEF Call
<1> QED
  BY <1>5, <1>6

(* A stage that succeeds. *)
LEMMA GoesOn ==
  ASSUME Inv, MeetInv, NEW a \in Actors, Busy(a), Advance(a), up' = up, UNCHANGED races,
         acked' = IF Stage(a) = "holder" THEN acked \cup actor[a].edit ELSE acked,
         file' \in {file, actor[a].next}, Stage(a) = "file" => file' = actor[a].next,
         Stage(a) = "holder" => file' = file,
         \A c \in Runtime : has'[c] = IF Stage(a) = c THEN actor[a].next ELSE has[c]
  PROVE  MeetInv'
<1> DEFINE new == actor[a].next
<1>1. actor[a] \in Call /\ Passed(a) /\ Told(a) /\ "holder" \in Runtime
  BY CallTypes DEF Inv, MeetInv, Runtime
<1>2. /\ \A c \in Runtime : Stage(a) = c <=> actor[a].at = PlaceOf(actor[a].via, c)
      /\ Stage(a) = "file" <=> actor[a].via # "hup" /\ actor[a].at = 1
      /\ \A c \in Runtime : PlaceOf(actor[a].via, c) \in 1..HolderAt(actor[a].via)
      /\ Stage(a) = "holder" <=> actor[a].at = HolderAt(actor[a].via)
  BY <1>1, Places, Stages DEF Passed
<1>3. actor[a].at \in 1..8 /\ HolderAt(actor[a].via) \in {7, 8}
  BY <1>1 DEF Busy, Call, HolderAt
<1>4. contest' = contest /\ contested' = contested /\ contest \subseteq contested
  BY DEF races, MeetInv
<1>5. /\ IF Stage(a) = "holder" THEN actor'[a].at = 0
         ELSE /\ actor'[a].at = actor[a].at + 1 /\ actor'[a].via = actor[a].via
              /\ actor'[a].next = new /\ actor'[a].edit = actor[a].edit
      /\ \A b \in Actors \ {a} : actor'[b] = actor[b]
      /\ healed' => healed \/ Stage(a) = "holder"
  BY AdvanceCases
<1>6. ASSUME NEW c \in Runtime, healed \/ actor[a].at >= PlaceOf(actor[a].via, c)
      PROVE  Near(contest, has'[c], new)
  <2>1. CASE Stage(a) = c
    BY <2>1, NearIs
  <2>2. CASE Stage(a) # c
    <3>1. healed \/ actor[a].at > PlaceOf(actor[a].via, c)
      BY <1>2, <1>3, <1>6, <2>2
    <3> QED
      BY <1>1, <2>2, <3>1 DEF Told
  <2> QED
    BY <2>1, <2>2
<1>7. healed' => \A c \in Runtime : Near(contest, has'[c], new)
  BY <1>2, <1>3, <1>5, <1>6
<1>8. actor[a].via = "hup" \/ actor[a].at >= 1 => Keeps(contested, new, file')
  <2>1. CASE file' = new
    BY <2>1, KeepsIs
  <2>2. CASE file' = file
    <3>1. CASE Stage(a) = "file"
      BY <3>1, KeepsIs
    <3>2. CASE Stage(a) # "file"
      BY <1>1, <1>2, <1>3, <2>2, <3>2 DEF Told
    <3> QED
      BY <3>1, <3>2
  <2> QED
    BY <2>1, <2>2
<1>9. Keeps(contested, has'["holder"], new) /\ Keeps(contested, has'["holder"], file')
  <2>1. CASE Stage(a) = "holder"
    BY <1>1, <1>3, <1>8, <2>1, KeepsIs
  <2>2. CASE Stage(a) # "holder"
    <3>1. has'["holder"] = has["holder"] /\ Keeps(contested, has["holder"], new)
      BY <1>1, <2>2 DEF Told
    <3>2. Keeps(contested, has["holder"], file')
      BY <1>3, <1>8, <3>1, KeepsIs
    <3> QED
      BY <3>1, <3>2
  <2> QED
    BY <2>1, <2>2
<1>10. Keeps(contested, acked', has'["holder"])
  <2>1. Keeps(contested, acked, has["holder"]) /\ Keeps(contested, has["holder"], new) /\ actor[a].edit \subseteq new
    BY <1>1 DEF MeetInv, Told
  <2>2. Keeps(contested, acked, new)
    BY <2>1, KeepsIs
  <2>3. CASE Stage(a) = "holder"
    BY <1>1, <2>1, <2>2, <2>3, KeepsIs
  <2>4. CASE Stage(a) # "holder"
    BY <1>1, <2>1, <2>4
  <2> QED
    BY <2>3, <2>4
<1>11. Keeps(contested, acked', file')
  BY <1>9, <1>10, KeepsIs
<1>12. Compiles(acked')
  <2>1. Compiles(acked) /\ actor[a].edit \subseteq new
    BY <1>1 DEF MeetInv, Told
  <2>2. CASE Stage(a) = "holder"
    <3>1. Compiles(new)
      BY <1>1, <1>2, <1>3, <2>2 DEF Passed, PolicyAt, HolderAt
    <3> QED
      BY <2>1, <2>2, <3>1 DEF Compiles
  <2>3. CASE Stage(a) # "holder"
    BY <2>1, <2>3
  <2> QED
    BY <2>2, <2>3
<1>13. healed' => \A c, d \in Runtime : Near(contest, has'[c], has'[d])
  BY <1>7, NearIs
<1>14. ASSUME NEW b \in Actors, b # a, Busy(b)' PROVE Told(b)'
  <2>1. actor'[b] = actor[b] /\ Busy(b) /\ Told(b)
    BY <1>5, <1>14 DEF Busy, MeetInv
  <2>2. Near(contest, actor[b].next, new) /\ Near(contest, new, actor[b].next)
    BY <2>1, NearIs DEF Told
  <2>3. Keeps(contested, new, actor[b].next) /\ Keeps(contested, actor[b].next, new)
    BY <1>4, <2>2, KeepsIs
  <2>4. Keeps(contested, has'["holder"], actor[b].next)
    BY <1>9, <2>3, KeepsIs
  <2>5. Keeps(contested, actor[b].next, file')
    BY <1>3, <1>8, <2>3, KeepsIs
  <2>6. ASSUME NEW c \in Runtime, healed' \/ actor[b].at > PlaceOf(actor[b].via, c)
        PROVE  Near(contest, has'[c], actor[b].next)
    <3>1. CASE healed'
      BY <1>7, <2>2, <3>1, NearIs
    <3>2. CASE actor[b].at > PlaceOf(actor[b].via, c)
      BY <2>1, <2>2, <3>2 DEF Told
    <3> QED
      BY <2>6, <3>1, <3>2
  <2>7. ASSUME NEW d \in Actors, Busy(d)' PROVE Near(contest, actor[b].next, actor'[d].next)
    <3>1. CASE d = a
      BY <1>5, <2>2, <2>7, <3>1 DEF Busy
    <3>2. CASE d # a
      BY <1>5, <2>1, <2>7, <3>2 DEF Busy, Told
    <3> QED
      BY <3>1, <3>2
  <2>8. up' /\ actor'[b].edit \subseteq actor'[b].next
    BY <2>1 DEF Told
  <2> QED
    BY <1>4, <2>1, <2>4, <2>5, <2>6, <2>7, <2>8 DEF Told
<1>15. ASSUME Busy(a)' PROVE Told(a)'
  <2>1. /\ actor'[a].at = actor[a].at + 1 /\ actor'[a].via = actor[a].via
        /\ actor'[a].next = new /\ actor'[a].edit = actor[a].edit
    BY <1>5, <1>15 DEF Busy
  <2>2. ASSUME NEW c \in Runtime, healed' \/ actor'[a].at > PlaceOf(actor'[a].via, c)
        PROVE  Near(contest, has'[c], new)
    <3>1. CASE healed'
      BY <1>7, <3>1
    <3>2. CASE actor'[a].at > PlaceOf(actor'[a].via, c)
      BY <1>2, <1>3, <1>6, <2>1, <3>2
    <3> QED
      BY <2>2, <3>1, <3>2
  <2>3. ASSUME NEW d \in Actors, Busy(d)' PROVE Near(contest, new, actor'[d].next)
    <3>1. CASE d = a
      BY <2>1, <3>1, NearIs
    <3>2. CASE d # a
      BY <1>1, <1>5, <2>3, <3>2 DEF Busy, Told
    <3> QED
      BY <3>1, <3>2
  <2>4. up' /\ actor'[a].edit \subseteq actor'[a].next
    BY <1>1, <2>1 DEF Told
  <2>5. Keeps(contested, new, file')
    BY <1>3, <1>8
  <2> QED
    BY <1>4, <1>9, <2>1, <2>2, <2>3, <2>4, <2>5 DEF Told
<1>16. \A b \in Actors : Busy(b)' => Told(b)'
  BY <1>14, <1>15
<1>17. up' => Keeps(contested', has'["holder"], file') /\ Keeps(contested', acked', has'["holder"])
  BY <1>4, <1>9, <1>10
<1>18. Compiles(acked)'
  BY <1>12 DEF Compiles
<1> QED
  BY <1>4, <1>11, <1>13, <1>16, <1>17, <1>18 DEF MeetInv

LEMMA ApplyMeets ==
  ASSUME Inv, MeetInv, NEW a \in Actors, apply(a) PROVE MeetInv'
<1>1. actor[a] \in Call /\ Passed(a) /\ Busy(a)
  BY CallTypes DEF Inv, apply, SaveFile, SaveSalt, AppendHistory, ReloadPolicy, Reconfigure, Replace, Fail
<1>2. has \in [Runtime \cup {"clients"} -> Config] /\ "file" \notin Runtime /\ "salt" \notin Runtime /\ "history" \notin Runtime
  BY DEF Inv, TypeOK, Runtime
<1>3. CASE SaveFile(a) \/ SaveSalt(a) \/ AppendHistory(a)
  <2>1. \A c \in Runtime : has'[c] = IF Stage(a) = c THEN actor[a].next ELSE has[c]
    BY <1>2, <1>3 DEF SaveFile, SaveSalt, AppendHistory
  <2>2. /\ Stage(a) \in {"file", "salt", "history"} /\ Advance(a)
        /\ up' = up /\ acked' = acked /\ UNCHANGED races
        /\ file' \in {file, actor[a].next} /\ (Stage(a) = "file" => file' = actor[a].next)
    BY <1>3 DEF SaveFile, SaveSalt, AppendHistory
  <2> QED
    BY <1>1, <2>1, <2>2, GoesOn
<1>4. CASE ReloadPolicy(a) \/ Reconfigure(a)
  <2>1. Stage(a) \in {"policy", "clients", "queryLog", "auditLog", "serving"} /\ has' = [has EXCEPT ![Stage(a)] = actor[a].next]
    BY <1>4 DEF ReloadPolicy, Reconfigure
  <2>2. \A c \in Runtime : has'[c] = IF Stage(a) = c THEN actor[a].next ELSE has[c]
    BY <1>2, <2>1 DEF Runtime
  <2>3. UNCHANGED <<up, acked, file, races>> /\ Advance(a)
    BY <1>4 DEF ReloadPolicy, Reconfigure
  <2> QED
    BY <1>1, <2>1, <2>2, <2>3, GoesOn
<1>5. CASE Replace(a)
  <2>1. /\ Stage(a) = "holder" /\ Advance(a) /\ UNCHANGED <<up, file, races>>
        /\ acked' = acked \cup actor[a].edit
        /\ \A c \in Runtime : has'[c] = IF Stage(a) = c THEN actor[a].next ELSE has[c]
    BY <1>2, <1>5 DEF Replace
  <2> QED
    BY <1>1, <2>1, GoesOn
<1>6. CASE Fail(a)
  <2>1. /\ actor'[a].at = 0 /\ \A b \in Actors \ {a} : actor'[b] = actor[b]
        /\ UNCHANGED <<up, file, has, acked, contest, contested, healed>>
    BY <1>6, CallTypes DEF Fail, Leave, Inv, NoCall, races
  <2>2. \A b \in Actors : Busy(b)' => b # a /\ Busy(b)
    BY <2>1 DEF Busy
  <2>3. ASSUME NEW b \in Actors, Busy(b)' PROVE Told(b)'
    <3>1. Told(b) /\ actor'[b] = actor[b]
      BY <2>1, <2>2, <2>3 DEF MeetInv
    <3>2. \A d \in Actors : Busy(d)' => Near(contest, actor[b].next, actor'[d].next)
      BY <2>1, <2>2, <3>1 DEF Told
    <3> QED
      BY <2>1, <3>1, <3>2 DEF Told
  <2> QED
    BY <2>1, <2>3 DEF MeetInv, Compiles
<1> QED
  BY <1>3, <1>4, <1>5, <1>6 DEF apply

(* A call begins. *)
LEMMA EnterMeets ==
  ASSUME Inv, MeetInv, NEW a \in Actors, NEW via \in {"api", "hup"}, NEW next \in Config, NEW edit \in Config,
         up, ~Busy(a), edit \subseteq next, Keeps(contested, has["holder"], next),
         via = "hup" => Keeps(contested, next, file),
         Enter(a, via, next, edit), UNCHANGED <<up, file, has, acked>>
  PROVE  MeetInv'
<1> DEFINE disputed == UNION {Differ(next, actor[b].next) : b \in Others(a)}
<1>1. /\ actor'[a] = [at |-> 1, via |-> via, next |-> next, edit |-> edit]
      /\ \A b \in Actors \ {a} : actor'[b] = actor[b]
      /\ contest' = IF Others(a) = {} THEN {} ELSE contest \cup disputed
      /\ contested' = contested \cup disputed
      /\ healed' = (healed /\ Others(a) # {})
  BY CallTypes DEF Enter, Inv
<1>2. \A b \in Others(a) : Differ(next, actor[b].next) \subseteq disputed
  OBVIOUS
<1> HIDE DEF disputed
<1>3. contested \subseteq contested' /\ contest' \subseteq contested'
  BY <1>1 DEF MeetInv
<1>4. Others(a) # {} => contest \subseteq contest'
  BY <1>1
<1>5. \A b \in Others(a) : b \in Actors /\ b # a /\ Busy(b) /\ Told(b) /\ Near(contest', next, actor[b].next)
  BY <1>1, <1>2 DEF Others, MeetInv, Near
<1>6. \A b \in Actors : Busy(b)' /\ b # a => b \in Others(a)
  BY <1>1 DEF Busy, Others
<1>7. ASSUME NEW b \in Actors, b # a, Busy(b)' PROVE Told(b)'
  <2>1. b \in Others(a) /\ Told(b) /\ actor'[b] = actor[b] /\ contest \subseteq contest' /\ (healed' => healed)
    BY <1>1, <1>4, <1>5, <1>6, <1>7
  <2>2. Keeps(contested', has["holder"], actor[b].next)
    BY <1>3, <2>1, KeepsIs DEF Told
  <2>3. actor[b].via = "hup" \/ actor[b].at > 1 => Keeps(contested', actor[b].next, file)
    BY <1>3, <2>1, KeepsIs DEF Told
  <2>4. \A c \in Runtime : healed' \/ actor[b].at > PlaceOf(actor[b].via, c) => Near(contest', has[c], actor[b].next)
    BY <2>1, NearIs DEF Told
  <2>5. ASSUME NEW d \in Actors, Busy(d)' PROVE Near(contest', actor[b].next, actor'[d].next)
    <3>1. CASE d = a
      BY <1>1, <1>5, <2>1, <3>1, NearIs
    <3>2. CASE d # a
      <4>1. Busy(d) /\ actor'[d] = actor[d]
        BY <1>1, <1>5, <1>6, <2>5, <3>2
      <4>2. Near(contest, actor[b].next, actor[d].next)
        BY <2>1, <4>1 DEF Told
      <4> QED
        BY <2>1, <4>1, <4>2, NearIs
    <3> QED
      BY <3>1, <3>2
  <2>6. up' /\ actor'[b].edit \subseteq actor'[b].next
    BY <2>1 DEF Told
  <2> QED
    BY <2>1, <2>2, <2>3, <2>4, <2>5, <2>6 DEF Told
<1>8. ASSUME NEW c \in Runtime, healed' PROVE Near(contest', has[c], next)
  <2>1. healed /\ contest \subseteq contest'
    BY <1>1, <1>4, <1>8
  <2>2. PICK b \in Others(a) : TRUE
    BY <1>1, <1>8
  <2>3. Near(contest, has[c], actor[b].next) /\ Near(contest', next, actor[b].next)
    BY <1>5, <2>1 DEF Told
  <2>4. Near(contest', has[c], actor[b].next)
    BY <2>1, <2>3, NearIs
  <2>5. Near(contest', actor[b].next, next)
    BY <2>3, NearIs
  <2> QED
    BY <2>4, <2>5, NearIs
<1>9. Told(a)'
  <2>1. \A c \in Runtime : ~(1 > PlaceOf(via, c))
    BY DEF Runtime, PlaceOf, PolicyAt, HolderAt
  <2>2. \A b \in Actors : Busy(b)' => Near(contest', next, actor'[b].next)
    BY <1>1, <1>5, <1>6, NearIs
  <2>3. Keeps(contested', has["holder"], next) /\ (via = "hup" => Keeps(contested', next, file))
    BY <1>3, KeepsIs
  <2>4. actor'[a].at = 1 /\ actor'[a].via = via /\ actor'[a].next = next /\ actor'[a].edit = edit
    BY <1>1
  <2> QED
    BY <1>8, <2>1, <2>2, <2>3, <2>4 DEF Told
<1>10. Keeps(contested', has["holder"], file) /\ Keeps(contested', acked, has["holder"]) /\ Keeps(contested', acked, file)
  BY <1>3, KeepsIs DEF MeetInv
<1>11. healed' => \A c, d \in Runtime : Near(contest', has[c], has[d])
  BY <1>8, NearIs
<1>12. Compiles(acked)'
  BY DEF MeetInv, Compiles
<1>13. \A b \in Actors : Busy(b)' => Told(b)'
  BY <1>7, <1>9
<1> QED
  BY <1>3, <1>10, <1>11, <1>12, <1>13 DEF MeetInv

(* Hand edits, crashes and starts. *)
LEMMA WorldMeets ==
  ASSUME Inv, MeetInv, (\E e \in Edits : EditFile(e)) \/ Repair \/ Crash \/ runServe
  PROVE  MeetInv'
<1>1. CASE \E e \in Edits : EditFile(e)
  <2>1. file \subseteq file' /\ UNCHANGED <<up, has, actor, acked, contest, contested, healed>>
    BY <1>1 DEF EditFile, races
  <2>2. \A c : Keeps(contested, c, file) => Keeps(contested, c, file')
    BY <2>1 DEF Keeps
  <2>3. ASSUME NEW a \in Actors, Busy(a)' PROVE Told(a)'
    <3>1. Told(a)
      BY <2>1, <2>3 DEF MeetInv, Busy
    <3> QED
      BY <2>1, <2>2, <3>1 DEF Told, Busy
  <2> QED
    BY <2>1, <2>2, <2>3 DEF MeetInv, Compiles
<1>2. CASE Repair
  <2>1. ~up /\ file' = file \ Refused /\ UNCHANGED <<up, has, actor, acked, contest, contested, healed>>
    BY <1>2 DEF Repair, races
  <2>2. \A a \in Actors : ~Busy(a)'
    BY <2>1 DEF MeetInv, Told, Busy
  <2>3. Keeps(contested, acked, file')
    BY <2>1 DEF MeetInv, Compiles, Keeps
  <2> QED
    BY <2>1, <2>2, <2>3 DEF MeetInv, Compiles
<1>3. CASE Crash
  <2>1. ~up' /\ actor' = [a \in Actors |-> NoCall] /\ UNCHANGED <<file, has, acked, contest, contested, healed>>
    BY <1>3 DEF Crash, races
  <2>2. \A a \in Actors : ~Busy(a)'
    BY <2>1 DEF NoCall, Busy
  <2> QED
    BY <2>1, <2>2 DEF MeetInv, Compiles
<1>4. CASE runServe
  <2>1. ~up /\ has' = [c \in DOMAIN has |-> file] /\ UNCHANGED <<file, actor, acked, contest, contested, healed>>
    BY <1>4 DEF runServe, races
  <2>2. (\A c \in Runtime : has'[c] = file) /\ "holder" \in Runtime
    BY <2>1 DEF Inv, TypeOK, Runtime
  <2>3. \A a \in Actors : ~Busy(a)'
    BY <2>1 DEF MeetInv, Told, Busy
  <2>4. \A c, d \in Runtime : Near(contest, has'[c], has'[d])
    BY <2>2, NearIs
  <2>5. Keeps(contested, has'["holder"], file) /\ Keeps(contested, acked, has'["holder"])
    BY <2>2, KeepsIs DEF MeetInv
  <2> QED
    BY <2>1, <2>3, <2>4, <2>5 DEF MeetInv, Compiles
<1> QED
  BY <1>1, <1>2, <1>3, <1>4

LEMMA InitMeets == Init => MeetInv
<1> SUFFICES ASSUME Init PROVE MeetInv
  OBVIOUS
<1>1. /\ acked = {} /\ contest = {} /\ contested = {} /\ file = {} /\ healed = FALSE
      /\ has["holder"] = {} /\ \A a \in Actors : actor[a].at = 0
  BY DEF Init, NoCall, Runtime
<1> QED
  BY <1>1 DEF MeetInv, Busy, Compiles, Keeps

LEMMA NextMeets == Inv /\ MeetInv /\ [Next]_vars => MeetInv'
<1> SUFFICES ASSUME Inv, MeetInv, [Next]_vars PROVE MeetInv'
  OBVIOUS
<1>1. CASE UNCHANGED vars
  <2>1. \A a \in Actors : (Busy(a)' <=> Busy(a)) /\ (Told(a) => Told(a)')
    BY <1>1 DEF vars, races, Told, Busy
  <2> QED
    BY <1>1, <2>1 DEF vars, races, MeetInv, Compiles
<1>2. ASSUME NEW a \in Actors, NEW e \in Edits, Mutate(a, e) PROVE MeetInv'
  <2>1. has["holder"] \cup {e} \in Config /\ {e} \in Config
    BY DEF Inv, TypeOK, Config, Runtime
  <2>2. Keeps(contested, has["holder"], has["holder"] \cup {e})
    BY DEF Keeps
  <2> QED
    BY <1>2, <2>1, <2>2, EnterMeets DEF Mutate
<1>3. ASSUME NEW a \in Actors, NEW via \in {"api", "hup"}, Reload(a, via) PROVE MeetInv'
  <2>1. file \in Config /\ {} \in Config
    BY DEF Inv, TypeOK, Config
  <2>2. Keeps(contested, has["holder"], file) /\ Keeps(contested, file, file)
    BY <1>3, KeepsIs DEF MeetInv, Reload
  <2> QED
    BY <1>3, <2>1, <2>2, EnterMeets DEF Reload
<1> QED
  BY <1>1, <1>2, <1>3, ApplyMeets, WorldMeets DEF Next

LEMMA MeetCorrect == Spec => []MeetInv
  BY InvCorrect, InitMeets, NextMeets, PTL DEF Spec

(* However requests and reloads overlap, and wherever they fail, what the  *)
(* holder has is in the file, except for edits that calls under way at the *)
(* same time disagreed about: applyConfig and Reload have no other way to  *)
(* let the two part.                                                       *)
THEOREM FileAgreesAlways == Spec => []FileAgrees
<1>1. MeetInv => FileAgrees
  BY DEF MeetInv, Keeps, FileAgrees
<1> QED
  BY <1>1, MeetCorrect, PTL

(* Types, compilability, history and agreement of file and holder, for any *)
(* number of concurrent requests and reloads.                              *)
THEOREM ApplyConsistent == Spec => []Consistent
<1> QED
  BY ApplyTypeCorrect, NeverRefusedCorrect, HistoryCorrect, FileAgreesAlways, PTL DEF Consistent

(* Of calls that overlap, one that succeeds brings the components together *)
(* but for what these calls contest, since the stages of applyConfig and   *)
(* of Reload pass the same value to each of them; a call alone brings them *)
(* to one configuration, whatever failed or overlapped before.             *)
THEOREM SuccessHealsAlways == Spec => []SuccessHeals
<1>1. MeetInv => SuccessHeals
  BY DEF MeetInv, Near, SuccessHeals, Quiet, Runtime
<1> QED
  BY <1>1, MeetCorrect, PTL

(* An edit answered with success is in the file from then on, through      *)
(* failed calls, reloads, crashes, hand edits and repairs, unless calls    *)
(* that overlapped disagreed about it: applyConfig saves before it swaps.  *)
THEOREM AckedDurableAlways == Spec => []AckedDurable
<1>1. MeetInv => AckedDurable
  BY DEF MeetInv, Keeps, AckedDurable
<1> QED
  BY <1>1, MeetCorrect, PTL

-----------------------------------------------------------------------------
(* The SQLite store. *)

(* The tables by their place in the order of ensureSQLiteSchema. *)
LEMMA SchemaOrder ==
  /\ ensureSQLiteSchema[1] = "column" /\ ensureSQLiteSchema[2] = "clients"
  /\ ensureSQLiteSchema[3] = "session" /\ ensureSQLiteSchema[4] = "customlist"
  /\ ensureSQLiteSchema[5] = "stats" /\ ensureSQLiteSchema[6] = "confhist"
  /\ Tables = {"clients", "session", "customlist", "stats", "confhist"}
<1>1. /\ ensureSQLiteSchema[1] = "column" /\ ensureSQLiteSchema[2] = "clients"
      /\ ensureSQLiteSchema[3] = "session" /\ ensureSQLiteSchema[4] = "customlist"
      /\ ensureSQLiteSchema[5] = "stats" /\ ensureSQLiteSchema[6] = "confhist"
  BY DEF ensureSQLiteSchema
<1>2. 2..6 = {2, 3, 4, 5, 6}
  OBVIOUS
<1> HIDE DEF ensureSQLiteSchema
<1> QED
  BY <1>1, <1>2 DEF Tables

(* Row and JSON of a record agree. *)
Agree(k) == db.row[k] = db.kv[k]

(* A database that some opener has left, at whatever point: a record's row *)
(* is missing or as in kv, unless it was written during a copy.            *)
Legal(d) == /\ d \in Database /\ d.kv \in Map /\ d.row \in Map
            /\ \A k \in Keys \ raced : d.row[k] \in {None, d.kv[k]}

(* The opener has behind it the table of the key. *)
Behind(p, k) == \E j \in 2..6 : j < pos[p] /\ collectionName[k] = ensureSQLiteSchema[j]

(* What an opener has read and not yet copied is all that is missing.      *)
Carried(p) == IF pos[p] = 1 THEN Unfilled \subseteq DOMAIN pend[p]
              ELSE \A k \in Keys \ raced :
                     IF k \in DOMAIN pend[p] THEN pend[p][k] = db.kv[k]
                     ELSE collectionName[k] = ensureSQLiteSchema[pos[p]] => Agree(k)

PendOK(p) == pend[p] \in Rows
             /\ \A k \in DOMAIN pend[p] : pend[p][k] \in ValsOf[collectionName[k]]
OpenOK(p) == phase[p] = "open" => Unfilled = {} /\ \A k \in Keys \ raced : Agree(k)
OpeningOK(p) == phase[p] = "opening" =>
                  /\ mig[p] \in 1..(schemaVersion + 1) /\ pos[p] \in 1..7
                  /\ pos[p] > 1 => Unfilled = {}
                  /\ \A k \in Keys \ raced : Behind(p, k) => Agree(k)
                  /\ HasRead(p) => pos[p] <= LastStep(mig[p]) /\ Carried(p)
OpenerOK(p) == /\ PendOK(p) /\ (phase[p] # "opening" => ~HasRead(p))
               /\ OpenOK(p) /\ OpeningOK(p)

StoreInv == StoreTypeOK /\ Legal(db) /\ Legal(disk) /\ \A p \in Openers : OpenerOK(p)

(* An opener whose own state stays is right while the database changes by  *)
(* the steps of others: rows that agree keep agreeing, and a record that   *)
(* is about to be copied stays as it was read, or is raced.                *)
LEMMA OpenerKept ==
  ASSUME NEW p \in Openers, OpenerOK(p),
         phase'[p] = phase[p], mig'[p] = mig[p], pos'[p] = pos[p], pend'[p] = pend[p],
         raced \subseteq raced', Unfilled' \subseteq Unfilled,
         \A k \in Keys \ raced' : Agree(k) => Agree(k)',
         \A k \in (DOMAIN pend[p]) \ raced' : pos[p] # 1 => db'.kv[k] = db.kv[k]
  PROVE  OpenerOK(p)'
<1>1. PendOK(p)' /\ (phase[p] # "opening" => ~HasRead(p))'
  BY DEF OpenerOK, PendOK, HasRead
<1>2. OpenOK(p)'
  BY DEF OpenerOK, OpenOK
<1>3. \A k : Behind(p, k)' <=> Behind(p, k)
  BY DEF Behind
<1>4. HasRead(p)' <=> HasRead(p)
  BY DEF HasRead
<1>5. ASSUME phase[p] = "opening", HasRead(p) PROVE Carried(p)'
  <2>1. Carried(p)
    BY <1>5 DEF OpenerOK, OpeningOK
  <2> QED
    BY <2>1 DEF Carried
<1>6. OpeningOK(p)'
  <2>1. ASSUME phase[p] = "opening", NEW k \in Keys \ raced', Behind(p, k)' PROVE Agree(k)'
    BY <2>1, <1>3 DEF OpenerOK, OpeningOK
  <2> QED
    BY <2>1, <1>4, <1>5 DEF OpenerOK, OpeningOK
<1> QED
  BY <1>1, <1>2, <1>6 DEF OpenerOK

(* The database that a commit leaves on disk. *)
LEMMA CommitLegal ==
  ASSUME NEW d, Commit(d), Legal(disk), Legal(db)', raced \subseteq raced'
  PROVE  db' = d /\ disk' \in {disk, db'} /\ Legal(disk)'
BY DEF Commit, Legal
LEMMA StepCounts ==
  ASSUME NEW m \in Nat
  PROVE  LastStep(m) \in 0..6 /\ (m >= 3 => LastStep(m) = 6)
BY DEF LastStep

StoreTypes == /\ phase \in [Openers -> {"down", "opening", "open"}]
              /\ mig \in [Openers -> 0..(schemaVersion + 1)]
              /\ pos \in [Openers -> 0..7]
              /\ pend \in [Openers -> Rows]
              /\ doomed \in (SUBSET KeysOf("session")) \cup {None}
              /\ raced \in SUBSET Keys
              /\ writes \in 0..MaxWrites /\ faults \in 0..MaxFaults

LEMMA StoreParts ==
  /\ StoreInv <=> StoreTypes /\ Legal(db) /\ Legal(disk) /\ \A p \in Openers : OpenerOK(p)
  /\ StoreInv' <=> StoreTypes' /\ Legal(db)' /\ Legal(disk)' /\ \A p \in Openers : OpenerOK(p)'
BY DEF StoreInv, StoreTypes, StoreTypeOK, Legal

(* A step of an open leaves kv alone, fills in the column, and makes rows  *)
(* agree.                                                                  *)
LEMMA MigrationStep ==
  ASSUME StoreInv, NEW p \in Openers, NEW d, Commit(d),
         Legal(d), d.kv = db.kv, db.filled \subseteq d.filled,
         \A k \in Keys \ raced : Agree(k) => d.row[k] = d.kv[k],
         \A q \in Openers \ {p} : /\ phase'[q] = phase[q] /\ mig'[q] = mig[q]
                                  /\ pos'[q] = pos[q] /\ pend'[q] = pend[q],
         UNCHANGED <<doomed, raced, writes>>,
         StoreTypes', OpenerOK(p)'
  PROVE  StoreInv'
<1>1. db' = d /\ raced' = raced
  BY DEF Commit
<1>2. Legal(db)'
  BY <1>1 DEF Legal
<1>3. Legal(disk)'
  BY <1>1, <1>2, CommitLegal, StoreParts
<1>4. Unfilled' \subseteq Unfilled
  BY <1>1 DEF Unfilled
<1>5. ASSUME NEW q \in Openers \ {p} PROVE OpenerOK(q)'
  <2>1. \A k \in Keys \ raced' : Agree(k) => Agree(k)'
    BY <1>1 DEF Agree
  <2>2. OpenerOK(q)
    BY StoreParts
  <2> QED
    BY <1>1, <1>4, <2>1, <2>2, OpenerKept
<1> QED
  BY <1>2, <1>3, <1>5, StoreParts

(* What a step of migration finds. *)
LEMMA AtStepFacts ==
  ASSUME StoreInv, NEW p \in Openers, NEW s, AtStep(p, s)
  PROVE  /\ phase[p] = "opening" /\ pos[p] \in 1..6 /\ ensureSQLiteSchema[pos[p]] = s
         /\ mig[p] \in 1..(schemaVersion + 1) /\ pos[p] <= LastStep(mig[p])
         /\ (s = "column" <=> pos[p] = 1) /\ StoreTypes /\ Legal(db) /\ OpenerOK(p)
         /\ PendOK(p) /\ OpeningOK(p)
<1>1. phase[p] = "opening" /\ ensureSQLiteSchema[pos[p]] = s /\ pos[p] <= LastStep(mig[p])
  BY DEF AtStep
<1>2. StoreTypes /\ Legal(db) /\ OpenerOK(p) /\ PendOK(p) /\ OpeningOK(p)
  BY StoreParts DEF OpenerOK
<1>3. mig[p] \in 1..(schemaVersion + 1) /\ pos[p] \in 1..7
  BY <1>1, <1>2 DEF OpeningOK
<1>4. pos[p] \in 1..6
  BY <1>1, <1>3, StepCounts, VersionAssumption
<1>5. s = "column" <=> pos[p] = 1
  BY <1>1, <1>4, SchemaOrder
<1> QED
  BY <1>1, <1>2, <1>3, <1>4, <1>5

(* A step is complete: the column is filled, and the rows of its table are *)
(* copied.                                                                 *)
LEMMA StepDoneOK ==
  ASSUME StoreInv, NEW p \in Openers, NEW s, AtStep(p, s), StepDone(p),
         Unfilled' = {},
         \A k \in Keys \ raced : Agree(k) => Agree(k)',
         \A k \in Keys \ raced : collectionName[k] = s => Agree(k)'
  PROVE  /\ OpenerOK(p)' /\ StoreTypes'
         /\ \A q \in Openers \ {p} : /\ phase'[q] = phase[q] /\ mig'[q] = mig[q]
                                     /\ pos'[q] = pos[q] /\ pend'[q] = pend[q]
<1>1. /\ phase[p] = "opening" /\ pos[p] \in 1..6 /\ ensureSQLiteSchema[pos[p]] = s
      /\ mig[p] \in 1..(schemaVersion + 1) /\ StoreTypes /\ OpeningOK(p)
  BY AtStepFacts
<1>2. /\ phase' = phase /\ mig' = mig /\ pos' = [pos EXCEPT ![p] = pos[p] + 1]
      /\ pend' = [pend EXCEPT ![p] = Nothing]
      /\ UNCHANGED <<doomed, raced, writes, faults>>
  BY DEF StepDone
<1>3. Nothing \in Rows /\ DOMAIN Nothing = {}
  BY DEF Nothing, Rows
<1>4. StoreTypes'
  BY <1>1, <1>2, <1>3 DEF StoreTypes
<1>5. pend'[p] = Nothing /\ pos'[p] = pos[p] + 1 /\ phase'[p] = "opening" /\ mig'[p] = mig[p]
  BY <1>1, <1>2 DEF StoreTypes
<1>6. PendOK(p)' /\ ~HasRead(p)'
  BY <1>3, <1>5 DEF PendOK, HasRead
<1>7. ASSUME NEW k \in Keys \ raced', Behind(p, k)' PROVE Agree(k)'
  <2>1. PICK j \in 2..6 : j < pos[p] + 1 /\ collectionName[k] = ensureSQLiteSchema[j]
    BY <1>7, <1>5 DEF Behind
  <2>2. CASE j = pos[p]
    BY <2>1, <2>2, <1>1, <1>2
  <2>3. CASE j < pos[p]
    <3>1. Behind(p, k)
      BY <2>1, <2>3 DEF Behind
    <3> QED
      BY <3>1, <1>1, <1>2 DEF OpeningOK
  <2> QED
    BY <2>1, <2>2, <2>3, <1>1
<1>8. OpeningOK(p)'
  BY <1>1, <1>5, <1>6, <1>7 DEF OpeningOK
<1>9. OpenerOK(p)'
  BY <1>5, <1>6, <1>8 DEF OpenerOK, OpenOK
<1>10. \A q \in Openers \ {p} : /\ phase'[q] = phase[q] /\ mig'[q] = mig[q]
                                /\ pos'[q] = pos[q] /\ pend'[q] = pend[q]
  BY <1>1, <1>2 DEF StoreTypes
<1> QED
  BY <1>4, <1>9, <1>10

(* What is read from kv for a step: records that are there. *)
LEMMA ReadOK ==
  ASSUME StoreInv, NEW p \in Openers, NEW s, AtStep(p, s),
         NEW K \in SUBSET Keys, \A k \in K : db.kv[k] # None,
         Reads(p, [k \in K |-> db.kv[k]]),
         Unfilled' \subseteq Unfilled,
         s = "column" => Unfilled \subseteq K,
         \A k \in Keys \ raced : Agree(k) => Agree(k)',
         db'.kv = db.kv,
         s # "column" => \A k \in Keys \ (raced \cup K) : collectionName[k] = s => Agree(k)'
  PROVE  /\ OpenerOK(p)' /\ StoreTypes'
         /\ \A q \in Openers \ {p} : /\ phase'[q] = phase[q] /\ mig'[q] = mig[q]
                                     /\ pos'[q] = pos[q] /\ pend'[q] = pend[q]
<1> DEFINE m == [k \in K |-> db.kv[k]]
<1>1. /\ phase[p] = "opening" /\ pos[p] \in 1..6 /\ ensureSQLiteSchema[pos[p]] = s
      /\ mig[p] \in 1..(schemaVersion + 1) /\ pos[p] <= LastStep(mig[p])
      /\ (s = "column" <=> pos[p] = 1) /\ StoreTypes /\ OpeningOK(p) /\ Legal(db)
  BY AtStepFacts
<1>2. /\ phase' = phase /\ mig' = mig /\ pos' = pos
      /\ pend' = [pend EXCEPT ![p] = m]
      /\ UNCHANGED <<doomed, raced, writes, faults>>
  BY DEF Reads
<1>3. \A k \in K : db.kv[k] \in ValsOf[collectionName[k]] /\ db.kv[k] \in Vals
  BY <1>1, CollectionAssumption DEF Legal, Map, Vals
<1>4. m \in Rows /\ DOMAIN m = K /\ \A k \in K : m[k] = db.kv[k]
  BY <1>3 DEF Rows
<1> HIDE DEF m
<1>5. StoreTypes'
  BY <1>1, <1>2, <1>4 DEF StoreTypes
<1>6. pend'[p] = m
  BY <1>1, <1>2 DEF StoreTypes
<1>7. PendOK(p)'
  BY <1>3, <1>4, <1>6 DEF PendOK
<1>8. ASSUME NEW k \in Keys \ raced', Behind(p, k)' PROVE Agree(k)'
  <2>1. Behind(p, k)
    BY <1>8, <1>2 DEF Behind
  <2> QED
    BY <2>1, <1>1, <1>2 DEF OpeningOK
<1>9. Carried(p)'
  BY <1>1, <1>2, <1>4, <1>6 DEF Carried
<1>10. OpeningOK(p)'
  BY <1>1, <1>2, <1>8, <1>9 DEF OpeningOK
<1>11. OpenerOK(p)'
  BY <1>1, <1>2, <1>7, <1>10 DEF OpenerOK, OpenOK
<1>12. \A q \in Openers \ {p} : /\ phase'[q] = phase[q] /\ mig'[q] = mig[q]
                                /\ pos'[q] = pos[q] /\ pend'[q] = pend[q]
  BY <1>1, <1>2 DEF StoreTypes
<1> QED
  BY <1>5, <1>11, <1>12

(* What an open does to the rest: nothing to kv, and nothing at all to a   *)
(* database without records.                                               *)
Untouched(p) ==
  /\ phase[p] = "opening" /\ phase'[p] \in {"opening", "open"}
  /\ \A q \in Openers \ {p} : phase'[q] = phase[q] /\ pend'[q] = pend[q]
  /\ db'.kv = db.kv /\ disk' \in {disk, db'}
  /\ (\A k \in Keys : db.kv[k] = None) /\ ~HasRead(p) => ~HasRead(p)' /\ db'.row = db.row
  /\ UNCHANGED <<doomed, raced, writes, faults>>

LEMMA ColumnStep ==
  ASSUME StoreInv, NEW p \in Openers, ensureCollectionColumn(p)
  PROVE  StoreInv' /\ Untouched(p)
<1>1. AtStep(p, "column")
  BY DEF ensureCollectionColumn
<1>2. /\ phase[p] = "opening" /\ pos[p] = 1 /\ StoreTypes /\ Legal(db) /\ PendOK(p) /\ OpeningOK(p)
  BY <1>1, AtStepFacts
<1>3. \A k \in Keys : collectionName[k] # "column"
  BY CollectionAssumption, SchemaOrder
<1>4. CASE /\ ~HasRead(p) /\ Unfilled # {}
           /\ Commit([db EXCEPT !.column = TRUE])
           /\ Reads(p, [k \in Unfilled |-> db.kv[k]])
  <2> DEFINE d == [db EXCEPT !.column = TRUE]
  <2>1. d \in Database /\ d.kv = db.kv /\ d.row = db.row /\ d.filled = db.filled
    BY <1>2 DEF Legal, Database
  <2>2. Legal(d) /\ Commit(d)
    BY <1>2, <1>4, <2>1 DEF Legal
  <2> HIDE DEF d
  <2>3. db' = d /\ disk' \in {disk, d}
    BY <2>2 DEF Commit
  <2>4. Unfilled' \subseteq Unfilled
    BY <2>1, <2>3 DEF Unfilled
  <2>5. \A k \in Keys : Agree(k) => Agree(k)' /\ d.row[k] = d.kv[k]
    BY <2>1, <2>3 DEF Agree
  <2>6. UNCHANGED <<doomed, raced, writes, faults>> /\ phase' = phase
    BY <1>4 DEF Reads
  <2>7. Unfilled \subseteq Keys /\ \A k \in Unfilled : db.kv[k] # None
    BY DEF Unfilled
  <2>8. /\ OpenerOK(p)' /\ StoreTypes'
        /\ \A q \in Openers \ {p} : /\ phase'[q] = phase[q] /\ mig'[q] = mig[q]
                                    /\ pos'[q] = pos[q] /\ pend'[q] = pend[q]
    BY <1>1, <1>4, <2>1, <2>3, <2>4, <2>5, <2>7, ReadOK
  <2>9. StoreInv'
    BY <2>1, <2>2, <2>5, <2>6, <2>8, MigrationStep
  <2> QED
    BY <1>2, <1>4, <2>1, <2>3, <2>6, <2>7, <2>8, <2>9 DEF Untouched
<1>5. ASSUME NEW d, d \in Database, d.kv = db.kv, d.row = db.row, db.filled \subseteq d.filled,
             Commit(d), StepDone(p), Unfilled' = {}
      PROVE  StoreInv' /\ Untouched(p)
  <2>2. Legal(d)
    BY <1>2, <1>5 DEF Legal
  <2>3. db' = d /\ disk' \in {disk, d}
    BY <1>5 DEF Commit
  <2>5. \A k \in Keys : Agree(k) => Agree(k)' /\ d.row[k] = d.kv[k]
    BY <1>5, <2>3 DEF Agree
  <2>6. UNCHANGED <<doomed, raced, writes, faults>> /\ phase' = phase
    BY <1>5 DEF StepDone
  <2>8. /\ OpenerOK(p)' /\ StoreTypes'
        /\ \A q \in Openers \ {p} : /\ phase'[q] = phase[q] /\ mig'[q] = mig[q]
                                    /\ pos'[q] = pos[q] /\ pend'[q] = pend[q]
    BY <1>1, <1>3, <1>5, <2>5, StepDoneOK
  <2>9. StoreInv'
    BY <1>5, <2>2, <2>5, <2>6, <2>8, MigrationStep
  <2>10. ~HasRead(p)'
    BY <1>2, <1>5 DEF StepDone, Nothing, HasRead, StoreTypes
  <2> QED
    BY <1>2, <1>5, <2>3, <2>6, <2>8, <2>9, <2>10 DEF Untouched
<1>6. CASE ~HasRead(p) /\ Unfilled = {} /\ Commit([db EXCEPT !.column = TRUE]) /\ StepDone(p)
  <2> DEFINE d == [db EXCEPT !.column = TRUE]
  <2>1. d \in Database /\ d.kv = db.kv /\ d.row = db.row /\ d.filled = db.filled /\ Commit(d)
    BY <1>2, <1>6 DEF Legal, Database
  <2> HIDE DEF d
  <2>2. Unfilled' = {}
    BY <1>6, <2>1 DEF Commit, Unfilled
  <2> QED
    BY <1>5, <1>6, <2>1, <2>2
<1>7. CASE /\ HasRead(p) /\ StepDone(p)
           /\ Commit([db EXCEPT !.filled = db.filled \cup {k \in DOMAIN pend[p] : db.kv[k] # None}])
  <2> DEFINE d == [db EXCEPT !.filled = db.filled \cup {k \in DOMAIN pend[p] : db.kv[k] # None}]
  <2>1. DOMAIN pend[p] \subseteq Keys
    BY <1>2 DEF PendOK, Rows
  <2>2. /\ d \in Database /\ d.kv = db.kv /\ d.row = db.row /\ Commit(d)
        /\ d.filled = db.filled \cup {k \in DOMAIN pend[p] : db.kv[k] # None}
    BY <1>2, <1>7, <2>1 DEF Legal, Database
  <2> HIDE DEF d
  <2>3. Unfilled \subseteq DOMAIN pend[p]
    BY <1>2, <1>7 DEF OpeningOK, Carried
  <2>4. Unfilled' = {}
    BY <2>2, <2>3 DEF Commit, Unfilled
  <2> QED
    BY <1>5, <1>7, <2>2, <2>4
<1> QED
  BY <1>4, <1>6, <1>7 DEF ensureCollectionColumn

LEMMA TableStep ==
  ASSUME StoreInv, NEW p \in Openers, NEW c \in Tables, AtStep(p, c), EnsureTable(p, c)
  PROVE  StoreInv' /\ Untouched(p)
<1>1. c # "column"
  BY SchemaOrder
<1>2. /\ phase[p] = "opening" /\ pos[p] \in 2..6 /\ ensureSQLiteSchema[pos[p]] = c
      /\ StoreTypes /\ Legal(db) /\ PendOK(p) /\ OpeningOK(p) /\ Unfilled = {}
  BY <1>1, AtStepFacts DEF OpeningOK
<1>3. \A k \in Keys : db.kv[k] = None /\ k \notin raced => Agree(k)
  BY <1>2 DEF Legal, Agree
<1>4. ASSUME NEW d, d \in Database, d.kv = db.kv, d.row \in Map, db.filled = d.filled,
             \A k \in Keys \ raced : d.row[k] \in {None, db.kv[k]} /\ (Agree(k) => d.row[k] = db.kv[k]),
             \A k \in Keys \ raced : collectionName[k] = c => d.row[k] = db.kv[k],
             Commit(d), StepDone(p),
             (\A k \in Keys : db.kv[k] = None) /\ ~HasRead(p) => d.row = db.row
      PROVE  StoreInv' /\ Untouched(p)
  <2>2. Legal(d)
    BY <1>2, <1>4 DEF Legal
  <2>3. db' = d /\ disk' \in {disk, d}
    BY <1>4 DEF Commit
  <2>4. Unfilled' = {}
    BY <1>2, <1>4, <2>3 DEF Unfilled
  <2>5. \A k \in Keys \ raced : /\ Agree(k) => Agree(k)' /\ d.row[k] = d.kv[k]
                                /\ collectionName[k] = c => Agree(k)'
    BY <1>4, <2>3 DEF Agree
  <2>6. UNCHANGED <<doomed, raced, writes, faults>> /\ phase' = phase
    BY <1>4 DEF StepDone
  <2>8. /\ OpenerOK(p)' /\ StoreTypes'
        /\ \A q \in Openers \ {p} : /\ phase'[q] = phase[q] /\ mig'[q] = mig[q]
                                    /\ pos'[q] = pos[q] /\ pend'[q] = pend[q]
    BY <1>4, <2>4, <2>5, StepDoneOK
  <2>9. StoreInv'
    BY <1>4, <2>2, <2>5, <2>6, <2>8, MigrationStep
  <2>10. ~HasRead(p)'
    BY <1>2, <1>4 DEF StepDone, Nothing, HasRead, StoreTypes
  <2> QED
    BY <1>2, <1>4, <2>3, <2>6, <2>8, <2>9, <2>10 DEF Untouched
<1>5. CASE CreateAndRead(p, c)
  <2> DEFINE d == [db EXCEPT !.tables = db.tables \cup {c}]
  <2>1. d \in Database /\ d.kv = db.kv /\ d.row = db.row /\ d.filled = db.filled
    BY <1>2 DEF Legal, Database
  <2>2. Legal(d) /\ Commit(d)
    BY <1>2, <1>5, <2>1 DEF Legal, CreateAndRead
  <2> HIDE DEF d
  <2>3. db' = d /\ disk' \in {disk, d}
    BY <2>2 DEF Commit
  <2>4. Unfilled' \subseteq Unfilled
    BY <2>1, <2>3 DEF Unfilled
  <2>5. \A k \in Keys : (Agree(k) <=> Agree(k)') /\ (Agree(k) => d.row[k] = d.kv[k])
    BY <2>1, <2>3 DEF Agree
  <2>6. /\ UNCHANGED <<doomed, raced, writes, faults>> /\ phase' = phase
        /\ Reads(p, [k \in Selected(c) |-> db.kv[k]]) /\ Selected(c) # {}
    BY <1>5 DEF CreateAndRead, Reads
  <2>7. /\ Selected(c) \subseteq Keys /\ \A k \in Selected(c) : db.kv[k] # None
        /\ \A k \in Keys \ Selected(c) : collectionName[k] = c => db.kv[k] = None
    BY DEF Selected, KeysOf
  <2>8. /\ OpenerOK(p)' /\ StoreTypes'
        /\ \A q \in Openers \ {p} : /\ phase'[q] = phase[q] /\ mig'[q] = mig[q]
                                    /\ pos'[q] = pos[q] /\ pend'[q] = pend[q]
    <3>1. \A k \in Keys \ (raced \cup Selected(c)) : collectionName[k] = c => Agree(k)'
      BY <1>3, <2>5, <2>7
    <3> QED
      BY <1>1, <2>1, <2>3, <2>4, <2>5, <2>6, <2>7, <3>1, ReadOK
  <2>9. StoreInv'
    BY <2>1, <2>2, <2>5, <2>6, <2>8, MigrationStep
  <2> QED
    BY <1>2, <2>1, <2>3, <2>6, <2>7, <2>8, <2>9 DEF Untouched
<1>6. CASE CreateOnly(p, c)
  <2> DEFINE d == [db EXCEPT !.tables = db.tables \cup {c}]
  <2>1. d \in Database /\ d.kv = db.kv /\ d.row = db.row /\ d.filled = db.filled /\ Commit(d)
    BY <1>2, <1>6 DEF Legal, Database, CreateOnly
  <2> HIDE DEF d
  <2>2. StepDone(p) /\ \A k \in Keys : collectionName[k] = c => db.kv[k] = None
    BY <1>6 DEF CreateOnly, Selected, KeysOf
  <2>3. \A k \in Keys \ raced : collectionName[k] = c => d.row[k] = db.kv[k]
    BY <2>1, <2>2, <1>3 DEF Agree
  <2>4. /\ d.row \in Map
        /\ \A k \in Keys \ raced : d.row[k] \in {None, db.kv[k]} /\ (Agree(k) => d.row[k] = db.kv[k])
    BY <1>2, <2>1 DEF Legal, Agree
  <2> QED
    BY <1>4, <2>1, <2>2, <2>3, <2>4
<1>7. CASE CopyRows(p, c)
  <2> DEFINE r == Upserted(c, pend[p])
             d == [db EXCEPT !.row = r]
  <2>1. HasRead(p) /\ Commit(d) /\ StepDone(p)
    BY <1>7 DEF CopyRows
  <2>2. \A k \in Keys \ raced : IF k \in DOMAIN pend[p] THEN pend[p][k] = db.kv[k]
                                ELSE collectionName[k] = c => Agree(k)
    BY <1>2, <2>1 DEF OpeningOK, Carried
  <2>3. \A k \in DOMAIN pend[p] : k \in Keys /\ pend[p][k] \in ValsOf[collectionName[k]]
    BY <1>2 DEF PendOK, Rows
  <2>4. \A k \in Keys : r[k] = IF k \notin DOMAIN pend[p] THEN db.row[k]
                               ELSE IF c = "customlist" /\ db.row[k] # None THEN db.row[k]
                               ELSE pend[p][k]
    BY DEF Upserted
  <2>5. \A k \in Keys : r[k] \in ValsOf[collectionName[k]] \cup {None} /\ r[k] \in Value
    BY <1>2, <2>3, <2>4, CollectionAssumption DEF Legal, Map, Vals, Value
  <2>6. r \in Map
    BY <2>5 DEF Map, Upserted
  <2>7. \A k \in Keys \ raced : /\ r[k] \in {None, db.kv[k]} /\ (Agree(k) => r[k] = db.kv[k])
                                /\ collectionName[k] = c => r[k] = db.kv[k]
    BY <1>2, <2>2, <2>4 DEF Legal, Agree
  <2> HIDE DEF r
  <2>8. d \in Database /\ d.kv = db.kv /\ d.row = r /\ d.filled = db.filled
    BY <1>2, <2>6 DEF Legal, Database, Map
  <2> HIDE DEF d
  <2> QED
    BY <1>4, <2>1, <2>6, <2>7, <2>8
<1> QED
  BY <1>5, <1>6, <1>7 DEF EnsureTable

(* The last step of the last migration is behind: every table is copied. *)
LEMMA AllBehind ==
  ASSUME StoreInv, NEW p \in Openers, phase[p] = "opening",
         mig[p] >= schemaVersion, pos[p] > LastStep(mig[p])
  PROVE  Unfilled = {} /\ \A k \in Keys \ raced : Agree(k)
<1>1. OpeningOK(p) /\ mig[p] \in Nat /\ pos[p] \in 1..7
  BY StoreParts, VersionAssumption DEF OpenerOK, OpeningOK
<1>2. pos[p] = 7
  BY <1>1, StepCounts, VersionAssumption
<1>3. \A k \in Keys : Behind(p, k)
  <2> SUFFICES ASSUME NEW k \in Keys PROVE Behind(p, k)
    OBVIOUS
  <2>1. collectionName[k] \in Tables
    BY CollectionAssumption
  <2>2. \E j \in 2..6 : collectionName[k] = ensureSQLiteSchema[j]
    BY <2>1 DEF Tables
  <2> QED
    BY <1>2, <2>2 DEF Behind
<1> QED
  BY <1>1, <1>2, <1>3 DEF OpeningOK

(* The end of an open, and the next migration. *)
LEMMA OpenedOK ==
  ASSUME StoreInv, NEW p \in Openers, phase[p] = "opening",
         mig[p] >= schemaVersion, pos[p] > LastStep(mig[p]), Opened(p),
         db'.kv = db.kv, db'.row = db.row, db'.filled = db.filled,
         UNCHANGED <<pend, doomed, raced, writes, faults>>
  PROVE  /\ OpenerOK(p)' /\ StoreTypes' /\ phase'[p] = "open"
         /\ \A q \in Openers \ {p} : /\ phase'[q] = phase[q] /\ mig'[q] = mig[q]
                                     /\ pos'[q] = pos[q] /\ pend'[q] = pend[q]
<1>1. StoreTypes /\ OpeningOK(p) /\ PendOK(p) /\ pos[p] \in 1..7 /\ mig[p] \in Nat
  BY StoreParts, VersionAssumption DEF OpenerOK, OpeningOK
<1>2. ~HasRead(p)
  BY <1>1, StepCounts DEF OpeningOK
<1>3. StoreTypes' /\ phase'[p] = "open"
  BY <1>1, VersionAssumption DEF StoreTypes, Opened
<1>4. Unfilled' = {} /\ \A k \in Keys \ raced' : Agree(k)'
  BY AllBehind DEF Unfilled, Agree
<1>5. PendOK(p)' /\ ~HasRead(p)'
  BY <1>1, <1>2 DEF PendOK, HasRead
<1>6. OpenerOK(p)'
  BY <1>3, <1>4, <1>5 DEF OpenerOK, OpenOK, OpeningOK
<1>7. \A q \in Openers \ {p} : /\ phase'[q] = phase[q] /\ mig'[q] = mig[q]
                               /\ pos'[q] = pos[q] /\ pend'[q] = pend[q]
  BY <1>1 DEF StoreTypes, Opened
<1> QED
  BY <1>3, <1>6, <1>7

LEMMA VersionStep ==
  ASSUME StoreInv, NEW p \in Openers, putVersion(p)
  PROVE  StoreInv' /\ Untouched(p)
<1> DEFINE d == [db EXCEPT !.version = mig[p]]
<1>1. /\ phase[p] = "opening" /\ pos[p] > LastStep(mig[p]) /\ mig[p] <= schemaVersion
      /\ Commit(d) /\ UNCHANGED <<pend, doomed, raced, writes, faults>>
  BY DEF putVersion
<1>2. /\ StoreTypes /\ OpeningOK(p) /\ PendOK(p) /\ Legal(db) /\ pos[p] \in 1..7
      /\ mig[p] \in 1..(schemaVersion + 1)
  BY <1>1, StoreParts, VersionAssumption DEF OpenerOK, OpeningOK
<1>3. ~HasRead(p)
  BY <1>1, <1>2, StepCounts, VersionAssumption DEF OpeningOK
<1>4. d \in Database /\ d.kv = db.kv /\ d.row = db.row /\ d.filled = db.filled
  BY <1>1, <1>2, VersionAssumption DEF Legal, Database
<1>5. Legal(d)
  BY <1>2, <1>4 DEF Legal
<1> HIDE DEF d
<1>6. db' = d /\ disk' \in {disk, d}
  BY <1>1 DEF Commit
<1>7. ~HasRead(p)'
  BY <1>1, <1>3 DEF HasRead
<1>8. /\ OpenerOK(p)' /\ StoreTypes' /\ phase'[p] \in {"opening", "open"}
      /\ \A q \in Openers \ {p} : /\ phase'[q] = phase[q] /\ mig'[q] = mig[q]
                                  /\ pos'[q] = pos[q] /\ pend'[q] = pend[q]
  <2>1. CASE mig[p] = schemaVersion
    <3>1. Opened(p) /\ mig[p] >= schemaVersion
      BY <2>1, VersionAssumption DEF putVersion
    <3> QED
      BY <1>1, <1>4, <1>6, <3>1, OpenedOK
  <2>2. CASE mig[p] # schemaVersion
    <3>1. /\ mig' = [mig EXCEPT ![p] = mig[p] + 1] /\ pos' = [pos EXCEPT ![p] = 1]
          /\ phase' = phase
      BY <2>2 DEF putVersion
    <3>2. mig[p] + 1 \in 1..(schemaVersion + 1)
      BY <1>1, <1>2, VersionAssumption
    <3>3. StoreTypes' /\ mig'[p] = mig[p] + 1 /\ pos'[p] = 1
      BY <1>1, <1>2, <3>1, <3>2 DEF StoreTypes
    <3>4. \A k : ~Behind(p, k)'
      BY <3>3 DEF Behind
    <3>5. OpeningOK(p)'
      BY <1>7, <3>2, <3>3, <3>4 DEF OpeningOK
    <3>6. PendOK(p)'
      BY <1>1, <1>2 DEF PendOK
    <3>7. OpenerOK(p)'
      BY <1>1, <1>7, <3>1, <3>5, <3>6 DEF OpenerOK, OpenOK
    <3>8. \A q \in Openers \ {p} : /\ phase'[q] = phase[q] /\ mig'[q] = mig[q]
                                   /\ pos'[q] = pos[q] /\ pend'[q] = pend[q]
      BY <1>1, <1>2, <3>1 DEF StoreTypes
    <3> QED
      BY <1>1, <3>1, <3>3, <3>7, <3>8
  <2> QED
    BY <2>1, <2>2
<1>9. \A k \in Keys \ raced : Agree(k) => d.row[k] = d.kv[k]
  BY <1>4 DEF Agree
<1>10. StoreInv'
  BY <1>1, <1>4, <1>5, <1>8, <1>9, MigrationStep
<1> QED
  BY <1>1, <1>4, <1>6, <1>7, <1>8, <1>10 DEF Untouched

(* A step that leaves the database alone. *)
LEMMA SameDatabase ==
  ASSUME StoreInv, NEW p \in Openers, db' = db, disk' \in {disk, db},
         raced' = raced, StoreTypes', OpenerOK(p)',
         \A q \in Openers \ {p} : /\ phase'[q] = phase[q] /\ mig'[q] = mig[q]
                                  /\ pos'[q] = pos[q] /\ pend'[q] = pend[q]
  PROVE  StoreInv'
<1>1. Legal(db)' /\ Legal(disk)'
  BY StoreParts DEF Legal
<1>2. ASSUME NEW q \in Openers \ {p} PROVE OpenerOK(q)'
  <2>1. Unfilled' = Unfilled /\ \A k : Agree(k)' <=> Agree(k)
    BY DEF Unfilled, Agree
  <2>2. OpenerOK(q)
    BY StoreParts
  <2> QED
    BY <2>1, <2>2, OpenerKept
<1> QED
  BY <1>1, <1>2, StoreParts

LEMMA CheckedStep ==
  ASSUME StoreInv, NEW p \in Openers, SchemaChecked(p)
  PROVE  StoreInv' /\ Untouched(p)
<1>1. /\ phase[p] = "opening" /\ pos[p] > LastStep(mig[p]) /\ mig[p] >= schemaVersion
      /\ Opened(p) /\ UNCHANGED <<db, disk, pend, doomed, raced, writes, faults>>
  BY VersionAssumption DEF SchemaChecked
<1>2. /\ OpenerOK(p)' /\ StoreTypes' /\ phase'[p] = "open"
      /\ \A q \in Openers \ {p} : /\ phase'[q] = phase[q] /\ mig'[q] = mig[q]
                                  /\ pos'[q] = pos[q] /\ pend'[q] = pend[q]
  BY <1>1, OpenedOK
<1>3. StoreInv'
  BY <1>1, <1>2, SameDatabase
<1>4. ~HasRead(p) => ~HasRead(p)'
  BY <1>1 DEF HasRead
<1> QED
  BY <1>1, <1>2, <1>3, <1>4 DEF Untouched

LEMMA MigrationsOK ==
  ASSUME StoreInv, NEW p \in Openers, runMigrations(p)
  PROVE  StoreInv' /\ Untouched(p)
<1>1. ASSUME NEW c \in Tables, AtStep(p, c) /\ EnsureTable(p, c) PROVE StoreInv' /\ Untouched(p)
  BY <1>1, TableStep
<1> QED
  BY <1>1, ColumnStep, VersionStep, CheckedStep, SchemaOrder
     DEF runMigrations, ensureClientTable, ensureSessionTable, ensureCustomListTable,
         ensureStatsTable, ensureConfigHistoryTable

(* Opening begins: nothing is read, nothing is behind. *)
LEMMA OpenStep ==
  ASSUME StoreInv, NEW p \in Openers, OpenSQLite(p)
  PROVE  /\ StoreInv' /\ db'.kv = db.kv /\ db'.row = db.row /\ disk' \in {disk, db'}
         /\ phase[p] = "down" /\ phase'[p] = "opening" /\ ~HasRead(p)'
         /\ \A q \in Openers \ {p} : phase'[q] = phase[q] /\ pend'[q] = pend[q]
         /\ UNCHANGED <<raced, writes>>
<1> DEFINE d == [db EXCEPT !.exists = TRUE]
<1>1. PICK current \in {db.version, 0} :
        /\ mig' = [mig EXCEPT ![p] = IF current >= schemaVersion
                                     THEN schemaVersion + 1 ELSE current + 1]
        /\ IF current = db.version THEN UNCHANGED faults
           ELSE faults < MaxFaults /\ faults' = faults + 1
  BY DEF OpenSQLite
<1>2. /\ phase[p] = "down" /\ Commit(d) /\ phase' = [phase EXCEPT ![p] = "opening"]
      /\ pos' = [pos EXCEPT ![p] = 1]
      /\ UNCHANGED <<pend, doomed, raced, writes>>
  BY DEF OpenSQLite
<1>3. StoreTypes /\ Legal(db) /\ PendOK(p) /\ ~HasRead(p)
  BY <1>2, StoreParts DEF OpenerOK
<1>4. d \in Database /\ d.kv = db.kv /\ d.row = db.row /\ d.filled = db.filled
  BY <1>3 DEF Legal, Database
<1>5. Legal(d)
  BY <1>4, <1>3 DEF Legal
<1>6. current \in 0..schemaVersion /\ faults' \in 0..MaxFaults
  BY <1>1, <1>3, VersionAssumption, BoundsAssumption DEF Legal, Database, StoreTypes
<1> HIDE DEF d
<1>7. db' = d /\ disk' \in {disk, d}
  BY <1>2 DEF Commit
<1>8. StoreTypes'
  BY <1>1, <1>2, <1>6, <1>3, VersionAssumption DEF StoreTypes
<1>9. mig'[p] \in 1..(schemaVersion + 1) /\ pos'[p] = 1 /\ phase'[p] = "opening"
  BY <1>1, <1>2, <1>6, <1>3, VersionAssumption DEF StoreTypes
<1>10. PendOK(p)' /\ ~HasRead(p)'
  BY <1>2, <1>3 DEF PendOK, HasRead
<1>11. OpenerOK(p)'
  BY <1>9, <1>10 DEF OpenerOK, OpenOK, OpeningOK, Behind
<1>12. \A q \in Openers \ {p} : /\ phase'[q] = phase[q] /\ mig'[q] = mig[q]
                                /\ pos'[q] = pos[q] /\ pend'[q] = pend[q]
  BY <1>1, <1>2, <1>3 DEF StoreTypes
<1>13. \A k \in Keys \ raced : Agree(k) => d.row[k] = d.kv[k]
  BY <1>4 DEF Agree
<1>14. StoreInv'
  BY <1>2, <1>4, <1>5, <1>8, <1>11, <1>12, <1>13, MigrationStep
<1> QED
  BY <1>2, <1>4, <1>7, <1>9, <1>10, <1>12, <1>14

(* An opener that goes down forgets what it read. *)
LEMMA DownStep ==
  ASSUME StoreInv, NEW p \in Openers, Down(p), db' = db, disk' \in {disk, db},
         raced' = raced, writes' = writes, faults' \in 0..MaxFaults
  PROVE  /\ StoreInv' /\ phase'[p] = "down" /\ ~HasRead(p)'
         /\ \A q \in Openers \ {p} : phase'[q] = phase[q] /\ pend'[q] = pend[q]
<1>1. StoreTypes
  BY StoreParts
<1>2. Nothing \in Rows /\ DOMAIN Nothing = {}
  BY DEF Nothing, Rows
<1>3. StoreTypes' /\ phase'[p] = "down" /\ pend'[p] = Nothing
  BY <1>1, <1>2, VersionAssumption DEF StoreTypes, Down
<1>4. PendOK(p)' /\ ~HasRead(p)'
  BY <1>2, <1>3 DEF PendOK, HasRead
<1>5. OpenerOK(p)'
  BY <1>3, <1>4 DEF OpenerOK, OpenOK, OpeningOK
<1>6. \A q \in Openers \ {p} : /\ phase'[q] = phase[q] /\ mig'[q] = mig[q]
                               /\ pos'[q] = pos[q] /\ pend'[q] = pend[q]
  BY <1>1 DEF StoreTypes, Down
<1>7. StoreInv'
  BY <1>3, <1>5, <1>6, SameDatabase
<1> QED
  BY <1>3, <1>4, <1>6, <1>7

LEMMA CloseStep ==
  ASSUME StoreInv, NEW p \in Openers, Close(p) \/ OpenFails(p) \/ Kill(p)
  PROVE  /\ StoreInv' /\ phase[p] # "down" /\ phase'[p] = "down" /\ ~HasRead(p)'
         /\ \A q \in Openers \ {p} : phase'[q] = phase[q] /\ pend'[q] = pend[q]
         /\ db' = db /\ disk' \in {disk, db} /\ raced' = raced /\ writes' = writes
<1>1. /\ Down(p) /\ db' = db /\ disk' \in {disk, db} /\ raced' = raced /\ writes' = writes
      /\ phase[p] # "down"
  BY DEF Close, OpenFails, Kill
<1>2. faults' \in 0..MaxFaults
  <2>1. faults \in 0..MaxFaults
    BY StoreParts DEF StoreTypes
  <2> QED
    BY <2>1, BoundsAssumption DEF Close, OpenFails, Kill
<1> QED
  BY <1>1, <1>2, DownStep

(* All openers are gone; a power loss, or a new database. *)
LEMMA AllDown ==
  ASSUME StoreInv, Legal(db)', Legal(disk)', StoreTypes', raced' = raced,
         \A p \in Openers : phase'[p] = "down" /\ pend'[p] \in Rows /\ DOMAIN pend'[p] = {}
  PROVE  StoreInv'
<1>1. ASSUME NEW p \in Openers PROVE OpenerOK(p)'
  BY DEF OpenerOK, OpenOK, OpeningOK, PendOK, HasRead
<1> QED
  BY <1>1, StoreParts

LEMMA PowerLossStep ==
  ASSUME StoreInv, PowerLoss
  PROVE  /\ StoreInv' /\ db' = disk /\ disk' = disk /\ raced' = raced
         /\ \A p \in Openers : phase'[p] = "down" /\ ~HasRead(p)'
<1>1. StoreTypes /\ Legal(disk)
  BY StoreParts
<1>2. Nothing \in Rows /\ DOMAIN Nothing = {}
  BY DEF Nothing, Rows
<1>3. StoreTypes' /\ raced' = raced
  BY <1>1, <1>2, BoundsAssumption, VersionAssumption DEF StoreTypes, PowerLoss
<1>4. Legal(db)' /\ Legal(disk)' /\ db' = disk /\ disk' = disk
  BY <1>1 DEF PowerLoss, Legal
<1>5. \A p \in Openers : phase'[p] = "down" /\ pend'[p] = Nothing
  BY DEF PowerLoss
<1>6. StoreInv'
  BY <1>2, <1>3, <1>4, <1>5, AllDown
<1> QED
  BY <1>2, <1>3, <1>4, <1>5, <1>6 DEF HasRead

(* A transaction on the records K, by the server or an import: it writes   *)
(* row and JSON alike.  Records about to be copied become raced.           *)
Writes(K, d) == /\ K \subseteq Keys /\ d \in Database /\ d.kv \in Map /\ d.row \in Map
                /\ \A k \in K : d.row[k] = d.kv[k] /\ (d.kv[k] # None => k \in d.filled)
                /\ \A k \in Keys \ K : /\ d.row[k] = db.row[k] /\ d.kv[k] = db.kv[k]
                                       /\ k \in db.filled => k \in d.filled

LEMMA WriteStep ==
  ASSUME StoreInv, NEW K, NEW d, Writes(K, d), Commit(d),
         raced' = raced \cup (K \cap BeingCopied),
         UNCHANGED <<phase, mig, pos, pend, faults>>, StoreTypes'
  PROVE  StoreInv' /\ db' = d /\ disk' \in {disk, d}
<1>1. db' = d /\ disk' \in {disk, d}
  BY DEF Commit
<1>2. Legal(db) /\ Legal(disk) /\ StoreTypes
  BY StoreParts
<1>3. Legal(db)'
  BY <1>1, <1>2 DEF Legal, Writes
<1>4. Legal(disk)'
  BY <1>2, <1>3, CommitLegal
<1>5. Unfilled' \subseteq Unfilled
  BY <1>1 DEF Unfilled, Writes
<1>6. \A k \in Keys \ raced' : Agree(k) => Agree(k)'
  BY <1>1 DEF Agree, Writes
<1>7. ASSUME NEW p \in Openers PROVE OpenerOK(p)'
  <2>1. OpenerOK(p)
    BY StoreParts
  <2>2. ASSUME NEW k \in (DOMAIN pend[p]) \ raced', pos[p] # 1 PROVE db'.kv[k] = db.kv[k]
    <3>1. k \in Keys
      BY <2>1 DEF OpenerOK, PendOK, Rows
    <3>2. HasRead(p)
      BY DEF HasRead
    <3>3. pos[p] > 1
      BY <2>1, <2>2, <3>2 DEF OpenerOK, OpeningOK
    <3>4. k \in BeingCopied
      BY <3>1, <3>3 DEF BeingCopied
    <3> QED
      BY <1>1, <3>1, <3>4 DEF Writes
  <2> QED
    BY <2>1, <2>2, <1>5, <1>6, OpenerKept
<1> QED
  BY <1>1, <1>3, <1>4, <1>7, StoreParts

(* The puts of the five collections write the record once in each form; in *)
(* custom_lists the row that is kept says the same as the new one.         *)
LEMMA PutWrites ==
  ASSUME StoreInv, NEW k \in Keys, NEW v \in ValsOf[collectionName[k]],
         NEW r, \/ r = v
                \/ collectionName[k] = "customlist" /\ r = IF db.row[k] # None THEN db.row[k] ELSE v
  PROVE  /\ Writes({k}, Stored(k, v, r)) /\ v \in Vals
         /\ Stored(k, v, r).kv = [db.kv EXCEPT ![k] = v]
         /\ Stored(k, v, r).row[k] = v
<1>1. Legal(db)
  BY StoreParts
<1>2. r = v
  BY <1>1, ValsAssumption DEF Legal, Map
<1>3. v \in Vals
  BY CollectionAssumption DEF Vals
<1> DEFINE d == Stored(k, v, r)
<1>4. /\ d.kv = [db.kv EXCEPT ![k] = v] /\ d.row = [db.row EXCEPT ![k] = v]
      /\ d.filled = db.filled \cup {k}
  BY <1>1, <1>2 DEF Stored, Legal, Database
<1>5. d.kv \in Map /\ d.row \in Map
  BY <1>1, <1>3, <1>4 DEF Legal, Map, Value
<1>6. d \in Database
  BY <1>1, <1>2, <1>3 DEF Stored, Legal, Database, Value
<1> HIDE DEF d
<1>7. d.row[k] = v /\ d.kv[k] = v /\ \A j \in Keys \ {k} : d.row[j] = db.row[j] /\ d.kv[j] = db.kv[j]
  BY <1>1, <1>4 DEF Legal, Map
<1> QED
  BY <1>3, <1>4, <1>5, <1>6, <1>7 DEF Writes, d

LEMMA WithoutWrites ==
  ASSUME StoreInv, NEW K \in SUBSET Keys
  PROVE  Writes(K, Without(K)) /\ Without(K).kv = [k \in Keys |-> IF k \in K THEN None ELSE db.kv[k]]
<1>1. Legal(db)
  BY StoreParts
<1> DEFINE d == Without(K)
<1>2. /\ d.kv = [k \in Keys |-> IF k \in K THEN None ELSE db.kv[k]]
      /\ d.row = [k \in Keys |-> IF k \in K THEN None ELSE db.row[k]]
      /\ d.filled = db.filled \ K
  BY <1>1 DEF Without, Legal, Database
<1>3. d.kv \in Map /\ d.row \in Map
  BY <1>1, <1>2 DEF Legal, Map, Value
<1>4. d \in Database
  BY <1>1, ZenonT(30) DEF Without, Legal, Database, Value
<1> HIDE DEF d
<1>5. /\ \A j \in K : d.row[j] = None /\ d.kv[j] = None
      /\ \A j \in Keys \ K : d.row[j] = db.row[j] /\ d.kv[j] = db.kv[j]
  BY <1>2
<1> QED
  BY <1>2, <1>3, <1>4, <1>5 DEF Writes, d

(* What the server does to the content while it is open. *)
Served(d) == /\ phase["serve"] = "open" /\ db' = d /\ disk' \in {disk, d}
             /\ UNCHANGED <<phase, pend>>

LEMMA ServerStep ==
  ASSUME StoreInv, NEW K, NEW d, Writes(K, d), ServerWrites(K, d),
         doomed' \in {doomed, None}
  PROVE  StoreInv' /\ Served(d)
<1>1. /\ phase["serve"] = "open" /\ writes < MaxWrites /\ Commit(d)
      /\ raced' = raced \cup (K \cap BeingCopied) /\ writes' = writes + 1
      /\ UNCHANGED <<phase, mig, pos, pend, faults>>
  BY DEF ServerWrites
<1>2. StoreTypes
  BY StoreParts
<1>3. StoreTypes'
  BY <1>1, <1>2, BoundsAssumption DEF StoreTypes, BeingCopied
<1> QED
  BY <1>1, <1>3, WriteStep DEF Served

(* The operations of the collections either store one record, or remove    *)
(* some, or only read.                                                     *)
LEMMA OperationsStep ==
  ASSUME StoreInv, Operations
  PROVE  /\ StoreInv' /\ phase["serve"] = "open" /\ UNCHANGED <<phase, pend>>
         /\ disk' \in {disk, db'}
         /\ \/ db' = db
            \/ \E k \in Keys, v \in Vals : db'.kv = [db.kv EXCEPT ![k] = v]
            \/ \E K \in SUBSET Keys : db'.kv = [k \in Keys |-> IF k \in K THEN None ELSE db.kv[k]]
<1>1. ASSUME NEW k \in Keys, NEW v \in ValsOf[collectionName[k]], NEW r,
             \/ r = v
             \/ collectionName[k] = "customlist" /\ r = IF db.row[k] # None THEN db.row[k] ELSE v,
             Op(k, Stored(k, v, r))
      PROVE  StoreInv' /\ Served(Stored(k, v, r)) /\ v \in Vals
             /\ Stored(k, v, r).kv = [db.kv EXCEPT ![k] = v]
  <2>1. ServerWrites({k}, Stored(k, v, r)) /\ doomed' = doomed
    BY <1>1 DEF Op
  <2>2. Writes({k}, Stored(k, v, r)) /\ v \in Vals /\ Stored(k, v, r).kv = [db.kv EXCEPT ![k] = v]
    BY <1>1, PutWrites
  <2> QED
    BY <2>1, <2>2, ServerStep
<1>2. ASSUME NEW k \in Keys, NEW v \in Vals,
             \/ ClientsUpsert(k, v) \/ SessionsUpsert(k, v) \/ CustomListsAdd(k, v)
             \/ StatsPut(k, v) \/ ConfigHistoryAppend(k, v)
      PROVE  /\ StoreInv' /\ phase["serve"] = "open" /\ UNCHANGED <<phase, pend>>
             /\ disk' \in {disk, db'} /\ db'.kv = [db.kv EXCEPT ![k] = v]
  <2>1. CASE CustomListsAdd(k, v)
    <3> DEFINE r == IF db.row[k] # None THEN db.row[k] ELSE v
    <3>1. /\ v \in ValsOf[collectionName[k]] /\ collectionName[k] = "customlist"
          /\ Op(k, Stored(k, v, r))
      BY <2>1 DEF CustomListsAdd, KeysOf, putCustomListLocked
    <3> HIDE DEF r
    <3>2. StoreInv' /\ Served(Stored(k, v, r)) /\ Stored(k, v, r).kv = [db.kv EXCEPT ![k] = v]
      BY <1>1, <3>1 DEF r
    <3> QED
      BY <3>2 DEF Served
  <2>2. CASE ~CustomListsAdd(k, v)
    <3>1. v \in ValsOf[collectionName[k]] /\ Op(k, Stored(k, v, v))
      BY <1>2, <2>2 DEF ClientsUpsert, SessionsUpsert, StatsPut, ConfigHistoryAppend, KeysOf,
           putClientLocked, putSessionLocked, putStatsLocked, putConfigHistoryLocked
    <3>2. StoreInv' /\ Served(Stored(k, v, v)) /\ Stored(k, v, v).kv = [db.kv EXCEPT ![k] = v]
      BY <1>1, <3>1
    <3> QED
      BY <3>2 DEF Served
  <2> QED
    BY <2>1, <2>2
<1>3. ASSUME NEW K \in SUBSET Keys, ServerWrites(K, Without(K)), doomed' \in {doomed, None}
      PROVE  /\ StoreInv' /\ phase["serve"] = "open" /\ UNCHANGED <<phase, pend>>
             /\ disk' \in {disk, db'}
             /\ db'.kv = [k \in Keys |-> IF k \in K THEN None ELSE db.kv[k]]
  <2>1. Writes(K, Without(K)) /\ Without(K).kv = [k \in Keys |-> IF k \in K THEN None ELSE db.kv[k]]
    BY WithoutWrites
  <2>2. StoreInv' /\ Served(Without(K))
    BY <1>3, <2>1, ServerStep
  <2> QED
    BY <2>1, <2>2 DEF Served
<1>4. ASSUME NEW k \in Keys, ClientsDelete(k) \/ SessionsDelete(k) \/ CustomListsRemove(k)
      PROVE  {k} \in SUBSET Keys /\ ServerWrites({k}, Without({k})) /\ doomed' \in {doomed, None}
  BY <1>4 DEF ClientsDelete, SessionsDelete, CustomListsRemove, Op, delete
<1>5. CASE DeleteExpired
  <2>1. ServerWrites(doomed, Without(doomed)) /\ doomed' = None /\ doomed # None
    BY <1>5 DEF DeleteExpired
  <2>2. doomed \in SUBSET Keys
    BY <2>1, StoreParts DEF StoreTypes, KeysOf
  <2> QED
    BY <1>3, <2>1, <2>2
<1>6. CASE DeleteExpiredReads
  <2>1. /\ phase["serve"] = "open" /\ doomed' \subseteq KeysOf("session")
        /\ UNCHANGED <<db, disk, phase, mig, pos, pend, raced, writes, faults>>
    BY <1>6 DEF DeleteExpiredReads
  <2>2. StoreTypes'
    BY <2>1, StoreParts DEF StoreTypes
  <2>3. Legal(db)' /\ Legal(disk)'
    BY <2>1, StoreParts DEF Legal
  <2>4. ASSUME NEW p \in Openers PROVE OpenerOK(p)'
    BY <2>1, StoreParts, OpenerKept DEF Unfilled, Agree
  <2> QED
    BY <2>1, <2>2, <2>3, <2>4, StoreParts
<1> QED
  BY <1>2, <1>3, <1>4, <1>5, <1>6 DEF Operations

-----------------------------------------------------------------------------
(* The commands. *)

ToolTypes ==
  /\ job \in {"none", "export", "compact", "backup", "import", "restore"}
  /\ stage \in {"idle", "config", "prepare", "open", "write"}
  /\ force \in BOOLEAN
  /\ got \in Payload
  /\ left \in SUBSET (Keys \cup {VersionKey})
  /\ conf \in Configs \cup {None}
  /\ json \in Payload \cup {None}
  /\ archive \in Archive
  /\ done \in {"none", "export", "compact", "backup", "import", "restore"}
  /\ jobs \in 0..MaxJobs

(* A command has the database open only after its preparations, and one    *)
(* that replaces it runs alone.                                            *)
JobShape ==
  /\ job = "none" <=> stage = "idle"
  /\ stage \in {"idle", "config", "prepare"} => phase["tool"] = "down"
  /\ Importing => phase["serve"] = "down" /\ ~HasRead("tool")
  /\ stage = "config" => job = "restore"
  /\ stage = "prepare" => Importing
  /\ stage = "write" => ~Importing

(* What an import has brought over is in both forms what it read; nothing  *)
(* else is there.                                                          *)
Imported == \A k \in Keys : /\ Agree(k)
                            /\ db.kv[k] = IF k \in left THEN None ELSE got.kv[k]
                            /\ k \in left => got.kv[k] # None
                            /\ phase["tool"] # "open" /\ got.kv[k] # None => k \in left
SourceOK == /\ job = "import" => got = json
            /\ job = "restore" /\ stage # "config" =>
                 conf = archive.conf /\ archive.rows # None /\ got = archive.rows
            /\ Importing /\ stage = "open" => Imported
DoneOK == done \in {"import", "restore"} =>
            job = "none" /\ \A p \in Openers : phase[p] = "down"

TransferInv == StoreInv /\ ToolTypes /\ JobShape /\ SourceOK /\ DoneOK /\ ImportExact

(* The content as a step leaves it: the same, one transaction later, or    *)
(* what a power loss brings back.                                          *)
InUse == phase["serve"] = "open" \/ Importing
Turned == db'.kv = db.kv /\ disk'.kv \in {disk.kv, db.kv}
Written == /\ InUse /\ InUse' /\ disk'.kv \in {disk.kv, db'.kv}
           /\ \/ \E k \in Keys, v \in Vals : db'.kv = [db.kv EXCEPT ![k] = v]
              \/ \E K \in SUBSET Keys : db'.kv = [k \in Keys |-> IF k \in K THEN None ELSE db.kv[k]]
Lost == db'.kv = disk.kv /\ disk'.kv = disk.kv /\ ~InUse'
Content == Turned \/ Written \/ Lost

LEMMA StoreSame ==
  ASSUME StoreInv, UNCHANGED <<db, disk, phase, mig, pos, pend, doomed, raced, writes>>,
         faults' \in 0..MaxFaults
  PROVE  StoreInv' /\ Turned
<1>1. StoreTypes'
  BY StoreParts DEF StoreTypes
<1>2. Legal(db)' /\ Legal(disk)'
  BY StoreParts DEF Legal
<1>3. ASSUME NEW p \in Openers PROVE OpenerOK(p)'
  BY StoreParts, OpenerKept DEF Unfilled, Agree
<1> QED
  BY <1>1, <1>2, <1>3, StoreParts DEF Turned

LEMMA StoreRests ==
  ASSUME StoreInv, UNCHANGED storeVars
  PROVE  /\ StoreInv' /\ Turned /\ phase' = phase /\ pend' = pend
         /\ (HasRead("tool")' <=> HasRead("tool")) /\ db' = db
<1>1. UNCHANGED <<db, disk, phase, mig, pos, pend, doomed, raced, writes, faults>>
  BY DEF storeVars
<1>2. faults \in 0..MaxFaults
  BY StoreParts DEF StoreTypes
<1> QED
  BY <1>1, <1>2, StoreSame DEF HasRead

LEMMA OpenersAre == Openers = {"serve", "tool"}
BY DEF Openers

(* The server runs only beside commands that do not replace the database. *)
LEMMA ServeInv ==
  ASSUME TransferInv, StoreInv',
         UNCHANGED <<job, stage, force, got, left, conf, json, archive, jobs>>,
         ~Importing, done \notin {"import", "restore"}, done' \in {done, "none"},
         phase'["tool"] = phase["tool"]
  PROVE  TransferInv'
<1>1. ToolTypes'
  BY DEF TransferInv, ToolTypes
<1>2. ~Importing'
  BY DEF Importing
<1>3. JobShape'
  BY <1>2 DEF TransferInv, JobShape
<1>4. SourceOK'
  BY <1>2 DEF SourceOK, Importing
<1>5. DoneOK' /\ ImportExact'
  BY DEF DoneOK, ImportExact
<1> QED
  BY <1>1, <1>3, <1>4, <1>5 DEF TransferInv

LEMMA ServeStep ==
  ASSUME TransferInv, ServeStarts \/ Serve
  PROVE  TransferInv' /\ Content
<1>1. StoreInv /\ "serve" \in Openers /\ "tool" \in Openers \ {"serve"}
  BY OpenersAre DEF TransferInv
<1>2. CASE ServeStarts
  <2>1. ~Importing /\ OpenSQLite("serve") /\ done' = "none" /\ Unmoved
    BY <1>2 DEF ServeStarts
  <2>2. StoreInv' /\ Turned /\ phase'["tool"] = phase["tool"]
    BY <1>1, <2>1, OpenStep DEF Turned
  <2>3. ToolTypes' /\ ~Importing'
    BY <2>1 DEF TransferInv, ToolTypes, Unmoved, Importing
  <2>4. JobShape' /\ SourceOK' /\ DoneOK' /\ ImportExact'
    BY <2>1, <2>2, <2>3 DEF TransferInv, JobShape, SourceOK, DoneOK, ImportExact, Importing, Unmoved
  <2> QED
    BY <2>2, <2>3, <2>4 DEF TransferInv, Content
<1>3. CASE Serve
  <2>1. UNCHANGED done /\ UNCHANGED <<job, stage, force, got, left, conf, json, archive, jobs>>
    BY <1>3 DEF Serve, Unmoved
  <2>2. CASE runMigrations("serve")
    <3>1. StoreInv' /\ Untouched("serve")
      BY <1>1, <2>2, MigrationsOK
    <3>2. phase["serve"] # "down" /\ phase'["tool"] = phase["tool"] /\ Turned
      BY <1>1, <3>1 DEF Untouched, Turned
    <3>3. ~Importing /\ done \notin {"import", "restore"}
      BY <1>1, <3>2 DEF TransferInv, JobShape, DoneOK
    <3> QED
      BY <2>1, <3>1, <3>2, <3>3, ServeInv DEF Content
  <2>3. CASE Operations
    <3>1. /\ StoreInv' /\ phase["serve"] = "open" /\ phase' = phase
          /\ disk' \in {disk, db'}
          /\ \/ db' = db
             \/ \E k \in Keys, v \in Vals : db'.kv = [db.kv EXCEPT ![k] = v]
             \/ \E K \in SUBSET Keys : db'.kv = [k \in Keys |-> IF k \in K THEN None ELSE db.kv[k]]
      BY <1>1, <2>3, OperationsStep
    <3>2. Content
      BY <3>1 DEF Content, Turned, Written, InUse
    <3>3. ~Importing /\ done \notin {"import", "restore"}
      BY <1>1, <3>1 DEF TransferInv, JobShape, DoneOK
    <3> QED
      BY <2>1, <3>1, <3>2, <3>3, ServeInv
  <2>4. CASE Close("serve") \/ OpenFails("serve") \/ Kill("serve")
    <3>1. StoreInv' /\ phase["serve"] # "down" /\ phase'["tool"] = phase["tool"] /\ Turned
      BY <1>1, <2>4, CloseStep DEF Turned
    <3>2. ~Importing /\ done \notin {"import", "restore"}
      BY <1>1, <3>1 DEF TransferInv, JobShape, DoneOK
    <3> QED
      BY <2>1, <3>1, <3>2, ServeInv DEF Content
  <2> QED
    BY <1>3, <2>2, <2>3, <2>4 DEF Serve
<1> QED
  BY <1>2, <1>3

(* The command goes through its open. *)
LEMMA ToolOpensStep ==
  ASSUME TransferInv, ToolOpens \/ ToolMigrates
  PROVE  TransferInv' /\ Content
<1>1. StoreInv /\ "tool" \in Openers /\ "serve" \in Openers \ {"tool"}
  BY OpenersAre DEF TransferInv
<1>2. UNCHANGED <<job, stage, force, got, left, conf, json, archive, jobs, done>>
  BY DEF ToolOpens, ToolMigrates, Unmoved
<1>3. ASSUME StoreInv', Turned, stage \notin {"idle", "config", "prepare"},
             phase'["serve"] = phase["serve"],
             Importing => ~HasRead("tool")' /\ Imported'
      PROVE  TransferInv' /\ Content
  <2>1. ToolTypes'
    BY <1>2 DEF TransferInv, ToolTypes
  <2>2. Importing' <=> Importing
    BY <1>2 DEF Importing
  <2>3. JobShape'
    BY <1>2, <1>3, <2>2 DEF TransferInv, JobShape
  <2>4. SourceOK'
    BY <1>2, <1>3, <2>2 DEF TransferInv, SourceOK
  <2>5. done \notin {"import", "restore"}
    BY <1>3 DEF TransferInv, DoneOK, JobShape
  <2>6. DoneOK' /\ ImportExact'
    BY <1>2, <2>5 DEF DoneOK, ImportExact
  <2> QED
    BY <1>3, <2>1, <2>3, <2>4, <2>6 DEF TransferInv, Content
<1>4. CASE ToolOpens
  <2>1. stage = "open" /\ OpenSQLite("tool")
    BY <1>4 DEF ToolOpens
  <2>2. /\ StoreInv' /\ db'.kv = db.kv /\ db'.row = db.row /\ Turned /\ ~HasRead("tool")'
        /\ phase["tool"] = "down" /\ phase'["tool"] = "opening" /\ phase'["serve"] = phase["serve"]
    BY <1>1, <2>1, OpenStep DEF Turned
  <2>3. Importing => Imported
    BY <2>1 DEF TransferInv, SourceOK
  <2>4. Importing => Imported'
    BY <1>2, <2>2, <2>3 DEF Imported, Agree
  <2> QED
    BY <1>3, <2>1, <2>2, <2>4
<1>5. CASE ToolMigrates
  <2>1. StoreInv' /\ Untouched("tool")
    BY <1>1, <1>5, MigrationsOK DEF ToolMigrates
  <2>2. /\ phase["tool"] = "opening" /\ phase'["serve"] = phase["serve"]
        /\ db'.kv = db.kv /\ Turned
    BY <1>1, <2>1 DEF Untouched, Turned
  <2>3. stage \notin {"idle", "config", "prepare"}
    BY <2>2 DEF TransferInv, JobShape
  <2>4. ASSUME Importing PROVE ~HasRead("tool")' /\ Imported'
    <3>1. Imported /\ ~HasRead("tool")
      BY <2>3, <2>4 DEF TransferInv, SourceOK, JobShape, ToolTypes
    <3>2. \A k \in Keys : db.kv[k] = None
      BY <2>2, <3>1 DEF Imported
    <3>3. ~HasRead("tool")' /\ db'.row = db.row
      BY <2>1, <3>1, <3>2 DEF Untouched
    <3>4. Imported'
      BY <1>2, <2>2, <3>1, <3>3 DEF Imported, Agree
    <3> QED
      BY <3>3, <3>4
  <2> QED
    BY <1>3, <2>1, <2>2, <2>3, <2>4
<1> QED
  BY <1>4, <1>5

(* A command begins. *)
LEMMA StartStep ==
  ASSUME TransferInv, NEW f \in BOOLEAN,
         \/ ExportSQLiteToJSON(f) \/ MigrateJSONToSQLite(f)
         \/ restoreBackupArchive(f) \/ createBackup(f) \/ CompactBackend
  PROVE  TransferInv' /\ Content
<1>1. StoreInv /\ UNCHANGED storeVars
  BY DEF TransferInv, ExportSQLiteToJSON, MigrateJSONToSQLite, restoreBackupArchive, createBackup,
         CompactBackend
<1>2. /\ StoreInv' /\ Turned /\ phase' = phase /\ db' = db
      /\ (HasRead("tool")' <=> HasRead("tool"))
  BY <1>1, StoreRests
<1>3. /\ job = "none" /\ jobs < MaxJobs /\ jobs' = jobs + 1 /\ done' = "none"
      /\ UNCHANGED <<left, json>>
  BY DEF ExportSQLiteToJSON, MigrateJSONToSQLite, restoreBackupArchive, createBackup,
         CompactBackend, Starts
<1>4. phase["tool"] = "down" /\ ~HasRead("tool")
  <2>1. phase["tool"] = "down"
    BY <1>3 DEF TransferInv, JobShape
  <2>2. OpenerOK("tool")
    BY <1>1, StoreParts, OpenersAre
  <2> QED
    BY <2>1, <2>2 DEF OpenerOK
<1>5. DoneOK' /\ ImportExact' /\ jobs' \in 0..MaxJobs
  BY <1>3, JobsAssumption DEF TransferInv, ToolTypes, DoneOK, ImportExact
<1>6. CASE ExportSQLiteToJSON(f) \/ CompactBackend
  <2>1. /\ job' \in {"export", "compact"} /\ stage' = "open" /\ force' \in {f, force}
        /\ UNCHANGED <<got, conf, archive>>
    BY <1>6 DEF ExportSQLiteToJSON, CompactBackend, Starts
  <2>2. ToolTypes'
    BY <1>3, <1>5, <2>1 DEF TransferInv, ToolTypes
  <2>3. JobShape' /\ SourceOK'
    BY <1>2, <1>4, <2>1 DEF JobShape, SourceOK, Importing
  <2> QED
    BY <1>2, <1>5, <2>2, <2>3 DEF TransferInv, Content
<1>7. CASE createBackup(f)
  <2>1. /\ job' = "backup" /\ stage' \in {"open", "write"} /\ conf # None
        /\ UNCHANGED <<force, got, conf>>
        /\ archive' = [whole |-> FALSE, conf |-> conf, rows |-> None,
                       layers |-> IF f THEN <<"gzip", "age", "tar">> ELSE <<"gzip", "tar">>]
    BY <1>7 DEF createBackup, Starts
  <2>2. archive' \in Archive
    BY <2>1 DEF TransferInv, ToolTypes, Archive
  <2>3. ToolTypes'
    BY <1>3, <1>5, <2>1, <2>2 DEF TransferInv, ToolTypes
  <2>4. JobShape' /\ SourceOK'
    BY <1>2, <1>4, <2>1 DEF JobShape, SourceOK, Importing
  <2> QED
    BY <1>2, <1>5, <2>3, <2>4 DEF TransferInv, Content
<1>8. CASE MigrateJSONToSQLite(f)
  <2>1. /\ job' = "import" /\ stage' = "prepare" /\ json # None /\ phase["serve"] = "down"
        /\ force' = f /\ got' = json /\ UNCHANGED <<conf, archive>>
    BY <1>8 DEF MigrateJSONToSQLite, Starts
  <2>2. ToolTypes'
    BY <1>3, <1>5, <2>1 DEF TransferInv, ToolTypes
  <2>3. JobShape' /\ SourceOK'
    BY <1>2, <1>3, <1>4, <2>1 DEF JobShape, SourceOK, Importing
  <2> QED
    BY <1>2, <1>5, <2>2, <2>3 DEF TransferInv, Content
<1>9. CASE restoreBackupArchive(f)
  <2>1. /\ job' = "restore" /\ stage' = "config" /\ phase["serve"] = "down"
        /\ force' = f /\ UNCHANGED <<got, conf, archive>>
    BY <1>9 DEF restoreBackupArchive, Starts
  <2>2. ToolTypes'
    BY <1>3, <1>5, <2>1 DEF TransferInv, ToolTypes
  <2>3. JobShape' /\ SourceOK'
    BY <1>2, <1>3, <1>4, <2>1 DEF JobShape, SourceOK, Importing
  <2> QED
    BY <1>2, <1>5, <2>2, <2>3 DEF TransferInv, Content
<1> QED
  BY <1>6, <1>7, <1>8, <1>9

(* A command ends, and its connection is closed. *)
LEMMA EndStep ==
  ASSUME TransferInv, NEW ok \in BOOLEAN, Ends(ok), StoreInv', Content,
         job # "none", phase'["tool"] = "down",
         conf' \in Configs \cup {None}, json' \in Payload \cup {None}, archive' \in Archive,
         jobs' = jobs,
         ok /\ Importing => phase'["serve"] = "down" /\ ImportExact'
  PROVE  TransferInv' /\ Content
<1>1. /\ done' = IF ok THEN job ELSE "none"
      /\ job' = "none" /\ stage' = "idle" /\ force' = FALSE /\ got' = NoRows /\ left' = {}
  BY DEF Ends
<1>2. NoRows \in Payload
  BY VersionAssumption DEF NoRows, Payload, Empty, Map, Value
<1>3. ToolTypes'
  BY <1>1, <1>2 DEF TransferInv, ToolTypes
<1>4. ~Importing'
  BY <1>1 DEF Importing
<1>5. JobShape' /\ SourceOK'
  BY <1>1, <1>4 DEF JobShape, SourceOK
<1>6. DoneOK' /\ ImportExact'
  <2>1. CASE ok /\ Importing
    BY <1>1, <2>1, OpenersAre DEF DoneOK
  <2>2. CASE ~(ok /\ Importing)
    <3>1. done' \notin {"import", "restore"}
      BY <1>1, <2>2 DEF Importing
    <3> QED
      BY <3>1 DEF DoneOK, ImportExact
  <2> QED
    BY <2>1, <2>2
<1> QED
  BY <1>3, <1>5, <1>6 DEF TransferInv

LEMMA ScanStep == ASSUME TransferInv, scan PROVE TransferInv' /\ Content
<1>1. /\ StoreInv /\ stage = "open" /\ job \in {"export", "backup"} /\ stage' = "write"
      /\ UNCHANGED <<db, disk, phase, mig, pos, pend, doomed, raced, writes>>
      /\ UNCHANGED <<job, force, left, conf, json, archive, done, jobs>>
  BY DEF TransferInv, scan
<1>2. Legal(db) /\ faults \in 0..MaxFaults
  BY <1>1, StoreParts DEF StoreTypes
<1>3. got' \in Payload /\ faults' \in 0..MaxFaults
  <2>1. CASE got' = [kv |-> db.kv, version |-> db.version] /\ UNCHANGED faults
    BY <1>2, <2>1 DEF Legal, Database, Payload
  <2>2. ASSUME NEW K \in SUBSET Keys, NEW v \in {0, db.version},
               got' = [kv |-> RowsOf(K), version |-> v],
               faults < MaxFaults, faults' = faults + 1
        PROVE  got' \in Payload /\ faults' \in 0..MaxFaults
    <3>1. RowsOf(K) \in Map
      BY <1>2 DEF RowsOf, Legal, Map, Value
    <3>2. v \in 0..schemaVersion
      BY <1>2, VersionAssumption DEF Legal, Database
    <3> QED
      BY <1>2, <2>2, <3>1, <3>2, BoundsAssumption DEF Payload
  <2> QED
    BY <2>1, <2>2 DEF scan
<1>4. StoreInv' /\ Turned /\ phase' = phase
  BY <1>1, <1>3, StoreSame
<1>5. ToolTypes'
  BY <1>1, <1>3 DEF TransferInv, ToolTypes
<1>6. JobShape' /\ SourceOK'
  BY <1>1, <1>4 DEF TransferInv, JobShape, SourceOK, Importing
<1>7. done \notin {"import", "restore"}
  BY <1>1 DEF TransferInv, DoneOK
<1>8. DoneOK' /\ ImportExact'
  BY <1>1, <1>7 DEF DoneOK, ImportExact
<1> QED
  BY <1>4, <1>5, <1>6, <1>8 DEF TransferInv, Content

LEMMA CloseToolStep ==
  ASSUME TransferInv, CloseTool \/ Close("tool") \/ OpenFails("tool") \/ Kill("tool")
  PROVE  /\ StoreInv' /\ Turned /\ phase'["tool"] = "down" /\ phase'["serve"] = phase["serve"]
         /\ db' = db
<1>1. StoreInv /\ "tool" \in Openers /\ "serve" \in Openers \ {"tool"}
  BY OpenersAre DEF TransferInv
<1>2. CASE Close("tool") \/ OpenFails("tool") \/ Kill("tool")
  BY <1>1, <1>2, CloseStep DEF Turned
<1>3. CASE phase["tool"] = "down" /\ UNCHANGED storeVars
  BY <1>1, <1>3, StoreRests
<1> QED
  BY <1>2, <1>3 DEF CloseTool

(* Commands that read, at their end. *)
LEMMA ReaderEnds ==
  ASSUME TransferInv, writeExportFileAtomic \/ FinishBackup \/ compact
  PROVE  TransferInv' /\ Content
<1>1. StoreInv' /\ Turned /\ phase'["tool"] = "down"
  BY CloseToolStep DEF writeExportFileAtomic, FinishBackup, compact
<1>2. /\ job \in {"export", "backup", "compact"} /\ conf' = conf /\ jobs' = jobs
      /\ \E ok \in BOOLEAN : Ends(ok)
  BY DEF writeExportFileAtomic, FinishBackup, compact
<1>3. ToolTypes
  BY DEF TransferInv
<1>4. json' \in Payload \cup {None}
  BY <1>3 DEF ToolTypes, writeExportFileAtomic, FinishBackup, compact
<1>5. archive' \in Archive
  <2>1. CASE FinishBackup
    <3>1. archive' = [archive EXCEPT !.whole = TRUE,
                                     !.rows = IF phase["tool"] = "down" THEN None ELSE got]
      BY <2>1 DEF FinishBackup
    <3> QED
      BY <1>3, <3>1 DEF ToolTypes, Archive
  <2>2. CASE writeExportFileAtomic \/ compact
    BY <1>3, <2>2 DEF ToolTypes, writeExportFileAtomic, compact
  <2> QED
    BY <2>1, <2>2
<1>6. ~Importing /\ conf' \in Configs \cup {None} /\ job # "none"
  BY <1>2, <1>3 DEF Importing, ToolTypes
<1> QED
  BY <1>1, <1>2, <1>4, <1>5, <1>6, EndStep DEF Content

LEMMA RestoreConfigStep == ASSUME TransferInv, RestoreConfig PROVE TransferInv' /\ Content
<1>1. /\ StoreInv /\ UNCHANGED storeVars /\ stage = "config" /\ conf' = archive.conf
      /\ UNCHANGED <<json, archive, jobs>>
  BY DEF TransferInv, RestoreConfig
<1>2. /\ StoreInv' /\ Turned /\ phase' = phase /\ (HasRead("tool")' <=> HasRead("tool"))
  BY <1>1, StoreRests
<1>3. /\ job = "restore" /\ Importing /\ phase["tool"] = "down" /\ phase["serve"] = "down"
      /\ ~HasRead("tool") /\ ToolTypes
  BY <1>1 DEF TransferInv, JobShape, Importing
<1>4. conf' \in Configs \cup {None} /\ archive.rows \in Payload \cup {None}
  BY <1>1, <1>3 DEF ToolTypes, Archive
<1>5. CASE archive.rows = None
  <2>1. Ends(TRUE)
    BY <1>5 DEF RestoreConfig
  <2>2. ImportExact'
    BY <1>1, <1>3, <1>5, <2>1 DEF ImportExact, Ends
  <2>3. json' \in Payload \cup {None} /\ archive' \in Archive
    BY <1>1, <1>3 DEF ToolTypes
  <2> QED
    BY <1>1, <1>2, <1>3, <1>4, <2>1, <2>2, <2>3, EndStep DEF Content
<1>6. CASE archive.rows # None
  <2>1. stage' = "prepare" /\ got' = archive.rows /\ UNCHANGED <<job, force, left, done>>
    BY <1>6 DEF RestoreConfig
  <2>2. ToolTypes'
    BY <1>1, <1>3, <1>4, <1>6, <2>1 DEF ToolTypes
  <2>3. JobShape' /\ SourceOK'
    BY <1>1, <1>2, <1>3, <1>6, <2>1 DEF JobShape, SourceOK, Importing
  <2>4. done \notin {"import", "restore"}
    BY <1>3 DEF TransferInv, DoneOK
  <2>5. DoneOK' /\ ImportExact'
    BY <2>1, <2>4 DEF DoneOK, ImportExact
  <2> QED
    BY <1>2, <2>2, <2>3, <2>5 DEF TransferInv, Content
<1> QED
  BY <1>5, <1>6

LEMMA PrepareStep == ASSUME TransferInv, prepareSQLiteMigrationTarget PROVE TransferInv' /\ Content
<1>1. /\ StoreInv /\ ToolTypes /\ stage = "prepare"
      /\ UNCHANGED <<phase, mig, pos, pend, doomed, raced, writes, faults, conf, json, archive, jobs>>
  BY DEF TransferInv, prepareSQLiteMigrationTarget
<1>2. /\ Importing /\ job # "none" /\ phase["tool"] = "down" /\ phase["serve"] = "down"
      /\ ~HasRead("tool") /\ done \notin {"import", "restore"}
  BY <1>1 DEF TransferInv, JobShape, DoneOK
<1>3. CASE db.exists /\ ~force
  <2>1. Ends(FALSE) /\ UNCHANGED <<db, disk>>
    BY <1>3 DEF prepareSQLiteMigrationTarget
  <2>2. faults' \in 0..MaxFaults
    BY <1>1, StoreParts DEF StoreTypes
  <2>3. StoreInv' /\ Turned
    BY <1>1, <2>1, <2>2, StoreSame
  <2>4. /\ conf' \in Configs \cup {None} /\ json' \in Payload \cup {None} /\ archive' \in Archive
        /\ phase'["tool"] = "down" /\ jobs' = jobs
    BY <1>1, <1>2 DEF ToolTypes
  <2> QED
    BY <1>2, <2>1, <2>3, <2>4, EndStep DEF Content
<1>4. CASE ~(db.exists /\ ~force)
  <2>1. /\ Commit(Fresh) /\ stage' = "open"
        /\ left' = {k \in Keys : got.kv[k] # None}
                     \cup IF got.version = 0 THEN {} ELSE {VersionKey}
        /\ UNCHANGED <<job, force, got, done>>
    BY <1>4 DEF prepareSQLiteMigrationTarget
  <2>2. Empty \in Map /\ \A k \in Keys : Empty[k] = None
    BY DEF Empty, Map, Value
  <2>3. Fresh \in Database /\ Fresh.kv = Empty /\ Fresh.row = Empty
    BY VersionAssumption DEF Fresh, Database, Empty, Value
  <2>4. db' = Fresh /\ disk' \in {disk, Fresh}
    BY <2>1 DEF Commit
  <2>5. Legal(db)'
    BY <2>2, <2>3, <2>4 DEF Legal
  <2>6. Legal(disk)'
    BY <1>1, <2>1, <2>5, CommitLegal, StoreParts
  <2>7. StoreTypes'
    BY <1>1, StoreParts DEF StoreTypes
  <2>8. \A p \in Openers : phase'[p] = "down" /\ pend'[p] \in Rows /\ DOMAIN pend'[p] = {}
    <3>1. \A p \in Openers : phase[p] = "down"
      BY <1>2, OpenersAre
    <3>2. \A p \in Openers : pend[p] \in Rows /\ ~HasRead(p)
      BY <1>1, <3>1, StoreParts DEF OpenerOK, PendOK
    <3> QED
      BY <1>1, <3>1, <3>2 DEF HasRead
  <2>9. StoreInv'
    BY <1>1, <2>5, <2>6, <2>7, <2>8, AllDown
  <2>10. ToolTypes'
    BY <1>1, <2>1 DEF ToolTypes
  <2>11. ~HasRead("tool")' /\ Importing'
    BY <1>1, <1>2, <2>1 DEF HasRead, Importing
  <2>12. JobShape'
    BY <1>1, <1>2, <2>1, <2>11 DEF JobShape, TransferInv
  <2>13. Imported'
    BY <2>1, <2>2, <2>3, <2>4, ConfigsAssumption DEF Imported, Agree
  <2>14. SourceOK'
    BY <1>1, <2>1, <2>13 DEF TransferInv, SourceOK
  <2>15. DoneOK' /\ ImportExact'
    BY <1>2, <2>1 DEF DoneOK, ImportExact
  <2>16. Written
    <3>1. db'.kv = [k \in Keys |-> IF k \in Keys THEN None ELSE db.kv[k]]
      BY <2>3, <2>4 DEF Empty
    <3>2. disk'.kv \in {disk.kv, db'.kv}
      BY <2>4
    <3> QED
      BY <1>2, <2>11, <3>1, <3>2 DEF Written, InUse
  <2> QED
    BY <2>9, <2>10, <2>12, <2>14, <2>15, <2>16 DEF TransferInv, Content
<1> QED
  BY <1>3, <1>4

(* Rows come over one by one, for both forms. *)
LEMMA ImportStep ==
  ASSUME TransferInv, (\E k \in Keys : ImportRow(k)) \/ ImportVersion
  PROVE  TransferInv' /\ Content
<1>1. /\ StoreInv /\ ToolTypes /\ stage = "open" /\ phase["tool"] = "open" /\ Importing
      /\ UNCHANGED <<phase, mig, pos, pend, doomed, raced, writes, faults, job, stage, force, got,
                     conf, json, archive, done, jobs>>
  BY DEF TransferInv, ImportRow, ImportVersion, Imports
<1>2. /\ Imported /\ phase["serve"] = "down" /\ ~HasRead("tool") /\ done \notin {"import", "restore"}
  BY <1>1 DEF TransferInv, JobShape, SourceOK, DoneOK
<1>3. BeingCopied = {}
  <2>1. \A p \in Openers : phase[p] # "opening"
    BY <1>1, <1>2, OpenersAre
  <2>2. \A p \in Openers : ~HasRead(p)
    BY <1>1, <2>1, StoreParts DEF OpenerOK
  <2> QED
    BY <2>2 DEF BeingCopied, HasRead
<1>4. StoreTypes'
  BY <1>1, StoreParts DEF StoreTypes
<1>5. ASSUME NEW K, NEW d, Writes(K, d), Commit(d) PROVE StoreInv' /\ db' = d /\ disk' \in {disk, d}
  BY <1>1, <1>3, <1>4, <1>5, WriteStep
<1>6. JobShape' /\ DoneOK' /\ ImportExact' /\ Importing'
  <2>1. (Importing' <=> Importing) /\ (HasRead("tool")' <=> HasRead("tool"))
    BY <1>1 DEF Importing, HasRead
  <2> QED
    BY <1>1, <1>2, <2>1 DEF TransferInv, JobShape, DoneOK, ImportExact
<1>7. ASSUME Imported', left' \subseteq left PROVE ToolTypes' /\ SourceOK'
  BY <1>1, <1>7 DEF TransferInv, ToolTypes, SourceOK
<1>8. ASSUME NEW k \in Keys, ImportRow(k) PROVE TransferInv' /\ Content
  <2> DEFINE v == got.kv[k]
             r == IF collectionName[k] = "customlist" /\ db.row[k] # None THEN db.row[k] ELSE v
  <2>1. k \in left /\ left' = left \ {k} /\ Commit(putRawJSON(k, v))
    BY <1>8 DEF ImportRow
  <2>2. v \in ValsOf[collectionName[k]]
    BY <1>1, <1>2, <2>1 DEF Imported, ToolTypes, Payload, Map
  <2>3. putRawJSON(k, v) = Stored(k, v, r)
    BY DEF putRawJSON, putClientLocked, putSessionLocked, putCustomListLocked, putStatsLocked,
           putConfigHistoryLocked
  <2>4. \/ r = v
        \/ collectionName[k] = "customlist" /\ r = IF db.row[k] # None THEN db.row[k] ELSE v
    OBVIOUS
  <2> HIDE DEF v, r
  <2>5. /\ Writes({k}, Stored(k, v, r)) /\ v \in Vals
        /\ Stored(k, v, r).kv = [db.kv EXCEPT ![k] = v] /\ Stored(k, v, r).row[k] = v
    <3>1. StoreInv
      BY <1>1
    <3> QED
      BY ONLY <3>1, <2>2, <2>4, PutWrites, k \in Keys
  <2> DEFINE d == Stored(k, v, r)
  <2> HIDE DEF d
  <2>6. StoreInv' /\ db' = d /\ disk' \in {disk, d}
    BY <1>5, <2>1, <2>3, <2>5 DEF d
  <2>7. /\ d.kv = [db.kv EXCEPT ![k] = v] /\ d.row[k] = v
        /\ \A j \in Keys \ {k} : d.row[j] = db.row[j] /\ d.kv[j] = db.kv[j]
    BY <2>5 DEF d, Writes
  <2>8. d.kv[k] = v
    BY <1>1, <2>7, StoreParts DEF Legal, Map
  <2>9. Imported'
    BY <1>1, <1>2, <2>1, <2>6, <2>7, <2>8 DEF Imported, Agree, v
  <2>10. Written
    BY <1>1, <1>6, <2>5, <2>6, <2>7 DEF Written, InUse
  <2> QED
    BY <1>6, <1>7, <2>1, <2>6, <2>9, <2>10 DEF TransferInv, Content
<1>9. CASE ImportVersion
  <2> DEFINE d == [db EXCEPT !.version = got.version]
  <2>1. Commit(d) /\ left' = left \ {VersionKey}
    BY <1>9 DEF ImportVersion
  <2>2. Legal(db) /\ got.version \in 0..schemaVersion
    BY <1>1, StoreParts DEF ToolTypes, Payload
  <2>3. d \in Database /\ d.kv = db.kv /\ d.row = db.row /\ d.filled = db.filled
    BY <2>2 DEF Legal, Database
  <2> HIDE DEF d
  <2>4. Writes({}, d)
    BY <2>2, <2>3 DEF Writes, Legal
  <2>5. StoreInv' /\ db' = d /\ disk' \in {disk, d}
    BY <1>5, <2>1, <2>4
  <2>6. Imported'
    BY <1>1, <1>2, <2>1, <2>3, <2>5, ConfigsAssumption DEF Imported, Agree
  <2>7. Turned
    BY <2>3, <2>5 DEF Turned
  <2> QED
    BY <1>6, <1>7, <2>1, <2>5, <2>6, <2>7 DEF TransferInv, Content
<1> QED
  BY <1>8, <1>9

LEMMA ImportDoneStep == ASSUME TransferInv, ImportDone PROVE TransferInv' /\ Content
<1>1. /\ ToolTypes /\ stage = "open" /\ Importing /\ left = {} /\ Close("tool") /\ Ends(TRUE)
      /\ UNCHANGED <<conf, json, archive, jobs>> /\ StoreInv
  BY DEF TransferInv, ImportDone, Imports
<1>2. /\ StoreInv' /\ Turned /\ phase'["tool"] = "down" /\ phase'["serve"] = phase["serve"]
      /\ db' = db
  BY <1>1, CloseToolStep
<1>3. phase["serve"] = "down" /\ Imported /\ SourceOK /\ job # "none"
  BY <1>1 DEF TransferInv, JobShape, SourceOK
<1>4. db.kv = got.kv /\ db.row = db.kv
  <2>1. db.kv \in Map /\ db.row \in Map /\ got.kv \in Map
    BY <1>1, StoreParts DEF Legal, ToolTypes, Payload
  <2>2. \A k \in Keys : db.kv[k] = got.kv[k] /\ db.row[k] = db.kv[k]
    BY <1>1, <1>3 DEF Imported, Agree
  <2> QED
    BY <2>1, <2>2 DEF Map
<1>5. ImportExact'
  <2>1. done' = job
    BY <1>1 DEF Ends
  <2> QED
    BY <1>1, <1>2, <1>3, <1>4, <2>1 DEF SourceOK, ImportExact
<1>6. conf' \in Configs \cup {None} /\ json' \in Payload \cup {None} /\ archive' \in Archive
  BY <1>1 DEF ToolTypes
<1> QED
  BY <1>1, <1>2, <1>3, <1>5, <1>6, EndStep DEF Content

LEMMA FailStep == ASSUME TransferInv, JobFails PROVE TransferInv' /\ Content
<1>1. ToolTypes /\ StoreInv /\ job # "none" /\ Ends(FALSE) /\ UNCHANGED <<conf, json, jobs>>
  BY DEF TransferInv, JobFails
<1>2. StoreInv' /\ Turned /\ phase'["tool"] = "down"
  <2>1. CASE OpenFails("tool") \/ Kill("tool")
    BY <2>1, CloseToolStep
  <2>2. CASE /\ phase["tool"] = "down" /\ faults < MaxFaults /\ faults' = faults + 1
             /\ UNCHANGED <<db, disk, phase, mig, pos, pend, doomed, raced, writes>>
    <3>1. faults' \in 0..MaxFaults
      BY <1>1, <2>2, StoreParts, BoundsAssumption DEF StoreTypes
    <3> QED
      BY <1>1, <2>2, <3>1, StoreSame
  <2> QED
    BY <2>1, <2>2 DEF JobFails
<1>3. conf' \in Configs \cup {None} /\ json' \in Payload \cup {None}
  BY <1>1 DEF ToolTypes
<1>4. archive' \in Archive
  <2>1. archive' \in {archive, [archive EXCEPT !.whole = TRUE]}
    BY DEF JobFails
  <2> QED
    BY <1>1, <2>1 DEF ToolTypes, Archive
<1> QED
  BY <1>1, <1>2, <1>3, <1>4, EndStep DEF Content

LEMMA PowerStep == ASSUME TransferInv, PowerFails PROVE TransferInv' /\ Content
<1>1. /\ StoreInv /\ ToolTypes /\ PowerLoss /\ Ends(FALSE) /\ UNCHANGED <<conf, json, archive, jobs>>
  BY ZenonT(30) DEF TransferInv, PowerFails
<1>2. /\ StoreInv' /\ db' = disk /\ disk' = disk
      /\ phase'["tool"] = "down" /\ phase'["serve"] = "down"
  BY <1>1, PowerLossStep, OpenersAre
<1>3. /\ job' = "none" /\ stage' = "idle" /\ force' = FALSE /\ got' = NoRows /\ left' = {}
      /\ done' = "none"
  BY <1>1 DEF Ends
<1>4. NoRows \in Payload
  BY VersionAssumption DEF NoRows, Payload, Empty, Map, Value
<1>5. ToolTypes'
  BY <1>1, <1>3, <1>4 DEF ToolTypes
<1>6. ~Importing'
  BY <1>3 DEF Importing
<1>7. JobShape' /\ SourceOK' /\ DoneOK' /\ ImportExact'
  BY <1>2, <1>3, <1>6 DEF JobShape, SourceOK, DoneOK, ImportExact
<1>8. Lost
  BY <1>2, <1>6 DEF Lost, InUse
<1> QED
  BY <1>2, <1>5, <1>7, <1>8 DEF TransferInv, Content

LEMMA TransferStep == TransferInv /\ [TransferNext]_transferVars => TransferInv' /\ Content
<1> SUFFICES ASSUME TransferInv, [TransferNext]_transferVars PROVE TransferInv' /\ Content
  OBVIOUS
<1>1. CASE Tool
  BY <1>1, ToolOpensStep, StartStep, ScanStep, ReaderEnds, RestoreConfigStep, PrepareStep,
     ImportStep, ImportDoneStep DEF Tool
<1>2. CASE UNCHANGED transferVars
  <2>1. StoreInv /\ UNCHANGED storeVars
        /\ UNCHANGED <<job, stage, force, got, left, conf, json, archive, done, jobs>>
    BY <1>2 DEF TransferInv, transferVars, toolVars
  <2>2. /\ StoreInv' /\ Turned /\ phase' = phase /\ (HasRead("tool")' <=> HasRead("tool"))
        /\ db' = db
    BY <2>1, StoreRests
  <2>3. Importing' <=> Importing
    BY <2>1 DEF Importing
  <2>4. ToolTypes' /\ JobShape' /\ DoneOK' /\ ImportExact'
    BY <2>1, <2>2, <2>3 DEF TransferInv, ToolTypes, JobShape, DoneOK, ImportExact
  <2>5. SourceOK'
    BY <2>1, <2>2, <2>3 DEF TransferInv, SourceOK, Imported, Agree
  <2> QED
    BY <2>2, <2>4, <2>5 DEF TransferInv, Content
<1> QED
  BY <1>1, <1>2, ServeStep, FailStep, PowerStep DEF TransferNext

LEMMA TransferStart == TransferInit => TransferInv /\ ~InUse /\ disk = db
<1> SUFFICES ASSUME TransferInit PROVE TransferInv /\ ~InUse /\ disk = db
  OBVIOUS
<1>1. /\ StoreInit /\ job = "none" /\ stage = "idle" /\ force = FALSE /\ got = NoRows /\ left = {}
      /\ conf \in Configs \cup {None} /\ json \in Files /\ archive \in Archives /\ done = "none"
      /\ jobs = 0
  BY DEF TransferInit
<1>2. /\ disk = db /\ phase = [p \in Openers |-> "down"] /\ mig = [p \in Openers |-> 0]
      /\ pos = [p \in Openers |-> 0] /\ pend = [p \in Openers |-> Nothing]
      /\ doomed = None /\ raced = {} /\ writes = 0 /\ faults = 0
  BY <1>1 DEF StoreInit
<1>3. Nothing \in Rows /\ DOMAIN Nothing = {}
  BY DEF Nothing, Rows
<1>4. StoreTypes
  BY <1>2, <1>3, VersionAssumption, BoundsAssumption DEF StoreTypes
<1>5. Legal(db)
  <2>1. PICK m \in Contents, v \in Versions : db = IF v = 0 THEN Fresh ELSE Left(v, m)
    BY <1>1 DEF StoreInit
  <2>2. m \in Map /\ v \in 0..schemaVersion
    BY ContentsAssumption
  <2>3. Legal(Fresh)
    <3>1. Empty \in Map /\ \A k \in Keys : Empty[k] = None
      BY DEF Empty, Map, Value
    <3>2. Fresh \in Database /\ Fresh.kv = Empty /\ Fresh.row = Empty
      BY VersionAssumption DEF Fresh, Database, Empty, Value
    <3> QED
      BY <3>1, <3>2 DEF Legal
  <2>4. Legal(Left(v, m))
    <3> DEFINE r == [k \in Keys |-> IF collectionName[k] \in OldTables(v) THEN m[k] ELSE None]
               T == OldTables(v)
               F == IF v >= 2 THEN {k \in Keys : m[k] # None} ELSE {}
    <3>1. T \subseteq Tables
      BY DEF OldTables, Tables
    <3>2. r \in Map /\ \A k \in Keys : r[k] \in {None, m[k]}
      BY <2>2 DEF Map, Value
    <3>3. F \in SUBSET Keys /\ (v >= 2) \in BOOLEAN
      OBVIOUS
    <3>4. Left(v, m) = [exists |-> TRUE, kv |-> m, row |-> r, tables |-> T, column |-> v >= 2,
                        filled |-> F, version |-> v]
      BY DEF Left
    <3> HIDE DEF r, T, F
    <3>5. Left(v, m) \in Database
      BY <2>2, <3>1, <3>2, <3>3, <3>4 DEF Database, Map
    <3>6. Left(v, m).kv = m /\ Left(v, m).row = r
      BY <3>4
    <3> QED
      BY <2>2, <3>2, <3>5, <3>6 DEF Legal
  <2> QED
    BY <2>1, <2>3, <2>4
<1>6. ASSUME NEW p \in Openers PROVE OpenerOK(p)
  <2>1. phase[p] = "down" /\ pend[p] = Nothing
    BY <1>2
  <2> QED
    BY <1>3, <2>1 DEF OpenerOK, PendOK, OpenOK, OpeningOK, HasRead
<1>7. StoreInv
  BY <1>2, <1>4, <1>5, <1>6, StoreParts
<1>8. NoRows \in Payload
  BY VersionAssumption DEF NoRows, Payload, Empty, Map, Value
<1>9. ToolTypes
  <2>1. json \in Payload \cup {None} /\ archive \in Archive
    BY <1>1, FilesAssumption
  <2>2. 0 \in 0..MaxJobs
    BY JobsAssumption
  <2> QED
    BY <1>1, <1>8, <2>1, <2>2 DEF ToolTypes
<1>10. ~Importing /\ phase["tool"] = "down" /\ phase["serve"] = "down"
  BY <1>1, <1>2, OpenersAre DEF Importing
<1>11. JobShape /\ SourceOK /\ DoneOK /\ ImportExact
  BY <1>1, <1>10 DEF JobShape, SourceOK, DoneOK, ImportExact, Importing
<1> QED
  BY <1>2, <1>7, <1>9, <1>10, <1>11 DEF TransferInv, InUse

LEMMA TransferInvCorrect == TransferSpec => []TransferInv
BY TransferStart, TransferStep, PTL DEF TransferSpec

(* Every variable of the store and of the commands keeps its type. *)
THEOREM TransferTypeCorrect == TransferSpec => []TransferTypeOK
<1>1. TransferInv => TransferTypeOK
  BY DEF TransferInv, StoreInv, ToolTypes, TransferTypeOK
<1> QED
  BY <1>1, TransferInvCorrect, PTL

(* Once the store is open, the tables have what kv has, for any records,   *)
(* any old database, any number of interrupted opens, power losses and     *)
(* commands; excepted are the records written during another opener's copy.*)
THEOREM TransferConsistentAlways == TransferSpec => []TransferConsistent
<1>1. TransferInv => TablesAgree
  <2> SUFFICES ASSUME TransferInv, NEW p \in Openers, phase[p] = "open", NEW k \in Keys \ raced
               PROVE  db.row[k] = db.kv[k]
    BY DEF TablesAgree
  <2>1. OpenerOK(p)
    BY DEF TransferInv, StoreInv
  <2> QED
    BY <2>1 DEF OpenerOK, OpenOK, Agree
<1> QED
  BY <1>1, TransferInvCorrect, TransferTypeCorrect, PTL DEF TransferConsistent

(* Verification of an open store counts the same by column and by key.     *)
THEOREM CountsAgreeAlways == TransferSpec => []CountsAgree
<1>1. TransferInv => CountsAgree
  <2> SUFFICES ASSUME TransferInv, NEW p \in Openers, phase[p] = "open"
               PROVE  sqliteCollectionCounts(db) = collectionCounts(db)
    BY DEF CountsAgree
  <2>1. OpenerOK(p)
    BY DEF TransferInv, StoreInv
  <2>2. Unfilled = {}
    BY <2>1 DEF OpenerOK, OpenOK
  <2> DEFINE ByKey(k) == collectionName[k]
             ByColumn(k) == IF db.column /\ k \notin db.filled THEN "unknown" ELSE collectionName[k]
             P == Present(db)
  <2>3. \A k \in P : ByColumn(k) = ByKey(k)
    BY <2>2 DEF Present, Unfilled
  <2> HIDE DEF P, ByKey, ByColumn
  <2>4. {ByColumn(k) : k \in P} = {ByKey(k) : k \in P}
    BY <2>3
  <2>5. \A c : {k \in P : ByColumn(k) = c} = {k \in P : ByKey(k) = c}
    BY <2>3
  <2>6. [c \in {ByColumn(k) : k \in P} |-> Cardinality({k \in P : ByColumn(k) = c})]
          = [c \in {ByKey(k) : k \in P} |-> Cardinality({k \in P : ByKey(k) = c})]
    BY <2>4, <2>5
  <2> QED
    BY <2>6 DEF sqliteCollectionCounts, collectionCounts, CountBy, P, ByKey, ByColumn
<1> QED
  BY <1>1, TransferInvCorrect, PTL

(* An import or restore that reports success leaves exactly the records of *)
(* its source, in both forms.                                              *)
THEOREM ImportExactAlways == TransferSpec => []ImportExact
<1>1. TransferInv => ImportExact
  BY DEF TransferInv
<1> QED
  BY <1>1, TransferInvCorrect, PTL

(* What the program sees is what kv has. *)
LEMMA VisibleIsKv == TransferInv => visible = db.kv
<1> SUFFICES ASSUME TransferInv PROVE visible = db.kv
  OBVIOUS
<1>1. Legal(db) /\ OpenerOK("serve")
  BY StoreParts, OpenersAre DEF TransferInv
<1>2. \A k \in Keys : visible[k] = db.kv[k]
  BY <1>1 DEF visible, OpenerOK, OpenOK, Agree
<1> QED
  BY <1>1, <1>2 DEF visible, Legal, Map

(* The store changes its content in whole transactions while it is in use, *)
(* and a power loss brings back an earlier content, whole.                 *)
THEOREM StoreImplementsSnapshots == TransferSpec => ImplementsSnapshots
<1>1. TransferInit => Promise!Init
  <2> SUFFICES ASSUME TransferInit PROVE Promise!Init
    OBVIOUS
  <2>1. TransferInv /\ ~InUse /\ disk = db
    BY TransferStart
  <2>2. visible = db.kv /\ Legal(db)
    BY <2>1, VisibleIsKv, StoreParts DEF TransferInv
  <2> QED
    BY <2>1, <2>2 DEF Promise!Init, InUse, Legal, Map, Value
<1>2. TransferInv /\ TransferInv' /\ Content => [Promise!Next]_(Promise!vars)
  <2> SUFFICES ASSUME TransferInv, TransferInv', Content PROVE Promise!Next
    OBVIOUS
  <2>1. visible = db.kv /\ visible' = db'.kv
    <3>1. visible = db.kv
      BY VisibleIsKv
    <3>2. (TransferInv => visible = db.kv)'
      BY VisibleIsKv, PTL
    <3> QED
      BY <3>1, <3>2
  <2>2. CASE Turned
    <3>1. (InUse)' \in BOOLEAN
      BY DEF InUse
    <3> QED
      BY <2>1, <2>2, <3>1 DEF Turned, InUse, Promise!Next, Promise!Turn
  <2>3. CASE Written
    BY <2>1, <2>3 DEF Written, InUse, Promise!Next, Promise!Becomes, Promise!Write, Promise!Remove
  <2>4. CASE Lost
    BY <2>1, <2>4 DEF Lost, InUse, Promise!Next, Promise!Crash
  <2> QED
    BY <2>2, <2>3, <2>4 DEF Content
<1> QED
  BY <1>1, <1>2, TransferInvCorrect, TransferStep, PTL
     DEF TransferSpec, ImplementsSnapshots, Promise!Spec
=============================================================================
