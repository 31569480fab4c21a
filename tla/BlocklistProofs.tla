--------------------------- MODULE BlocklistProofs ---------------------------
(***************************************************************************)
(* The blocklists for any number of lists, URLs, operators and versions.   *)
(*                                                                         *)
(* That validators vouch for the cached text only is not inductive: a call *)
(* of syncOne carries a body from the server to the disk, and what it      *)
(* writes must not be older than what is there.  Guarded says, of a list   *)
(* that is not disturbed, that everything about it has one URL, that one   *)
(* call at most works on it, and how versions on the server, in the call   *)
(* and on disk are ordered.  It holds of lists that do not share their     *)
(* cache file with another.                                                *)
(***************************************************************************)
EXTENDS BlocklistSync, TLAPS

(* What a call of syncOne holds at each place it can be at. *)
CallOK(p) ==
  /\ sync[p].at = "idle" => sync[p] = NoSync
  /\ sync[p].at # "idle" => sync[p].list \in Lists /\ sync[p].url \in Urls
  /\ sync[p].at \in {"text", "meta", "swap"} => sync[p].body # None

(* A change under way is of a list; a deletion saves it as disabled. *)
AdminOK ==
  /\ admin.at # "idle" => admin.list \in Lists /\ admin.next \in Configs
  /\ admin.at \in {"delete", "drop", "remove"} => ~admin.next[admin.list].enabled

Base == TypeOK /\ AdminOK /\ \A p \in Syncs : CallOK(p)

LEMMA InitBase == Init => Base
<1> SUFFICES ASSUME Init PROVE Base
  OBVIOUS
<1> USE SyncAssumption DEF Init
<1>1. NoSync \in Calls /\ NoChange \in Changes
  BY DEF NoSync, NoChange, Calls, Changes, Cached
<1>2. version \in [Urls -> 1..MaxVersion]
  BY DEF SyncAssumption
<1>3. TypeOK
  BY <1>1, <1>2 DEF TypeOK, Cached, SyncAssumption
<1>4. AdminOK
  BY DEF AdminOK, NoChange
<1>5. \A p \in Syncs : CallOK(p)
  BY DEF CallOK, NoSync
<1> QED
  BY <1>3, <1>4, <1>5 DEF Base

(* A step that moves one call keeps what is said of calls, if the place it *)
(* moves to is of the right kind.                                          *)
LEMMA CallMoves ==
  ASSUME Base, NEW p \in Syncs, NEW k \in Calls, sync' = [sync EXCEPT ![p] = k],
         k.at = "idle" => k = NoSync,
         k.at # "idle" => k.list \in Lists /\ k.url \in Urls,
         k.at \in {"text", "meta", "swap"} => k.body # None
  PROVE  /\ sync' \in [Syncs -> Calls]
         /\ \A q \in Syncs : CallOK(q)'
<1>1. sync \in [Syncs -> Calls] /\ \A q \in Syncs : CallOK(q)
  BY DEF Base, TypeOK
<1>2. sync' \in [Syncs -> Calls]
  BY <1>1
<1>3. ASSUME NEW q \in Syncs PROVE CallOK(q)'
  <2>1. CASE q = p
    BY <1>1, <2>1 DEF CallOK
  <2>2. CASE q # p
    <3>1. sync'[q] = sync[q]
      BY <1>1, <2>2
    <3> QED
      BY <1>1, <3>1 DEF CallOK, NoSync
  <2> QED
    BY <2>1, <2>2
<1> QED
  BY <1>2, <1>3

(* The four kinds of moves that the steps are made of.                     *)
LEMMA GoKeeps ==
  ASSUME Base, NEW p \in Syncs, NEW at, Go(p, at), sync[p].at # "idle",
         at \in {"sent", "load", "mark"} \/ (at \in {"meta", "swap"} /\ sync[p].body # None)
  PROVE  sync' \in [Syncs -> Calls] /\ \A q \in Syncs : CallOK(q)'
<1> DEFINE k == [sync[p] EXCEPT !.at = at]
<1>1. sync[p] \in Calls /\ CallOK(p)
  BY DEF Base, TypeOK
<1>2. /\ k \in Calls /\ k.at = at /\ k.list = sync[p].list /\ k.url = sync[p].url /\ k.body = sync[p].body
  BY <1>1 DEF Calls
<1>3. sync' = [sync EXCEPT ![p] = k]
  BY DEF Go
<1> HIDE DEF k
<1> QED
  BY <1>1, <1>2, <1>3, CallMoves DEF CallOK

LEMMA GotKeeps ==
  ASSUME Base, NEW p \in Syncs, NEW at \in {"text", "swap"}, NEW b \in Content, Got(p, at, b), sync[p].at # "idle"
  PROVE  sync' \in [Syncs -> Calls] /\ \A q \in Syncs : CallOK(q)'
<1> DEFINE k == [at |-> at, list |-> sync[p].list, url |-> sync[p].url, sent |-> sync[p].sent, body |-> b]
<1>1. sync[p] \in Calls /\ CallOK(p) /\ b # None
  BY SyncAssumption DEF Base, TypeOK, SyncAssumption
<1>2. k \in Calls /\ k.at = at /\ k.list = sync[p].list /\ k.url = sync[p].url /\ k.body = b
  BY <1>1 DEF Calls, Cached
<1>3. sync' = [sync EXCEPT ![p] = k]
  BY DEF Got
<1> HIDE DEF k
<1> QED
  BY <1>1, <1>2, <1>3, CallMoves DEF CallOK

LEMMA EndKeeps ==
  ASSUME Base, NEW p \in Syncs, End(p)
  PROVE  sync' \in [Syncs -> Calls] /\ \A q \in Syncs : CallOK(q)'
<1>1. NoSync \in Calls /\ NoSync.at = "idle"
  BY DEF NoSync, Calls, Cached
<1> QED
  BY <1>1, CallMoves DEF End

LEMMA BeginKeeps ==
  ASSUME Base, NEW p \in Syncs, NEW l \in Lists, NEW u \in Urls, Begin(p, l, u)
  PROVE  /\ sync' \in [Syncs -> Calls] /\ \A q \in Syncs : CallOK(q)'
         /\ disturbed' \subseteq Lists
<1> DEFINE k == [at |-> "send", list |-> l, url |-> u, sent |-> None, body |-> None]
<1>1. k \in Calls /\ k.at = "send" /\ k.list = l /\ k.url = u
  BY DEF Calls, Cached
<1>2. sync' = [sync EXCEPT ![p] = k] /\ disturbed' \subseteq disturbed \cup {l}
  BY DEF Begin
<1>3. disturbed \subseteq Lists
  BY DEF Base, TypeOK
<1> HIDE DEF k
<1> QED
  BY <1>1, <1>2, <1>3, CallMoves

(* A step that leaves calls and changes alone keeps what is said of them. *)
LEMMA CallsRest == ASSUME Base, sync' = sync PROVE sync' \in [Syncs -> Calls] /\ \A q \in Syncs : CallOK(q)'
  BY DEF Base, TypeOK, CallOK, NoSync
LEMMA AdminRest == ASSUME Base, admin' = admin PROVE admin' \in Changes /\ AdminOK'
  BY DEF Base, TypeOK, AdminOK

(* Types that a step changes beside calls and changes. *)
LEMMA BaseFrom ==
  ASSUME Base, sync' \in [Syncs -> Calls] /\ \A q \in Syncs : CallOK(q)', admin' \in Changes /\ AdminOK',
         version' \in [Urls -> 1..MaxVersion], text' \in [Files -> Cached] /\ meta' \in [Files -> Cached],
         lists' \in [Lists -> Cached], fresh' \in [Lists -> BOOLEAN], cfg' \in Configs /\ file' \in Configs,
         snap' \subseteq [list : Lists, url : Urls] /\ initial' \in BOOLEAN,
         requests' \in 0..MaxRequests /\ crashes' \in 0..MaxCrashes, disturbed' \subseteq Lists
  PROVE  Base'
  BY DEF Base, TypeOK

LEMMA FileOfType == ASSUME Base, NEW p \in Syncs, sync[p].at # "idle" PROVE FileOf(p) \in Files
  BY SyncAssumption DEF Base, CallOK, FileOf, SyncAssumption

LEMMA CurrentType == ASSUME Base, NEW u \in Urls PROVE Current(u) \in Content
  BY DEF Base, TypeOK, Current, Content

(* One step of a call of syncOne keeps types. *)
LEMMA SyncOneBase == ASSUME Base, NEW p \in Syncs, syncOne(p) PROVE Base'
<1>1. /\ sync \in [Syncs -> Calls] /\ CallOK(p) /\ sync[p] \in Calls /\ sync[p].body \in Cached
      /\ text \in [Files -> Cached] /\ meta \in [Files -> Cached]
      /\ lists \in [Lists -> Cached] /\ fresh \in [Lists -> BOOLEAN]
  BY DEF Base, TypeOK, Calls
<1>2. ASSUME disk' = disk, lists' = lists, fresh' = fresh, UNCHANGED <<version, setup, pass, crashes, disturbed>>,
             sync' \in [Syncs -> Calls] /\ \A q \in Syncs : CallOK(q)'
      PROVE  Base'
  BY <1>2, AdminRest, BaseFrom DEF Base, TypeOK, disk, setup, pass
<1>3. CASE Request(p)
  <2> DEFINE k == [at |-> "sent", list |-> sync[p].list, url |-> sync[p].url, sent |-> meta[FileOf(p)], body |-> None]
  <2>1. meta[FileOf(p)] \in Cached /\ sync[p].list \in Lists /\ sync[p].url \in Urls
    BY <1>1, <1>3, FileOfType DEF Request, CallOK
  <2>2. k \in Calls /\ k.at = "sent" /\ k.list = sync[p].list /\ k.url = sync[p].url
    BY <2>1 DEF Calls, Cached
  <2>3. sync' = [sync EXCEPT ![p] = k] /\ UNCHANGED <<version, disk, lists, fresh, setup, pass, crashes, disturbed>>
    BY <1>3 DEF Request
  <2> HIDE DEF k
  <2>4. sync' \in [Syncs -> Calls] /\ \A q \in Syncs : CallOK(q)'
    BY <2>1, <2>2, <2>3, CallMoves
  <2> QED
    BY <1>2, <2>3, <2>4
<1>4. CASE Reply(p)
  <2>1. sync[p].at = "sent" /\ UNCHANGED <<version, disk, lists, fresh, setup, pass, crashes, disturbed>>
    BY <1>4 DEF Reply
  <2>2. sync[p].url \in Urls /\ Current(sync[p].url) \in Content
    BY <1>1, <2>1, CurrentType DEF CallOK
  <2>3. Go(p, "load") \/ Got(p, "text", Current(sync[p].url))
    BY <1>4 DEF Reply
  <2>4. sync' \in [Syncs -> Calls] /\ \A q \in Syncs : CallOK(q)'
    BY <2>1, <2>2, <2>3, GoKeeps, GotKeeps
  <2> QED
    BY <1>2, <2>1, <2>4
<1>5. CASE Fails(p)
  <2>1. /\ sync[p].at # "idle" /\ UNCHANGED <<version, disk, lists, fresh, setup, pass, crashes, disturbed>>
        /\ End(p) \/ Go(p, "load")
    BY <1>5 DEF Fails
  <2>2. sync' \in [Syncs -> Calls] /\ \A q \in Syncs : CallOK(q)'
    BY <2>1, GoKeeps, EndKeeps
  <2> QED
    BY <1>2, <2>1, <2>2
<1>6. CASE WriteText(p)
  <2>1. /\ sync[p].at = "text" /\ Go(p, "meta") /\ text' = [text EXCEPT ![FileOf(p)] = sync[p].body]
        /\ UNCHANGED <<version, meta, lists, fresh, setup, pass, crashes, disturbed>>
    BY <1>6 DEF WriteText
  <2>2. sync' \in [Syncs -> Calls] /\ \A q \in Syncs : CallOK(q)'
    BY <1>1, <2>1, GoKeeps DEF CallOK
  <2>3. text' \in [Files -> Cached]
    BY <1>1, <2>1
  <2> QED
    BY <2>1, <2>2, <2>3, AdminRest, BaseFrom DEF Base, TypeOK, setup, pass
<1>7. CASE WriteMeta(p)
  <2> DEFINE m == IF Kind[sync[p].url] \in {"plain", "file"} THEN None ELSE sync[p].body
  <2>1. /\ sync[p].at = "meta" /\ Go(p, "swap") /\ meta' = [meta EXCEPT ![FileOf(p)] = m]
        /\ UNCHANGED <<version, text, lists, fresh, setup, pass, crashes, disturbed>>
    BY <1>7 DEF WriteMeta
  <2>2. sync' \in [Syncs -> Calls] /\ \A q \in Syncs : CallOK(q)'
    BY <1>1, <2>1, GoKeeps DEF CallOK
  <2>3. m \in Cached
    BY <1>1 DEF Cached
  <2>4. meta' \in [Files -> Cached]
    BY <1>1, <2>1, <2>3
  <2> QED
    BY <2>1, <2>2, <2>4, AdminRest, BaseFrom DEF Base, TypeOK, setup, pass
<1>8. CASE loadCache(p)
  <2>1. /\ sync[p].at = "load" /\ UNCHANGED <<version, disk, lists, fresh, setup, pass, crashes, disturbed>>
        /\ End(p) \/ (text[FileOf(p)] # None /\ Got(p, "swap", text[FileOf(p)]))
    BY <1>8 DEF loadCache
  <2>2. text[FileOf(p)] \in Cached
    BY <1>1, <2>1, FileOfType
  <2>3. sync' \in [Syncs -> Calls] /\ \A q \in Syncs : CallOK(q)'
    BY <2>1, <2>2, GotKeeps, EndKeeps DEF Cached
  <2> QED
    BY <1>2, <2>1, <2>3
<1>9. CASE ReplaceList(p)
  <2>1. /\ sync[p].at = "swap" /\ Go(p, "mark") /\ lists' = [lists EXCEPT ![sync[p].list] = sync[p].body]
        /\ UNCHANGED <<version, disk, fresh, setup, pass, crashes, disturbed>>
    BY <1>9 DEF ReplaceList
  <2>2. sync' \in [Syncs -> Calls] /\ \A q \in Syncs : CallOK(q)'
    BY <2>1, GoKeeps
  <2>3. lists' \in [Lists -> Cached]
    BY <1>1, <2>1
  <2> QED
    BY <2>1, <2>2, <2>3, AdminRest, BaseFrom DEF Base, TypeOK, disk, setup, pass
<1>10. CASE MarkRun(p)
  <2>1. /\ End(p) /\ fresh' = [fresh EXCEPT ![sync[p].list] = TRUE]
        /\ UNCHANGED <<version, disk, lists, setup, pass, crashes, disturbed>>
    BY <1>10 DEF MarkRun
  <2>2. sync' \in [Syncs -> Calls] /\ \A q \in Syncs : CallOK(q)'
    BY <2>1, EndKeeps
  <2>3. fresh' \in [Lists -> BOOLEAN]
    BY <1>1, <2>1
  <2> QED
    BY <2>1, <2>2, <2>3, AdminRest, BaseFrom DEF Base, TypeOK, disk, setup, pass
<1> QED
  BY <1>3, <1>4, <1>5, <1>6, <1>7, <1>8, <1>9, <1>10 DEF syncOne

(* The beginning of a pass and of a call. *)
LEMMA PassBase == ASSUME Base, Tick \/ (\E e \in snap : syncDue(e)) PROVE Base'
<1>1. /\ cfg \in Configs /\ cfg \in [Lists -> Blocklist] /\ snap \subseteq [list : Lists, url : Urls]
      /\ initial \in BOOLEAN /\ disturbed \subseteq Lists
  BY DEF Base, TypeOK, Configs
<1>2. initial' \in BOOLEAN
  BY <1>1 DEF Tick, syncDue
<1>3. CASE Tick
  <2>1. /\ snap' = {[list |-> l, url |-> cfg[l].url] : l \in {k \in Lists : cfg[k].enabled}}
        /\ UNCHANGED <<version, disk, lists, fresh, setup, sync, crashes, disturbed>>
    BY <1>3 DEF Tick
  <2>2. snap' \subseteq [list : Lists, url : Urls]
    BY <1>1, <2>1 DEF Blocklist
  <2> QED
    BY <1>2, <2>1, <2>2, AdminRest, CallsRest, BaseFrom DEF Base, TypeOK, disk, setup
<1>4. ASSUME NEW e \in snap, syncDue(e) PROVE Base'
  <2>1. /\ snap' = snap \ {e} /\ UNCHANGED <<version, disk, lists, fresh, setup, crashes>>
        /\ Begin(Periodic, e.list, e.url) \/ UNCHANGED <<sync, disturbed>>
    BY <1>4 DEF syncDue
  <2>2. Periodic \in Syncs /\ e.list \in Lists /\ e.url \in Urls
    BY <1>1 DEF Syncs
  <2>3. sync' \in [Syncs -> Calls] /\ (\A q \in Syncs : CallOK(q)') /\ disturbed' \subseteq Lists
    BY <1>1, <2>1, <2>2, BeginKeeps, CallsRest
  <2>4. snap' \subseteq [list : Lists, url : Urls]
    BY <1>1, <2>1
  <2> QED
    BY <1>2, <2>1, <2>3, <2>4, AdminRest, BaseFrom DEF Base, TypeOK, disk, setup
<1> QED
  BY <1>3, <1>4

LEMMA ForceBase == ASSUME Base, NEW p \in Forcers, NEW l \in Lists, ForceSync(p, l) PROVE Base'
<1>1. /\ Begin(p, l, cfg[l].url) /\ requests < MaxRequests /\ requests' = requests + 1
      /\ UNCHANGED <<version, disk, lists, fresh, cfg, file, admin, pass, crashes>>
  BY DEF ForceSync
<1>2. p \in Syncs /\ cfg[l].url \in Urls /\ requests \in 0..MaxRequests
  BY DEF Syncs, Base, TypeOK, Configs, Blocklist
<1>3. sync' \in [Syncs -> Calls] /\ (\A q \in Syncs : CallOK(q)') /\ disturbed' \subseteq Lists
  BY <1>1, <1>2, BeginKeeps
<1>4. requests' \in 0..MaxRequests
  BY <1>1, <1>2, SyncAssumption DEF SyncAssumption
<1> QED
  BY <1>1, <1>3, <1>4, AdminRest, BaseFrom DEF Base, TypeOK, disk, pass

(* An administrator's change, step by step. *)
LEMMA SaveBase ==
  ASSUME Base, NEW l \in Lists, NEW u \in Source[l], NEW e \in BOOLEAN, NEW kind \in {"patch", "delete"},
         Save(l, [enabled |-> e, url |-> u], kind)
  PROVE  Base'
<1> DEFINE b == [enabled |-> e, url |-> u]
           n == [cfg EXCEPT ![l] = b]
<1>1. /\ requests < MaxRequests /\ requests' = requests + 1 /\ (kind = "delete" => ~b.enabled)
      /\ admin' = [at |-> kind, list |-> l, next |-> n] /\ file' = n
      /\ disturbed' \subseteq disturbed \cup {l}
      /\ UNCHANGED <<version, disk, lists, fresh, cfg, pass, sync, crashes>>
  BY DEF Save
<1>2. requests \in 0..MaxRequests /\ disturbed \subseteq Lists /\ cfg \in [Lists -> Blocklist]
      /\ \A k \in Lists : cfg[k].url \in Source[k]
  BY DEF Base, TypeOK, Configs
<1>3. b \in Blocklist /\ b.url = u
  BY SyncAssumption DEF Blocklist, SyncAssumption
<1> HIDE DEF b
<1>4. n \in Configs /\ n[l] = b
  BY <1>2, <1>3 DEF Configs
<1> HIDE DEF n
<1>5. requests' \in 0..MaxRequests
  BY <1>1, <1>2, SyncAssumption DEF SyncAssumption
<1>6. admin' \in Changes
  BY <1>1, <1>4 DEF Changes
<1>7. AdminOK'
  BY <1>1, <1>4 DEF AdminOK
<1> QED
  BY <1>1, <1>2, <1>4, <1>5, <1>6, <1>7, CallsRest, BaseFrom DEF Base, TypeOK, disk, pass

LEMMA ApplyBase == ASSUME Base, applyConfig PROVE Base'
<1>1. admin \in Changes /\ AdminOK /\ lists \in [Lists -> Cached] /\ cfg \in Configs
  BY DEF Base, TypeOK
<1>2. NoChange \in Changes /\ NoChange.at = "idle"
  BY DEF NoChange, Changes
<1>3. CASE ReloadConfig
  <2>1. /\ admin.at \in {"patch", "delete"}
        /\ lists' = [l \in Lists |-> IF admin.next[l].enabled THEN lists[l] ELSE None]
        /\ admin' = [admin EXCEPT !.at = IF admin.at = "delete" THEN "drop" ELSE "swap"]
        /\ UNCHANGED <<version, disk, fresh, cfg, file, requests, pass, sync, crashes, disturbed>>
    BY <1>3 DEF ReloadConfig
  <2>2. admin' \in Changes /\ AdminOK'
    BY <1>1, <2>1 DEF Changes, AdminOK
  <2>3. lists' \in [Lists -> Cached]
    BY <1>1, <2>1 DEF Cached
  <2> QED
    BY <2>1, <2>2, <2>3, CallsRest, BaseFrom DEF Base, TypeOK, disk, pass
<1>4. CASE SwapConfig
  <2>1. /\ admin.at \in {"swap", "drop"} /\ cfg' = admin.next
        /\ admin' = IF admin.at = "drop" THEN [admin EXCEPT !.at = "remove"] ELSE NoChange
        /\ UNCHANGED <<version, disk, lists, fresh, file, requests, pass, sync, crashes, disturbed>>
    BY <1>4 DEF SwapConfig
  <2>2. cfg' \in Configs
    BY <1>1, <2>1 DEF AdminOK
  <2>3. admin' \in Changes /\ AdminOK'
    <3>1. CASE admin.at = "drop"
      BY <1>1, <2>1, <3>1 DEF Changes, AdminOK
    <3>2. CASE admin.at # "drop"
      BY <1>2, <2>1, <3>2 DEF AdminOK
    <3> QED
      BY <3>1, <3>2
  <2> QED
    BY <2>1, <2>2, <2>3, CallsRest, BaseFrom DEF Base, TypeOK, disk, pass
<1>5. CASE RemoveList
  <2>1. /\ lists' = [lists EXCEPT ![admin.list] = None] /\ admin' = NoChange
        /\ UNCHANGED <<version, disk, fresh, cfg, file, requests, pass, sync, crashes, disturbed>>
    BY <1>5 DEF RemoveList
  <2>2. admin' \in Changes /\ AdminOK'
    BY <1>2, <2>1 DEF AdminOK
  <2>3. lists' \in [Lists -> Cached]
    BY <1>1, <2>1 DEF Cached
  <2> QED
    BY <2>1, <2>2, <2>3, CallsRest, BaseFrom DEF Base, TypeOK, disk, pass
<1> QED
  BY <1>3, <1>4, <1>5 DEF applyConfig

(* The world. *)
LEMMA WorldBase ==
  ASSUME Base, (\E u \in Urls : Publish(u)) \/ (\E l \in Lists : Age(l)) \/ Restart
  PROVE  Base'
<1>1. /\ version \in [Urls -> 1..MaxVersion] /\ fresh \in [Lists -> BOOLEAN] /\ crashes \in 0..MaxCrashes
      /\ cfg \in Configs /\ file \in Configs
  BY DEF Base, TypeOK
<1>2. ASSUME NEW u \in Urls, Publish(u) PROVE Base'
  <2>1. /\ version[u] < MaxVersion /\ version' = [version EXCEPT ![u] = version[u] + 1]
        /\ UNCHANGED <<disk, lists, fresh, setup, pass, sync, crashes, disturbed>>
    BY <1>2 DEF Publish
  <2>2. version' \in [Urls -> 1..MaxVersion]
    BY <1>1, <2>1, SyncAssumption DEF SyncAssumption
  <2> QED
    BY <2>1, <2>2, AdminRest, CallsRest, BaseFrom DEF Base, TypeOK, disk, setup, pass
<1>3. ASSUME NEW l \in Lists, Age(l) PROVE Base'
  <2>1. /\ fresh' = [fresh EXCEPT ![l] = FALSE]
        /\ UNCHANGED <<version, disk, lists, setup, pass, sync, crashes, disturbed>>
    BY <1>3 DEF Age
  <2>2. fresh' \in [Lists -> BOOLEAN]
    BY <1>1, <2>1
  <2> QED
    BY <2>1, <2>2, AdminRest, CallsRest, BaseFrom DEF Base, TypeOK, disk, setup, pass
<1>4. CASE Restart
  <2>1. /\ crashes < MaxCrashes /\ crashes' = crashes + 1
        /\ lists' = [l \in Lists |-> None] /\ fresh' = [l \in Lists |-> FALSE]
        /\ cfg' = file /\ admin' = NoChange /\ snap' = {} /\ initial' = TRUE
        /\ sync' = [p \in Syncs |-> NoSync]
        /\ UNCHANGED <<version, disk, file, requests, disturbed>>
    BY <1>4 DEF Restart
  <2>2. NoSync \in Calls /\ NoSync.at = "idle" /\ NoChange \in Changes /\ NoChange.at = "idle"
    BY DEF NoSync, NoChange, Calls, Changes, Cached
  <2>3. sync' \in [Syncs -> Calls] /\ \A q \in Syncs : CallOK(q)'
    BY <2>1, <2>2 DEF CallOK
  <2>4. admin' \in Changes /\ AdminOK'
    BY <2>1, <2>2 DEF AdminOK
  <2>5. crashes' \in 0..MaxCrashes
    BY <1>1, <2>1, SyncAssumption DEF SyncAssumption
  <2>6. lists' \in [Lists -> Cached]
    BY <2>1 DEF Cached
  <2> QED
    BY <1>1, <2>1, <2>3, <2>4, <2>5, <2>6, BaseFrom DEF Base, TypeOK, disk
<1> QED
  BY <1>2, <1>3, <1>4

LEMMA NextBase == Base /\ [Next]_vars => Base'
<1> SUFFICES ASSUME Base, [Next]_vars PROVE Base'
  OBVIOUS
<1>1. CASE Next
  BY <1>1, PassBase, ForceBase, SyncOneBase, SaveBase, ApplyBase, WorldBase DEF Next
<1>2. CASE UNCHANGED vars
  BY <1>2, AdminRest, CallsRest DEF Base, TypeOK, vars, disk, setup, pass
<1> QED
  BY <1>1, <1>2

LEMMA BaseCorrect == Spec => []Base
  BY InitBase, NextBase, PTL DEF Spec

(* Configurations, cache files, calls and changes keep their types. *)
THEOREM SyncTypeCorrect == Spec => []TypeOK
<1>1. Base => TypeOK
  BY DEF Base
<1> QED
  BY BaseCorrect, <1>1, PTL

(* A list leaves the engine only by being disabled, deleted, or with the   *)
(* process: what a call of syncOne puts in its place is always a list.     *)
Kept == \A l \in Lists : lists[l] # None /\ lists'[l] = None =>
           \/ admin.at \in {"patch", "delete", "remove"} /\ ~admin.next[l].enabled
           \/ crashes' > crashes

LEMMA NextKept == Base /\ [Next]_vars => Kept
<1> SUFFICES ASSUME Base, [Next]_vars PROVE Kept
  OBVIOUS
<1>1. CASE lists' = lists
  BY <1>1 DEF Kept
<1>2. ASSUME NEW p \in Syncs, ReplaceList(p) PROVE Kept
  <2>1. lists \in [Lists -> Cached] /\ sync[p].body # None
    BY <1>2 DEF Base, TypeOK, CallOK, ReplaceList
  <2>2. lists' = [lists EXCEPT ![sync[p].list] = sync[p].body]
    BY <1>2 DEF ReplaceList
  <2> QED
    BY <2>1, <2>2 DEF Kept
<1>3. CASE ReloadConfig
  BY <1>3 DEF ReloadConfig, Kept
<1>4. CASE RemoveList
  <2>1. lists \in [Lists -> Cached] /\ ~admin.next[admin.list].enabled /\ admin.at = "remove"
    BY <1>4 DEF Base, TypeOK, AdminOK, RemoveList
  <2>2. lists' = [lists EXCEPT ![admin.list] = None]
    BY <1>4 DEF RemoveList
  <2> QED
    BY <2>1, <2>2 DEF Kept
<1>5. CASE Restart
  <2>1. crashes \in Nat /\ crashes' = crashes + 1
    BY <1>5, SyncAssumption DEF Base, TypeOK, Restart, SyncAssumption
  <2> QED
    BY <2>1 DEF Kept
<1>6. \/ lists' = lists \/ (\E p \in Syncs : ReplaceList(p))
      \/ ReloadConfig \/ RemoveList \/ Restart
  BY DEF Next, vars, Tick, syncDue, ForceSync, syncOne, Request, Reply, Fails, WriteText, WriteMeta,
         loadCache, MarkRun, Save, applyConfig, SwapConfig, Publish, Age
<1> QED
  BY <1>1, <1>2, <1>3, <1>4, <1>5, <1>6

(* "Do not zero out an existing list": whatever fails while a list is      *)
(* refreshed, and however many calls refresh it, the engine keeps it until *)
(* the configuration or the process gives it up.                           *)
THEOREM NeverZeroedCorrect == Spec => NeverZeroed
<1>1. Base /\ [Next]_vars => [\A l \in Lists : lists[l] # None /\ lists'[l] = None =>
           \/ admin.at \in {"patch", "delete", "remove"} /\ ~admin.next[l].enabled
           \/ crashes' > crashes]_vars
  BY NextKept DEF Kept
<1> QED
  BY BaseCorrect, <1>1, PTL DEF Spec, NeverZeroed
-----------------------------------------------------------------------------
(* Distinct lists have distinct cache files. *)
Apart == \A l, k \in Lists : SafeID[l] = SafeID[k] => l = k

Url(l) == cfg[l].url
Text(l) == text[SafeID[l]]
Meta(l) == meta[SafeID[l]]

(* Whoever works for a list has the URL that the holder has. *)
SameUrl(l) == /\ file[l].url = Url(l)
              /\ admin.at # "idle" => admin.next[l].url = Url(l)
              /\ \A e \in snap : e.list = l => e.url = Url(l)

(* The cached text came from that URL and its validators are no newer. *)
CacheOK(l) == /\ Text(l) # None => Text(l).url = Url(l) /\ Text(l).ver <= version[Url(l)]
              /\ Meta(l) # None => Text(l) # None /\ Meta(l).ver <= Text(l).ver

(* One call at most works on the list.  The body that it is about to write *)
(* is no older than the text that it writes over, and when it writes the   *)
(* validators the text is its body.                                        *)
CarriesOK(p, l) ==
  /\ sync[p].url = Url(l)
  /\ sync[p].at = "text" => /\ sync[p].body.url = Url(l) /\ sync[p].body.ver <= version[Url(l)]
                            /\ Text(l) # None => Text(l).ver <= sync[p].body.ver
  /\ sync[p].at = "meta" => Text(l) = sync[p].body

OneCall(l) == \A p, q \in Syncs : sync[p].list = l /\ sync[q].list = l => p = q

Guarded(l) == /\ SameUrl(l) /\ CacheOK(l) /\ OneCall(l)
              /\ \A p \in Syncs : sync[p].list = l => CarriesOK(p, l)

LEMMA InitGuarded == Init => \A l \in Lists : Guarded(l)
<1> SUFFICES ASSUME Init, NEW l \in Lists PROVE Guarded(l)
  OBVIOUS
<1>1. \A p \in Syncs : sync[p].list # l
  BY SyncAssumption DEF Init, NoSync, SyncAssumption
<1>2. SameUrl(l)
  BY DEF Init, SameUrl, Url, NoChange
<1>3. CacheOK(l)
  BY SyncAssumption DEF Init, CacheOK, Text, Meta, SyncAssumption
<1> QED
  BY <1>1, <1>2, <1>3 DEF Guarded, OneCall

(* What Guarded gives: an answer "not modified" means that nothing changed. *)
LEMMA GuardedSound ==
  ASSUME Base, NEW l \in Lists, Guarded(l), NotModified(Url(l), Meta(l))
  PROVE  Text(l) = Current(Url(l))
<1>1. /\ Url(l) \in Urls /\ version[Url(l)] \in Nat
      /\ Text(l) \in Cached /\ Meta(l) \in Cached
  BY SyncAssumption DEF Base, TypeOK, Configs, Blocklist, Url, Text, Meta, SyncAssumption
<1>2. Meta(l) # None /\ Meta(l).ver >= version[Url(l)]
  <2>1. CASE Meta(l) = Current(Url(l))
    BY <1>1, <2>1 DEF NotModified, Current
  <2>2. CASE Meta(l) # Current(Url(l))
    BY <2>2 DEF NotModified
  <2> QED
    BY <2>1, <2>2, <1>1 DEF NotModified
<1>3. /\ Text(l) # None /\ Text(l).url = Url(l) /\ Text(l).ver <= version[Url(l)]
      /\ Meta(l).ver <= Text(l).ver
  BY <1>2 DEF Guarded, CacheOK
<1>4. Text(l) \in Content /\ Meta(l) \in Content
  BY <1>1, <1>2, <1>3 DEF Cached
<1>5. Text(l).ver = version[Url(l)]
  BY <1>1, <1>2, <1>3, <1>4 DEF Content
<1> QED
  BY <1>3, <1>4, <1>5 DEF Content, Current

(* A call begins, moves or ends, and nothing else changes that matters to  *)
(* the list.                                                               *)
LEMMA CallGuarded ==
  ASSUME Base, NEW l \in Lists, Guarded(l), NEW p \in Syncs, NEW k, sync' = [sync EXCEPT ![p] = k],
         UNCHANGED <<version, disk, cfg, file, admin>>, snap' \subseteq snap,
         k.list = l => /\ \A q \in Syncs \ {p} : sync[q].list # l
                       /\ k.url = Url(l) /\ k.at # "meta"
                       /\ k.at = "text" => k.body = Current(Url(l))
  PROVE  Guarded(l)'
<1>1. /\ sync \in [Syncs -> Calls] /\ Url(l) \in Urls /\ version[Url(l)] \in Nat
      /\ text' = text /\ meta' = meta
  BY SyncAssumption DEF Base, TypeOK, Configs, Blocklist, Url, disk, SyncAssumption
<1>2. /\ Url(l)' = Url(l) /\ Text(l)' = Text(l) /\ Meta(l)' = Meta(l) /\ version' = version
  BY <1>1 DEF Url, Text, Meta
<1>3. SameUrl(l)'
  BY <1>2 DEF Guarded, SameUrl
<1>4. CacheOK(l)'
  BY <1>2 DEF Guarded, CacheOK
<1>5. /\ sync'[p] = k
      /\ \A q \in Syncs \ {p} : sync'[q] = sync[q]
  BY <1>1
<1>6. OneCall(l)'
  BY <1>5 DEF Guarded, OneCall
<1>7. ASSUME NEW q \in Syncs, sync'[q].list = l PROVE CarriesOK(q, l)'
  <2>1. CASE q # p
    BY <1>2, <1>5, <1>7, <2>1 DEF Guarded, CarriesOK
  <2>2. CASE q = p
    <3>1. k.list = l /\ sync'[q] = k
      BY <1>5, <1>7, <2>2
    <3>2. Text(l) # None => Text(l).ver <= version[Url(l)]
      BY DEF Guarded, CacheOK
    <3>3. k.at = "text" => k.body.url = Url(l) /\ k.body.ver = version[Url(l)]
      BY <3>1 DEF Current
    <3> QED
      BY <1>1, <1>2, <3>1, <3>2, <3>3 DEF CarriesOK
  <2> QED
    BY <2>1, <2>2
<1> QED
  BY <1>3, <1>4, <1>6, <1>7 DEF Guarded

(* A call that works on the list is the only one, and its list is the one  *)
(* whose file it writes.                                                   *)
LEMMA OnlyOne ==
  ASSUME NEW l \in Lists, Guarded(l), NEW p \in Syncs, sync[p].list = l
  PROVE  (\A q \in Syncs \ {p} : sync[q].list # l) /\ sync[p].url = Url(l) /\ CarriesOK(p, l)
  BY DEF Guarded, OneCall, CarriesOK

LEMMA SyncOneGuarded ==
  ASSUME Apart, Base, NEW l \in Lists, Guarded(l), NEW p \in Syncs, syncOne(p)
  PROVE  Guarded(l)'
<1>1. /\ sync \in [Syncs -> Calls] /\ CallOK(p) /\ sync[p] \in Calls
      /\ UNCHANGED <<version, cfg, file, admin, snap>>
      /\ Url(l) \in Urls /\ version[Url(l)] \in Nat /\ Url(l)' = Url(l) /\ NoSync.list # l
  BY SyncAssumption DEF Base, TypeOK, Configs, Blocklist, Url, SyncAssumption, NoSync, setup, pass, syncOne, Request, Reply,
         Fails, WriteText, WriteMeta, loadCache, ReplaceList, MarkRun
<1>2. ASSUME disk' = disk, NEW at \in {"load", "mark"}, Go(p, at) PROVE Guarded(l)'
  <2> DEFINE k == [sync[p] EXCEPT !.at = at]
  <2>1. k.at = at /\ k.list = sync[p].list /\ k.url = sync[p].url /\ sync' = [sync EXCEPT ![p] = k]
    BY <1>1, <1>2 DEF Calls, Go
  <2> HIDE DEF k
  <2> QED
    BY <1>1, <1>2, <2>1, OnlyOne, CallGuarded
<1>3. ASSUME disk' = disk, End(p) PROVE Guarded(l)'
  BY <1>1, <1>3, CallGuarded DEF End
<1>4. ASSUME disk' = disk, NEW at \in {"text", "swap"}, NEW b, Got(p, at, b), at = "text" => b = Current(sync[p].url)
      PROVE Guarded(l)'
  <2> DEFINE k == [at |-> at, list |-> sync[p].list, url |-> sync[p].url, sent |-> sync[p].sent, body |-> b]
  <2>1. /\ k.at = at /\ k.list = sync[p].list /\ k.url = sync[p].url /\ k.body = b
        /\ sync' = [sync EXCEPT ![p] = k]
    BY <1>4 DEF Got
  <2> HIDE DEF k
  <2> QED
    BY <1>1, <1>4, <2>1, OnlyOne, CallGuarded, ZenonT(30)
<1>5. CASE Request(p)
  <2> DEFINE k == [at |-> "sent", list |-> sync[p].list, url |-> sync[p].url, sent |-> meta[FileOf(p)], body |-> None]
  <2>1. /\ k.at = "sent" /\ k.list = sync[p].list /\ k.url = sync[p].url
        /\ sync' = [sync EXCEPT ![p] = k] /\ disk' = disk
    BY <1>5 DEF Request
  <2> HIDE DEF k
  <2> QED
    BY <1>1, <2>1, OnlyOne, CallGuarded
<1>6. CASE Reply(p)
  BY <1>2, <1>4, <1>6 DEF Reply
<1>7. CASE Fails(p)
  BY <1>2, <1>3, <1>7 DEF Fails
<1>8. CASE loadCache(p)
  BY <1>3, <1>4, <1>8 DEF loadCache
<1>9. CASE ReplaceList(p)
  BY <1>2, <1>9 DEF ReplaceList
<1>10. CASE MarkRun(p)
  BY <1>3, <1>10 DEF MarkRun
<1>11. ASSUME NEW at \in {"meta", "swap"}, Go(p, at)
       PROVE  /\ sync'[p].list = sync[p].list /\ sync'[p].url = sync[p].url /\ sync'[p].body = sync[p].body
              /\ sync'[p].at = at /\ \A q \in Syncs \ {p} : sync'[q] = sync[q]
  BY <1>1, <1>11 DEF Go, Calls
<1>12. ASSUME OneCall(l), \A q \in Syncs : sync'[q].list = sync[q].list PROVE OneCall(l)'
  BY <1>12 DEF OneCall
<1>13. SameUrl(l)'
  BY <1>1 DEF Guarded, SameUrl
<1>14. CASE WriteText(p)
  <2>1. /\ sync[p].at = "text" /\ text' = [text EXCEPT ![FileOf(p)] = sync[p].body] /\ meta' = meta /\ Go(p, "meta")
    BY <1>14 DEF WriteText
  <2>2. /\ text \in [Files -> Cached] /\ meta \in [Files -> Cached] /\ SafeID[l] \in Files /\ sync[p].list \in Lists
        /\ sync[p].body \in Content
    BY <1>1, <2>1, SyncAssumption DEF Base, TypeOK, SyncAssumption, CallOK, Calls, Cached
  <2>3. OneCall(l)'
    BY <1>11, <1>12, <2>1 DEF Guarded
  <2>4. Meta(l)' = Meta(l)
    BY <2>1 DEF Meta
  <2>5. CASE sync[p].list # l
    <3>1. Text(l)' = Text(l)
      BY <2>1, <2>2, <2>5 DEF Apart, FileOf, Text
    <3>2. CacheOK(l)'
      BY <1>1, <2>4, <3>1 DEF Guarded, CacheOK
    <3>3. ASSUME NEW q \in Syncs, sync'[q].list = l PROVE CarriesOK(q, l)'
      <4>1. q # p /\ sync'[q] = sync[q]
        BY <1>11, <2>1, <2>5, <3>3
      <4> QED
        BY <1>1, <3>1, <3>3, <4>1 DEF Guarded, CarriesOK
    <3> QED
      BY <1>13, <2>3, <3>2, <3>3 DEF Guarded
  <2>6. CASE sync[p].list = l
    <3>1. Text(l)' = sync[p].body /\ Text(l) \in Cached /\ Meta(l) \in Cached
      BY <2>1, <2>2, <2>6 DEF FileOf, Text, Meta
    <3>2. CarriesOK(p, l) /\ \A q \in Syncs \ {p} : sync[q].list # l
      BY <2>6, OnlyOne
    <3>3. CacheOK(l)'
      <4>1. Text(l)'.url = Url(l) /\ Text(l)'.ver <= version[Url(l)] /\ Text(l)' # None
        BY <1>1, <2>1, <3>1, <3>2 DEF CarriesOK, CallOK
      <4>2. ASSUME Meta(l) # None PROVE Meta(l).ver <= Text(l)'.ver
        <5>1. Text(l) # None /\ Meta(l).ver <= Text(l).ver
          BY <4>2 DEF Guarded, CacheOK
        <5>2. Text(l).ver <= sync[p].body.ver
          BY <2>1, <3>2, <5>1 DEF CarriesOK
        <5>3. Text(l).ver \in Nat /\ Meta(l).ver \in Nat /\ sync[p].body.ver \in Nat
          BY <2>2, <3>1, <4>2, <5>1 DEF Cached, Content
        <5> QED
          BY <3>1, <5>1, <5>2, <5>3
      <4> QED
        BY <1>1, <2>4, <4>1, <4>2 DEF CacheOK
    <3>4. ASSUME NEW q \in Syncs, sync'[q].list = l PROVE CarriesOK(q, l)'
      <4>1. q = p
        BY <1>11, <2>1, <3>2, <3>4
      <4> QED
        BY <1>1, <1>11, <2>1, <3>1, <3>2, <4>1 DEF CarriesOK
    <3> QED
      BY <1>13, <2>3, <3>3, <3>4 DEF Guarded
  <2> QED
    BY <2>5, <2>6
<1>15. CASE WriteMeta(p)
  <2> DEFINE m == IF Kind[sync[p].url] \in {"plain", "file"} THEN None ELSE sync[p].body
  <2>1. /\ sync[p].at = "meta" /\ meta' = [meta EXCEPT ![FileOf(p)] = m] /\ text' = text /\ Go(p, "swap")
    BY <1>15 DEF WriteMeta
  <2>2. /\ meta \in [Files -> Cached] /\ SafeID[l] \in Files /\ sync[p].list \in Lists
        /\ sync[p].body \in Content /\ (m = None \/ m = sync[p].body)
    BY <1>1, <2>1, SyncAssumption DEF Base, TypeOK, SyncAssumption, CallOK, Calls, Cached
  <2> HIDE DEF m
  <2>3. OneCall(l)' /\ Text(l)' = Text(l)
    BY <1>11, <1>12, <2>1 DEF Guarded, Text
  <2>4. ASSUME NEW q \in Syncs, sync'[q].list = l PROVE CarriesOK(q, l)'
    <3>1. CarriesOK(q, l)
      BY <1>11, <2>1, <2>4 DEF Guarded
    <3>2. CASE q = p
      BY <1>1, <1>11, <2>1, <2>3, <3>1, <3>2 DEF CarriesOK
    <3>3. CASE q # p
      <4>1. sync'[q] = sync[q]
        BY <1>11, <2>1, <3>3
      <4> QED
        BY <1>1, <2>3, <3>1, <4>1 DEF CarriesOK
    <3> QED
      BY <3>2, <3>3
  <2>5. CacheOK(l)'
    <3>1. CASE sync[p].list # l
      <4>1. Meta(l)' = Meta(l)
        BY <2>1, <2>2, <3>1 DEF Apart, FileOf, Meta
      <4> QED
        BY <1>1, <2>3, <4>1 DEF Guarded, CacheOK
    <3>2. CASE sync[p].list = l
      <4>1. Meta(l)' = m /\ Text(l) = sync[p].body
        BY <2>1, <2>2, <3>2, OnlyOne DEF FileOf, Meta, CarriesOK
      <4>2. sync[p].body # None /\ sync[p].body.ver \in Nat
        BY <1>1, <2>1, <2>2 DEF CallOK, Content
      <4> QED
        BY <1>1, <2>2, <2>3, <4>1, <4>2 DEF Guarded, CacheOK
    <3> QED
      BY <3>1, <3>2
  <2> QED
    BY <1>13, <2>3, <2>4, <2>5 DEF Guarded
<1> QED
  BY <1>5, <1>6, <1>7, <1>8, <1>9, <1>10, <1>14, <1>15 DEF syncOne

(* A call that begins finds the list free, or disturbs it. *)
LEMMA BeginGuarded ==
  ASSUME Base, NEW k \in Lists, NEW p \in Syncs, Begin(p, k, Url(k)),
         UNCHANGED <<version, disk, cfg, file, admin>>, snap' \subseteq snap,
         NEW l \in Lists \ disturbed', Guarded(l)
  PROVE  Guarded(l)'
<1> DEFINE c == [at |-> "send", list |-> k, url |-> Url(k), sent |-> None, body |-> None]
<1>1. /\ c.at = "send" /\ c.list = k /\ c.url = Url(k) /\ sync' = [sync EXCEPT ![p] = c]
  BY DEF Begin
<1>2. k = l => \A q \in Syncs \ {p} : sync[q].list # l
  BY DEF Begin
<1> HIDE DEF c
<1> QED
  BY <1>1, <1>2, CallGuarded

(* A step that touches neither calls nor the cache, and leaves the URL of  *)
(* the list alone wherever it is recorded.                                 *)
LEMMA UrlGuarded ==
  ASSUME Base, NEW l \in Lists, Guarded(l), SameUrl(l)', Url(l)' = Url(l), UNCHANGED <<version, disk, sync>>
  PROVE  Guarded(l)'
<1>1. Text(l)' = Text(l) /\ Meta(l)' = Meta(l) /\ version' = version /\ sync' = sync
  BY DEF Text, Meta, disk
<1>2. CacheOK(l)'
  BY <1>1 DEF Guarded, CacheOK
<1>3. OneCall(l)'
  BY <1>1 DEF Guarded, OneCall
<1>4. \A p \in Syncs : CarriesOK(p, l)' = CarriesOK(p, l)
  BY <1>1 DEF CarriesOK
<1> QED
  BY <1>1, <1>2, <1>3, <1>4 DEF Guarded

LEMMA PassGuarded ==
  ASSUME Base, Tick \/ (\E e \in snap : syncDue(e)), NEW l \in Lists \ disturbed', Guarded(l)
  PROVE  Guarded(l)'
<1>1. CASE Tick
  <2>1. /\ snap' = {[list |-> k, url |-> cfg[k].url] : k \in {j \in Lists : cfg[j].enabled}}
        /\ UNCHANGED <<version, disk, setup, sync>>
    BY <1>1 DEF Tick
  <2>2. SameUrl(l)' /\ Url(l)' = Url(l)
    BY <2>1 DEF Guarded, SameUrl, Url, setup
  <2> QED
    BY <2>1, <2>2, UrlGuarded
<1>2. ASSUME NEW e \in snap, syncDue(e) PROVE Guarded(l)'
  <2>1. /\ snap' \subseteq snap /\ UNCHANGED <<version, disk, cfg, file, admin>>
        /\ Begin(Periodic, e.list, e.url) \/ UNCHANGED <<sync, disturbed>>
    BY <1>2 DEF syncDue, setup
  <2>2. Periodic \in Syncs /\ e.list \in Lists
    BY DEF Base, TypeOK, Syncs
  <2>3. CASE UNCHANGED <<sync, disturbed>>
    <3>1. SameUrl(l)' /\ Url(l)' = Url(l)
      BY <2>1 DEF Guarded, SameUrl, Url
    <3> QED
      BY <2>1, <2>3, <3>1, UrlGuarded
  <2>4. CASE Begin(Periodic, e.list, e.url)
    <3> DEFINE c == [at |-> "send", list |-> e.list, url |-> e.url, sent |-> None, body |-> None]
    <3>1. /\ c.at = "send" /\ c.list = e.list /\ c.url = e.url /\ sync' = [sync EXCEPT ![Periodic] = c]
      BY <2>4 DEF Begin
    <3>2. e.list = l => /\ e.url = Url(l)
                        /\ \A q \in Syncs \ {Periodic} : sync[q].list # l
      BY <2>4 DEF Begin, Guarded, SameUrl
    <3> HIDE DEF c
    <3> QED
      BY <2>1, <2>2, <3>1, <3>2, CallGuarded
  <2> QED
    BY <2>1, <2>3, <2>4
<1> QED
  BY <1>1, <1>2

LEMMA ChangeGuarded ==
  ASSUME Base, NEW l \in Lists \ disturbed', Guarded(l),
         \/ applyConfig
         \/ \E k \in Lists : \E u \in Source[k], e \in BOOLEAN, kind \in {"patch", "delete"} :
               Save(k, [enabled |-> e, url |-> u], kind)
  PROVE  Guarded(l)'
<1>1. admin \in Changes /\ AdminOK /\ cfg \in [Lists -> Blocklist] /\ SameUrl(l)
  BY DEF Base, TypeOK, Configs, Guarded
<1>2. CASE applyConfig
  <2>1. CASE ReloadConfig
    <3>1. /\ admin' = [admin EXCEPT !.at = IF admin.at = "delete" THEN "drop" ELSE "swap"]
          /\ admin.at # "idle" /\ UNCHANGED <<version, disk, cfg, file, snap, sync>>
      BY <2>1 DEF ReloadConfig, pass
    <3>2. admin'.next = admin.next
      BY <1>1, <3>1 DEF Changes
    <3>3. SameUrl(l)' /\ Url(l)' = Url(l)
      BY <1>1, <3>1, <3>2 DEF SameUrl, Url
    <3> QED
      BY <3>1, <3>3, UrlGuarded
  <2>2. CASE SwapConfig
    <3>1. /\ cfg' = admin.next /\ admin.at # "idle" /\ UNCHANGED <<version, disk, file, snap, sync>>
          /\ admin' = IF admin.at = "drop" THEN [admin EXCEPT !.at = "remove"] ELSE NoChange
      BY <2>2 DEF SwapConfig, pass
    <3>2. Url(l)' = Url(l)
      BY <1>1, <3>1 DEF SameUrl, Url
    <3>3. admin'.at # "idle" => admin'.next = admin.next
      BY <1>1, <3>1 DEF Changes, NoChange
    <3>4. SameUrl(l)'
      BY <1>1, <3>1, <3>2, <3>3 DEF SameUrl
    <3> QED
      BY <3>1, <3>2, <3>4, UrlGuarded
  <2>3. CASE RemoveList
    <3>1. admin'.at = "idle" /\ UNCHANGED <<version, disk, cfg, file, snap, sync>>
      BY <2>3 DEF RemoveList, pass, NoChange
    <3>2. SameUrl(l)' /\ Url(l)' = Url(l)
      BY <1>1, <3>1 DEF SameUrl, Url
    <3> QED
      BY <3>1, <3>2, UrlGuarded
  <2> QED
    BY <1>2, <2>1, <2>2, <2>3 DEF applyConfig
<1>3. ASSUME NEW k \in Lists, NEW u \in Source[k], NEW e \in BOOLEAN, NEW kind \in {"patch", "delete"},
             Save(k, [enabled |-> e, url |-> u], kind)
      PROVE  Guarded(l)'
  <2> DEFINE b == [enabled |-> e, url |-> u]
             n == [cfg EXCEPT ![k] = b]
  <2>1. /\ admin' = [at |-> kind, list |-> k, next |-> n] /\ file' = n
        /\ (k = l => cfg[l].url = b.url)
        /\ UNCHANGED <<version, disk, cfg, snap, sync>>
    BY <1>3 DEF Save, pass
  <2>2. n[l].url = cfg[l].url
    BY <1>1, <2>1
  <2> HIDE DEF n, b
  <2>3. SameUrl(l)' /\ Url(l)' = Url(l)
    BY <1>1, <2>1, <2>2 DEF SameUrl, Url
  <2> QED
    BY <2>1, <2>3, UrlGuarded
<1> QED
  BY <1>2, <1>3

LEMMA WorldGuarded ==
  ASSUME Base, (\E u \in Urls : Publish(u)) \/ (\E k \in Lists : Age(k)) \/ Restart,
         NEW l \in Lists \ disturbed', Guarded(l)
  PROVE  Guarded(l)'
<1>1. /\ version \in [Urls -> 1..MaxVersion] /\ Url(l) \in Urls /\ file \in [Lists -> Blocklist]
      /\ sync \in [Syncs -> Calls] /\ Text(l) \in Cached
  BY SyncAssumption DEF Base, TypeOK, Configs, Blocklist, Url, Text, SyncAssumption
<1>2. ASSUME NEW u \in Urls, Publish(u) PROVE Guarded(l)'
  <2>1. /\ version' = [version EXCEPT ![u] = version[u] + 1]
        /\ UNCHANGED <<text, meta, cfg, file, admin, snap, sync>>
    BY <1>2 DEF Publish, disk, setup, pass
  <2>2. /\ version[Url(l)] <= version'[Url(l)] /\ version[Url(l)] \in Nat /\ version'[Url(l)] \in Nat
    BY <1>1, <2>1
  <2>3. Url(l)' = Url(l) /\ Text(l)' = Text(l) /\ Meta(l)' = Meta(l)
    BY <2>1 DEF Url, Text, Meta
  <2>4. SameUrl(l)' /\ OneCall(l)'
    BY <2>1, <2>3 DEF Guarded, SameUrl, OneCall
  <2>5. CacheOK(l)'
    <3>1. Text(l) # None => Text(l).ver \in Nat
      BY <1>1 DEF Cached, Content
    <3> QED
      BY <2>2, <2>3, <3>1 DEF Guarded, CacheOK
  <2>6. ASSUME NEW p \in Syncs, sync[p].list = l PROVE CarriesOK(p, l)'
    <3>1. sync[p].at = "text" => sync[p].body.ver \in Nat
      BY <1>1 DEF Base, CallOK, Calls, Cached, Content
    <3>2. CarriesOK(p, l)
      BY <2>6 DEF Guarded
    <3> QED
      BY <2>1, <2>2, <2>3, <3>1, <3>2 DEF CarriesOK
  <2> QED
    BY <2>1, <2>4, <2>5, <2>6 DEF Guarded
<1>3. ASSUME NEW k \in Lists, Age(k) PROVE Guarded(l)'
  <2>1. UNCHANGED <<version, disk, cfg, file, admin, snap, sync>>
    BY <1>3 DEF Age, setup, pass
  <2>2. SameUrl(l)' /\ Url(l)' = Url(l)
    BY <2>1 DEF Guarded, SameUrl, Url
  <2> QED
    BY <2>1, <2>2, UrlGuarded
<1>4. CASE Restart
  <2>1. /\ cfg' = file /\ file' = file /\ admin'.at = "idle" /\ snap' = {} /\ sync' = [p \in Syncs |-> NoSync]
        /\ version' = version /\ text' = text /\ meta' = meta
    BY <1>4 DEF Restart, NoChange, disk
  <2>2. Url(l)' = Url(l) /\ Text(l)' = Text(l) /\ Meta(l)' = Meta(l)
    BY <2>1 DEF Guarded, SameUrl, Url, Text, Meta
  <2>3. SameUrl(l)'
    BY <2>1 DEF SameUrl, Url
  <2>4. CacheOK(l)'
    BY <2>1, <2>2 DEF Guarded, CacheOK
  <2>5. \A p \in Syncs : sync'[p].list # l
    BY <2>1, SyncAssumption DEF NoSync, SyncAssumption
  <2> QED
    BY <2>3, <2>4, <2>5 DEF Guarded, OneCall
<1> QED
  BY <1>2, <1>3, <1>4

SyncInv == Base /\ \A l \in Lists \ disturbed : Guarded(l)

LEMMA NextGuarded == Apart /\ SyncInv /\ [Next]_vars => SyncInv'
<1> SUFFICES ASSUME Apart, Base, \A l \in Lists \ disturbed : Guarded(l), [Next]_vars PROVE SyncInv'
  BY DEF SyncInv
<1>1. disturbed \subseteq disturbed'
  BY DEF Next, vars, Tick, syncDue, ForceSync, Begin, syncOne, Request, Reply, Fails, WriteText, WriteMeta,
         loadCache, ReplaceList, MarkRun, Save, applyConfig, ReloadConfig, SwapConfig, RemoveList, Publish, Age, Restart
<1>2. ASSUME NEW l \in Lists \ disturbed' PROVE Guarded(l)'
  <2>1. Guarded(l)
    BY <1>1
  <2>2. CASE UNCHANGED vars
    <3>1. SameUrl(l)' /\ Url(l)' = Url(l) /\ UNCHANGED <<version, disk, sync>>
      BY <2>1, <2>2 DEF Guarded, SameUrl, Url, vars, setup, pass
    <3> QED
      BY <2>1, <3>1, UrlGuarded
  <2>3. ASSUME NEW p \in Forcers, NEW k \in Lists, ForceSync(p, k) PROVE Guarded(l)'
    <3>1. Begin(p, k, Url(k)) /\ UNCHANGED <<version, disk, cfg, file, admin, snap>> /\ p \in Syncs
      BY <2>3 DEF ForceSync, Url, pass, Syncs
    <3> QED
      BY <1>2, <2>1, <3>1, BeginGuarded
  <2> QED
    BY <1>2, <2>1, <2>2, <2>3, PassGuarded, SyncOneGuarded, ChangeGuarded, WorldGuarded DEF Next
<1> QED
  BY <1>2, NextBase DEF SyncInv

(* Between any two steps of concurrent syncs, edits, failures and restarts *)
(* the validators on disk vouch for the text next to them only, for every  *)
(* list that is not disturbed and has its cache file to itself.            *)
THEOREM SyncConsistent == ASSUME Apart PROVE Spec => []Consistent
<1>1. Init => SyncInv
  BY InitBase, InitGuarded DEF SyncInv
<1>2. SyncInv /\ [Next]_vars => SyncInv'
  BY NextGuarded
<1>3. SyncInv => Consistent
  <2> SUFFICES ASSUME SyncInv, NEW l \in Lists \ disturbed, NotModified(cfg[l].url, meta[SafeID[l]])
               PROVE  text[SafeID[l]] = Current(cfg[l].url)
    BY DEF SyncInv, Base, Consistent, ConditionalSound
  <2> QED
    BY GuardedSound DEF SyncInv, Url, Text, Meta
<1> QED
  BY <1>1, <1>2, <1>3, PTL DEF Spec
=============================================================================
