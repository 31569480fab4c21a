---------------------------- MODULE BlocklistSync ----------------------------
(***************************************************************************)
(* Blocklists from their servers to the policy engine: the Syncer of       *)
(* internal/policy/sync.go, the Fetcher with its cache on disk, the        *)
(* engine's map of compiled lists, and the administrator's changes, which  *)
(* reach the file, the engine and the configuration holder one after the   *)
(* other.  The periodic sync and the syncs that operators force run        *)
(* concurrently and share the cache files.                                 *)
(*                                                                         *)
(* The content of a list is the URL it came from and the version published *)
(* there; parsing is left out.                                             *)
(***************************************************************************)
EXTENDS Integers, FiniteSets

CONSTANTS Lists, Urls, Files, None,
          Source,      \* the URLs that a list may be configured with
          SafeID,      \* the cache file that a list's ID maps to
          Kind,        \* of a URL: how its server validates a cached copy
          Forcers,     \* operators who force a sync
          Periodic,    \* the Syncer's own goroutine
          MaxVersion, MaxRequests, MaxCrashes

Syncs == Forcers \cup {Periodic}

Content == [url : Urls, ver : 1..MaxVersion]
Blocklist == [enabled : BOOLEAN, url : Urls]

ASSUME SyncAssumption == /\ Source \in [Lists -> SUBSET Urls]
                         /\ SafeID \in [Lists -> Files]
                         /\ Kind \in [Urls -> {"etag", "date", "plain", "file"}]
                         /\ Periodic \notin Forcers
                         /\ None \notin Lists \cup Urls /\ None \notin Content
                         /\ MaxVersion \in Nat \ {0} /\ MaxRequests \in Nat /\ MaxCrashes \in Nat

VARIABLES version,  \* of each URL, as its server publishes it now
          text, meta,  \* the .txt and .json files of the cache
          lists,    \* Engine.lists
          fresh,    \* lists whose lastRun is younger than their interval
          cfg,      \* the configuration the holder has
          file,     \* the configuration file
          admin,    \* the change under way
          snap,     \* what remains of the Syncer's pass over the lists
          initial,  \* this is its first pass
          sync,     \* calls of syncOne
          requests, crashes,
          disturbed  \* history: lists that were given another URL, or that two
                     \* calls of syncOne worked on at once

disk == <<text, meta>>
setup == <<cfg, file, admin, requests>>
pass == <<snap, initial>>
vars == <<version, disk, lists, fresh, setup, pass, sync, crashes, disturbed>>

NoSync == [at |-> "idle", list |-> None, url |-> None, sent |-> None, body |-> None]
NoChange == [at |-> "idle", list |-> None, next |-> None]

Configs == {c \in [Lists -> Blocklist] : \A l \in Lists : c[l].url \in Source[l]}

Init == /\ version = [u \in Urls |-> 1]
        /\ text = [f \in Files |-> None] /\ meta = [f \in Files |-> None]
        /\ lists = [l \in Lists |-> None]
        /\ fresh = [l \in Lists |-> FALSE]
        /\ cfg \in Configs /\ file = cfg
        /\ admin = NoChange
        /\ snap = {} /\ initial = TRUE
        /\ sync = [p \in Syncs |-> NoSync]
        /\ requests = 0 /\ crashes = 0 /\ disturbed = {}

Current(u) == [url |-> u, ver |-> version[u]]
Go(p, at) == sync' = [sync EXCEPT ![p] = [sync[p] EXCEPT !.at = at]]
Got(p, at, body) == sync' = [sync EXCEPT ![p] = [at |-> at, list |-> sync[p].list, url |-> sync[p].url,
                                                 sent |-> sync[p].sent, body |-> body]]
End(p) == sync' = [sync EXCEPT ![p] = NoSync]
Begin(p, l, u) ==
    /\ sync' = [sync EXCEPT ![p] = [at |-> "send", list |-> l, url |-> u, sent |-> None, body |-> None]]
    /\ disturbed' = disturbed \cup {k \in {l} : \E o \in Syncs \ {p} : sync[o].list = k}
FileOf(p) == SafeID[sync[p].list]
-----------------------------------------------------------------------------
(* Syncer.Run's ticker: a pass over the lists enabled now.  A list is due  *)
(* when its interval has gone by since lastRun, or on the first pass.      *)
Tick == /\ sync[Periodic].at = "idle" /\ snap = {}
        /\ snap' = {[list |-> l, url |-> cfg[l].url] : l \in {k \in Lists : cfg[k].enabled}}
        /\ initial' = (initial /\ snap' # {})
        /\ UNCHANGED <<version, disk, lists, fresh, setup, sync, crashes, disturbed>>

DueM(l) == initial
Due(l) == initial \/ ~fresh[l]

syncDue(e) == /\ sync[Periodic].at = "idle" /\ e \in snap
              /\ snap' = snap \ {e}
              /\ IF Due(e.list) THEN Begin(Periodic, e.list, e.url) ELSE UNCHANGED <<sync, disturbed>>
              /\ initial' = (initial /\ snap' # {})
              /\ UNCHANGED <<version, disk, lists, fresh, setup, crashes>>

(* ForceSync refuses a list that is disabled or gone. *)
ForceSync(p, l) == /\ sync[p].at = "idle" /\ requests < MaxRequests
                   /\ cfg[l].enabled
                   /\ Begin(p, l, cfg[l].url)
                   /\ requests' = requests + 1
                   /\ UNCHANGED <<version, disk, lists, fresh, cfg, file, admin, pass, crashes>>
-----------------------------------------------------------------------------
(* fetchHTTP: the request carries the validators of the cached copy, and   *)
(* the server compares them with what it has when it answers.  A server    *)
(* that sends neither ETag nor Last-Modified ("plain"), and a file:// URL, *)
(* always deliver.                                                         *)
Request(p) == /\ sync[p].at = "send"
              /\ sync' = [sync EXCEPT ![p] = [at |-> "sent", list |-> sync[p].list, url |-> sync[p].url,
                                              sent |-> meta[FileOf(p)], body |-> None]]
              /\ UNCHANGED <<version, disk, lists, fresh, setup, pass, crashes, disturbed>>

NotModified(u, m) == /\ m # None
                     /\ \/ Kind[u] = "etag" /\ m = Current(u)
                        \/ Kind[u] = "date" /\ m.ver >= version[u]

Reply(p) == /\ sync[p].at = "sent"
            /\ IF NotModified(sync[p].url, sync[p].sent)
               THEN Go(p, "load")
               ELSE Got(p, "text", Current(sync[p].url))
            /\ UNCHANGED <<version, disk, lists, fresh, setup, pass, crashes, disturbed>>

(* No answer, a status other than 2xx, a body too long, or a file of the   *)
(* cache that cannot be written.  fetchFile does not fall back on the      *)
(* cache when it is the cache that failed.                                 *)
FailsM(p) == /\ sync[p].at \in {"sent", "text", "meta"}
             /\ Got(p, "swap", None)
             /\ UNCHANGED <<version, disk, lists, fresh, setup, pass, crashes, disturbed>>
Fails(p) == /\ sync[p].at \in {"sent", "text", "meta"}
            /\ IF Kind[sync[p].url] = "file" /\ sync[p].at # "sent" THEN End(p) ELSE Go(p, "load")
            /\ UNCHANGED <<version, disk, lists, fresh, setup, pass, crashes, disturbed>>

(* parseAndCache: first the text, then its validators. *)
WriteTextM(p) == /\ sync[p].at = "text"
                 /\ meta' = [meta EXCEPT ![FileOf(p)] = sync[p].body]
                 /\ Go(p, "meta")
                 /\ UNCHANGED <<version, text, lists, fresh, setup, pass, crashes, disturbed>>
WriteText(p) == /\ sync[p].at = "text"
                /\ text' = [text EXCEPT ![FileOf(p)] = sync[p].body]
                /\ Go(p, "meta")
                /\ UNCHANGED <<version, meta, lists, fresh, setup, pass, crashes, disturbed>>

WriteMeta(p) == /\ sync[p].at = "meta"
                /\ meta' = [meta EXCEPT ![FileOf(p)] = IF Kind[sync[p].url] \in {"plain", "file"} THEN None
                                                       ELSE sync[p].body]
                /\ Go(p, "swap")
                /\ UNCHANGED <<version, text, lists, fresh, setup, pass, crashes, disturbed>>

(* loadCache, after "not modified" and after a failure alike. *)
loadCache(p) == /\ sync[p].at = "load"
                /\ IF text[FileOf(p)] = None THEN End(p)
                   ELSE Got(p, "swap", text[FileOf(p)])
                /\ UNCHANGED <<version, disk, lists, fresh, setup, pass, crashes, disturbed>>

(* syncOne, once Fetch has a result. *)
ReplaceList(p) == /\ sync[p].at = "swap"
                  /\ lists' = [lists EXCEPT ![sync[p].list] = sync[p].body]
                  /\ Go(p, "mark")
                  /\ UNCHANGED <<version, disk, fresh, setup, pass, crashes, disturbed>>

MarkRun(p) == /\ sync[p].at = "mark"
              /\ fresh' = [fresh EXCEPT ![sync[p].list] = TRUE]
              /\ End(p)
              /\ UNCHANGED <<version, disk, lists, setup, pass, crashes, disturbed>>

syncOne(p) == \/ Request(p) \/ Reply(p) \/ Fails(p)
              \/ WriteText(p) \/ WriteMeta(p) \/ loadCache(p)
              \/ ReplaceList(p) \/ MarkRun(p)
-----------------------------------------------------------------------------
(* blocklistPatch and blocklistDelete through applyConfig, and a SIGHUP:   *)
(* the file, the engine, the holder, and for a deletion the engine again.  *)
(* One change at a time.                                                   *)
Save(l, b, kind) ==
    /\ admin.at = "idle" /\ requests < MaxRequests
    /\ kind = "delete" => ~b.enabled
    /\ b # cfg[l]
    /\ admin' = [at |-> kind, list |-> l, next |-> [cfg EXCEPT ![l] = b]]
    /\ file' = admin'.next
    /\ requests' = requests + 1
    /\ disturbed' = disturbed \cup {k \in {l} : cfg[k].url # b.url}
    /\ UNCHANGED <<version, disk, lists, fresh, cfg, pass, sync, crashes>>

ReloadConfig == /\ admin.at \in {"patch", "delete"}
                /\ lists' = [l \in Lists |-> IF admin.next[l].enabled THEN lists[l] ELSE None]
                /\ admin' = [admin EXCEPT !.at = IF admin.at = "delete" THEN "drop" ELSE "swap"]
                /\ UNCHANGED <<version, disk, fresh, cfg, file, requests, pass, sync, crashes, disturbed>>

SwapConfig == /\ admin.at \in {"swap", "drop"}
              /\ cfg' = admin.next
              /\ admin' = IF admin.at = "drop" THEN [admin EXCEPT !.at = "remove"] ELSE NoChange
              /\ UNCHANGED <<version, disk, lists, fresh, file, requests, pass, sync, crashes, disturbed>>

RemoveList == /\ admin.at = "remove"
              /\ lists' = [lists EXCEPT ![admin.list] = None]
              /\ admin' = NoChange
              /\ UNCHANGED <<version, disk, fresh, cfg, file, requests, pass, sync, crashes, disturbed>>

applyConfig == ReloadConfig \/ SwapConfig \/ RemoveList
-----------------------------------------------------------------------------
(* The world: a server publishes, time passes, the process is killed and   *)
(* started again with what is on disk.                                     *)
Publish(u) == /\ version[u] < MaxVersion
              /\ version' = [version EXCEPT ![u] = version[u] + 1]
              /\ UNCHANGED <<disk, lists, fresh, setup, pass, sync, crashes, disturbed>>

Age(l) == /\ fresh[l]
          /\ fresh' = [fresh EXCEPT ![l] = FALSE]
          /\ UNCHANGED <<version, disk, lists, setup, pass, sync, crashes, disturbed>>

Restart == /\ crashes < MaxCrashes
           /\ crashes' = crashes + 1
           /\ lists' = [l \in Lists |-> None]
           /\ fresh' = [l \in Lists |-> FALSE]
           /\ cfg' = file /\ admin' = NoChange
           /\ snap' = {} /\ initial' = TRUE
           /\ sync' = [p \in Syncs |-> NoSync]
           /\ UNCHANGED <<version, disk, file, requests, disturbed>>

Next == \/ Tick \/ \E e \in snap : syncDue(e)
        \/ \E p \in Forcers, l \in Lists : ForceSync(p, l)
        \/ \E p \in Syncs : syncOne(p)
        \/ \E l \in Lists : \E u \in Source[l], e \in BOOLEAN, kind \in {"patch", "delete"} :
              Save(l, [enabled |-> e, url |-> u], kind)
        \/ applyConfig
        \/ \E u \in Urls : Publish(u)
        \/ \E l \in Lists : Age(l)
        \/ Restart

Spec == Init /\ [][Next]_vars

(* The ticker ticks, time passes, a call in progress goes on, and a server *)
(* or a disk that is tried again and again for a list does not fail for    *)
(* ever.                                                                   *)
Step(A(_), p, l) == sync[p].list = l /\ A(p)
Fairness == /\ WF_vars(Tick) /\ WF_vars(\E e \in snap : syncDue(e))
            /\ \A l \in Lists : WF_vars(Age(l))
            /\ WF_vars(applyConfig)
            /\ \A p \in Syncs : /\ WF_vars(Request(p)) /\ WF_vars(loadCache(p))
                                /\ WF_vars(ReplaceList(p)) /\ WF_vars(MarkRun(p))
            /\ \A p \in Syncs, l \in Lists :
                  /\ SF_vars(Step(Reply, p, l))
                  /\ SF_vars(Step(WriteText, p, l)) /\ SF_vars(Step(WriteMeta, p, l))

FairSpec == Spec /\ Fairness
-----------------------------------------------------------------------------
Cached == Content \cup {None}
Calls == [at : {"idle", "send", "sent", "text", "meta", "load", "swap", "mark"},
          list : Lists \cup {None}, url : Urls \cup {None}, sent : Cached, body : Cached]
Changes == [at : {"idle", "patch", "delete", "swap", "drop", "remove"},
            list : Lists \cup {None}, next : Configs \cup {None}]

TypeOK ==
    /\ version \in [Urls -> 1..MaxVersion]
    /\ text \in [Files -> Cached] /\ meta \in [Files -> Cached]
    /\ lists \in [Lists -> Cached]
    /\ fresh \in [Lists -> BOOLEAN]
    /\ cfg \in Configs /\ file \in Configs
    /\ admin \in Changes
    /\ snap \subseteq [list : Lists, url : Urls] /\ initial \in BOOLEAN
    /\ sync \in [Syncs -> Calls]
    /\ requests \in 0..MaxRequests /\ crashes \in 0..MaxCrashes /\ disturbed \subseteq Lists

(* SPECIFICATION.md 6.3: "Do not zero out an existing list."  A list that  *)
(* the engine has stays, whatever fails while it is refreshed, until it is *)
(* disabled or deleted or the process ends.                                *)
NeverZeroed == [][\A l \in Lists : lists[l] # None /\ lists'[l] = None =>
                     \/ admin.at \in {"patch", "delete", "remove"} /\ ~admin.next[l].enabled
                     \/ crashes' > crashes]_vars

(* When a list's server would answer "not modified" to the validators in   *)
(* the cache, the cached text is what the server has: the order of the two *)
(* writes makes a crash or a failed write between them harmless.  Two      *)
(* syncs of the list at once break it (fetcher.go:168), and so does a new  *)
(* URL, because the request carries the old one's validators               *)
(* (fetcher.go:97).                                                        *)
ConditionalSound == \A l \in Lists \ disturbed :
    NotModified(cfg[l].url, meta[SafeID[l]]) => text[SafeID[l]] = Current(cfg[l].url)

(* sync.go: "Syncer keeps enabled blocklists refreshed and swapped into    *)
(* the policy engine."  Once servers and configuration are left alone,     *)
(* each enabled list ends up in the engine as its server publishes it,     *)
(* unless it was disturbed in one of these two ways.                       *)
Refreshed == \A l \in Lists :
    <>[](cfg[l].enabled => lists[l] = Current(cfg[l].url) \/ l \in disturbed)

(* What holds between any two steps of concurrent syncs, edits, failures   *)
(* and restarts: well-typed state, and validators that vouch for the cached*)
(* text only.                                                              *)
Consistent == TypeOK /\ ConditionalSound
=============================================================================
