----------------------------- MODULE CustomLists -----------------------------
(***************************************************************************)
(* The custom blocklist and the custom allowlist: a request changes the    *)
(* store and then the policy engine (internal/api/custom_blocklist.go,     *)
(* allowlist.go).  The store's key is the domain as it was normalised,     *)
(* with or without "*."; the engine's trie has one entry for both.  The    *)
(* JSON store keeps the change of a failed call in memory.                 *)
(***************************************************************************)
EXTENDS Integers, FiniteSets

CONSTANTS Domains, Editors, MaxEdits, MaxListFaults, MaxListRestarts, NoCall

Lists == {"custom", "custom-allow"}
Keys == [list : Lists, domain : Domains, wild : BOOLEAN]

ASSUME CustomListsAssumption ==
    /\ {MaxEdits, MaxListFaults, MaxListRestarts} \subseteq Nat
    /\ NoCall \notin [op : {"add", "delete"}, key : Keys]

VARIABLES listed,    \* keys of the store
          onDisk,    \* those on disk
          engine,    \* entries of Engine.custom and Engine.customAllow
          edit,      \* per editor: the request between its two steps
          crossed,   \* history: entries with overlapping or failed requests, or of which one of two keys was deleted
          edits, listFaults, listRestarts

listVars == <<listed, onDisk, engine, edit, crossed, edits, listFaults, listRestarts>>

Entry(k) == <<k.list, k.domain>>

ListInit == /\ listed = {} /\ onDisk = {} /\ engine = {} /\ edit = [e \in Editors |-> NoCall]
            /\ crossed = {} /\ edits = 0 /\ listFaults = 0 /\ listRestarts = 0

Busy(n) == \E e \in Editors : edit[e] # NoCall /\ Entry(edit[e].key) = n

Begins(e, op, k) == /\ edit[e] = NoCall /\ edits < MaxEdits
                    /\ edits' = edits + 1
                    /\ edit' = [edit EXCEPT ![e] = [op |-> op, key |-> k]]
                    /\ UNCHANGED <<engine, listFaults, listRestarts>>

StoreAdd(e, k) == /\ Begins(e, "add", k)
                  /\ listed' = listed \cup {k} /\ onDisk' = listed'
                  /\ crossed' = IF Busy(Entry(k)) THEN crossed \cup {Entry(k)} ELSE crossed

(* Not found: 404, and the engine is left alone. *)
StoreRemove(e, k) == /\ k \in listed
                     /\ Begins(e, "delete", k)
                     /\ listed' = listed \ {k} /\ onDisk' = listed'
                     /\ crossed' = IF Busy(Entry(k)) \/ \E other \in listed' : Entry(other) = Entry(k)
                                   THEN crossed \cup {Entry(k)} ELSE crossed

(* The call fails, also after its change or even the saving of it. *)
StoreFails(k) == /\ listFaults < MaxListFaults
                 /\ listFaults' = listFaults + 1
                 /\ listed' \in {listed, listed \cup {k}, listed \ {k}}
                 /\ onDisk' \in {onDisk, listed'}
                 /\ crossed' = crossed \cup {Entry(k)}
                 /\ UNCHANGED <<engine, edit, edits, listRestarts>>

customBlocklistAdd(e, k) == k.list = "custom" /\ StoreAdd(e, k)
customBlocklistDelete(e, k) == k.list = "custom" /\ StoreRemove(e, k)
allowlistAdd(e, k) == k.list = "custom-allow" /\ StoreAdd(e, k)
allowlistDelete(e, k) == k.list = "custom-allow" /\ StoreRemove(e, k)

(* AddCustomBlock, RemoveCustomBlock and those of the allowlist. *)
ApplyEdit(e) == /\ edit[e] # NoCall
                /\ engine' = IF edit[e].op = "add" THEN engine \cup {Entry(edit[e].key)}
                             ELSE engine \ {Entry(edit[e].key)}
                /\ edit' = [edit EXCEPT ![e] = NoCall]
                /\ UNCHANGED <<listed, onDisk, crossed, edits, listFaults, listRestarts>>

loadCustomPolicyM == {Entry(k) : k \in {l \in onDisk : ~l.wild}}
loadCustomPolicy == {Entry(k) : k \in onDisk}

(* The process ends anywhere; the next one loads the store. *)
ListRestart == /\ listRestarts < MaxListRestarts
               /\ listRestarts' = listRestarts + 1
               /\ listed' = onDisk /\ engine' = loadCustomPolicy
               /\ edit' = [e \in Editors |-> NoCall] /\ crossed' = {}
               /\ UNCHANGED <<onDisk, edits, listFaults>>

ListNext == \/ \E e \in Editors :
                 \/ ApplyEdit(e)
                 \/ \E k \in Keys : \/ customBlocklistAdd(e, k) \/ customBlocklistDelete(e, k)
                                    \/ allowlistAdd(e, k) \/ allowlistDelete(e, k)
            \/ \E k \in Keys : StoreFails(k)
            \/ ListRestart

ListSpec == ListInit /\ [][ListNext]_listVars
-----------------------------------------------------------------------------
(* The engine blocks or allows a domain exactly when the store lists it,   *)
(* once no request for it is under way and also after a crash between a    *)
(* request's two steps.  Three things break this until the next start:     *)
(* requests for the same domain that overlap, a failed one (the JSON store *)
(* has it, the engine has not), and deleting a domain of which the other   *)
(* spelling stays listed (custom_blocklist.go:71).                         *)
ListsAgree == \A n \in (Lists \X Domains) \ crossed :
    ~Busy(n) => (n \in engine <=> \E k \in listed : Entry(k) = n)
=============================================================================
