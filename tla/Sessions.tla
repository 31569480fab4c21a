------------------------------ MODULE Sessions ------------------------------
(***************************************************************************)
(* First-run setup, login, session use, logout and the hourly cleanup:     *)
(* internal/api/auth.go, authRequired of server.go, DeleteExpired of the   *)
(* store and cleanupSessions of main.go.  A use reads the session, looks   *)
(* at the clock and writes the session back with a later expiry; every     *)
(* other request, logout and the cleanup may come in between.              *)
(*                                                                         *)
(* Tokens are random and never repeat; here they are numbered.  The store  *)
(* is the JSON store, which keeps the change of a failed call in memory,   *)
(* or SQLite, which does not.                                              *)
(***************************************************************************)
EXTENDS Integers, FiniteSets

CONSTANTS Handlers, Users, TTL, MaxTokens,
          MaxDate, MaxStarts, MaxStoreFaults, NoSession, NoUser

ASSUME SessionsAssumption ==
    /\ {TTL, MaxTokens, MaxDate, MaxStarts, MaxStoreFaults} \subseteq Nat
    /\ NoSession \notin Int /\ NoUser \notin Users

Tokens == 1..MaxTokens

VARIABLES date,
          session,    \* in the store: the expiry of each token
          saved,      \* the store on disk
          issued,     \* tokens made so far
          req,        \* per handler: the request under way
          sweep,      \* DeleteExpired: expired rows of its scan that it has still to delete
          owner,      \* auth.users, in the configuration file and in the holder
          promised,   \* history: the expiry that was written last for an accepted request
          loggedOut,  \* history: tokens for which logout answered
          unsure,     \* history: tokens written by who had read another expiry, or whose logout failed
          rivals,     \* history: who was setting up when the holder got the first user
          starts, storeFaults

histories == <<promised, loggedOut, unsure, rivals>>
sessionVars == <<date, session, saved, issued, req, sweep, owner, histories, starts, storeFaults>>

NoRequest == [at |-> "idle"]
NoRows == [t \in Tokens |-> NoSession]

SessionsInit == /\ date = 0 /\ session = NoRows /\ saved = NoRows /\ issued = 0
                /\ req = [h \in Handlers |-> NoRequest] /\ sweep = NoRows
                /\ owner = [file |-> NoUser, holder |-> NoUser]
                /\ promised = NoRows /\ loggedOut = {} /\ unsure = {} /\ rivals = {}
                /\ starts = 0 /\ storeFaults = 0

Later == /\ date < MaxDate
         /\ date' = date + 1
         /\ UNCHANGED <<session, saved, issued, req, sweep, owner, histories, starts, storeFaults>>

Goes(h, next) == req' = [req EXCEPT ![h] = next]

(* The store writes a row.  A failed call may have changed the memory, and *)
(* when the last step failed also the disk.                                *)
Writes(t, expiry) == session' = [session EXCEPT ![t] = expiry] /\ saved' = session'
WriteFailed(t, expiry) == /\ storeFaults < MaxStoreFaults
                          /\ storeFaults' = storeFaults + 1
                          /\ session' \in {session, [session EXCEPT ![t] = expiry]}
                          /\ saved' \in {saved, session'}

(* The row t is deleted by who saw `seen' in it. *)
Touches(t, seen) == unsure' = IF session[t] \in {seen, NoSession} THEN unsure ELSE unsure \cup {t}
-----------------------------------------------------------------------------
(* setup: refused once there is a user. *)
SettingUp(h) == req[h].at \in {"save", "replace"}

(* History: who may still become the owner when the holder gets the first. *)
Rivals(users) == rivals' = IF owner.holder = NoUser THEN users ELSE rivals

setupM(h, u) == /\ req[h].at = "idle"
                /\ Goes(h, [at |-> "save", user |-> u])
                /\ UNCHANGED <<date, session, saved, issued, sweep, owner, histories, starts, storeFaults>>
setup(h, u) == /\ req[h].at = "idle" /\ owner.holder = NoUser
               /\ Goes(h, [at |-> "save", user |-> u])
               /\ UNCHANGED <<date, session, saved, issued, sweep, owner, histories, starts, storeFaults>>

SaveOwner(h) == /\ req[h].at = "save"
                /\ owner' = [owner EXCEPT !.file = req[h].user]
                /\ Goes(h, [req[h] EXCEPT !.at = "replace"])
                /\ UNCHANGED <<date, session, saved, issued, sweep, histories, starts, storeFaults>>

ReplaceOwner(h) == /\ req[h].at = "replace"
                   /\ owner' = [owner EXCEPT !.holder = req[h].user]
                   /\ Rivals({req[g].user : g \in {g \in Handlers : SettingUp(g)}})
                   /\ Goes(h, [at |-> "create"])
                   /\ UNCHANGED <<date, session, saved, issued, sweep, promised, loggedOut, unsure, starts, storeFaults>>

(* login with the right password. *)
login(h) == /\ req[h].at = "idle" /\ owner.holder # NoUser
            /\ Goes(h, [at |-> "create"])
            /\ UNCHANGED <<date, session, saved, issued, sweep, owner, histories, starts, storeFaults>>

createSession(h) == /\ req[h].at = "create" /\ issued < MaxTokens
                    /\ issued' = issued + 1
                    /\ Writes(issued + 1, date + TTL)
                    /\ promised' = [promised EXCEPT ![issued + 1] = date + TTL]
                    /\ Goes(h, NoRequest)
                    /\ UNCHANGED <<date, sweep, owner, loggedOut, unsure, rivals, starts, storeFaults>>
-----------------------------------------------------------------------------
(* authRequired and sessionFromRequest, of any request and of logout, with *)
(* a cookie that some answer has set.  Without a session it is refused.    *)
Get(h, t, op) == /\ req[h].at = "idle" /\ owner.holder # NoUser
                 /\ t <= issued /\ session[t] # NoSession
                 /\ Goes(h, [at |-> "check", token |-> t, op |-> op, seen |-> session[t]])
                 /\ UNCHANGED <<date, session, saved, issued, sweep, owner, histories, starts, storeFaults>>

ExpiredM(expiry) == expiry <= date
Expired(expiry) == expiry < date

Check(h) == /\ req[h].at = "check"
            /\ Goes(h, IF Expired(req[h].seen) THEN [req[h] EXCEPT !.at = "drop"]
                       ELSE [at |-> "renew", token |-> req[h].token, op |-> req[h].op,
                             seen |-> req[h].seen, until |-> date + TTL])
            /\ UNCHANGED <<date, session, saved, issued, sweep, owner, histories, starts, storeFaults>>

Drop(h) == /\ req[h].at = "drop"
           /\ Writes(req[h].token, NoSession)
           /\ Touches(req[h].token, req[h].seen)
           /\ Goes(h, NoRequest)
           /\ UNCHANGED <<date, issued, sweep, owner, promised, loggedOut, rivals, starts, storeFaults>>

Renew(h) == /\ req[h].at = "renew"
            /\ LET t == req[h].token
               IN  /\ Writes(t, req[h].until)
                   /\ promised' = [promised EXCEPT ![t] = req[h].until]
                   /\ unsure' = IF session[t] = req[h].seen THEN unsure ELSE unsure \cup {t}
                   /\ Goes(h, IF req[h].op = "logout" THEN [at |-> "logout", token |-> t] ELSE NoRequest)
            /\ UNCHANGED <<date, issued, sweep, owner, loggedOut, rivals, starts, storeFaults>>

logoutM(h) == /\ req[h].at = "logout"
              /\ session' = [session EXCEPT ![req[h].token] = NoSession]
              /\ loggedOut' = loggedOut \cup {req[h].token}
              /\ Goes(h, NoRequest)
              /\ UNCHANGED <<date, saved, issued, sweep, owner, promised, unsure, rivals, starts, storeFaults>>
logout(h) == /\ req[h].at = "logout"
             /\ Writes(req[h].token, NoSession)
             /\ loggedOut' = loggedOut \cup {req[h].token}
             /\ Goes(h, NoRequest)
             /\ UNCHANGED <<date, issued, sweep, owner, promised, unsure, rivals, starts, storeFaults>>

(* A call of the store fails, and the request with it.  The token of a     *)
(* session that could not be created is told to nobody.                    *)
CreateFails(h) == /\ req[h].at \in {"save", "create"} /\ storeFaults < MaxStoreFaults
                  /\ storeFaults' = storeFaults + 1
                  /\ Goes(h, NoRequest)
                  /\ UNCHANGED <<date, session, saved, issued, sweep, owner, histories, starts>>

RenewFails(h) == /\ req[h].at = "renew"
                 /\ WriteFailed(req[h].token, req[h].until)
                 /\ unsure' = IF session[req[h].token] = req[h].seen THEN unsure ELSE unsure \cup {req[h].token}
                 /\ Goes(h, NoRequest)
                 /\ UNCHANGED <<date, issued, sweep, owner, promised, loggedOut, rivals, starts>>

DropFails(h) == /\ req[h].at = "drop"
                /\ WriteFailed(req[h].token, NoSession)
                /\ Touches(req[h].token, req[h].seen)
                /\ Goes(h, NoRequest)
                /\ UNCHANGED <<date, issued, sweep, owner, promised, loggedOut, rivals, starts>>

(* logout answers as if it had succeeded (auth.go:101). *)
logoutFails(h) == /\ req[h].at = "logout"
                  /\ WriteFailed(req[h].token, NoSession)
                  /\ loggedOut' = loggedOut \cup {req[h].token}
                  /\ unsure' = unsure \cup {req[h].token}
                  /\ Goes(h, NoRequest)
                  /\ UNCHANGED <<date, issued, sweep, owner, promised, rivals, starts>>
-----------------------------------------------------------------------------
(* DeleteExpired: the scan, and a deletion by key for each expired row. *)
Scan == /\ sweep = NoRows
        /\ sweep' = [t \in Tokens |-> IF session[t] # NoSession /\ Expired(session[t]) THEN session[t] ELSE NoSession]
        /\ UNCHANGED <<date, session, saved, issued, req, owner, histories, starts, storeFaults>>

Sweep(t) == /\ sweep[t] # NoSession
            /\ sweep' = [sweep EXCEPT ![t] = NoSession]
            /\ Writes(t, NoSession)
            /\ Touches(t, sweep[t])
            /\ UNCHANGED <<date, issued, req, owner, promised, loggedOut, rivals, starts, storeFaults>>

SweepFails(t) == /\ sweep[t] # NoSession
                 /\ WriteFailed(t, NoSession)
                 /\ Touches(t, sweep[t])
                 /\ sweep' = NoRows
                 /\ UNCHANGED <<date, issued, req, owner, promised, loggedOut, rivals, starts>>

(* The process ends anywhere and starts with what is on disk. *)
Reopen == /\ starts < MaxStarts
          /\ starts' = starts + 1
          /\ session' = saved
          /\ req' = [h \in Handlers |-> NoRequest] /\ sweep' = NoRows
          /\ owner' = [owner EXCEPT !.holder = owner.file]
          /\ Rivals({owner.file})
          /\ UNCHANGED <<date, saved, issued, promised, loggedOut, unsure, storeFaults>>

SessionsNext ==
    \/ Later \/ Scan \/ Reopen \/ \E t \in Tokens : Sweep(t) \/ SweepFails(t)
    \/ \E h \in Handlers :
         \/ SaveOwner(h) \/ ReplaceOwner(h) \/ login(h) \/ createSession(h)
         \/ Check(h) \/ Drop(h) \/ Renew(h) \/ logout(h)
         \/ CreateFails(h) \/ RenewFails(h) \/ DropFails(h) \/ logoutFails(h)
         \/ \E u \in Users : setup(h, u)
         \/ \E t \in Tokens, op \in {"use", "logout"} : Get(h, t, op)

SessionsSpec == SessionsInit /\ [][SessionsNext]_sessionVars
-----------------------------------------------------------------------------
(* A session that was logged out is gone for good, also after a restart,   *)
(* unless a use of it had read it before and wrote it back (auth.go:150),  *)
(* or the deletion failed, which logout does not tell (auth.go:101).       *)
LogoutHolds == \A t \in loggedOut \ unsure : session[t] = NoSession

(* A session that is used lives as long as its last use promised: neither  *)
(* a request that finds it expired nor the cleanup, a failure or a restart *)
(* takes it away before.  The exception is who acts on an expiry that is   *)
(* no longer the stored one (auth.go:146, file.go:400).                    *)
KeptAlive == \A t \in (1..issued) \ (loggedOut \cup unsure) :
    date <= promised[t] => session[t] # NoSession /\ session[t] >= promised[t]

(* The first user stays: once the holder has one, no later setup, restart  *)
(* or failure removes it or puts another in the file or in the holder, but *)
(* for the setups that had passed the check by then (auth.go:32): after a  *)
(* single one, file and running server agree.                              *)
FirstUserKept ==
    [][owner.holder # NoUser => {owner'.file, owner'.holder} \subseteq rivals]_sessionVars
=============================================================================
