---------------------------- MODULE ServiceProofs ----------------------------
(***************************************************************************)
(* What holds of the components beside the answering of queries for any    *)
(* number of requests, clients, files and subscribers: sessions, custom    *)
(* lists and the limiter of logins of the administration API, the rollups  *)
(* of the statistics, the rate limiter, the table of top domains, the      *)
(* files of the query log, the subscribers of the log, and the start and   *)
(* the shutdown of the DNS server.                                         *)
(* They share no variables; each has an invariant of its own here.         *)
(***************************************************************************)
EXTENDS Sessions, CustomLists, LoginLimiter, Statistics, RateLimiter, TopCounters,
        LogFiles, Fanout, DNSServer, FiniteSetTheorems, TLAPS

(***************************************************************************)
(* Sessions and the first user.                                            *)
(***************************************************************************)

(* What the store can hold for tokens, and what a request can be about.    *)
Rows == [Tokens -> Nat \cup {NoSession}]
Request == {NoRequest}
           \cup [at : {"save", "replace"}, user : Users]
           \cup [at : {"create"}]
           \cup [at : {"check", "drop"}, token : Tokens, op : {"use", "logout"}, seen : Nat]
           \cup [at : {"renew"}, token : Tokens, op : {"use", "logout"}, seen : Nat, until : Nat]
           \cup [at : {"logout"}, token : Tokens]

SessionsTypeOK ==
  /\ date \in Nat /\ issued \in 0..MaxTokens
  /\ session \in Rows /\ saved \in Rows /\ sweep \in Rows /\ promised \in Rows
  /\ req \in [Handlers -> Request]
  /\ loggedOut \in SUBSET Tokens /\ unsure \in SUBSET Tokens

(* A token that was logged out, and of which nobody held an older reading, *)
(* is neither in memory nor on disk.                                       *)
Holds(t) == t \in loggedOut \ unsure => session[t] = NoSession /\ saved[t] = NoSession
(* A session that was promised a life is there, in memory and on disk, with *)
(* at least the promised expiry.                                           *)
Lives(t) == t <= issued /\ t \notin loggedOut \cup unsure /\ date <= promised[t] =>
              /\ session[t] # NoSession /\ session[t] >= promised[t]
              /\ saved[t] # NoSession /\ saved[t] >= promised[t]
(* No expiry is further away than one lifetime; the cleanup has only seen  *)
(* expired rows.                                                           *)
Bounded(t) == /\ session[t] # NoSession => session[t] <= date + TTL
              /\ saved[t] # NoSession => saved[t] <= date + TTL
              /\ sweep[t] # NoSession => sweep[t] < date
              /\ t <= issued => promised[t] \in Nat /\ promised[t] <= date + TTL
              /\ t \in loggedOut => t <= issued

(* What a request under way has seen: only an expired session is dropped,  *)
(* and a session that is still as it was read is renewed to no earlier an  *)
(* expiry than the one promised.                                           *)
AskedWell(h) ==
  /\ req[h].at \in {"check", "drop", "renew", "logout"} => req[h].token <= issued
  /\ req[h].at \in {"check", "drop"} => req[h].seen <= date + TTL
  /\ req[h].at = "drop" => req[h].seen < date
  /\ req[h].at = "renew" =>
       /\ req[h].seen <= req[h].until /\ req[h].until <= date + TTL
       /\ session[req[h].token] = req[h].seen /\ req[h].token \notin unsure
            => promised[req[h].token] <= req[h].until

SessionsInv == /\ SessionsTypeOK
               /\ \A t \in Tokens : Holds(t) /\ Lives(t) /\ Bounded(t)
               /\ \A h \in Handlers : AskedWell(h)

(* Without a user in the holder, the file has one of the setups that go    *)
(* from the file to the holder; with one, file, holder and the setups      *)
(* under way have nobody but the rivals.                                   *)
OwnerInv ==
  /\ owner \in [file : Users \cup {NoUser}, holder : Users \cup {NoUser}]
  /\ owner.holder = NoUser => \A h \in Handlers : req[h].at = "replace" =>
        \E g \in Handlers : req[g].at = "replace" /\ req[g].user = owner.file
  /\ owner.holder # NoUser => /\ {owner.file, owner.holder} \subseteq rivals
                              /\ \A h \in Handlers : SettingUp(h) => req[h].user \in rivals

LEMMA SessionConstants == TTL \in Nat /\ MaxTokens \in Nat /\ NoSession \notin Int /\ NoUser \notin Users
  BY SessionsAssumption

USE SessionConstants

LEMMA SessionsInit1 == SessionsInit => SessionsInv
<1> SUFFICES ASSUME SessionsInit PROVE SessionsInv
  OBVIOUS
<1> USE DEF SessionsInit, NoRows
<1>1. SessionsTypeOK
  BY DEF SessionsTypeOK, Rows, Request, Tokens
<1>2. \A t \in Tokens : Holds(t) /\ Lives(t) /\ Bounded(t)
  BY DEF Holds, Lives, Bounded, Tokens
<1>3. \A h \in Handlers : AskedWell(h)
  BY DEF AskedWell, NoRequest
<1> QED
  BY <1>1, <1>2, <1>3 DEF SessionsInv


LEMMA Forms ==
  ASSUME NEW r \in Request
  PROVE  /\ r.at \in {"idle", "save", "replace", "create", "check", "drop", "renew", "logout"}
         /\ r.at \in {"save", "replace"} => r \in [at : {"save", "replace"}, user : Users]
         /\ r.at \in {"check", "drop"} =>
              r \in [at : {"check", "drop"}, token : Tokens, op : {"use", "logout"}, seen : Nat]
         /\ r.at = "renew" =>
              r \in [at : {"renew"}, token : Tokens, op : {"use", "logout"}, seen : Nat, until : Nat]
         /\ r.at = "logout" => r \in [at : {"logout"}, token : Tokens]
  BY DEF Request, NoRequest

(* The request of h becomes r, the others stay. *)
LEMMA RequestStep ==
  ASSUME SessionsTypeOK, NEW h \in Handlers, NEW r \in Request, Goes(h, r)
  PROVE  /\ req' \in [Handlers -> Request]
         /\ req'[h] = r
         /\ \A g \in Handlers \ {h} : req'[g] = req[g]
  BY DEF SessionsTypeOK, Goes

LEMMA NoRequestType == NoRequest \in Request /\ NoRequest.at = "idle"
  BY DEF Request, NoRequest

(* A request keeps what is known of it while nobody writes its token's     *)
(* expiry.                                                                 *)
LEMMA Undisturbed ==
  ASSUME SessionsInv, NEW g \in Handlers, req'[g] = req[g],
         date' \in Nat, date' >= date, issued' \in Nat, issued' >= issued, unsure \subseteq unsure',
         \A t \in Tokens : t <= issued =>
            promised'[t] = promised[t] /\ session'[t] \in {session[t], NoSession}
  PROVE  AskedWell(g)'
<1>1. req[g] \in Request /\ AskedWell(g) /\ date \in Nat /\ issued \in Nat
  BY DEF SessionsInv, SessionsTypeOK
<1>2. CASE req[g].at \in {"check", "drop"}
  <2>1. req[g].token \in Int /\ req[g].seen \in Nat
    BY <1>1, <1>2, Forms DEF Tokens
  <2> QED
    BY <1>1, <1>2, <2>1 DEF AskedWell
<1>3. CASE req[g].at = "renew"
  <2>1. req[g] \in [at : {"renew"}, token : Tokens, op : {"use", "logout"}, seen : Nat, until : Nat]
    BY <1>1, <1>3, Forms
  <2>2. /\ req[g].token \in Tokens /\ req[g].token \in Int
        /\ req[g].seen \in Nat /\ req[g].until \in Nat /\ req[g].token <= issued
    BY <1>1, <1>3, <2>1 DEF AskedWell, Tokens
  <2>3. /\ promised'[req[g].token] = promised[req[g].token]
        /\ session'[req[g].token] \in {session[req[g].token], NoSession}
    BY <2>2
  <2> QED
    BY <1>1, <1>3, <2>2, <2>3 DEF AskedWell
<1>4. CASE req[g].at = "logout"
  <2>1. req[g].token \in Int
    BY <1>1, <1>4, Forms DEF Tokens
  <2> QED
    BY <1>1, <1>4, <2>1 DEF AskedWell
<1>5. CASE req[g].at \notin {"check", "drop", "renew", "logout"}
  BY <1>5 DEF AskedWell
<1> QED
  BY <1>2, <1>3, <1>4, <1>5

LEMMA SessionsInvParts ==
  ASSUME SessionsTypeOK', \A t \in Tokens : Holds(t)' /\ Lives(t)' /\ Bounded(t)',
         \A h \in Handlers : AskedWell(h)'
  PROVE  SessionsInv'
  BY DEF SessionsInv

LEMMA LaterStep == ASSUME SessionsInv, Later PROVE SessionsInv'
<1> USE DEF SessionsInv, Later, histories
<1>1. SessionsTypeOK'
  BY DEF SessionsTypeOK
<1>2. \A t \in Tokens : Holds(t)' /\ Lives(t)' /\ Bounded(t)'
  BY DEF SessionsTypeOK, Rows, Holds, Lives, Bounded, Tokens
<1>3. \A h \in Handlers : AskedWell(h)'
  BY Undisturbed DEF SessionsTypeOK
<1> QED
  BY <1>1, <1>2, <1>3, SessionsInvParts

LEMMA RenewStep == ASSUME SessionsInv, NEW h \in Handlers, Renew(h) PROVE SessionsInv'
<1> DEFINE t == req[h].token
           next == IF req[h].op = "logout" THEN [at |-> "logout", token |-> t] ELSE NoRequest
<1>1. /\ t \in Tokens /\ req[h].seen \in Nat /\ req[h].until \in Nat /\ t \in Int
      /\ AskedWell(h) /\ SessionsTypeOK /\ next \in Request
  BY Forms, NoRequestType DEF SessionsInv, SessionsTypeOK, Renew, Tokens, Request
<1>2. /\ session' = [session EXCEPT ![t] = req[h].until] /\ saved' = session'
      /\ promised' = [promised EXCEPT ![t] = req[h].until]
      /\ unsure' = IF session[t] = req[h].seen THEN unsure ELSE unsure \cup {t}
      /\ Goes(h, next) /\ req[h].at = "renew"
      /\ UNCHANGED <<date, issued, sweep, loggedOut>>
  BY DEF Renew, Writes, histories
<1>3. /\ req' \in [Handlers -> Request] /\ req'[h] = next
      /\ \A g \in Handlers \ {h} : req'[g] = req[g]
  BY <1>1, <1>2, RequestStep
<1> HIDE DEF next
<1>4. SessionsTypeOK'
  BY <1>1, <1>2, <1>3 DEF SessionsTypeOK, Rows
<1>5. \A u \in Tokens : Holds(u)' /\ Lives(u)' /\ Bounded(u)'
  BY <1>1, <1>2 DEF SessionsInv, SessionsTypeOK, Rows, Holds, Lives, Bounded, Tokens, AskedWell
<1>6. AskedWell(h)'
  BY <1>1, <1>2, <1>3 DEF AskedWell, next, NoRequest
<1>7. ASSUME NEW g \in Handlers \ {h} PROVE AskedWell(g)'
  <2>1. req[g] \in Request /\ AskedWell(g) /\ req'[g] = req[g]
    BY <1>1, <1>3 DEF SessionsInv, SessionsTypeOK
  <2>2. CASE req[g].at = "renew"
    <3>1. /\ req[g].token \in Tokens /\ req[g].seen \in Nat /\ req[g].until \in Nat
      BY <2>1, <2>2, Forms
    <3> QED
      BY <1>1, <1>2, <2>1, <2>2, <3>1 DEF AskedWell, SessionsTypeOK, Rows
  <2>3. CASE req[g].at # "renew"
    BY <1>2, <2>1, <2>3 DEF AskedWell
  <2> QED
    BY <2>2, <2>3
<1> QED
  BY <1>4, <1>5, <1>6, <1>7, SessionsInvParts

(* Steps that only move a request on. *)
LEMMA OnlyRequest ==
  ASSUME SessionsInv, NEW h \in Handlers, NEW r \in Request, Goes(h, r),
         UNCHANGED <<date, session, saved, issued, sweep, promised, loggedOut, unsure>>,
         AskedWell(h)'
  PROVE  SessionsInv'
<1>1. /\ req' \in [Handlers -> Request] /\ \A g \in Handlers \ {h} : req'[g] = req[g]
  BY RequestStep DEF SessionsInv
<1>2. SessionsTypeOK'
  BY <1>1 DEF SessionsInv, SessionsTypeOK
<1>3. \A t \in Tokens : Holds(t)' /\ Lives(t)' /\ Bounded(t)'
  BY DEF SessionsInv, Holds, Lives, Bounded
<1>4. \A g \in Handlers \ {h} : AskedWell(g)'
  BY <1>1, Undisturbed DEF SessionsInv, SessionsTypeOK
<1> QED
  BY <1>2, <1>3, <1>4, SessionsInvParts

LEMMA SetupSteps ==
  ASSUME SessionsInv, NEW h \in Handlers,
         \/ \E u \in Users : setup(h, u)
         \/ SaveOwner(h) \/ ReplaceOwner(h) \/ login(h) \/ CreateFails(h)
  PROVE  SessionsInv'
<1>1. req[h] \in Request
  BY DEF SessionsInv, SessionsTypeOK
<1>2. \E r \in Request : Goes(h, r) /\ r.at \in {"idle", "save", "replace", "create"}
  <2>1. CASE \E u \in Users : setup(h, u)
    <3>1. PICK u \in Users : Goes(h, [at |-> "save", user |-> u])
      BY <2>1 DEF setup
    <3> QED
      BY <3>1 DEF Request
  <2>2. CASE SaveOwner(h)
    <3>1. req[h] \in [at : {"save", "replace"}, user : Users]
      BY <1>1, <2>2, Forms DEF SaveOwner
    <3>2. /\ [req[h] EXCEPT !.at = "replace"] \in [at : {"save", "replace"}, user : Users]
          /\ [req[h] EXCEPT !.at = "replace"].at = "replace"
      BY <3>1
    <3> QED
      BY <2>2, <3>2 DEF SaveOwner, Request
  <2>3. CASE ReplaceOwner(h) \/ login(h)
    BY <2>3 DEF ReplaceOwner, login, Request
  <2>4. CASE CreateFails(h)
    BY <2>4, NoRequestType DEF CreateFails
  <2> QED
    BY <2>1, <2>2, <2>3, <2>4
<1>3. PICK r \in Request : Goes(h, r) /\ r.at \in {"idle", "save", "replace", "create"}
  BY <1>2
<1>4. AskedWell(h)'
  BY <1>3, RequestStep DEF SessionsInv, AskedWell
<1>5. UNCHANGED <<date, session, saved, issued, sweep, promised, loggedOut, unsure>>
  BY DEF setup, SaveOwner, ReplaceOwner, login, CreateFails, histories
<1> QED
  BY <1>3, <1>4, <1>5, OnlyRequest

LEMMA GetStep ==
  ASSUME SessionsInv, NEW h \in Handlers, NEW t \in Tokens, NEW op \in {"use", "logout"}, Get(h, t, op)
  PROVE  SessionsInv'
<1> DEFINE r == [at |-> "check", token |-> t, op |-> op, seen |-> session[t]]
<1>1. /\ t <= issued /\ session[t] # NoSession /\ Goes(h, r)
      /\ UNCHANGED <<date, session, saved, issued, sweep, promised, loggedOut, unsure>>
  BY DEF Get, histories
<1>2. session[t] \in Nat /\ session[t] <= date + TTL
  BY <1>1 DEF SessionsInv, SessionsTypeOK, Rows, Bounded
<1>3. r \in Request
  BY <1>2 DEF Request
<1>4. req'[h] = r
  BY <1>1, <1>3, RequestStep DEF SessionsInv
<1>5. AskedWell(h)'
  BY <1>1, <1>2, <1>4 DEF AskedWell
<1> QED
  BY <1>1, <1>3, <1>5, OnlyRequest

(* At the check the new expiry is later than any that was promised. *)
LEMMA CheckStep == ASSUME SessionsInv, NEW h \in Handlers, Check(h) PROVE SessionsInv'
<1> DEFINE r == IF Expired(req[h].seen) THEN [req[h] EXCEPT !.at = "drop"]
                ELSE [at |-> "renew", token |-> req[h].token, op |-> req[h].op,
                      seen |-> req[h].seen, until |-> date + TTL]
<1>1. /\ Goes(h, r)
      /\ UNCHANGED <<date, session, saved, issued, sweep, promised, loggedOut, unsure>>
  BY DEF Check, histories
<1>2. /\ req[h] \in [at : {"check", "drop"}, token : Tokens, op : {"use", "logout"}, seen : Nat]
      /\ AskedWell(h) /\ req[h].at = "check" /\ date \in Nat /\ issued \in Nat
  BY Forms DEF SessionsInv, SessionsTypeOK, Check
<1>3. /\ req[h].token \in Tokens /\ req[h].token \in Int /\ req[h].token <= issued
      /\ req[h].seen \in Nat /\ req[h].seen <= date + TTL
      /\ promised[req[h].token] \in Nat /\ promised[req[h].token] <= date + TTL
  BY <1>2 DEF AskedWell, SessionsInv, Bounded, Tokens
<1>4. CASE Expired(req[h].seen)
  <2>1. /\ r \in [at : {"check", "drop"}, token : Tokens, op : {"use", "logout"}, seen : Nat]
        /\ r.at = "drop" /\ r.token = req[h].token /\ r.seen = req[h].seen
    BY <1>2, <1>4
  <2>2. r \in Request
    BY <2>1 DEF Request
  <2>3. req'[h] = r
    BY <1>1, <2>2, RequestStep DEF SessionsInv
  <2>4. AskedWell(h)'
    BY <1>1, <1>3, <1>4, <2>1, <2>3 DEF AskedWell, Expired
  <2> QED
    BY <1>1, <2>2, <2>4, OnlyRequest
<1>5. CASE ~Expired(req[h].seen)
  <2>1. /\ r \in [at : {"renew"}, token : Tokens, op : {"use", "logout"}, seen : Nat, until : Nat]
        /\ r.at = "renew" /\ r.token = req[h].token /\ r.seen = req[h].seen /\ r.until = date + TTL
    BY <1>2, <1>5
  <2>2. r \in Request
    BY <2>1 DEF Request
  <2>3. req'[h] = r
    BY <1>1, <2>2, RequestStep DEF SessionsInv
  <2>4. AskedWell(h)'
    BY <1>1, <1>2, <1>3, <2>1, <2>3 DEF AskedWell
  <2> QED
    BY <1>1, <2>2, <2>4, OnlyRequest
<1> QED
  BY <1>4, <1>5

LEMMA CreateStep == ASSUME SessionsInv, NEW h \in Handlers, createSession(h) PROVE SessionsInv'
<1> DEFINE t == issued + 1
<1>1. /\ t \in Tokens /\ t \in Int /\ date + TTL \in Nat /\ SessionsTypeOK /\ issued \in Nat /\ date \in Nat
  BY DEF SessionsInv, SessionsTypeOK, createSession, Tokens
<1>2. /\ session' = [session EXCEPT ![t] = date + TTL] /\ saved' = session'
      /\ promised' = [promised EXCEPT ![t] = date + TTL]
      /\ issued' = t /\ issued < MaxTokens
      /\ Goes(h, NoRequest)
      /\ UNCHANGED <<date, sweep, loggedOut, unsure>>
  BY DEF createSession, Writes
<1>3. /\ req' \in [Handlers -> Request] /\ req'[h] = NoRequest
      /\ \A g \in Handlers \ {h} : req'[g] = req[g]
  BY <1>1, <1>2, RequestStep, NoRequestType
<1>4. SessionsTypeOK'
  BY <1>1, <1>2, <1>3 DEF SessionsTypeOK, Rows
<1>5. \A u \in Tokens : Holds(u)' /\ Lives(u)' /\ Bounded(u)'
  BY <1>1, <1>2 DEF SessionsInv, SessionsTypeOK, Rows, Holds, Lives, Bounded, Tokens
<1>6. AskedWell(h)'
  BY <1>3, NoRequestType DEF AskedWell
<1>7. ASSUME NEW g \in Handlers \ {h} PROVE AskedWell(g)'
  <2>1. \A u \in Tokens : u <= issued => promised'[u] = promised[u] /\ session'[u] = session[u]
    BY <1>1, <1>2 DEF SessionsTypeOK, Rows, Tokens
  <2> QED
    BY <1>1, <1>2, <1>3, <2>1, Undisturbed
<1> QED
  BY <1>4, <1>5, <1>6, <1>7, SessionsInvParts

(* A renewal that fails may have written its expiry: it is no earlier than *)
(* what was promised, unless the session is not as it was read.            *)
LEMMA RenewFailsStep == ASSUME SessionsInv, NEW h \in Handlers, RenewFails(h) PROVE SessionsInv'
<1> DEFINE t == req[h].token
           until == req[h].until
<1>1. /\ t \in Tokens /\ req[h].seen \in Nat /\ until \in Nat /\ t \in Int
      /\ AskedWell(h) /\ SessionsTypeOK
  BY Forms DEF SessionsInv, SessionsTypeOK, RenewFails, Tokens
<1>2. /\ session' \in {session, [session EXCEPT ![t] = until]} /\ saved' \in {saved, session'}
      /\ unsure' = IF session[t] = req[h].seen THEN unsure ELSE unsure \cup {t}
      /\ Goes(h, NoRequest) /\ req[h].at = "renew"
      /\ UNCHANGED <<date, issued, sweep, promised, loggedOut>>
  BY DEF RenewFails, WriteFailed
<1>3. /\ req' \in [Handlers -> Request] /\ req'[h] = NoRequest
      /\ \A g \in Handlers \ {h} : req'[g] = req[g]
  BY <1>1, <1>2, RequestStep, NoRequestType
<1>4. SessionsTypeOK'
  BY <1>1, <1>2, <1>3 DEF SessionsTypeOK, Rows
<1>5. ASSUME NEW u \in Tokens PROVE Holds(u)' /\ Lives(u)' /\ Bounded(u)'
  <2>1. Holds(u) /\ Lives(u) /\ Bounded(u)
    BY DEF SessionsInv
  <2>2. CASE u = t
    BY <1>1, <1>2, <2>1, <2>2, SMTT(30) DEF SessionsTypeOK, Rows, Holds, Lives, Bounded, Tokens, AskedWell
  <2>3. CASE u # t
    <3>1. session'[u] = session[u] /\ saved'[u] \in {saved[u], session[u]} /\ (u \in unsure' <=> u \in unsure)
      BY <1>1, <1>2, <2>3 DEF SessionsTypeOK, Rows
    <3> QED
      BY <1>2, <2>1, <3>1 DEF Holds, Lives, Bounded
  <2> QED
    BY <2>2, <2>3
<1>6. AskedWell(h)'
  BY <1>3, NoRequestType DEF AskedWell
<1>7. ASSUME NEW g \in Handlers \ {h} PROVE AskedWell(g)'
  <2>1. req[g] \in Request /\ AskedWell(g) /\ req'[g] = req[g]
    BY <1>1, <1>3 DEF SessionsInv, SessionsTypeOK
  <2>2. CASE req[g].at = "renew"
    <3>1. /\ req[g].token \in Tokens /\ req[g].seen \in Nat /\ req[g].until \in Nat
          /\ promised[req[g].token] \in Nat
      BY <2>1, <2>2, Forms DEF AskedWell, SessionsInv, Bounded
    <3>2. CASE req[g].token = t
      BY <1>1, <1>2, <2>1, <2>2, <3>1, <3>2 DEF AskedWell, SessionsTypeOK, Rows
    <3>3. CASE req[g].token # t
      BY <1>1, <1>2, <2>1, <2>2, <3>1, <3>3 DEF AskedWell, SessionsTypeOK, Rows
    <3> QED
      BY <3>2, <3>3
  <2>3. CASE req[g].at # "renew"
    BY <1>2, <2>1, <2>3 DEF AskedWell
  <2> QED
    BY <2>2, <2>3
<1> QED
  BY <1>4, <1>5, <1>6, <1>7, SessionsInvParts

(* A deletion, which may fail with or without effect, of a row that        *)
(* promises nothing any more, or whose session is logged out or disturbed. *)
LEMMA Deletion ==
  ASSUME SessionsInv, NEW t \in Tokens,
         session' \in {session, [session EXCEPT ![t] = NoSession]}, saved' \in {saved, session'},
         UNCHANGED <<date, issued, promised>>,
         sweep' \in Rows, \A u \in Tokens : sweep'[u] \in {sweep[u], NoSession},
         loggedOut' \in {loggedOut, loggedOut \cup {t}},
         unsure' \in {unsure, unsure \cup {t}},
         t \in loggedOut' => t <= issued,
         t \in loggedOut' \ (loggedOut \cup unsure') => session'[t] = NoSession /\ saved'[t] = NoSession,
         t <= issued /\ t \notin loggedOut' \cup unsure' => ~(date <= promised[t]),
         req' \in [Handlers -> Request],
         \A g \in Handlers : req'[g] = req[g] \/ req'[g] = NoRequest
  PROVE  SessionsInv'
<1>1. SessionsTypeOK /\ session \in Rows /\ saved \in Rows
  BY DEF SessionsInv, SessionsTypeOK
<1>2. session' \in Rows /\ saved' \in Rows
  BY <1>1 DEF Rows
<1>3. SessionsTypeOK'
  BY <1>1, <1>2 DEF SessionsTypeOK
<1>4. ASSUME NEW u \in Tokens PROVE Holds(u)' /\ Lives(u)' /\ Bounded(u)'
  <2>1. Holds(u) /\ Lives(u) /\ Bounded(u) /\ sweep'[u] \in {sweep[u], NoSession}
    BY DEF SessionsInv
  <2>2. CASE u = t
    <3>1. session'[t] \in {session[t], NoSession} /\ saved'[t] \in {saved[t], session[t], NoSession}
      BY <1>1 DEF Rows
    <3>2. Holds(u)'
      BY <2>1, <2>2, <3>1 DEF Holds
    <3>3. Lives(u)'
      BY <2>2 DEF Lives
    <3> QED
      BY <2>1, <2>2, <3>1, <3>2, <3>3 DEF Bounded
  <2>3. CASE u # t
    <3>1. /\ session'[u] = session[u] /\ saved'[u] \in {saved[u], session[u]}
          /\ (u \in unsure' <=> u \in unsure) /\ (u \in loggedOut' <=> u \in loggedOut)
      BY <1>1, <2>3 DEF Rows
    <3> QED
      BY <2>1, <3>1 DEF Holds, Lives, Bounded
  <2> QED
    BY <2>2, <2>3
<1>5. ASSUME NEW g \in Handlers PROVE AskedWell(g)'
  <2>1. CASE req'[g] = NoRequest
    BY <2>1, NoRequestType DEF AskedWell
  <2>2. CASE req'[g] = req[g]
    <3>1. \A u \in Tokens : session'[u] \in {session[u], NoSession}
      BY <1>1 DEF Rows
    <3> QED
      BY <1>1, <2>2, <3>1, Undisturbed DEF SessionsTypeOK
  <2> QED
    BY <2>1, <2>2
<1> QED
  BY <1>3, <1>4, <1>5, SessionsInvParts

(* Who found the session expired, and deletes what it saw or what is gone  *)
(* already, breaks no promise.                                             *)
LEMMA NothingPromised ==
  ASSUME SessionsInv, NEW t \in Tokens, NEW seen \in Nat, seen < date, Touches(t, seen)
  PROVE  /\ unsure' \in {unsure, unsure \cup {t}}
         /\ t <= issued /\ t \notin loggedOut \cup unsure' => ~(date <= promised[t])
<1>1. Lives(t) /\ Bounded(t) /\ session \in Rows /\ date \in Nat
  BY DEF SessionsInv, SessionsTypeOK
<1> QED
  BY <1>1 DEF Touches, Lives, Bounded, Rows

LEMMA DropSteps ==
  ASSUME SessionsInv, NEW h \in Handlers, Drop(h) \/ DropFails(h) PROVE SessionsInv'
<1> DEFINE t == req[h].token
<1>1. /\ t \in Tokens /\ req[h].seen \in Nat /\ AskedWell(h) /\ req[h].at = "drop"
      /\ SessionsTypeOK /\ req[h].seen < date /\ t <= issued
  BY Forms DEF SessionsInv, SessionsTypeOK, Drop, DropFails, AskedWell
<1>2. /\ session' \in {session, [session EXCEPT ![t] = NoSession]} /\ saved' \in {saved, session'}
      /\ Touches(t, req[h].seen)
      /\ Goes(h, NoRequest)
      /\ UNCHANGED <<date, issued, sweep, promised, loggedOut>>
  BY DEF Drop, DropFails, Writes, WriteFailed
<1>3. /\ req' \in [Handlers -> Request]
      /\ \A g \in Handlers : req'[g] = req[g] \/ req'[g] = NoRequest
  BY <1>1, <1>2, RequestStep, NoRequestType
<1>4. /\ unsure' \in {unsure, unsure \cup {t}}
      /\ t <= issued /\ t \notin loggedOut \cup unsure' => ~(date <= promised[t])
  BY <1>1, <1>2, NothingPromised
<1>5. sweep' \in Rows /\ \A u \in Tokens : sweep'[u] \in {sweep[u], NoSession}
  BY <1>1, <1>2 DEF SessionsTypeOK
<1> HIDE DEF t
<1> QED
  BY <1>1, <1>2, <1>3, <1>4, <1>5, Deletion

LEMMA LogoutSteps ==
  ASSUME SessionsInv, NEW h \in Handlers, logout(h) \/ logoutFails(h) PROVE SessionsInv'
<1> DEFINE t == req[h].token
<1>1. /\ t \in Tokens /\ AskedWell(h) /\ req[h].at = "logout" /\ SessionsTypeOK /\ t <= issued
  BY Forms DEF SessionsInv, SessionsTypeOK, logout, logoutFails, AskedWell
<1>2. /\ session' \in {session, [session EXCEPT ![t] = NoSession]} /\ saved' \in {saved, session'}
      /\ loggedOut' = loggedOut \cup {t}
      /\ Goes(h, NoRequest)
      /\ UNCHANGED <<date, issued, sweep, promised>>
      /\ unsure' \in {unsure, unsure \cup {t}}
  BY DEF logout, logoutFails, Writes, WriteFailed
<1>3. /\ req' \in [Handlers -> Request]
      /\ \A g \in Handlers : req'[g] = req[g] \/ req'[g] = NoRequest
  BY <1>1, <1>2, RequestStep, NoRequestType
<1>4. t \notin unsure' => session'[t] = NoSession /\ saved'[t] = NoSession
  <2>1. CASE logout(h)
    BY <1>1, <2>1 DEF logout, Writes, SessionsTypeOK, Rows
  <2>2. CASE logoutFails(h)
    BY <2>2 DEF logoutFails
  <2> QED
    BY <2>1, <2>2
<1>5. sweep' \in Rows /\ \A u \in Tokens : sweep'[u] \in {sweep[u], NoSession}
  BY <1>1, <1>2 DEF SessionsTypeOK
<1> HIDE DEF t
<1> QED
  BY <1>1, <1>2, <1>3, <1>4, <1>5, Deletion

LEMMA SweepSteps ==
  ASSUME SessionsInv, NEW t \in Tokens, Sweep(t) \/ SweepFails(t) PROVE SessionsInv'
<1>1. SessionsTypeOK /\ sweep[t] \in Nat /\ sweep[t] < date
  BY DEF SessionsInv, SessionsTypeOK, Rows, Bounded, Sweep, SweepFails
<1>2. /\ session' \in {session, [session EXCEPT ![t] = NoSession]} /\ saved' \in {saved, session'}
      /\ Touches(t, sweep[t])
      /\ UNCHANGED <<date, issued, req, promised, loggedOut>>
  BY DEF Sweep, SweepFails, Writes, WriteFailed
<1>3. /\ unsure' \in {unsure, unsure \cup {t}}
      /\ t <= issued /\ t \notin loggedOut \cup unsure' => ~(date <= promised[t])
  BY <1>1, <1>2, NothingPromised
<1>4. sweep' \in Rows /\ \A u \in Tokens : sweep'[u] \in {sweep[u], NoSession}
  BY <1>1 DEF SessionsTypeOK, Rows, NoRows, Sweep, SweepFails
<1>5. t \in loggedOut => t <= issued
  BY DEF SessionsInv, Bounded
<1> QED
  BY <1>1, <1>2, <1>3, <1>4, <1>5, Deletion DEF SessionsTypeOK

LEMMA ScanStep == ASSUME SessionsInv, Scan PROVE SessionsInv'
<1>1. /\ SessionsTypeOK /\ date \in Nat
      /\ UNCHANGED <<date, session, saved, issued, req, promised, loggedOut, unsure>>
  BY DEF SessionsInv, SessionsTypeOK, Scan, histories
<1>2. sweep' \in Rows /\ \A u \in Tokens : sweep'[u] # NoSession => sweep'[u] < date
  BY <1>1 DEF SessionsTypeOK, Rows, Scan, Expired
<1>3. SessionsTypeOK'
  BY <1>1, <1>2 DEF SessionsTypeOK
<1>4. \A u \in Tokens : Holds(u)' /\ Lives(u)' /\ Bounded(u)'
  BY <1>1, <1>2 DEF SessionsInv, Holds, Lives, Bounded
<1>5. \A g \in Handlers : AskedWell(g)'
  BY <1>1, Undisturbed DEF SessionsTypeOK
<1> QED
  BY <1>3, <1>4, <1>5, SessionsInvParts

LEMMA StartStep == ASSUME SessionsInv, Reopen PROVE SessionsInv'
<1>1. /\ SessionsTypeOK /\ session' = saved /\ sweep' = NoRows
      /\ req' = [h \in Handlers |-> NoRequest]
      /\ UNCHANGED <<date, saved, issued, promised, loggedOut, unsure>>
  BY DEF SessionsInv, Reopen, histories
<1>2. sweep' \in Rows /\ \A u \in Tokens : sweep'[u] = NoSession
  BY <1>1 DEF NoRows, Rows
<1>3. SessionsTypeOK'
  BY <1>1, <1>2, NoRequestType DEF SessionsTypeOK
<1>4. \A u \in Tokens : Holds(u)' /\ Lives(u)' /\ Bounded(u)'
  BY <1>1, <1>2 DEF SessionsInv, Holds, Lives, Bounded
<1>5. \A g \in Handlers : AskedWell(g)'
  BY <1>1, NoRequestType DEF AskedWell
<1> QED
  BY <1>3, <1>4, <1>5, SessionsInvParts

LEMMA SessionsStep == SessionsInv /\ [SessionsNext]_sessionVars => SessionsInv'
<1> SUFFICES ASSUME SessionsInv, [SessionsNext]_sessionVars PROVE SessionsInv'
  OBVIOUS
<1>1. CASE Later
  BY <1>1, LaterStep
<1>2. CASE Scan
  BY <1>2, ScanStep
<1>3. CASE Reopen
  BY <1>3, StartStep
<1>4. CASE \E t \in Tokens : Sweep(t) \/ SweepFails(t)
  BY <1>4, SweepSteps
<1>5. ASSUME NEW h \in Handlers,
             \/ SaveOwner(h) \/ ReplaceOwner(h) \/ login(h) \/ CreateFails(h)
             \/ \E u \in Users : setup(h, u)
      PROVE  SessionsInv'
  BY <1>5, SetupSteps
<1>6. ASSUME NEW h \in Handlers,
             \/ createSession(h) \/ Check(h) \/ Drop(h) \/ Renew(h) \/ logout(h)
             \/ RenewFails(h) \/ DropFails(h) \/ logoutFails(h)
             \/ \E t \in Tokens, op \in {"use", "logout"} : Get(h, t, op)
      PROVE  SessionsInv'
  BY <1>6, CreateStep, CheckStep, DropSteps, RenewStep, LogoutSteps, RenewFailsStep, GetStep
<1>7. CASE UNCHANGED sessionVars
  <2>1. UNCHANGED <<date, session, saved, issued, req, sweep, promised, loggedOut, unsure>>
    BY <1>7 DEF sessionVars, histories
  <2> QED
    BY <2>1 DEF SessionsInv, SessionsTypeOK, Holds, Lives, Bounded, AskedWell
<1> QED
  BY <1>1, <1>2, <1>3, <1>4, <1>5, <1>6, <1>7 DEF SessionsNext

(* The facts that the next two theorems are read from hold always.         *)
THEOREM SessionsInvariant == SessionsSpec => []SessionsInv
  BY SessionsInit1, SessionsStep, PTL DEF SessionsSpec

(* A session that logout removed stays gone, through renewals by other     *)
(* requests, cleanup, failed writes and restarts, for any number of        *)
(* requests and tokens: Renew (auth.go:150) writes back only what it read. *)
THEOREM LogoutHoldsAlways == SessionsSpec => []LogoutHolds
<1>1. SessionsInv => LogoutHolds
  BY DEF SessionsInv, SessionsTypeOK, Holds, LogoutHolds
<1> QED
  BY <1>1, SessionsInvariant, PTL

(* A session that sessionFromRequest renewed stays until the expiry that it *)
(* was given: neither Check, Drop nor DeleteExpired takes it before.       *)
THEOREM KeptAliveAlways == SessionsSpec => []KeptAlive
<1>1. SessionsInv => KeptAlive
  BY DEF SessionsInv, SessionsTypeOK, Lives, KeptAlive, Tokens
<1> QED
  BY <1>1, SessionsInvariant, PTL

LEMMA OwnerInit == SessionsInit => OwnerInv
  BY NoRequestType DEF SessionsInit, OwnerInv, SettingUp

(* Steps of requests that are not setups, and of nobody's request. *)
LEMMA OwnerRest ==
  ASSUME OwnerInv, UNCHANGED <<owner, rivals>>,
         \A h \in Handlers : req'[h] = req[h] \/ (req[h].at # "replace" /\ ~SettingUp(h)')
  PROVE  OwnerInv'
<1>1. \A h \in Handlers : /\ SettingUp(h)' => req'[h] = req[h]
                          /\ req'[h].at = "replace" <=> req[h].at = "replace"
                          /\ req[h].at = "replace" => req'[h] = req[h]
  BY DEF SettingUp
<1>2. \A h \in Handlers : SettingUp(h)' => SettingUp(h)
  BY <1>1 DEF SettingUp
<1> QED
  BY <1>1, <1>2 DEF OwnerInv

LEMMA OwnerStep ==
  ASSUME SessionsInv, OwnerInv, [SessionsNext]_sessionVars
  PROVE  /\ OwnerInv'
         /\ owner.holder # NoUser => {owner'.file, owner'.holder} \subseteq rivals
<1>0. /\ req \in [Handlers -> Request]
      /\ owner \in [file : Users \cup {NoUser}, holder : Users \cup {NoUser}]
      /\ owner.holder # NoUser => {owner.file, owner.holder} \subseteq rivals
  BY DEF SessionsInv, SessionsTypeOK, OwnerInv
<1>1. ASSUME NEW h \in Handlers, NEW u \in Users, setup(h, u)
      PROVE  OwnerInv' /\ owner' = owner
  <2>1. /\ req' = [req EXCEPT ![h] = [at |-> "save", user |-> u]]
        /\ owner.holder = NoUser /\ owner' = owner /\ req[h].at = "idle"
    BY <1>1 DEF setup, Goes
  <2>2. req'[h].at = "save" /\ \A g \in Handlers \ {h} : req'[g] = req[g]
    BY <1>0, <2>1
  <2> QED
    BY <2>1, <2>2 DEF OwnerInv
<1>2. ASSUME NEW h \in Handlers, SaveOwner(h)
      PROVE  OwnerInv' /\ (owner.holder # NoUser => {owner'.file, owner'.holder} \subseteq rivals)
  <2>1. req[h] \in [at : {"save", "replace"}, user : Users] /\ SettingUp(h)
    BY <1>0, <1>2, Forms DEF SaveOwner, SettingUp
  <2>2. /\ req' = [req EXCEPT ![h] = [req[h] EXCEPT !.at = "replace"]]
        /\ owner' = [owner EXCEPT !.file = req[h].user] /\ rivals' = rivals
    BY <1>2 DEF SaveOwner, Goes, histories
  <2>3. /\ req'[h].at = "replace" /\ req'[h].user = req[h].user
        /\ \A g \in Handlers \ {h} : req'[g] = req[g]
    BY <1>0, <2>1, <2>2
  <2>4. owner'.file = req[h].user /\ owner'.holder = owner.holder
        /\ owner' \in [file : Users \cup {NoUser}, holder : Users \cup {NoUser}]
    BY <1>0, <2>1, <2>2
  <2>5. owner.holder # NoUser => \A g \in Handlers : SettingUp(g)' => req'[g].user \in rivals
    BY <2>1, <2>3 DEF OwnerInv, SettingUp
  <2>6. owner.holder # NoUser => {owner'.file, owner'.holder} \subseteq rivals
    BY <2>1, <2>4 DEF OwnerInv
  <2> QED
    BY <2>2, <2>3, <2>4, <2>5, <2>6 DEF OwnerInv
<1>3. ASSUME NEW h \in Handlers, ReplaceOwner(h)
      PROVE  OwnerInv' /\ (owner.holder # NoUser => {owner'.file, owner'.holder} \subseteq rivals)
  <2>1. /\ req[h] \in [at : {"save", "replace"}, user : Users]
        /\ SettingUp(h) /\ req[h].at = "replace" /\ req[h].user # NoUser
    BY <1>0, <1>3, Forms DEF ReplaceOwner, SettingUp
  <2>2. /\ req' = [req EXCEPT ![h] = [at |-> "create"]]
        /\ owner' = [owner EXCEPT !.holder = req[h].user]
        /\ rivals' = IF owner.holder = NoUser THEN {req[g].user : g \in {g \in Handlers : SettingUp(g)}} ELSE rivals
    BY <1>3 DEF ReplaceOwner, Goes, Rivals
  <2>3. /\ req'[h].at = "create"
        /\ \A g \in Handlers \ {h} : req'[g] = req[g]
    BY <1>0, <2>1, <2>2
  <2>4. owner'.holder = req[h].user /\ owner'.file = owner.file
        /\ owner' \in [file : Users \cup {NoUser}, holder : Users \cup {NoUser}]
    BY <1>0, <2>1, <2>2
  <2>5. \A g \in Handlers : SettingUp(g) => req[g].user \in rivals'
    BY <2>2 DEF OwnerInv
  <2>6. \A g \in Handlers : SettingUp(g)' => req'[g].user \in rivals'
    BY <2>3, <2>5 DEF SettingUp
  <2>7. owner.file \in rivals'
    <3>1. CASE owner.holder = NoUser
      <4>1. PICK g \in Handlers : req[g].at = "replace" /\ req[g].user = owner.file
        BY <2>1, <3>1 DEF OwnerInv
      <4> QED
        BY <2>5, <4>1 DEF SettingUp
    <3> QED
      BY <1>0, <2>2, <3>1
  <2>8. {owner'.file, owner'.holder} \subseteq rivals'
    BY <2>1, <2>4, <2>5, <2>7
  <2> QED
    BY <2>1, <2>2, <2>4, <2>6, <2>8 DEF OwnerInv
<1>4. ASSUME Reopen
      PROVE  OwnerInv' /\ (owner.holder # NoUser => {owner'.file, owner'.holder} \subseteq rivals)
  <2>1. /\ req' = [h \in Handlers |-> NoRequest]
        /\ rivals' = IF owner.holder = NoUser THEN {owner.file} ELSE rivals
        /\ owner' = [owner EXCEPT !.holder = owner.file]
    BY <1>4 DEF Reopen, Rivals
  <2>2. \A h \in Handlers : ~SettingUp(h)' /\ req'[h].at = "idle"
    BY <2>1, NoRequestType DEF SettingUp
  <2>3. owner'.holder = owner.file /\ owner'.file = owner.file
        /\ owner' \in [file : Users \cup {NoUser}, holder : Users \cup {NoUser}]
    BY <1>0, <2>1
  <2>4. owner.file \in rivals'
    BY <1>0, <2>1
  <2> QED
    BY <1>0, <2>1, <2>2, <2>3, <2>4 DEF OwnerInv
<1>5. ASSUME NEW h \in Handlers, NEW r \in Request, Goes(h, r), r.at \notin {"save", "replace"},
             req[h].at # "replace", UNCHANGED <<owner, rivals>>
      PROVE  OwnerInv'
  <2>1. req'[h] = r /\ \A g \in Handlers \ {h} : req'[g] = req[g]
    BY <1>5, RequestStep DEF SessionsInv
  <2> QED
    BY <1>5, <2>1, OwnerRest DEF SettingUp
<1>6. ASSUME NEW h \in Handlers,
             \/ login(h) \/ createSession(h) \/ CreateFails(h) \/ RenewFails(h) \/ Drop(h) \/ DropFails(h)
             \/ logout(h) \/ logoutFails(h)
      PROVE  OwnerInv' /\ owner' = owner
  <2>1. /\ Goes(h, NoRequest) \/ Goes(h, [at |-> "create"])
        /\ UNCHANGED <<owner, rivals>> /\ req[h].at # "replace"
    BY <1>6 DEF login, createSession, CreateFails, RenewFails, Drop, DropFails, logout, logoutFails, histories
  <2>2. [at |-> "create"] \in Request
    BY DEF Request
  <2> QED
    BY <1>5, <2>1, <2>2, NoRequestType
<1>7. ASSUME NEW h \in Handlers, Check(h) \/ Renew(h) \/ \E t \in Tokens, op \in {"use", "logout"} : Get(h, t, op)
      PROVE  OwnerInv' /\ owner' = owner
  <2>1. /\ UNCHANGED <<owner, rivals>> /\ req[h].at # "replace"
        /\ \A g \in Handlers \ {h} : req'[g] = req[g]
    BY <1>0, <1>7 DEF Check, Renew, Get, Goes, histories
  <2>2. ~SettingUp(h)'
    <3>1. CASE Check(h)
      <4>1. req[h] \in [at : {"check", "drop"}, token : Tokens, op : {"use", "logout"}, seen : Nat]
        BY <1>0, <3>1, Forms DEF Check
      <4> QED
        BY <1>0, <3>1, <4>1 DEF Check, Goes, SettingUp
    <3>2. CASE Renew(h)
      BY <1>0, <3>2, NoRequestType DEF Renew, Goes, SettingUp
    <3>3. CASE \E t \in Tokens, op \in {"use", "logout"} : Get(h, t, op)
      BY <1>0, <3>3 DEF Get, Goes, SettingUp
    <3> QED
      BY <1>7, <3>1, <3>2, <3>3
  <2> QED
    BY <2>1, <2>2, OwnerRest
<1>8. ASSUME \/ Later \/ Scan \/ UNCHANGED sessionVars
             \/ \E t \in Tokens : Sweep(t) \/ SweepFails(t)
      PROVE  OwnerInv' /\ owner' = owner
  <2>1. UNCHANGED <<owner, rivals, req>>
    BY <1>8 DEF Later, Scan, Sweep, SweepFails, sessionVars, histories
  <2> QED
    BY <2>1, OwnerRest
<1> QED
  BY <1>0, <1>1, <1>2, <1>3, <1>4, <1>6, <1>7, <1>8 DEF SessionsNext

(* setup (auth.go:32) gives the first user away once: with a user in the   *)
(* holder no step of any request, failure or restart brings another into   *)
(* file or holder than who was past the check by then.                     *)
THEOREM FirstUserKeptAlways == SessionsSpec => FirstUserKept
<1>1. SessionsInit => SessionsInv /\ OwnerInv
  BY SessionsInit1, OwnerInit
<1>2. SessionsInv /\ OwnerInv /\ [SessionsNext]_sessionVars => (SessionsInv /\ OwnerInv)'
  BY SessionsStep, OwnerStep
<1>3. SessionsInv /\ OwnerInv /\ [SessionsNext]_sessionVars
        => [owner.holder # NoUser => {owner'.file, owner'.holder} \subseteq rivals]_sessionVars
  BY OwnerStep
<1> QED
  BY <1>1, <1>2, <1>3, PTL DEF SessionsSpec, FirstUserKept

(***************************************************************************)
(* Custom lists.                                                           *)
(***************************************************************************)
Edit == [op : {"add", "delete"}, key : Keys]
Listed(n) == \E k \in listed : Entry(k) = n

(* For a name that no edits crossed on, the engine has what the store has, *)
(* but for the one edit that is between store and engine.                  *)
ListsInv ==
  /\ listed \in SUBSET Keys /\ onDisk \in SUBSET Keys
  /\ edit \in [Editors -> Edit \cup {NoCall}]
  /\ \A n \in (Lists \X Domains) \ crossed :
       /\ ~Busy(n) => (n \in engine <=> Listed(n))
       /\ \A e \in Editors : edit[e] # NoCall /\ Entry(edit[e].key) = n =>
            /\ edit[e].op = "add" <=> Listed(n)
            /\ \A f \in Editors : edit[f] # NoCall /\ Entry(edit[f].key) = n => f = e

LEMMA NoEdit == NoCall \notin Edit
  BY CustomListsAssumption DEF Edit

LEMMA ListsInit == ListInit => ListsInv
  BY DEF ListInit, ListsInv, Busy, Listed

(* A request of e for the key k, which is stored or removed, begins. *)
LEMMA BeginStep ==
  ASSUME ListsInv, NEW e \in Editors, NEW k \in Keys, NEW op \in {"add", "delete"}, Begins(e, op, k),
         listed' \in SUBSET Keys, onDisk' \in SUBSET Keys, crossed \subseteq crossed',
         Busy(Entry(k)) => Entry(k) \in crossed',
         \A j \in Keys : Entry(j) # Entry(k) => (j \in listed' <=> j \in listed),
         Entry(k) \in crossed' \/ (op = "add" <=> Listed(Entry(k))')
  PROVE  ListsInv'
<1> DEFINE v == [op |-> op, key |-> k]
<1>1. /\ edit[e] = NoCall /\ edit' = [edit EXCEPT ![e] = v] /\ engine' = engine
      /\ edit \in [Editors -> Edit \cup {NoCall}] /\ v \in Edit /\ v.key = k /\ v.op = op /\ v # NoCall
  BY NoEdit DEF Begins, ListsInv, Edit
<1> HIDE DEF v
<1>2. /\ edit' \in [Editors -> Edit \cup {NoCall}] /\ edit'[e] = v
      /\ \A f \in Editors \ {e} : edit'[f] = edit[f]
  BY <1>1
<1>3. ASSUME NEW n \in (Lists \X Domains) \ crossed'
      PROVE  /\ ~Busy(n)' => (n \in engine' <=> Listed(n)')
             /\ \A f \in Editors : edit'[f] # NoCall /\ Entry(edit'[f].key) = n =>
                  /\ edit'[f].op = "add" <=> Listed(n)'
                  /\ \A g \in Editors : edit'[g] # NoCall /\ Entry(edit'[g].key) = n => g = f
  <2>1. CASE n = Entry(k)
    <3>1. \A f \in Editors \ {e} : ~(edit'[f] # NoCall /\ Entry(edit'[f].key) = n)
      BY <1>2, <2>1 DEF Busy
    <3>2. Busy(n)'
      BY <1>1, <1>2, <2>1 DEF Busy
    <3> QED
      BY <1>1, <1>2, <2>1, <3>1, <3>2
  <2>2. CASE n # Entry(k)
    <3>1. Listed(n)' <=> Listed(n)
      BY <2>2 DEF Listed, ListsInv
    <3>2. \A f \in Editors : /\ edit'[f] # NoCall /\ Entry(edit'[f].key) = n <=> edit[f] # NoCall /\ Entry(edit[f].key) = n
                             /\ edit'[f] # NoCall /\ Entry(edit'[f].key) = n => edit'[f] = edit[f]
      BY <1>1, <1>2, <2>2
    <3>3. Busy(n)' <=> Busy(n)
      BY <3>2 DEF Busy
    <3>4. n \in (Lists \X Domains) \ crossed
      OBVIOUS
    <3> QED
      BY <1>1, <3>1, <3>2, <3>3, <3>4 DEF ListsInv
  <2> QED
    BY <2>1, <2>2
<1> QED
  BY <1>2, <1>3 DEF ListsInv

LEMMA AddStep ==
  ASSUME ListsInv, NEW e \in Editors, NEW k \in Keys, StoreAdd(e, k) PROVE ListsInv'
<1>1. /\ Begins(e, "add", k) /\ listed' = listed \cup {k} /\ onDisk' = listed'
      /\ crossed' = IF Busy(Entry(k)) THEN crossed \cup {Entry(k)} ELSE crossed
      /\ listed \in SUBSET Keys
  BY DEF StoreAdd, ListsInv
<1>2. Listed(Entry(k))'
  BY <1>1 DEF Listed
<1> QED
  BY <1>1, <1>2, BeginStep

LEMMA RemoveStep ==
  ASSUME ListsInv, NEW e \in Editors, NEW k \in Keys, StoreRemove(e, k) PROVE ListsInv'
<1>1. /\ Begins(e, "delete", k) /\ listed' = listed \ {k} /\ onDisk' = listed'
      /\ crossed' = IF Busy(Entry(k)) \/ Listed(Entry(k))' THEN crossed \cup {Entry(k)} ELSE crossed
      /\ listed \in SUBSET Keys
  BY DEF StoreRemove, ListsInv, Listed
<1> QED
  BY <1>1, BeginStep

LEMMA EditFailStep == ASSUME ListsInv, NEW k \in Keys, StoreFails(k) PROVE ListsInv'
<1>1. /\ listed' \in SUBSET Keys /\ onDisk' \in SUBSET Keys
      /\ \A j \in Keys : j # k => (j \in listed' <=> j \in listed)
      /\ crossed' = crossed \cup {Entry(k)} /\ UNCHANGED <<engine, edit>>
  BY DEF StoreFails, ListsInv
<1>2. \A n : n # Entry(k) => (Listed(n)' <=> Listed(n))
  BY <1>1 DEF Listed, ListsInv
<1>3. \A n : Busy(n)' <=> Busy(n)
  BY <1>1 DEF Busy
<1> QED
  BY <1>1, <1>2, <1>3 DEF ListsInv

LEMMA ApplyStep == ASSUME ListsInv, NEW e \in Editors, ApplyEdit(e) PROVE ListsInv'
<1>1. /\ edit[e] \in Edit /\ edit[e] # NoCall
      /\ engine' = IF edit[e].op = "add" THEN engine \cup {Entry(edit[e].key)} ELSE engine \ {Entry(edit[e].key)}
      /\ edit' = [edit EXCEPT ![e] = NoCall] /\ edit \in [Editors -> Edit \cup {NoCall}]
      /\ UNCHANGED <<listed, onDisk, crossed>>
  BY DEF ApplyEdit, ListsInv
<1>2. /\ edit' \in [Editors -> Edit \cup {NoCall}] /\ edit'[e] = NoCall
      /\ \A f \in Editors \ {e} : edit'[f] = edit[f]
  BY <1>1
<1>3. \A n : Listed(n)' <=> Listed(n)
  BY <1>1 DEF Listed
<1>4. ASSUME NEW n \in (Lists \X Domains) \ crossed', NEW f \in Editors,
             edit'[f] # NoCall, Entry(edit'[f].key) = n
      PROVE  /\ edit'[f].op = "add" <=> Listed(n)'
             /\ \A g \in Editors : edit'[g] # NoCall /\ Entry(edit'[g].key) = n => g = f
  BY <1>1, <1>2, <1>3, <1>4 DEF ListsInv
<1>5. ASSUME NEW n \in (Lists \X Domains) \ crossed', ~Busy(n)' PROVE n \in engine' <=> Listed(n)'
  <2>1. CASE Entry(edit[e].key) = n
    <3>1. edit[e].op = "add" <=> Listed(n)
      BY <1>1, <2>1 DEF ListsInv
    <3> QED
      BY <1>1, <1>3, <2>1, <3>1
  <2>2. CASE Entry(edit[e].key) # n
    <3>1. ~Busy(n)
      BY <1>2, <1>5, <2>2 DEF Busy
    <3>2. n \in engine <=> Listed(n)
      BY <1>1, <3>1 DEF ListsInv
    <3> QED
      BY <1>1, <1>3, <2>2, <3>2
  <2> QED
    BY <2>1, <2>2
<1> QED
  BY <1>1, <1>2, <1>4, <1>5 DEF ListsInv

LEMMA ListRestartStep == ASSUME ListsInv, ListRestart PROVE ListsInv'
  BY DEF ListRestart, ListsInv, loadCustomPolicy, Listed, Busy

LEMMA ListsStep == ListsInv /\ [ListNext]_listVars => ListsInv'
<1> SUFFICES ASSUME ListsInv, [ListNext]_listVars PROVE ListsInv'
  OBVIOUS
<1>1. ASSUME NEW e \in Editors, NEW k \in Keys,
             \/ customBlocklistAdd(e, k) \/ customBlocklistDelete(e, k)
             \/ allowlistAdd(e, k) \/ allowlistDelete(e, k)
      PROVE  ListsInv'
  BY <1>1, AddStep, RemoveStep
     DEF customBlocklistAdd, customBlocklistDelete, allowlistAdd, allowlistDelete
<1>2. CASE UNCHANGED listVars
  BY <1>2 DEF listVars, ListsInv, Busy, Listed
<1> QED
  BY <1>1, <1>2, ApplyStep, EditFailStep, ListRestartStep DEF ListNext

(* Custom blocklist and allowlist: when no edit of a name is under way, the *)
(* engine decides on it as the store lists it, through failures of the     *)
(* store and restarts, unless edits of it crossed: the call of the store   *)
(* and that of the engine are two steps (custom_blocklist.go,              *)
(* allowlist.go).                                                          *)
THEOREM ListsAgreeAlways == ListSpec => []ListsAgree
<1>1. ListsInv => ListsAgree
  BY DEF ListsInv, ListsAgree, Listed
<1> QED
  BY <1>1, ListsInit, ListsStep, PTL DEF ListSpec

(***************************************************************************)
(* The rate limiter.                                                       *)
(***************************************************************************)

(* What a bucket owes and owns: it never holds more than the burst less    *)
(* what a late reading took from it, never less than nothing once that is  *)
(* given back, and hands out what it earned since the counting began.      *)
BucketSound(b) == /\ b.tokens + b.latest - b.seen <= Full
                  /\ b.tokens + b.latest - b.seen >= 0
                  /\ b.tokens + b.granted <= Full + b.seen - b.since

LimiterInv == /\ LimiterTypeOK /\ TableBounded
              /\ \A a \in Used(buckets) : BucketSound(buckets[a])

Table == [Addresses -> Bucket \cup {NoTime}]

LEMMA LimiterConstants ==
  /\ Cost \in Nat /\ Cost > 0 /\ Full \in Nat /\ Full >= Cost
  /\ MaxBuckets \in Nat /\ MaxBuckets > 0 /\ PruneEvery \in Nat /\ PruneAge \in Nat
  /\ MaxTime \in Nat /\ MaxReplaces \in Nat /\ NoTime \notin Int /\ NoTime \notin Bucket
<1>1. Burst * Cost >= Cost /\ Burst * Cost \in Nat
  BY LimiterAssumption
<1> QED
  BY <1>1, LimiterAssumption DEF Full

(* Trimming leaves buckets as they are, no more than the limit, and the    *)
(* exempt ones.                                                            *)
LEMMA TrimmedTable ==
  ASSUME NEW table \in Table, NEW exempt \in SUBSET Addresses, NEW left \in Trimmed(table, exempt)
  PROVE  /\ left \in Table
         /\ Cardinality(Used(left)) <= MaxBuckets
         /\ \A a \in Addresses : left[a] # NoTime => left[a] = table[a]
         /\ \A a \in exempt : left[a] = table[a]
<1>1. CASE Cardinality(Used(table)) <= MaxBuckets
  BY <1>1 DEF Trimmed
<1>2. CASE ~(Cardinality(Used(table)) <= MaxBuckets)
  <2>1. PICK kept \in SUBSET Used(table) :
          /\ left = Only(table, kept) /\ Cardinality(kept) = MaxBuckets
          /\ Used(table) \cap exempt \subseteq kept
    BY <1>2 DEF Trimmed
  <2>2. Used(left) = kept
    BY <2>1 DEF Used, Only
  <2> QED
    BY <2>1, <2>2, LimiterConstants DEF Only, Used, Table
<1> QED
  BY <1>1, <1>2

LEMMA PrunedTable ==
  ASSUME LimiterTypeOK, TableBounded, NEW now \in Int, NEW left \in Pruned(now)
  PROVE  /\ left \in Table
         /\ Cardinality(Used(left)) <= MaxBuckets
         /\ \A a \in Addresses : left[a] # NoTime => left[a] = buckets[a]
<1>1. CASE ~Prunes(now)
  BY <1>1 DEF Pruned, LimiterTypeOK, TableBounded, Table
<1>2. CASE Prunes(now)
  <2> DEFINE young == Only(buckets, {a \in Used(buckets) : now - buckets[a].seen <= PruneAge})
  <2>1. young \in Table /\ \A a \in Addresses : young[a] # NoTime => young[a] = buckets[a]
    BY DEF Only, LimiterTypeOK, Table
  <2>2. left \in Trimmed(young, {})
    BY <1>2 DEF Pruned
  <2> HIDE DEF young
  <2> QED
    BY <2>1, <2>2, TrimmedTable
<1> QED
  BY <1>1, <1>2

LEMMA NewBucketSound ==
  ASSUME NEW now \in Int PROVE NewBucket(now) \in Bucket /\ BucketSound(NewBucket(now))
  BY LimiterConstants DEF NewBucket, Bucket, BucketSound

LEMMA EnteredTable ==
  ASSUME NEW table \in Table, Cardinality(Used(table)) <= MaxBuckets,
         NEW a \in Addresses, NEW now \in Int, NEW left \in Entered(table, a, now)
  PROVE  /\ left \in Table
         /\ Cardinality(Used(left)) <= MaxBuckets
         /\ left[a] # NoTime
         /\ \A c \in Addresses : left[c] # NoTime => left[c] \in {table[c], NewBucket(now)}
<1>1. CASE table[a] # NoTime
  BY <1>1 DEF Entered
<1>2. CASE table[a] = NoTime
  <2> DEFINE grown == [table EXCEPT ![a] = NewBucket(now)]
  <2>1. grown \in Table /\ grown[a] = NewBucket(now)
        /\ \A c \in Addresses : grown[c] \in {table[c], NewBucket(now)}
    BY NewBucketSound DEF Table
  <2>2. left \in Trimmed(grown, {a})
    BY <1>2 DEF Entered
  <2> HIDE DEF grown
  <2>3. NewBucket(now) # NoTime
    BY NewBucketSound, LimiterConstants
  <2> QED
    BY <2>1, <2>2, <2>3, TrimmedTable
<1> QED
  BY <1>1, <1>2

(* A call, timed at whatever moment, keeps a bucket sound. *)
LEMMA TakeSound ==
  ASSUME NEW b \in Bucket, BucketSound(b), NEW now \in Int
  PROVE  Take(b, now) \in Bucket /\ BucketSound(Take(b, now))
<1> DEFINE t == Refill(b.tokens, now - b.seen)
           cost == IF t < Cost THEN 0 ELSE Cost
<1>1. /\ b.tokens \in Int /\ b.seen \in Int /\ b.latest \in Int /\ b.granted \in Int /\ b.since \in Int
  BY DEF Bucket
<1>2. /\ t \in Int /\ t <= Full /\ t <= b.tokens + now - b.seen
      /\ t = Full \/ t = b.tokens + now - b.seen
  BY <1>1, LimiterConstants DEF Refill
<1>3. cost \in Int /\ cost >= 0 /\ (cost = 0 => t < Cost) /\ (cost # 0 => cost = Cost /\ t >= cost)
  BY <1>2, LimiterConstants
<1>4. /\ Take(b, now).tokens = t - cost /\ Take(b, now).seen = now
      /\ Take(b, now).latest = (IF now > b.latest THEN now ELSE b.latest)
      /\ Take(b, now).granted = b.granted + cost /\ Take(b, now).since = b.since
      /\ Take(b, now) = [tokens |-> t - cost, seen |-> now, latest |-> IF now > b.latest THEN now ELSE b.latest,
                     granted |-> b.granted + cost, since |-> b.since]
  BY DEF Take
<1> HIDE DEF t, cost
<1>5. Take(b, now) \in Bucket
  BY <1>1, <1>2, <1>3, <1>4 DEF Bucket
<1> QED
  BY <1>1, <1>2, <1>3, <1>4, <1>5, LimiterConstants DEF BucketSound

LEMMA LimiterInitInv == LimiterInit => LimiterInv
<1> SUFFICES ASSUME LimiterInit PROVE LimiterInv
  OBVIOUS
<1>1. Used(buckets) = {}
  BY DEF LimiterInit, NoBuckets, Used
<1>2. LimiterTypeOK
  BY LimiterConstants DEF LimiterInit, LimiterTypeOK, NoBuckets
<1> QED
  BY <1>1, <1>2, FS_EmptySet, LimiterConstants DEF LimiterInv, TableBounded

LEMMA AllowStep ==
  ASSUME LimiterInv, NEW p \in Callers, NEW a \in Addresses, Allow(p, a)
  PROVE  LimiterInv'
<1> DEFINE now == reading[p]
<1>1. /\ now \in Nat /\ now \in 0..MaxTime /\ LimiterTypeOK /\ TableBounded
      /\ \A c \in Used(buckets) : BucketSound(buckets[c])
      /\ UNCHANGED <<time, replaces>>
  BY LimiterConstants DEF LimiterInv, LimiterTypeOK, Allow
<1>2. PICK pruned \in Pruned(now) : \E table \in Entered(pruned, a, now) :
         buckets' = [table EXCEPT ![a] = Take(table[a], now)]
  BY DEF Allow
<1>3. PICK table \in Entered(pruned, a, now) : buckets' = [table EXCEPT ![a] = Take(table[a], now)]
  BY <1>2
<1>4. /\ pruned \in Table /\ Cardinality(Used(pruned)) <= MaxBuckets
      /\ \A c \in Addresses : pruned[c] # NoTime => pruned[c] = buckets[c]
  BY <1>1, PrunedTable
<1>5. /\ table \in Table /\ Cardinality(Used(table)) <= MaxBuckets /\ table[a] # NoTime
      /\ \A c \in Addresses : table[c] # NoTime => table[c] \in {pruned[c], NewBucket(now)}
  BY <1>1, <1>4, EnteredTable
<1> HIDE DEF now
<1>6. \A c \in Used(table) : table[c] \in Bucket /\ BucketSound(table[c])
  BY <1>1, <1>4, <1>5, NewBucketSound DEF Used, Table
<1>7. Take(table[a], now) \in Bucket /\ BucketSound(Take(table[a], now))
  BY <1>1, <1>5, <1>6, TakeSound DEF Used
<1>8. buckets' \in Table /\ Used(buckets)' = Used(table)
  BY <1>3, <1>5, <1>7, LimiterConstants DEF Used, Table
<1>9. \A c \in Used(buckets)' : BucketSound(buckets'[c])
  BY <1>3, <1>5, <1>6, <1>7, <1>8 DEF Table
<1>10. nextPrune' \in Nat \cup {NoTime} /\ reading' \in [Callers -> 0..MaxTime \cup {NoTime}]
  BY <1>1, LimiterConstants DEF Allow, NextPrune, LimiterTypeOK, now
<1>11. LimiterTypeOK'
  BY <1>1, <1>8, <1>10 DEF LimiterTypeOK, Table
<1>12. TableBounded'
  BY <1>5, <1>8 DEF TableBounded
<1> QED
  BY <1>9, <1>11, <1>12 DEF LimiterInv

LEMMA Recounted ==
  ASSUME NEW r \in Bucket
  PROVE  [r EXCEPT !.granted = 0, !.since = r.latest] =
           [tokens |-> r.tokens, seen |-> r.seen, latest |-> r.latest, granted |-> 0, since |-> r.latest]
<1> DEFINE q == [r EXCEPT !.granted = 0]
<1>1. q = [tokens |-> r.tokens, seen |-> r.seen, latest |-> r.latest, granted |-> 0, since |-> r.since]
  BY DEF Bucket
<1>2. [r EXCEPT !.granted = 0, !.since = r.latest] = [q EXCEPT !.since = r.latest]
  OBVIOUS
<1> HIDE DEF q
<1> QED
  BY <1>1, <1>2

LEMMA ObserveStep ==
  ASSUME LimiterInv, NEW a \in Addresses, Observe(a) PROVE LimiterInv'
<1> DEFINE b == [buckets[a] EXCEPT !.granted = 0, !.since = buckets[a].latest]
<1>1. /\ buckets \in Table /\ buckets[a] \in Bucket /\ BucketSound(buckets[a]) /\ LimiterTypeOK
      /\ a \in Used(buckets)
      /\ buckets' = [buckets EXCEPT ![a] = b] /\ UNCHANGED <<time, nextPrune, reading, replaces>>
  BY DEF LimiterInv, LimiterTypeOK, Observe, Table, Used
<1>2. /\ b.tokens = buckets[a].tokens /\ b.seen = buckets[a].seen
      /\ b.latest = buckets[a].latest /\ b.granted = 0 /\ b.since = buckets[a].latest
      /\ b = [tokens |-> buckets[a].tokens, seen |-> buckets[a].seen, latest |-> buckets[a].latest,
              granted |-> 0, since |-> buckets[a].latest]
  <2>1. b = [tokens |-> buckets[a].tokens, seen |-> buckets[a].seen, latest |-> buckets[a].latest,
              granted |-> 0, since |-> buckets[a].latest]
    BY <1>1, Recounted, ZenonT(30)
  <2> HIDE DEF b
  <2> QED
    BY <2>1
<1> HIDE DEF b
<1>3. b \in Bucket /\ BucketSound(b)
  <2>1. /\ buckets[a].tokens \in Int /\ buckets[a].seen \in Int /\ buckets[a].latest \in Int
    BY <1>1 DEF Bucket
  <2>2. b \in Bucket
    BY <1>2, <2>1 DEF Bucket
  <2> QED
    BY <1>1, <1>2, <2>1, <2>2, LimiterConstants DEF BucketSound
<1>4. buckets' \in Table /\ Used(buckets)' = Used(buckets)
  BY <1>1, <1>3, LimiterConstants DEF Used, Table
<1>5. \A c \in Used(buckets)' : BucketSound(buckets'[c])
  BY <1>1, <1>3, <1>4 DEF LimiterInv, Table, Used
<1>6. LimiterTypeOK'
  BY <1>1, <1>4 DEF LimiterTypeOK, Table
<1>7. TableBounded'
  BY <1>4 DEF TableBounded, LimiterInv
<1> QED
  BY <1>5, <1>6, <1>7 DEF LimiterInv

LEMMA LimiterStep == LimiterInv /\ [LimiterNext]_limiterVars => LimiterInv'
<1> SUFFICES ASSUME LimiterInv, [LimiterNext]_limiterVars PROVE LimiterInv'
  OBVIOUS
<1>1. CASE Tick
  <2>1. LimiterTypeOK'
    BY <1>1, LimiterConstants DEF Tick, LimiterInv, LimiterTypeOK
  <2> QED
    BY <1>1, <2>1 DEF Tick, LimiterInv, TableBounded, Used
<1>2. CASE ReplaceLimiter
  <2>1. LimiterTypeOK'
    BY <1>2, LimiterConstants DEF ReplaceLimiter, LimiterInv, LimiterTypeOK, NoBuckets
  <2>2. Used(buckets)' = {}
    BY <1>2 DEF ReplaceLimiter, NoBuckets, Used
  <2> QED
    BY <2>1, <2>2, FS_EmptySet, LimiterConstants DEF LimiterInv, TableBounded
<1>3. CASE \E p \in Callers : ReadClock(p)
  <2>1. LimiterTypeOK'
    BY <1>3 DEF ReadClock, LimiterInv, LimiterTypeOK
  <2> QED
    BY <1>3, <2>1 DEF ReadClock, LimiterInv, TableBounded, Used
<1>4. CASE UNCHANGED limiterVars
  BY <1>4 DEF limiterVars, LimiterInv, LimiterTypeOK, TableBounded, Used
<1> QED
  BY <1>1, <1>2, <1>3, <1>4, AllowStep, ObserveStep DEF LimiterNext

(* RateLimiter.Allow: however calls, late readings of the clock, pruning   *)
(* and reconfigurations come in, no address gets more than its burst and   *)
(* what time earned it, every address gets one again after a pause, and the *)
(* table stays bounded.                                                    *)
THEOREM LimiterSoundAlways == LimiterSpec => []LimiterSound
<1>1. LimiterInv => LimiterSound
  <2> SUFFICES ASSUME LimiterInv, NEW a \in Used(buckets)
               PROVE  /\ buckets[a].granted <= Full + (buckets[a].latest - buckets[a].since)
                      /\ Refill(buckets[a].tokens, (buckets[a].latest + Cost) - buckets[a].seen) >= Cost
    BY DEF LimiterInv, LimiterSound, RateBounded, NotStarved
  <2>1. buckets[a] \in Bucket /\ BucketSound(buckets[a])
    BY DEF LimiterInv, LimiterTypeOK, Used
  <2> QED
    BY <2>1, LimiterConstants DEF BucketSound, Bucket, Refill
<1> QED
  BY <1>1, LimiterInitInv, LimiterStep, PTL DEF LimiterSpec

(***************************************************************************)
(* The table of the most queried domains.                                  *)
(***************************************************************************)
(* The table is finite and within its bound.                               *)
TopInv == /\ top \in [TopDomains -> Nat]
          /\ IsFiniteSet(Tracked(top)) /\ Cardinality(Tracked(top)) <= MaxTracked

(* One query, from a table that is within its bound. *)
TopChange(old, new) ==
    /\ Cardinality(Tracked(new)) <= MaxTracked
    /\ \A d \in TopDomains : new[d] # 0 => new[d] \in {old[d], old[d] + 1}
    /\ \A d \in TopDomains : old[d] > 0 /\ new[d] = 0 =>
          Cardinality({e \in TopDomains \ {d} : old[e] >= old[d]}) >= PruneTo

LEMMA Incremented ==
  ASSUME NEW t \in [TopDomains -> Nat], IsFiniteSet(Tracked(t)), Cardinality(Tracked(t)) <= MaxTracked,
         NEW d \in TopDomains, NEW new \in incrementTopCounter(t, d)
  PROVE  /\ new \in [TopDomains -> Nat] /\ IsFiniteSet(Tracked(new))
         /\ TopChange(t, new)
<1> MaxTracked \in Nat /\ PruneTo \in Nat /\ PruneTo < MaxTracked
  BY TopAssumption
<1>0. Cardinality(Tracked(t)) \in Nat
  BY FS_CardinalityType
<1>1. CASE t[d] = 0 /\ Cardinality(Tracked(t)) >= MaxTracked
  <2>1. PICK u \in pruneTopCounters(t) : new = [u EXCEPT ![d] = u[d] + 1]
    BY <1>1 DEF incrementTopCounter
  <2>2. PICK ds \in SUBSET Tracked(t) :
          /\ u = [e \in TopDomains |-> IF e \in ds THEN t[e] ELSE 0] /\ Cardinality(ds) = PruneTo
          /\ \A e \in ds, f \in Tracked(t) \ ds : t[e] >= t[f]
    BY <2>1 DEF pruneTopCounters
  <2>3. IsFiniteSet(ds)
    BY FS_Subset
  <2>4. d \notin ds /\ Tracked(new) = ds \cup {d} /\ new \in [TopDomains -> Nat]
    BY <1>1, <2>1, <2>2 DEF Tracked
  <2>5. IsFiniteSet(Tracked(new)) /\ Cardinality(Tracked(new)) = PruneTo + 1
    BY <2>2, <2>3, <2>4, FS_AddElement
  <2>6. \A e \in TopDomains : new[e] # 0 => new[e] \in {t[e], t[e] + 1}
    BY <1>1, <2>1, <2>2
  <2>7. ASSUME NEW e \in TopDomains, t[e] > 0, new[e] = 0
        PROVE  Cardinality({f \in TopDomains \ {e} : t[f] >= t[e]}) >= PruneTo
    <3> DEFINE heavier == {f \in TopDomains \ {e} : t[f] >= t[e]}
    <3>1. e \in Tracked(t) \ ds
      BY <2>1, <2>2, <2>7 DEF Tracked
    <3>2. ds \subseteq heavier /\ heavier \subseteq Tracked(t)
      BY <2>2, <2>7, <3>1 DEF Tracked
    <3> HIDE DEF heavier
    <3>3. IsFiniteSet(heavier) /\ Cardinality(ds) <= Cardinality(heavier)
      BY <3>2, FS_Subset
    <3> QED
      BY <2>2, <3>3, FS_CardinalityType DEF heavier
  <2> QED
    BY <2>4, <2>5, <2>6, <2>7 DEF TopChange
<1>2. CASE ~(t[d] = 0 /\ Cardinality(Tracked(t)) >= MaxTracked)
  <2>1. new = [t EXCEPT ![d] = t[d] + 1]
    BY <1>2 DEF incrementTopCounter
  <2>2. new \in [TopDomains -> Nat] /\ Tracked(new) = Tracked(t) \cup {d}
    BY <2>1 DEF Tracked
  <2>3. IsFiniteSet(Tracked(new)) /\ Cardinality(Tracked(new)) <= MaxTracked
    <3>1. CASE d \in Tracked(t)
      BY <3>1, <2>2
    <3>2. CASE d \notin Tracked(t)
      <4>1. Cardinality(Tracked(t)) < MaxTracked
        BY <1>0, <1>2, <3>2 DEF Tracked
      <4>2. IsFiniteSet(Tracked(t) \cup {d}) /\ Cardinality(Tracked(t) \cup {d}) = Cardinality(Tracked(t)) + 1
        BY <3>2, FS_AddElement
      <4> QED
        BY <1>0, <2>2, <4>1, <4>2
    <3> QED
      BY <3>1, <3>2
  <2>4. /\ \A e \in TopDomains : new[e] # 0 => new[e] \in {t[e], t[e] + 1}
        /\ \A e \in TopDomains : t[e] > 0 => new[e] # 0
    BY <2>1
  <2> QED
    BY <2>2, <2>3, <2>4 DEF TopChange
<1> QED
  BY <1>1, <1>2

(* incrementTopCounter: the table stays bounded, a domain that stays loses *)
(* nothing, and one is dropped only when as many as are kept were counted  *)
(* as often, whatever the sizes of table and traffic.                      *)
THEOREM TopKeptAlways == TopSpec => TopKept
<1>1. TopInit => TopInv
  <2> SUFFICES ASSUME TopInit PROVE TopInv
    OBVIOUS
  <2>1. top \in [TopDomains -> Nat] /\ Tracked(top) = {}
    BY DEF TopInit, Tracked
  <2> QED
    BY <2>1, FS_EmptySet, TopAssumption DEF TopInv
<1>2. ASSUME TopInv, TopNext PROVE TopInv' /\ TopChange(top, top')
  <2>1. PICK d \in TopDomains : top' \in incrementTopCounter(top, d)
    BY <1>2 DEF TopNext, AddDomain
  <2> QED
    BY <1>2, <2>1, Incremented DEF TopInv, TopChange
<1>3. TopInv /\ UNCHANGED topVars => TopInv'
  BY DEF TopInv, topVars, Tracked
<1>4. TopInv /\ [TopNext]_topVars => TopInv' /\ [TopChange(top, top')]_topVars
  BY <1>2, <1>3
<1>5. TopKept <=> [][TopChange(top, top')]_topVars
  BY DEF TopKept, TopChange
<1> QED
  BY <1>1, <1>4, <1>5, PTL DEF TopSpec

(***************************************************************************)
(* The files of the query log.                                             *)
(***************************************************************************)
LogFile == [fd : Inodes \cup {NoFile}, size : Nat, err : BOOLEAN]

LogTypes == /\ place \in [Inodes -> {"free", "path", "rotated", "unlinked"}]
            /\ text \in [Inodes -> SUBSET Nat] /\ \A i \in Inodes : IsFiniteSet(text[i])
            /\ zip \in [Inodes -> (SUBSET Nat) \cup {NoFile}]
            /\ zipping \in SUBSET Inodes
            /\ log \in LogFile \cup {NoFile}
            /\ opening \in [Appliers -> [at : {"idle", "swap"}, next : LogFile \cup {NoFile}]]
            /\ written \in Nat /\ failed \in BOOLEAN /\ split \in BOOLEAN

(* Inodes are taken in order, and one at most has the log's name. *)
InOrder == \E n \in 0..MaxInodes : \A i \in Inodes : place[i] = "free" <=> i > n
OnePath == \A i, j \in Inodes : place[i] = "path" /\ place[j] = "path" => i = j

(* Only rotated files are compressed, only compressed ones deleted. *)
Zipped == /\ \A i \in zipping : place[i] = "rotated"
          /\ \A i \in Inodes : /\ zip[i] # NoFile => place[i] \in {"rotated", "unlinked"}
                               /\ place[i] = "unlinked" => zip[i] # NoFile
          /\ ~Gzip => zipping = {} /\ \A i \in Inodes : zip[i] = NoFile

(* A file that is written to, or will be, has the log's name unless a      *)
(* rotation came between.                                                  *)
IsOpen(fd) == fd \in Inodes /\ place[fd] # "free" /\ (~split => place[fd] = "path")
Opened == /\ HasFile => IsOpen(log.fd)
          /\ \A p \in Appliers : opening[p].next # NoFile =>
                IsOpen(opening[p].next.fd) /\ ~opening[p].next.err

(* A compressed file has all that was written to its original; the log is  *)
(* broken only after a failure.                                            *)
Copied == ~(split /\ Gzip) => \A i \in Inodes : zip[i] # NoFile => text[i] \subseteq zip[i]
Broken == log # NoFile /\ (log.fd = NoFile \/ log.err) => failed

LogInv == LogTypes /\ InOrder /\ OnePath /\ Zipped /\ Opened /\ Copied /\ Broken /\ NoEntryLost

LEMMA LogConstants == /\ MaxInodes \in Nat /\ MaxEntries \in Nat /\ Gzip \in BOOLEAN /\ NoFile \notin Inodes
                      /\ Inodes = 1..MaxInodes
  BY LogAssumption DEF Inodes

LEMMA LogInitInv == LogInit => LogInv
<1> SUFFICES ASSUME LogInit PROVE LogInv
  OBVIOUS
<1>1. LogTypes
  <2>1. place \in [Inodes -> {"free", "path", "rotated", "unlinked"}] /\ zipping \in SUBSET Inodes /\ written \in Nat
    BY DEF LogInit
  <2>4. text \in [Inodes -> SUBSET Nat] /\ \A i \in Inodes : text[i] = {}
    BY DEF LogInit
  <2>5. zip \in [Inodes -> (SUBSET Nat) \cup {NoFile}]
    BY DEF LogInit
  <2>3. log \in LogFile \cup {NoFile} /\ failed \in BOOLEAN /\ split \in BOOLEAN
    BY DEF LogInit
  <2>2. opening \in [Appliers -> [at : {"idle", "swap"}, next : LogFile \cup {NoFile}]]
    BY DEF LogInit, NotOpening
  <2> QED
    BY <2>1, <2>2, <2>3, <2>4, <2>5, FS_EmptySet DEF LogTypes
<1>2. InOrder
  BY LogConstants, SMTT(30) DEF LogInit, InOrder
<1> QED
  BY <1>1, <1>2 DEF LogInit, LogInv, OnePath, Zipped, Opened, IsOpen, Copied, Broken, NoEntryLost, HasFile, NotOpening

(* The next inode is the first free one. *)
LEMMA NewInode ==
  ASSUME LogInv, NEW i \in Inodes, IsNew(i)
  PROVE  \A j \in Inodes : place[j] = "free" <=> j >= i
<1>1. PICK n \in 0..MaxInodes : \A j \in Inodes : place[j] = "free" <=> j > n
  BY DEF LogInv, InOrder
<1>2. Places("free") = (n + 1)..MaxInodes
  BY <1>1, LogConstants DEF Places
<1>3. Cardinality((n + 1)..MaxInodes) = MaxInodes - n
  BY FS_Interval, LogConstants
<1>4. i = n + 1
  BY <1>2, <1>3, LogConstants DEF IsNew
<1> QED
  BY <1>1, <1>4, LogConstants

(* A rotation: the file at the path becomes a rotated one, the new inode   *)
(* takes the path, and whoever had opened the old one is remembered.       *)
LEMMA RotatedDisk ==
  ASSUME LogInv, NEW i \in Inodes, Rotated(i)
  PROVE  /\ place' \in [Inodes -> {"free", "path", "rotated", "unlinked"}]
         /\ place[i] = "free" /\ place'[i] = "path"
         /\ \A j \in Inodes \ {i} : place'[j] = IF place[j] = "path" THEN "rotated" ELSE place[j]
         /\ InOrder' /\ OnePath'
         /\ zipping' \in SUBSET Inodes /\ \A j \in zipping' : place'[j] = "rotated"
         /\ ~Gzip => zipping' = {}
         /\ split' \in BOOLEAN
         /\ ~split' => ~split /\ \A p \in Appliers : opening[p].next = NoFile
<1>1. place[i] = "free" /\ \A j \in Inodes : place[j] = "free" <=> j >= i
  BY NewInode, LogConstants DEF Rotated
<1>2. /\ place' \in [Inodes -> {"free", "path", "rotated", "unlinked"}]
      /\ place'[i] = "path"
      /\ \A j \in Inodes \ {i} : place'[j] = IF place[j] = "path" THEN "rotated" ELSE place[j]
  BY DEF Rotated, LogInv, LogTypes
<1>3. InOrder'
  <2>1. i \in 0..MaxInodes /\ \A j \in Inodes : place'[j] = "free" <=> j > i
    BY <1>1, <1>2, LogConstants
  <2> QED
    BY <2>1 DEF InOrder
<1>4. OnePath'
  BY <1>2 DEF OnePath
<1>5. /\ zipping' \in SUBSET Inodes /\ \A j \in zipping' : place'[j] = "rotated"
      /\ ~Gzip => zipping' = {}
  BY <1>1, <1>2 DEF Rotated, Places, LogInv, LogTypes, Zipped
<1>6. split' = (split \/ TakesOpened)
  BY DEF Rotated
<1>7. split' \in BOOLEAN /\ (~split' => ~split /\ \A p \in Appliers : opening[p].next = NoFile)
  BY <1>6, Zenon DEF TakesOpened, LogInv, LogTypes
<1> QED
  BY <1>1, <1>2, <1>3, <1>4, <1>5, <1>7

LEMMA NewRotatorStep ==
  ASSUME LogInv, NEW p \in Appliers, NEW i \in Inodes, NewRotator(p, i) PROVE LogInv'
<1>1. /\ LogTypes /\ Opens(i) /\ place' = [place EXCEPT ![i] = "path"]
      /\ opening' = [opening EXCEPT ![p] = [at |-> "swap", next |-> [fd |-> i, size |-> Cardinality(text[i]), err |-> FALSE]]]
      /\ UNCHANGED <<text, zip, zipping, log, written, failed, split>>
  BY DEF LogInv, NewRotator
<1>2. /\ place[i] = "path" \/ (Places("path") = {} /\ \A j \in Inodes : place[j] = "free" <=> j >= i)
      /\ place[i] \in {"path", "free"}
  BY <1>1, NewInode, LogConstants DEF Opens
<1>3. [fd |-> i, size |-> Cardinality(text[i]), err |-> FALSE] \in LogFile
  BY <1>1, FS_CardinalityType DEF LogFile, LogTypes
<1>4. LogTypes'
  BY <1>1, <1>3 DEF LogTypes
<1>5. InOrder'
  <2>1. CASE place[i] = "path"
    <3>1. place' = place
      BY <1>1, <2>1 DEF LogTypes
    <3> QED
      BY <3>1 DEF LogInv, InOrder
  <2>2. CASE place[i] # "path"
    <3>1. i \in 0..MaxInodes /\ \A j \in Inodes : place'[j] = "free" <=> j > i
      BY <1>1, <1>2, <2>2, LogConstants DEF LogTypes
    <3> QED
      BY <3>1 DEF InOrder
  <2> QED
    BY <2>1, <2>2
<1>6. OnePath'
  BY <1>1, <1>2 DEF LogInv, LogTypes, OnePath, Places
<1>7. Zipped'
  BY <1>1, <1>2 DEF LogInv, LogTypes, Zipped
<1>8. Opened'
  <2>1. \A fd \in Inodes : IsOpen(fd) => IsOpen(fd)'
    BY <1>1 DEF IsOpen, LogTypes
  <2>2. IsOpen(i)'
    BY <1>1 DEF IsOpen, LogTypes
  <2>3. HasFile' => IsOpen(log.fd)'
    BY <1>1, <2>1 DEF LogInv, Opened, IsOpen, HasFile
  <2>4. ASSUME NEW q \in Appliers, opening'[q].next # NoFile
        PROVE  IsOpen(opening[q].next.fd)' /\ ~opening'[q].next.err
    <3>1. CASE q = p
      BY <1>1, <2>2, <3>1 DEF LogTypes
    <3>2. CASE q # p
      <4>1. opening'[q] = opening[q]
        BY <1>1, <3>2 DEF LogTypes
      <4>2. opening[q].next.fd \in Inodes /\ IsOpen(opening[q].next.fd) /\ ~opening[q].next.err
        BY <2>4, <4>1 DEF LogInv, Opened, IsOpen
      <4>3. IsOpen(opening[q].next.fd)' <=> (opening'[q].next.fd \in Inodes /\ place'[opening'[q].next.fd] # "free" /\ (~split' => place'[opening'[q].next.fd] = "path"))
        BY DEF IsOpen
      <4> QED
        BY <1>1, <4>1, <4>2, <4>3 DEF IsOpen, LogTypes
    <3> QED
      BY <3>1, <3>2
  <2> QED
    BY <2>3, <2>4 DEF Opened
<1>9. Copied' /\ Broken'
  BY <1>1 DEF LogInv, Copied, Broken
<1>10. NoEntryLost'
  BY <1>1, <1>2 DEF LogInv, LogTypes, NoEntryLost
<1> QED
  BY <1>4, <1>5, <1>6, <1>7, <1>8, <1>9, <1>10 DEF LogInv

(* Reconfigure and Disable leave the disk alone. *)
LEMMA SwapStep ==
  ASSUME LogInv, NEW p \in Appliers, Disable(p) \/ Reconfigure(p) PROVE LogInv'
<1> DEFINE made == IF opening[p].at = "idle" THEN [at |-> "swap", next |-> NoFile] ELSE NotOpening
<1>1. /\ LogTypes /\ UNCHANGED <<place, text, zip, zipping, written, split>>
      /\ opening' = [opening EXCEPT ![p] = made] /\ made.next = NoFile
      /\ made \in [at : {"idle", "swap"}, next : LogFile \cup {NoFile}]
      /\ failed' \in BOOLEAN
  BY DEF LogInv, LogTypes, Disable, Reconfigure, logDisk, NotOpening
<1>2. (log' = log /\ failed' = failed) \/ log' = opening[p].next
  BY DEF Disable, Reconfigure
<1> HIDE DEF made
<1>3. opening[p].next \in LogFile \cup {NoFile}
  BY <1>1 DEF LogTypes
<1>4. LogTypes'
  <2>1. opening' \in [Appliers -> [at : {"idle", "swap"}, next : LogFile \cup {NoFile}]]
    BY <1>1 DEF LogTypes
  <2> QED
    BY <1>1, <1>2, <1>3, <2>1 DEF LogTypes
<1>5. Opened' /\ Broken'
  <2>1. \A fd : IsOpen(fd) => (fd \in Inodes /\ place'[fd] # "free" /\ (~split' => place'[fd] = "path"))
    BY <1>1 DEF IsOpen
  <2>2. \A q \in Appliers : opening'[q].next # NoFile => opening'[q] = opening[q]
    BY <1>1 DEF LogTypes
  <2>3. opening[p].next # NoFile => IsOpen(opening[p].next.fd) /\ ~opening[p].next.err
    BY DEF LogInv, Opened
  <2>4. HasFile' => IsOpen(log'.fd)
    BY <1>2, <2>3 DEF LogInv, Opened, HasFile
  <2>5. HasFile' => IsOpen(log.fd)'
    BY <2>1, <2>4 DEF IsOpen
  <2>6. ASSUME NEW q \in Appliers, opening'[q].next # NoFile
        PROVE  IsOpen(opening[q].next.fd)' /\ ~opening'[q].next.err
    <3>1. opening'[q] = opening[q] /\ IsOpen(opening[q].next.fd) /\ ~opening[q].next.err
      BY <2>2, <2>6 DEF LogInv, Opened
    <3>2. opening'[q].next.fd \in Inodes /\ place'[opening'[q].next.fd] # "free" /\ (~split' => place'[opening'[q].next.fd] = "path")
      BY <2>1, <3>1
    <3> QED
      BY <3>1, <3>2 DEF IsOpen
  <2>7. Broken'
    <3>1. IsOpen(opening[p].next.fd) => opening[p].next.fd # NoFile
      BY LogConstants DEF IsOpen
    <3> QED
      BY <1>2, <2>3, <3>1 DEF LogInv, Broken
  <2> QED
    BY <2>5, <2>6, <2>7 DEF Opened
<1>6. InOrder' /\ OnePath' /\ Zipped' /\ Copied' /\ NoEntryLost'
  BY <1>1 DEF LogInv, InOrder, OnePath, Zipped, Copied, NoEntryLost
<1> QED
  BY <1>4, <1>5, <1>6 DEF LogInv

LEMMA EntryFound ==
  ASSUME LogInv, ~(split /\ Gzip), NEW e \in 1..written
  PROVE  \E j \in Inodes : \/ place[j] \in {"path", "rotated"} /\ e \in text[j]
                           \/ zip[j] # NoFile /\ e \in zip[j]
<1>1. NoEntryLost
  BY DEF LogInv
<1> QED
  BY <1>1 DEF NoEntryLost

LEMMA NextFile ==
  ASSUME NEW r \in LogFile, NEW i, NEW n
  PROVE  [r EXCEPT !.fd = i, !.size = n] = [fd |-> i, size |-> n, err |-> r.err]
<1> DEFINE q == [r EXCEPT !.fd = i]
<1>1. q = [fd |-> i, size |-> r.size, err |-> r.err]
  BY DEF LogFile
<1>2. [r EXCEPT !.fd = i, !.size = n] = [q EXCEPT !.size = n]
  OBVIOUS
<1> HIDE DEF q
<1> QED
  BY <1>1, <1>2

LEMMA RotateStep ==
  ASSUME LogInv, NEW i \in Inodes, Rotate(i) \/ RotateAndWrite(i) PROVE LogInv'
<1>1. /\ LogTypes /\ HasFile /\ log \in LogFile /\ Rotated(i)
      /\ UNCHANGED <<zip, opening, failed>>
  BY DEF LogInv, LogTypes, HasFile, Rotate, RotateAndWrite
<1>2. /\ log'.fd = i /\ log'.err = log.err /\ log' \in LogFile
  <2>1. PICK n \in {0, 1} : log' = [log EXCEPT !.fd = i, !.size = n]
    BY DEF Rotate, RotateAndWrite
  <2>2. log' = [fd |-> i, size |-> n, err |-> log.err]
    BY <1>1, <2>1, NextFile, ZenonT(30)
  <2> QED
    BY <1>1, <2>2 DEF LogFile
<1>3. /\ written' \in Nat /\ written <= written' /\ written' <= written + 1
      /\ text' \in [Inodes -> SUBSET Nat] /\ IsFiniteSet(text'[i])
      /\ \A j \in Inodes \ {i} : text'[j] = text[j]
      /\ \A e \in 1..written' : e \in 1..written \/ e \in text'[i]
  <2>1. CASE Rotate(i)
    BY <2>1, <1>1 DEF Rotate, LogTypes
  <2>2. CASE RotateAndWrite(i)
    <3>1. written \in Nat /\ written' = written + 1 /\ text' = [text EXCEPT ![i] = {written + 1}]
      BY <2>2, <1>1 DEF RotateAndWrite, LogTypes
    <3>2. text'[i] = {written + 1} /\ text' \in [Inodes -> SUBSET Nat]
      BY <3>1, <1>1 DEF LogTypes
    <3>3. \A j \in Inodes \ {i} : text'[j] = text[j]
      BY <3>1, <1>1 DEF LogTypes
    <3>4. IsFiniteSet({written + 1})
      BY FS_Singleton
    <3> QED
      BY <3>1, <3>2, <3>3, <3>4
  <2> QED
    BY <2>1, <2>2
<1>4. /\ place' \in [Inodes -> {"free", "path", "rotated", "unlinked"}]
      /\ place[i] = "free" /\ place'[i] = "path"
      /\ \A j \in Inodes \ {i} : place'[j] = IF place[j] = "path" THEN "rotated" ELSE place[j]
      /\ InOrder' /\ OnePath'
      /\ zipping' \in SUBSET Inodes /\ \A j \in zipping' : place'[j] = "rotated"
      /\ ~Gzip => zipping' = {}
      /\ split' \in BOOLEAN
      /\ ~split' => ~split /\ \A p \in Appliers : opening[p].next = NoFile
  BY <1>1, RotatedDisk
<1>5. LogTypes'
  BY <1>1, <1>2, <1>3, <1>4 DEF LogTypes
<1>6. zip[i] = NoFile
  BY <1>4 DEF LogInv, Zipped
<1>7. Zipped'
  BY <1>1, <1>4, <1>6 DEF LogInv, Zipped
<1>8. Opened'
  <2>1. IsOpen(log.fd)'
    BY <1>2, <1>4 DEF IsOpen
  <2>2. ASSUME NEW q \in Appliers, opening'[q].next # NoFile
        PROVE  IsOpen(opening[q].next.fd)' /\ ~opening'[q].next.err
    <3>1. opening' = opening /\ IsOpen(opening[q].next.fd) /\ ~opening[q].next.err /\ split'
      BY <1>1, <1>4, <2>2 DEF LogInv, Opened
    <3>2. opening[q].next.fd \in Inodes /\ place'[opening[q].next.fd] # "free"
      BY <1>4, <3>1 DEF IsOpen
    <3> QED
      BY <3>1, <3>2 DEF IsOpen
  <2> QED
    BY <2>1, <2>2 DEF Opened
<1>9. Copied'
  BY <1>1, <1>3, <1>4, <1>6 DEF LogInv, Copied
<1>10. Broken'
  BY <1>1, <1>2, LogConstants DEF LogInv, Broken, HasFile
<1>11. NoEntryLost'
  <2> SUFFICES ASSUME ~(split' /\ Gzip), NEW e \in 1..written'
               PROVE  \E j \in Inodes : \/ place'[j] \in {"path", "rotated"} /\ e \in text'[j]
                                        \/ zip'[j] # NoFile /\ e \in zip'[j]
    BY DEF NoEntryLost
  <2>1. CASE e \in text'[i]
    BY <1>4, <2>1
  <2>2. CASE e \in 1..written
    <3>1. PICK j \in Inodes : \/ place[j] \in {"path", "rotated"} /\ e \in text[j]
                              \/ zip[j] # NoFile /\ e \in zip[j]
      <4>1. ~(split /\ Gzip)
        BY <1>4
      <4> QED
        BY <2>2, <4>1, EntryFound
    <3> QED
      BY <1>1, <1>3, <1>4, <1>6, <3>1
  <2> QED
    BY <1>3, <2>1, <2>2
<1> QED
  BY <1>4, <1>5, <1>7, <1>8, <1>9, <1>10, <1>11 DEF LogInv

LEMMA WriteStep ==
  ASSUME LogInv, WriteEntry PROVE LogInv'
<1> DEFINE i == log.fd
<1>1. /\ LogTypes /\ HasFile /\ log \in LogFile /\ ~log.err /\ i \in Inodes /\ IsOpen(i)
      /\ text' = [text EXCEPT ![i] = text[i] \cup {written + 1}]
      /\ log' = [log EXCEPT !.size = log.size + 1]
      /\ written' = written + 1
      /\ UNCHANGED <<place, zip, zipping, opening, failed, split>>
  BY DEF LogInv, LogTypes, HasFile, WriteEntry, Opened, IsOpen
<1>2. log'.fd = log.fd /\ log'.err = log.err /\ log' \in LogFile /\ log # NoFile
  BY <1>1 DEF LogFile, HasFile
<1> HIDE DEF i
<1>3. /\ text' \in [Inodes -> SUBSET Nat] /\ \A j \in Inodes : text[j] \subseteq text'[j]
      /\ \A j \in Inodes \ {i} : text'[j] = text[j]
      /\ written + 1 \in text'[i] /\ written' \in Nat
  BY <1>1 DEF LogTypes
<1>4. \A j \in Inodes : IsFiniteSet(text'[j])
  BY <1>1, FS_AddElement DEF LogTypes
<1>5. LogTypes'
  BY <1>1, <1>2, <1>3, <1>4 DEF LogTypes
<1>6. InOrder' /\ OnePath' /\ Zipped'
  BY <1>1 DEF LogInv, InOrder, OnePath, Zipped
<1>7. Opened' /\ Broken'
  BY <1>1, <1>2 DEF LogInv, Opened, IsOpen, Broken, HasFile
<1>8. Copied'
  <2>1. ~(split /\ Gzip) => zip[i] = NoFile
    BY <1>1 DEF LogInv, Zipped, IsOpen
  <2> QED
    BY <1>1, <1>3, <2>1 DEF LogInv, Copied
<1>9. NoEntryLost'
  <2> SUFFICES ASSUME ~(split /\ Gzip), NEW e \in 1..(written + 1)
               PROVE  \E j \in Inodes : \/ place[j] \in {"path", "rotated"} /\ e \in text'[j]
                                        \/ zip[j] # NoFile /\ e \in zip[j]
    BY <1>1 DEF NoEntryLost
  <2>1. CASE e = written + 1
    <3>1. place[i] \in {"path", "rotated"}
      BY <1>1 DEF LogInv, LogTypes, Zipped, IsOpen
    <3> QED
      BY <1>1, <1>3, <2>1, <3>1
  <2>2. CASE e \in 1..written
    BY <1>3, <2>2 DEF LogInv, NoEntryLost
  <2> QED
    <3>1. written \in Nat
      BY <1>1 DEF LogTypes
    <3> QED
      BY <2>1, <2>2, <3>1
<1> QED
  BY <1>5, <1>6, <1>7, <1>8, <1>9 DEF LogInv

(* A failed write or rotation: the files stay, or the path loses its name. *)
LEMMA FailStep ==
  ASSUME LogInv, RotateFails \/ WriteFails PROVE LogInv'
<1>1. /\ LogTypes /\ HasFile /\ log \in LogFile /\ failed' = TRUE
      /\ UNCHANGED <<text, zip, zipping, opening, written>>
  BY DEF LogInv, LogTypes, HasFile, RotateFails, WriteFails, logDisk
<1>2. \/ UNCHANGED <<place, split>>
      \/ /\ place' = [j \in Inodes |-> IF place[j] = "path" THEN "rotated" ELSE place[j]]
         /\ split' = (split \/ TakesOpened)
         /\ log'.fd = NoFile
  BY <1>1 DEF RotateFails, WriteFails, logDisk, LogFile
<1>3. log' \in LogFile /\ log'.fd \in {log.fd, NoFile}
  BY <1>1 DEF RotateFails, WriteFails, LogFile
<1>4. /\ place' \in [Inodes -> {"free", "path", "rotated", "unlinked"}]
      /\ \A j \in Inodes : place'[j] = place[j] \/ (place[j] = "path" /\ place'[j] = "rotated")
  BY <1>1, <1>2 DEF LogTypes
<1>5. split' \in BOOLEAN
  BY <1>1, <1>2 DEF LogTypes
<1>6. \/ UNCHANGED <<place, split>>
      \/ ~split' => ~split /\ \A p \in Appliers : opening[p].next = NoFile
  BY <1>1, <1>2, Zenon DEF TakesOpened, LogTypes
<1>7. ~split' => ~split
  BY <1>6
<1>8. LogTypes'
  <2>1. log' \in LogFile \cup {NoFile} /\ failed' \in BOOLEAN
    BY <1>1, <1>3
  <2> QED
    BY <1>1, <1>4, <1>5, <2>1 DEF LogTypes
<1>9. InOrder'
  <2>1. \A j \in Inodes : place'[j] = "free" <=> place[j] = "free"
    BY <1>4
  <2> QED
    BY <2>1 DEF LogInv, InOrder
<1>10. OnePath'
  BY <1>4 DEF LogInv, OnePath
<1>11. Zipped'
  <2>1. \A j \in Inodes : place[j] = "path" => zip[j] = NoFile
    BY DEF LogInv, Zipped
  <2> QED
    BY <1>1, <1>4, <2>1 DEF LogInv, Zipped, LogTypes
<1>12. Opened'
  <2>1. HasFile' => IsOpen(log.fd)'
    BY <1>1, <1>2, <1>3 DEF LogInv, Opened, IsOpen, HasFile
  <2>2. ASSUME NEW q \in Appliers, opening'[q].next # NoFile
        PROVE  IsOpen(opening[q].next.fd)' /\ ~opening'[q].next.err
    <3>1. opening' = opening /\ IsOpen(opening[q].next.fd) /\ ~opening[q].next.err
      BY <1>1, <2>2 DEF LogInv, Opened
    <3>2. UNCHANGED <<place, split>> \/ split'
      BY <1>1, <1>6, <2>2
    <3> QED
      BY <1>4, <3>1, <3>2 DEF IsOpen
  <2> QED
    BY <2>1, <2>2 DEF Opened
<1>13. Copied'
  BY <1>1, <1>7 DEF LogInv, Copied
<1>14. Broken'
  BY <1>1 DEF Broken
<1>15. NoEntryLost'
  <2>1. ~(split' /\ Gzip) => ~(split /\ Gzip)
    BY <1>7
  <2> QED
    BY <1>1, <1>4, <2>1 DEF LogInv, NoEntryLost
<1> QED
  BY <1>8, <1>9, <1>10, <1>11, <1>12, <1>13, <1>14, <1>15 DEF LogInv

(* The background compression and the end of the process. *)
LEMMA ZipStep ==
  ASSUME LogInv, NEW i \in Inodes, Compress(i) \/ RemoveOriginal(i) \/ gzipFails(i) PROVE LogInv'
<1>1. /\ LogTypes /\ UNCHANGED <<text, log, opening, written, failed, split>>
      /\ i \in zipping /\ zipping' \subseteq zipping /\ place[i] = "rotated" /\ Gzip
  BY LogConstants DEF LogInv, Zipped, Compress, RemoveOriginal, gzipFails
<1>2. /\ zip' \in [Inodes -> (SUBSET Nat) \cup {NoFile}]
      /\ zip'[i] \in {zip[i], text[i]} /\ (zip[i] # NoFile => zip'[i] = zip[i])
      /\ \A j \in Inodes \ {i} : zip'[j] = zip[j] /\ place'[j] = place[j]
  BY <1>1 DEF LogTypes, Compress, RemoveOriginal, gzipFails
<1>3. /\ place' \in [Inodes -> {"free", "path", "rotated", "unlinked"}]
      /\ place'[i] \in {"rotated", "unlinked"}
      /\ place'[i] = "unlinked" => zip'[i] # NoFile /\ zip' = zip /\ i \notin zipping'
  BY <1>1 DEF LogTypes, Compress, RemoveOriginal, gzipFails
<1>4. LogTypes'
  BY <1>1, <1>2, <1>3 DEF LogTypes
<1>5. InOrder'
  <2>1. \A j \in Inodes : place'[j] = "free" <=> place[j] = "free"
    BY <1>1, <1>2, <1>3
  <2> QED
    BY <2>1 DEF LogInv, InOrder
<1>6. OnePath'
  BY <1>1, <1>2, <1>3 DEF LogInv, OnePath
<1>7. Zipped'
  BY <1>1, <1>2, <1>3, LogConstants DEF LogInv, Zipped, LogTypes
<1>8. Opened'
  <2>1. \A fd : IsOpen(fd) => (fd \in Inodes /\ place'[fd] # "free" /\ (~split' => place'[fd] = "path"))
    BY <1>1, <1>2, <1>3 DEF IsOpen
  <2>2. HasFile' => IsOpen(log.fd)'
    BY <1>1, <2>1 DEF LogInv, Opened, IsOpen, HasFile
  <2>3. ASSUME NEW q \in Appliers, opening'[q].next # NoFile
        PROVE  IsOpen(opening[q].next.fd)' /\ ~opening'[q].next.err
    BY <1>1, <2>1, <2>3 DEF LogInv, Opened, IsOpen
  <2> QED
    BY <2>2, <2>3 DEF Opened
<1>9. Copied'
  BY <1>1, <1>2 DEF LogInv, Copied
<1>10. Broken'
  BY <1>1 DEF LogInv, Broken
<1>11. NoEntryLost'
  <2> SUFFICES ASSUME ~(split /\ Gzip), NEW e \in 1..written
               PROVE  \E j \in Inodes : \/ place'[j] \in {"path", "rotated"} /\ e \in text[j]
                                        \/ zip'[j] # NoFile /\ e \in zip'[j]
    BY <1>1 DEF NoEntryLost
  <2>1. PICK j \in Inodes : \/ place[j] \in {"path", "rotated"} /\ e \in text[j]
                            \/ zip[j] # NoFile /\ e \in zip[j]
    BY EntryFound
  <2>2. CASE j # i
    BY <1>2, <2>1, <2>2
  <2>3. CASE j = i
    <3>1. zip[i] # NoFile => text[i] \subseteq zip[i]
      BY DEF LogInv, Copied
    <3> QED
      BY <1>1, <1>2, <1>3, <2>1, <2>3, <3>1
  <2> QED
    BY <2>2, <2>3
<1> QED
  BY <1>4, <1>5, <1>6, <1>7, <1>8, <1>9, <1>10, <1>11 DEF LogInv

LEMMA LogStep == LogInv /\ [LogNext]_logVars => LogInv'
<1> SUFFICES ASSUME LogInv, [LogNext]_logVars PROVE LogInv'
  OBVIOUS
<1>1. CASE LogRestart
  <2>1. /\ log' = NoFile /\ opening' = [p \in Appliers |-> NotOpening] /\ zipping' = {} /\ failed' = FALSE
        /\ UNCHANGED <<place, text, zip, written, split>>
    BY <1>1 DEF LogRestart
  <2>2. LogTypes'
    <3>1. opening' \in [Appliers -> [at : {"idle", "swap"}, next : LogFile \cup {NoFile}]]
      BY <2>1 DEF NotOpening
    <3> QED
      BY <2>1, <3>1 DEF LogInv, LogTypes
  <2>3. InOrder' /\ OnePath' /\ Zipped' /\ Copied' /\ NoEntryLost'
    BY <2>1 DEF LogInv, InOrder, OnePath, Zipped, Copied, NoEntryLost
  <2>4. Opened' /\ Broken'
    BY <2>1 DEF Opened, Broken, HasFile, NotOpening
  <2> QED
    BY <2>2, <2>3, <2>4 DEF LogInv
<1>2. CASE UNCHANGED logVars
  BY <1>2 DEF logVars, logDisk, LogInv, LogTypes, InOrder, OnePath, Zipped, Opened, IsOpen, Copied, Broken,
              NoEntryLost, HasFile
<1> QED
  BY <1>1, <1>2, NewRotatorStep, SwapStep, RotateStep, WriteStep, FailStep, ZipStep DEF LogNext

(* Where the files of the log are, and what they have, through every order *)
(* of writes, rotations, compressions, reconfigurations and failures.      *)
THEOREM LogInvariant == LogSpec => []LogInv
  BY LogInitInv, LogStep, PTL DEF LogSpec

(* Every entry that write accepted is in a file of the log or in its       *)
(* compressed copy, unless two reconfigurations split the log while it is  *)
(* compressed (rotate.go:72).                                              *)
THEOREM NoEntryLostAlways == LogSpec => []NoEntryLost
<1>1. LogInv => NoEntryLost
  BY DEF LogInv
<1> QED
  BY <1>1, LogInvariant, PTL

(* An enabled log is without a usable file only after a failure, and       *)
(* appends to the file that has the log's name.                            *)
THEOREM RefusesOnlyBrokenAlways == LogSpec => []RefusesOnlyBroken
<1>1. LogInv => RefusesOnlyBroken
  <2> SUFFICES ASSUME LogInv PROVE RefusesOnlyBroken
    OBVIOUS
  <2>1. Cardinality(Places("path")) <= 1
    <3>1. CASE Places("path") = {}
      BY <3>1, FS_EmptySet
    <3>2. CASE Places("path") # {}
      <4>1. PICK i \in Inodes : Places("path") = {i}
        BY <3>2 DEF Places, LogInv, OnePath
      <4>2. Cardinality({i}) = 1
        BY FS_Singleton
      <4> QED
        BY <4>1, <4>2
    <3> QED
      BY <3>1, <3>2
  <2> QED
    BY <2>1 DEF LogInv, RefusesOnlyBroken, Broken, Opened, IsOpen
<1> QED
  BY <1>1, LogInvariant, PTL

(***************************************************************************)
(* The subscribers of the log.                                             *)
(***************************************************************************)
Stages == {"try", "drop", "again"}
Subscription == [at : Stages \cup {"off", "on"}, buf : Seq(Nat), backlog : Seq(Nat), got : SUBSET Nat,
                 from : Nat, mixed : BOOLEAN]

(* Entries are published ones, and reach a subscription once. *)
Numbered(buf, backlog, got, p) ==
    /\ \A k \in 1..Len(buf) : buf[k] \in 1..p /\ buf[k] \notin got
    /\ \A k \in 1..Len(backlog) : backlog[k] \in 1..p /\ backlog[k] \notin got
    /\ \A g \in got : g \in 1..p
Distinct(buf, backlog) ==
    /\ \A j, k \in 1..Len(buf) : buf[j] = buf[k] => j = k
    /\ \A j, k \in 1..Len(backlog) : backlog[j] = backlog[k] => j = k
    /\ \A j \in 1..Len(buf), k \in 1..Len(backlog) : buf[j] # backlog[k]

(* What publish has still to send is nowhere yet. *)
Absent(buf, backlog, got, e) ==
    /\ e > 0 /\ e \notin got
    /\ \A k \in 1..Len(buf) : buf[k] # e
    /\ \A k \in 1..Len(backlog) : backlog[k] # e

(* The order that a replay keeps which no publish disturbs. *)
Sorted(buf, backlog, got) ==
    /\ \A j, k \in 1..Len(buf) : j < k => buf[j] < buf[k]
    /\ \A j, k \in 1..Len(backlog) : j < k => backlog[j] < backlog[k]
    /\ \A j \in 1..Len(buf), k \in 1..Len(backlog) : buf[j] < backlog[k]
    /\ \A g \in got, k \in 1..Len(buf) : g < buf[k]

(* The stages of a subscription. *)
Staged(c, q) == /\ Len(c.buf) <= BufSize
                /\ c.at = "off" => q = "done"
                /\ c.at \in Stages <=> c.backlog # <<>>
                /\ c.at \in Stages => c.got = {}

(* Nothing was published during the replay: all is in order, and the       *)
(* newest entry is there once it is sent.                                  *)
Newest(c, q, p) ==
    /\ c.at \in Stages => c.from = p + 1 /\ q = "done"
    /\ c.at = "on" /\ p >= c.from /\ q = "done" =>
          p \in c.got \/ \E k \in 1..Len(c.buf) : c.buf[k] = p
    /\ q = "again" => Len(c.buf) < BufSize

SubInv(c, q, p) == /\ c \in Subscription /\ q \in Stages \cup {"done"}
                   /\ Numbered(c.buf, c.backlog, c.got, p) /\ Distinct(c.buf, c.backlog)
                   /\ q # "done" => Absent(c.buf, c.backlog, c.got, p)
                   /\ Staged(c, q)
                   /\ ~c.mixed => Sorted(c.buf, c.backlog, c.got) /\ Newest(c, q, p)

FanoutInv == /\ pub \in Nat
             /\ pend \in [Subs -> Stages \cup {"done"}] /\ sub \in [Subs -> Subscription]
             /\ \A s \in Subs : SubInv(sub[s], pend[s], pub)

LEMMA FanoutConstants == MaxPublish \in Nat /\ RingSize \in Nat /\ BufSize \in Nat /\ BufSize > 0
  BY FanoutAssumption

(* One stage of dropOldestSend: the entry is appended, or the oldest ones  *)
(* dropped, or the channel is full and stays as it is.                     *)
LEMMA SentBuffer ==
  ASSUME NEW buf \in Seq(Nat), Len(buf) <= BufSize, NEW e \in Nat, NEW stage \in Stages
  PROVE  LET nb == Sent(buf, e, stage)
             nx == NextStage(buf, stage)
         IN  /\ nb \in Seq(Nat) /\ Len(nb) <= BufSize /\ nx \in Stages \cup {"done"}
             /\ \/ /\ nx = "done" /\ nb = Append(buf, e)
                \/ /\ nx = "done" /\ nb = buf /\ stage = "again" /\ Len(buf) >= BufSize
                \/ /\ nx = "drop" /\ nb = buf
                \/ /\ nx = "again" /\ Len(nb) < BufSize /\ ((nb = Tail(buf) /\ buf # <<>>) \/ nb = buf)
<1>1. CASE stage \in {"try", "again"} /\ Len(buf) < BufSize
  BY <1>1, FanoutConstants DEF Sent, NextStage, Stages
<1>2. CASE stage \in {"try", "again"} /\ ~(Len(buf) < BufSize)
  BY <1>2, FanoutConstants DEF Sent, NextStage, Stages
<1>3. CASE stage = "drop"
  BY <1>3, FanoutConstants DEF Sent, NextStage, Stages
<1> QED
  BY <1>1, <1>2, <1>3 DEF Stages

LEMMA TailAt ==
  ASSUME NEW s \in Seq(Nat), s # <<>>
  PROVE  /\ Tail(s) \in Seq(Nat) /\ Len(s) \in Nat /\ Len(s) > 0 /\ Len(Tail(s)) = Len(s) - 1
         /\ \A k \in 1..Len(Tail(s)) : k \in Nat /\ k + 1 \in 1..Len(s) /\ Tail(s)[k] = s[k + 1]
         /\ Head(s) = s[1] /\ 1 \in 1..Len(s)
         /\ (Tail(s) # <<>> <=> Len(s) # 1)
<1>1. Tail(s) \in Seq(Nat) /\ Len(s) \in Nat /\ Len(s) > 0 /\ Len(Tail(s)) = Len(s) - 1 /\ Head(s) = s[1]
  OBVIOUS
<1>2. Tail(s) # <<>> <=> Len(Tail(s)) # 0
  <2> DEFINE t == Tail(s)
  <2>1. t \in Seq(Nat)
    BY <1>1
  <2> HIDE DEF t
  <2>2. t # <<>> <=> Len(t) # 0
    BY <2>1
  <2> QED
    BY <2>2 DEF t
<1>3. \A k \in 1..(Len(s) - 1) : Tail(s)[k] = s[k + 1]
  OBVIOUS
<1> QED
  BY <1>1, <1>2, <1>3, SMTT(30)

(* What dropping, appending and moving on in the backlog keep. *)
LEMMA Dropped ==
  ASSUME NEW buf \in Seq(Nat), NEW backlog \in Seq(Nat), NEW got \in SUBSET Nat, NEW p \in Nat, NEW e \in Nat,
         NEW nb \in Seq(Nat), nb = buf \/ (nb = Tail(buf) /\ buf # <<>>),
         Numbered(buf, backlog, got, p), Distinct(buf, backlog)
  PROVE  /\ Numbered(nb, backlog, got, p) /\ Distinct(nb, backlog)
         /\ Absent(buf, backlog, got, e) => Absent(nb, backlog, got, e)
         /\ Sorted(buf, backlog, got) => Sorted(nb, backlog, got)
<1>1. CASE nb = buf
  BY <1>1
<1>2. CASE nb = Tail(buf) /\ buf # <<>>
  <2>1. Len(nb) = Len(buf) - 1 /\ Len(buf) \in Nat /\ Len(buf) > 0
    BY <1>2, TailAt
  <2>2. \A k \in 1..Len(nb) : k \in Nat /\ k + 1 \in 1..Len(buf) /\ nb[k] = buf[k + 1]
    BY <1>2, TailAt
  <2>3. Numbered(nb, backlog, got, p)
    BY <2>1, <2>2 DEF Numbered
  <2>4. Distinct(nb, backlog)
    <3>1. ASSUME NEW j \in 1..Len(nb), NEW k \in 1..Len(nb), nb[j] = nb[k] PROVE j = k
      <4>1. j + 1 = k + 1
        BY <2>2, <3>1 DEF Distinct
      <4> QED
        BY <4>1
    <3>2. \A j \in 1..Len(nb), k \in 1..Len(backlog) : nb[j] # backlog[k]
      BY <2>2 DEF Distinct
    <3> QED
      BY <3>1, <3>2 DEF Distinct
  <2>5. Absent(buf, backlog, got, e) => Absent(nb, backlog, got, e)
    BY <2>1, <2>2 DEF Absent
  <2>6. Sorted(buf, backlog, got) => Sorted(nb, backlog, got)
    <3> SUFFICES ASSUME Sorted(buf, backlog, got) PROVE Sorted(nb, backlog, got)
      OBVIOUS
    <3>1. ASSUME NEW j \in 1..Len(nb), NEW k \in 1..Len(nb), j < k PROVE nb[j] < nb[k]
      <4>1. j + 1 \in 1..Len(buf) /\ k + 1 \in 1..Len(buf) /\ j + 1 < k + 1
        BY <2>2, <3>1
      <4> QED
        BY <2>2, <4>1 DEF Sorted
    <3>2. /\ \A j \in 1..Len(nb), k \in 1..Len(backlog) : nb[j] < backlog[k]
          /\ \A g \in got, k \in 1..Len(nb) : g < nb[k]
      BY <2>2 DEF Sorted
    <3>3. \A j, k \in 1..Len(backlog) : j < k => backlog[j] < backlog[k]
      BY DEF Sorted
    <3> QED
      BY <3>1, <3>2, <3>3 DEF Sorted
  <2> QED
    BY <2>3, <2>4, <2>5, <2>6
<1> QED
  BY <1>1, <1>2

LEMMA Appended ==
  ASSUME NEW buf \in Seq(Nat), NEW backlog \in Seq(Nat), NEW got \in SUBSET Nat, NEW p \in Nat, NEW e \in 1..p,
         Numbered(buf, backlog, got, p), Distinct(buf, backlog), Absent(buf, backlog, got, e)
  PROVE  /\ Numbered(Append(buf, e), backlog, got, p) /\ Distinct(Append(buf, e), backlog)
         /\ \A f \in Nat : Absent(buf, backlog, got, f) /\ f # e => Absent(Append(buf, e), backlog, got, f)
         /\ /\ Sorted(buf, backlog, got)
            /\ \A k \in 1..Len(buf) : buf[k] < e
            /\ \A k \in 1..Len(backlog) : e < backlog[k]
            /\ \A g \in got : g < e
            => Sorted(Append(buf, e), backlog, got)
<1> DEFINE nb == Append(buf, e)
<1>1. /\ Len(nb) = Len(buf) + 1 /\ Len(buf) \in Nat /\ nb[Len(buf) + 1] = e
      /\ \A k \in 1..Len(buf) : nb[k] = buf[k]
  OBVIOUS
<1>2. \A k \in 1..Len(nb) : k \in 1..Len(buf) \/ k = Len(buf) + 1
  BY <1>1
<1> HIDE DEF nb
<1>3. Numbered(nb, backlog, got, p)
  BY <1>1, <1>2 DEF Numbered, Absent
<1>4. Distinct(nb, backlog)
  BY <1>1, <1>2, ZenonT(30) DEF Distinct, Absent
<1>5. \A f \in Nat : Absent(buf, backlog, got, f) /\ f # e => Absent(nb, backlog, got, f)
  BY <1>1, <1>2 DEF Absent
<1>6. /\ Sorted(buf, backlog, got)
      /\ \A k \in 1..Len(buf) : buf[k] < e
      /\ \A k \in 1..Len(backlog) : e < backlog[k]
      /\ \A g \in got : g < e
      => Sorted(nb, backlog, got)
  <2> SUFFICES ASSUME /\ Sorted(buf, backlog, got)
                      /\ \A k \in 1..Len(buf) : buf[k] < e
                      /\ \A k \in 1..Len(backlog) : e < backlog[k]
                      /\ \A g \in got : g < e
               PROVE  Sorted(nb, backlog, got)
    OBVIOUS
  <2>1. ASSUME NEW j \in 1..Len(nb), NEW k \in 1..Len(nb), j < k PROVE nb[j] < nb[k]
    <3>1. j \in 1..Len(buf)
      BY <1>1, <2>1
    <3>2. CASE k \in 1..Len(buf)
      BY <1>1, <2>1, <3>1, <3>2 DEF Sorted
    <3>3. CASE k = Len(buf) + 1
      BY <1>1, <3>1, <3>3
    <3> QED
      BY <1>2, <3>2, <3>3
  <2>2. /\ \A j \in 1..Len(nb), k \in 1..Len(backlog) : nb[j] < backlog[k]
        /\ \A g \in got, k \in 1..Len(nb) : g < nb[k]
    BY <1>1, <1>2 DEF Sorted
  <2>3. \A j, k \in 1..Len(backlog) : j < k => backlog[j] < backlog[k]
    BY DEF Sorted
  <2> QED
    BY <2>1, <2>2, <2>3 DEF Sorted
<1> QED
  BY <1>3, <1>4, <1>5, <1>6 DEF nb

LEMMA MovedOn ==
  ASSUME NEW buf \in Seq(Nat), NEW backlog \in Seq(Nat), NEW got \in SUBSET Nat, NEW p \in Nat, backlog # <<>>,
         Numbered(buf, backlog, got, p), Distinct(buf, backlog)
  PROVE  LET nb == Tail(backlog)
             e == Head(backlog)
         IN  /\ nb \in Seq(Nat) /\ e \in 1..p
             /\ Numbered(buf, nb, got, p) /\ Distinct(buf, nb)
             /\ Absent(buf, nb, got, e)
             /\ \A f \in Nat : Absent(buf, backlog, got, f) => Absent(buf, nb, got, f) /\ f # e
             /\ Sorted(buf, backlog, got) => /\ Sorted(buf, nb, got)
                                             /\ \A k \in 1..Len(buf) : buf[k] < e
                                             /\ \A k \in 1..Len(nb) : e < nb[k]
<1> DEFINE nb == Tail(backlog)
           e == Head(backlog)
<1>1. /\ Len(nb) = Len(backlog) - 1 /\ Len(backlog) \in Nat /\ Len(backlog) > 0 /\ nb \in Seq(Nat)
      /\ e = backlog[1] /\ 1 \in 1..Len(backlog) /\ e \in Nat
      /\ (nb # <<>> <=> Len(backlog) # 1)
  <2>1. /\ Len(nb) = Len(backlog) - 1 /\ Len(backlog) \in Nat /\ Len(backlog) > 0 /\ nb \in Seq(Nat)
        /\ e = backlog[1] /\ 1 \in 1..Len(backlog)
        /\ (nb # <<>> <=> Len(backlog) # 1)
    BY TailAt
  <2>2. backlog[1] \in Nat
    BY <2>1
  <2> QED
    BY <2>1, <2>2
<1>2. \A k \in 1..Len(nb) : k \in Nat /\ k > 0 /\ k + 1 \in 1..Len(backlog) /\ nb[k] = backlog[k + 1]
  BY TailAt
<1> HIDE DEF nb, e
<1>4. Numbered(buf, nb, got, p) /\ e \in 1..p /\ e \notin got
  <2>1. \A k \in 1..Len(nb) : nb[k] \in 1..p /\ nb[k] \notin got
    BY <1>2 DEF Numbered
  <2> QED
    BY <1>1, <2>1 DEF Numbered
<1>5. Distinct(buf, nb)
  <2>1. ASSUME NEW j \in 1..Len(nb), NEW k \in 1..Len(nb), nb[j] = nb[k] PROVE j = k
    <3>1. j + 1 = k + 1
      BY <1>2, <2>1 DEF Distinct
    <3> QED
      BY <3>1
  <2>2. \A j \in 1..Len(buf), k \in 1..Len(nb) : buf[j] # nb[k]
    BY <1>2 DEF Distinct
  <2> QED
    BY <2>1, <2>2 DEF Distinct
<1>6. Absent(buf, nb, got, e)
  BY <1>1, <1>2, <1>4 DEF Absent, Distinct
<1>7. \A f \in Nat : Absent(buf, backlog, got, f) => Absent(buf, nb, got, f) /\ f # e
  BY <1>1, <1>2 DEF Absent
<1>8. Sorted(buf, backlog, got) => /\ Sorted(buf, nb, got)
                                   /\ \A k \in 1..Len(buf) : buf[k] < e
                                   /\ \A k \in 1..Len(nb) : e < nb[k]
  <2> SUFFICES ASSUME Sorted(buf, backlog, got)
               PROVE  /\ Sorted(buf, nb, got)
                      /\ \A k \in 1..Len(buf) : buf[k] < e
                      /\ \A k \in 1..Len(nb) : e < nb[k]
    OBVIOUS
  <2>1. ASSUME NEW j \in 1..Len(nb), NEW k \in 1..Len(nb), j < k PROVE nb[j] < nb[k]
    <3>1. j + 1 \in 1..Len(backlog) /\ k + 1 \in 1..Len(backlog) /\ j + 1 < k + 1
      BY <1>2, <2>1
    <3> QED
      BY <1>2, <3>1 DEF Sorted
  <2>2. \A j \in 1..Len(buf), k \in 1..Len(nb) : buf[j] < nb[k]
    BY <1>2 DEF Sorted
  <2>3. \A k \in 1..Len(buf) : buf[k] < e
    BY <1>1 DEF Sorted
  <2>4. ASSUME NEW k \in 1..Len(nb) PROVE e < nb[k]
    <3>1. k + 1 \in 1..Len(backlog) /\ 1 < k + 1 /\ nb[k] = backlog[k + 1]
      BY <1>2
    <3> QED
      BY <1>1, <3>1 DEF Sorted
  <2> QED
    BY <2>1, <2>2, <2>3, <2>4 DEF Sorted
<1>9. nb \in Seq(Nat) /\ e \in 1..p /\ Numbered(buf, nb, got, p) /\ Distinct(buf, nb)
  BY <1>1, <1>4, <1>5
<1> QED
  BY <1>6, <1>7, <1>8, <1>9 DEF nb, e

(* publish sends its entry to a subscription, one stage. *)
LEMMA SendSub ==
  ASSUME NEW p \in Nat, NEW c, NEW q \in Stages, SubInv(c, q, p),
         NEW d \in Subscription, d.buf = Sent(c.buf, p, q), d.backlog = c.backlog, d.got = c.got,
         d.at = c.at, d.from = c.from, d.mixed = c.mixed
  PROVE  SubInv(d, NextStage(c.buf, q), p)
<1> DEFINE nx == NextStage(c.buf, q)
<1>1. /\ Numbered(c.buf, c.backlog, c.got, p) /\ Distinct(c.buf, c.backlog)
      /\ Absent(c.buf, c.backlog, c.got, p) /\ Staged(c, q)
      /\ ~c.mixed => Sorted(c.buf, c.backlog, c.got) /\ Newest(c, q, p)
      /\ q # "done"
  BY DEF SubInv, Stages
<1>2. /\ c.buf \in Seq(Nat) /\ c.backlog \in Seq(Nat) /\ c.got \in SUBSET Nat /\ Len(c.buf) <= BufSize
      /\ c.mixed \in BOOLEAN /\ c.from \in Nat
  BY <1>1 DEF Subscription, Staged, SubInv
<1>3. /\ d.buf \in Seq(Nat) /\ Len(d.buf) <= BufSize /\ nx \in Stages \cup {"done"}
      /\ \/ /\ nx = "done" /\ d.buf = Append(c.buf, p)
         \/ /\ nx = "done" /\ d.buf = c.buf /\ q = "again" /\ Len(c.buf) >= BufSize
         \/ /\ nx = "drop" /\ d.buf = c.buf
         \/ /\ nx = "again" /\ Len(d.buf) < BufSize /\ ((d.buf = Tail(c.buf) /\ c.buf # <<>>) \/ d.buf = c.buf)
  BY <1>2, SentBuffer, ZenonT(30)
<1> HIDE DEF nx
<1>4. Staged(d, nx)
  BY <1>1, <1>3 DEF Staged
<1>5. ~c.mixed => c.at \notin Stages /\ c.backlog = <<>>
  BY <1>1 DEF Newest, Staged
<1>6. CASE nx = "done" /\ d.buf = Append(c.buf, p)
  <2>1. p \in 1..p
    BY <1>1 DEF Absent
  <2>2. /\ \A k \in 1..Len(c.buf) : c.buf[k] < p
        /\ \A g \in c.got : g < p
    BY <1>1, <1>2 DEF Numbered, Absent
  <2>3. Numbered(d.buf, d.backlog, d.got, p) /\ Distinct(d.buf, d.backlog)
    BY <1>1, <1>2, <1>6, <2>1, Appended, ZenonT(30)
  <2>4. ~d.mixed => Sorted(d.buf, d.backlog, d.got)
    <3>1. ~c.mixed => \A k \in 1..Len(c.backlog) : p < c.backlog[k]
      BY <1>5
    <3> QED
      BY <1>1, <1>2, <1>6, <2>1, <2>2, <3>1, Appended, ZenonT(30)
  <2>5. ~d.mixed => Newest(d, nx, p)
    <3>1. Len(c.buf) + 1 \in 1..Len(d.buf) /\ d.buf[Len(c.buf) + 1] = p
      BY <1>2, <1>6
    <3> QED
      BY <1>5, <1>6, <3>1 DEF Newest
  <2> QED
    BY <1>3, <1>4, <1>6, <2>3, <2>4, <2>5 DEF SubInv, nx
<1>7. CASE ~(nx = "done" /\ d.buf = Append(c.buf, p))
  <2>1. d.buf = c.buf \/ (d.buf = Tail(c.buf) /\ c.buf # <<>>)
    BY <1>3, <1>7
  <2>2. /\ Numbered(d.buf, d.backlog, d.got, p) /\ Distinct(d.buf, d.backlog)
        /\ Absent(d.buf, d.backlog, d.got, p)
        /\ ~d.mixed => Sorted(d.buf, d.backlog, d.got)
    BY <1>1, <1>2, <1>3, <2>1, Dropped
  <2>3. ~d.mixed => Newest(d, nx, p)
    <3>1. ~d.mixed => nx # "done"
      BY <1>1, <1>2, <1>3, <1>7, FanoutConstants, SMTT(30) DEF Newest
    <3> QED
      BY <1>3, <1>5, <3>1 DEF Newest
  <2> QED
    BY <1>3, <1>4, <2>2, <2>3 DEF SubInv, nx
<1> QED
  BY <1>6, <1>7

(* subscribe replays the ring, one stage. *)
LEMMA ReplaySub ==
  ASSUME NEW p \in Nat, NEW c, NEW q, SubInv(c, q, p), c.at \in Stages,
         NEW d \in Subscription, d.buf = Sent(c.buf, Head(c.backlog), c.at), d.got = c.got,
         d.from = c.from, d.mixed = c.mixed,
         IF NextStage(c.buf, c.at) # "done"
         THEN d.backlog = c.backlog /\ d.at = NextStage(c.buf, c.at)
         ELSE d.backlog = Tail(c.backlog) /\ d.at = (IF Len(c.backlog) = 1 THEN "on" ELSE "try")
  PROVE  SubInv(d, q, p)
<1> DEFINE nx == NextStage(c.buf, c.at)
           e == Head(c.backlog)
           rest == Tail(c.backlog)
<1>1. /\ Numbered(c.buf, c.backlog, c.got, p) /\ Distinct(c.buf, c.backlog)
      /\ q # "done" => Absent(c.buf, c.backlog, c.got, p)
      /\ Staged(c, q)
      /\ ~c.mixed => Sorted(c.buf, c.backlog, c.got) /\ Newest(c, q, p)
      /\ q \in Stages \cup {"done"}
  BY DEF SubInv
<1>0. c.got = {}
  BY <1>1 DEF Staged
<1>2. /\ c.buf \in Seq(Nat) /\ c.backlog \in Seq(Nat) /\ c.got \in SUBSET Nat
      /\ Len(c.buf) <= BufSize /\ c.mixed \in BOOLEAN /\ c.from \in Nat /\ c.backlog # <<>>
  BY <1>1 DEF Subscription, Staged, SubInv
<1>10. rest # <<>> <=> Len(c.backlog) # 1
  BY <1>2, TailAt
<1>3. /\ rest \in Seq(Nat) /\ e \in 1..p
      /\ Numbered(c.buf, rest, c.got, p) /\ Distinct(c.buf, rest)
      /\ Absent(c.buf, rest, c.got, e)
      /\ \A f \in Nat : Absent(c.buf, c.backlog, c.got, f) => Absent(c.buf, rest, c.got, f) /\ f # e
      /\ Sorted(c.buf, c.backlog, c.got) => /\ Sorted(c.buf, rest, c.got)
                                            /\ \A k \in 1..Len(c.buf) : c.buf[k] < e
                                            /\ \A k \in 1..Len(rest) : e < rest[k]
  BY <1>1, <1>2, MovedOn
<1>4. /\ d.buf \in Seq(Nat) /\ Len(d.buf) <= BufSize /\ nx \in Stages \cup {"done"}
      /\ \/ /\ nx = "done" /\ d.buf = Append(c.buf, e)
         \/ /\ nx = "done" /\ d.buf = c.buf
         \/ /\ nx = "drop" /\ d.buf = c.buf
         \/ /\ nx = "again" /\ ((d.buf = Tail(c.buf) /\ c.buf # <<>>) \/ d.buf = c.buf)
  <2>1. e \in Nat
    BY <1>3
  <2> HIDE DEF e
  <2>2. d.buf = Sent(c.buf, e, c.at)
    BY DEF e
  <2>3. /\ Sent(c.buf, e, c.at) \in Seq(Nat) /\ Len(Sent(c.buf, e, c.at)) <= BufSize
        /\ nx \in Stages \cup {"done"}
        /\ \/ /\ nx = "done" /\ Sent(c.buf, e, c.at) = Append(c.buf, e)
           \/ /\ nx = "done" /\ Sent(c.buf, e, c.at) = c.buf
           \/ /\ nx = "drop" /\ Sent(c.buf, e, c.at) = c.buf
           \/ /\ nx = "again"
              /\ ((Sent(c.buf, e, c.at) = Tail(c.buf) /\ c.buf # <<>>) \/ Sent(c.buf, e, c.at) = c.buf)
    BY <1>2, <2>1, SentBuffer
  <2> QED
    BY <2>2, <2>3
<1>5. IF nx # "done" THEN d.backlog = c.backlog /\ d.at = nx
      ELSE d.backlog = rest /\ d.at = (IF Len(c.backlog) = 1 THEN "on" ELSE "try")
  OBVIOUS
<1> HIDE DEF nx, e, rest
<1>6. ~c.mixed => c.from = p + 1 /\ q = "done"
  BY <1>1 DEF Newest
<1>7. ~d.mixed => Newest(d, q, p)
  BY <1>2, <1>6 DEF Newest, Stages
<1>8. CASE nx # "done"
  <2>1. d.backlog = c.backlog /\ d.at \in Stages
    BY <1>4, <1>5, <1>8
  <2>2. d.buf = c.buf \/ (d.buf = Tail(c.buf) /\ c.buf # <<>>)
    BY <1>4, <1>8
  <2>3. /\ Numbered(d.buf, d.backlog, d.got, p) /\ Distinct(d.buf, d.backlog)
        /\ q # "done" => Absent(d.buf, d.backlog, d.got, p)
        /\ ~d.mixed => Sorted(d.buf, d.backlog, d.got)
    BY <1>1, <1>2, <1>4, <2>1, <2>2, Dropped
  <2>4. Staged(d, q)
    BY <1>0, <1>2, <1>4, <2>1 DEF Staged, Stages
  <2> QED
    BY <1>1, <1>7, <2>3, <2>4 DEF SubInv
<1>9. CASE nx = "done"
  <2>1. d.backlog = rest /\ d.at = (IF Len(c.backlog) = 1 THEN "on" ELSE "try")
    BY <1>5, <1>9
  <2>2. Staged(d, q)
    BY <1>0, <1>2, <1>4, <1>10, <2>1 DEF Staged, Stages
  <2>3. /\ Numbered(d.buf, d.backlog, d.got, p) /\ Distinct(d.buf, d.backlog)
        /\ q # "done" => Absent(d.buf, d.backlog, d.got, p)
        /\ ~d.mixed => Sorted(d.buf, d.backlog, d.got)
    <3>1. CASE d.buf = c.buf
      BY <1>1, <1>3, <2>1, <3>1
    <3>2. CASE d.buf = Append(c.buf, e)
      <4>1. \A g \in c.got : g < e
        BY <1>0
      <4>2. Numbered(d.buf, d.backlog, d.got, p) /\ Distinct(d.buf, d.backlog)
        <5>1. Numbered(Append(c.buf, e), rest, c.got, p) /\ Distinct(Append(c.buf, e), rest)
          BY <1>2, <1>3, Appended
        <5> QED
          BY <2>1, <3>2, <5>1
      <4>3. q # "done" => Absent(d.buf, d.backlog, d.got, p)
        <5>1. q # "done" => Absent(c.buf, rest, c.got, p) /\ p # e
          BY <1>1, <1>3
        <5>2. q # "done" => Absent(Append(c.buf, e), rest, c.got, p)
          BY <1>2, <1>3, <5>1, Appended
        <5> QED
          BY <2>1, <3>2, <5>2
      <4>4. ~d.mixed => Sorted(d.buf, d.backlog, d.got)
        <5>1. ~c.mixed => /\ Sorted(c.buf, rest, c.got)
                          /\ \A k \in 1..Len(c.buf) : c.buf[k] < e
                          /\ \A k \in 1..Len(rest) : e < rest[k]
          BY <1>1, <1>3
        <5>2. ~c.mixed => Sorted(Append(c.buf, e), rest, c.got)
          BY <1>2, <1>3, <4>1, <5>1, Appended
        <5> QED
          BY <2>1, <3>2, <5>2
      <4> QED
        BY <4>2, <4>3, <4>4
    <3> QED
      BY <1>4, <1>9, <3>1, <3>2
  <2> QED
    BY <1>1, <1>7, <2>2, <2>3 DEF SubInv
<1> QED
  BY <1>8, <1>9
LEMMA ReceiveSub ==
  ASSUME NEW p \in Nat, NEW c, NEW q, SubInv(c, q, p), c.at = "on", c.buf # <<>>,
         NEW d \in Subscription, d.buf = Tail(c.buf), d.got = c.got \cup {Head(c.buf)},
         d.backlog = c.backlog, d.at = c.at, d.from = c.from, d.mixed = c.mixed
  PROVE  SubInv(d, q, p)
<1> DEFINE e == Head(c.buf)
<1>1. /\ Numbered(c.buf, c.backlog, c.got, p) /\ Distinct(c.buf, c.backlog)
      /\ q # "done" => Absent(c.buf, c.backlog, c.got, p)
      /\ Staged(c, q)
      /\ ~c.mixed => Sorted(c.buf, c.backlog, c.got) /\ Newest(c, q, p)
      /\ q \in Stages \cup {"done"}
  BY DEF SubInv
<1>2. /\ c.buf \in Seq(Nat) /\ c.got \in SUBSET Nat /\ Len(c.buf) <= BufSize
      /\ c.mixed \in BOOLEAN /\ c.from \in Nat /\ c.backlog = <<>>
  BY <1>1 DEF Subscription, Staged, SubInv, Stages
<1>3. /\ d.buf \in Seq(Nat) /\ Len(c.buf) \in Nat /\ Len(c.buf) > 0 /\ Len(d.buf) = Len(c.buf) - 1
      /\ \A k \in 1..Len(d.buf) : k \in Nat /\ k + 1 \in 1..Len(c.buf) /\ d.buf[k] = c.buf[k + 1]
      /\ e = c.buf[1] /\ 1 \in 1..Len(c.buf)
  BY <1>2, TailAt
<1> HIDE DEF e
<1>4. e \in Nat /\ e \in 1..p
  BY <1>1, <1>3 DEF Numbered
<1>5. \A k \in 1..Len(d.buf) : d.buf[k] # e
  <2> SUFFICES ASSUME NEW k \in 1..Len(d.buf), d.buf[k] = e PROVE FALSE
    OBVIOUS
  <2>1. k + 1 = 1
    BY <1>1, <1>3 DEF Distinct
  <2> QED
    BY <1>3, <2>1
<1>6. d.got = c.got \cup {e}
  BY DEF e
<1>7. Numbered(d.buf, d.backlog, d.got, p)
  <2>1. \A k \in 1..Len(d.buf) : d.buf[k] \in 1..p /\ d.buf[k] \notin c.got
    BY <1>1, <1>3 DEF Numbered
  <2> QED
    BY <1>1, <1>2, <1>4, <1>5, <1>6, <2>1 DEF Numbered
<1>8. Distinct(d.buf, d.backlog)
  <2>1. ASSUME NEW j \in 1..Len(d.buf), NEW k \in 1..Len(d.buf), d.buf[j] = d.buf[k] PROVE j = k
    <3>1. j + 1 = k + 1
      BY <1>1, <1>3, <2>1 DEF Distinct
    <3> QED
      BY <3>1
  <2> QED
    BY <1>2, <2>1, SMTT(30) DEF Distinct
<1>9. q # "done" => Absent(d.buf, d.backlog, d.got, p)
  BY <1>1, <1>2, <1>3, <1>6 DEF Absent
<1>10. Staged(d, q)
  BY <1>1, <1>2, <1>3, FanoutConstants DEF Staged, Stages
<1>11. ASSUME ~d.mixed PROVE Sorted(d.buf, d.backlog, d.got) /\ Newest(d, q, p)
  <2>1. Sorted(c.buf, c.backlog, c.got) /\ Newest(c, q, p)
    BY <1>1, <1>11
  <2>2. ASSUME NEW j \in 1..Len(d.buf), NEW k \in 1..Len(d.buf), j < k PROVE d.buf[j] < d.buf[k]
    <3>1. j + 1 \in 1..Len(c.buf) /\ k + 1 \in 1..Len(c.buf) /\ j + 1 < k + 1
      BY <1>3, <2>2
    <3> QED
      BY <1>3, <2>1, <3>1 DEF Sorted
  <2>3. \A g \in c.got, k \in 1..Len(d.buf) : g < d.buf[k]
    BY <1>3, <2>1 DEF Sorted
  <2>4. ASSUME NEW k \in 1..Len(d.buf) PROVE e < d.buf[k]
    <3>1. k + 1 \in 1..Len(c.buf) /\ 1 < k + 1 /\ d.buf[k] = c.buf[k + 1]
      BY <1>3, SMTT(30)
    <3> QED
      BY <1>3, <2>1, <3>1 DEF Sorted
  <2>5. Sorted(d.buf, d.backlog, d.got)
    <3>1. Len(d.backlog) = 0
      BY <1>2
    <3>2. \A g \in d.got, k \in 1..Len(d.buf) : g < d.buf[k]
      BY <1>6, <2>3, <2>4
    <3>3. \A k \in 1..Len(d.backlog) : FALSE
      BY <3>1
    <3> QED
      BY <2>2, <3>2, <3>3 DEF Sorted
  <2>6. ASSUME p >= c.from, q = "done" PROVE p \in d.got \/ \E k \in 1..Len(d.buf) : d.buf[k] = p
    <3>1. p \in c.got \/ \E k \in 1..Len(c.buf) : c.buf[k] = p
      BY <2>1, <2>6 DEF Newest
    <3>2. ASSUME NEW k \in 1..Len(c.buf), c.buf[k] = p, k # 1 PROVE \E m \in 1..Len(d.buf) : d.buf[m] = p
      <4>1. k - 1 \in 1..Len(d.buf) /\ (k - 1) + 1 = k
        BY <1>3, <3>2
      <4> QED
        BY <1>3, <3>2, <4>1
    <3> QED
      BY <1>3, <1>6, <3>1, <3>2
  <2>7. Newest(d, q, p)
    <3>1. q = "again" => Len(d.buf) < BufSize
      BY <1>2, <1>3, FanoutConstants
    <3> QED
      BY <2>1, <2>6, <3>1 DEF Newest, Stages
  <2> QED
    BY <2>5, <2>7
<1> QED
  BY <1>1, <1>7, <1>8, <1>9, <1>10, <1>11 DEF SubInv

(* publish takes the next number: it is in no channel yet. *)
LEMMA PublishSub ==
  ASSUME NEW p \in Nat, NEW c, SubInv(c, "done", p),
         NEW d \in Subscription, d.buf = c.buf, d.got = c.got, d.backlog = c.backlog, d.at = c.at, d.from = c.from,
         ~d.mixed => ~c.mixed /\ c.at \notin Stages
  PROVE  SubInv(d, IF c.at = "off" THEN "done" ELSE "try", p + 1)
<1> DEFINE q == IF c.at = "off" THEN "done" ELSE "try"
<1>1. /\ Numbered(c.buf, c.backlog, c.got, p) /\ Distinct(c.buf, c.backlog) /\ Staged(c, "done")
      /\ ~c.mixed => Sorted(c.buf, c.backlog, c.got) /\ Newest(c, "done", p)
      /\ c.buf \in Seq(Nat) /\ c.backlog \in Seq(Nat) /\ c.got \in SUBSET Nat
  BY DEF SubInv, Subscription
<1>2. Numbered(d.buf, d.backlog, d.got, p + 1)
  BY <1>1 DEF Numbered
<1>3. Absent(d.buf, d.backlog, d.got, p + 1)
  BY <1>1 DEF Numbered, Absent
<1>4. q \in Stages \cup {"done"} /\ q # "again" /\ (c.at = "on" => q # "done") /\ (c.at = "off" => q = "done")
  BY DEF Stages
<1> HIDE DEF q
<1>5. Staged(d, q)
  BY <1>1, <1>4 DEF Staged
<1>6. ~d.mixed => Newest(d, q, p + 1)
  BY <1>4 DEF Newest
<1>7. SubInv(d, q, p + 1)
  BY <1>1, <1>2, <1>3, <1>4, <1>5, <1>6 DEF SubInv
<1> QED
  BY <1>7 DEF q
(* Changes of one field. *)
LEMMA SetBuf ==
  ASSUME NEW c \in Subscription, NEW b \in Seq(Nat)
  PROVE  LET d == [c EXCEPT !.buf = b]
         IN  /\ d \in Subscription /\ d.buf = b /\ d.backlog = c.backlog /\ d.got = c.got
             /\ d.at = c.at /\ d.from = c.from /\ d.mixed = c.mixed
  BY DEF Subscription

LEMMA SetAt ==
  ASSUME NEW c \in Subscription, NEW a \in Stages \cup {"off", "on"}
  PROVE  LET d == [c EXCEPT !.at = a]
         IN  /\ d \in Subscription /\ d.buf = c.buf /\ d.backlog = c.backlog /\ d.got = c.got
             /\ d.at = a /\ d.from = c.from /\ d.mixed = c.mixed
  BY DEF Subscription

LEMMA SetBacklog ==
  ASSUME NEW c \in Subscription, NEW b \in Seq(Nat)
  PROVE  LET d == [c EXCEPT !.backlog = b]
         IN  /\ d \in Subscription /\ d.buf = c.buf /\ d.backlog = b /\ d.got = c.got
             /\ d.at = c.at /\ d.from = c.from /\ d.mixed = c.mixed
  BY DEF Subscription

LEMMA SetFrom ==
  ASSUME NEW c \in Subscription, NEW n \in Nat
  PROVE  LET d == [c EXCEPT !.from = n]
         IN  /\ d \in Subscription /\ d.buf = c.buf /\ d.backlog = c.backlog /\ d.got = c.got
             /\ d.at = c.at /\ d.from = n /\ d.mixed = c.mixed
  BY DEF Subscription

LEMMA SetGot ==
  ASSUME NEW c \in Subscription, NEW g \in SUBSET Nat
  PROVE  LET d == [c EXCEPT !.got = g]
         IN  /\ d \in Subscription /\ d.buf = c.buf /\ d.backlog = c.backlog /\ d.got = g
             /\ d.at = c.at /\ d.from = c.from /\ d.mixed = c.mixed
  BY DEF Subscription

LEMMA SetMixed ==
  ASSUME NEW c \in Subscription, NEW m \in BOOLEAN
  PROVE  LET d == [c EXCEPT !.mixed = m]
         IN  /\ d \in Subscription /\ d.buf = c.buf /\ d.backlog = c.backlog /\ d.got = c.got
             /\ d.at = c.at /\ d.from = c.from /\ d.mixed = m
  BY DEF Subscription

(* A step of one subscription. *)
LEMMA OneSub ==
  ASSUME FanoutInv, NEW s \in Subs, NEW d, NEW q, SubInv(d, q, pub), pub' = pub,
         sub' = [sub EXCEPT ![s] = d], pend' = [pend EXCEPT ![s] = q]
  PROVE  FanoutInv'
<1>1. d \in Subscription /\ q \in Stages \cup {"done"}
  BY DEF SubInv
<1>2. /\ pend \in [Subs -> Stages \cup {"done"}] /\ sub \in [Subs -> Subscription] /\ pub \in Nat
      /\ \A t \in Subs : SubInv(sub[t], pend[t], pub)
  BY DEF FanoutInv
<1>3. pend' \in [Subs -> Stages \cup {"done"}] /\ sub' \in [Subs -> Subscription]
  BY <1>1, <1>2
<1>4. \A t \in Subs : SubInv(sub'[t], pend'[t], pub')
  BY <1>2
<1> QED
  BY <1>2, <1>3, <1>4 DEF FanoutInv

LEMMA SendStep == ASSUME FanoutInv, NEW s \in Subs, Send(s) PROVE FanoutInv'
<1> DEFINE c == sub[s]
           d == [c EXCEPT !.buf = Sent(c.buf, pub, pend[s])]
<1>1. /\ pub \in Nat /\ c \in Subscription /\ SubInv(c, pend[s], pub) /\ pend[s] \in Stages
      /\ c.buf \in Seq(Nat) /\ Len(c.buf) <= BufSize
  BY DEF FanoutInv, Send, Subscription, SubInv, Staged
<1>2. Sent(c.buf, pub, pend[s]) \in Seq(Nat)
  BY <1>1, SentBuffer
<1>3. sub' = [sub EXCEPT ![s] = d]
  BY DEF Send
<1>4. /\ d \in Subscription /\ d.buf = Sent(c.buf, pub, pend[s]) /\ d.backlog = c.backlog /\ d.got = c.got
      /\ d.at = c.at /\ d.from = c.from /\ d.mixed = c.mixed
  BY <1>1, <1>2, SetBuf
<1>5. pend' = [pend EXCEPT ![s] = NextStage(c.buf, pend[s])] /\ pub' = pub
  BY DEF Send
<1> HIDE DEF c, d
<1>6. SubInv(d, NextStage(c.buf, pend[s]), pub)
  BY <1>1, <1>4, SendSub
<1> QED
  BY <1>3, <1>5, <1>6, OneSub

LEMMA ReplayStep == ASSUME FanoutInv, NEW s \in Subs, Replay(s) PROVE FanoutInv'
<1> DEFINE c == sub[s]
           next == NextStage(c.buf, c.at)
           b == Sent(c.buf, Head(c.backlog), c.at)
           sending == [c EXCEPT !.buf = b]
           at == IF Len(c.backlog) = 1 THEN "on" ELSE "try"
           d == IF next # "done" THEN [sending EXCEPT !.at = next]
                ELSE [sending EXCEPT !.backlog = Tail(c.backlog), !.at = at]
<1>1. /\ pub \in Nat /\ c \in Subscription /\ SubInv(c, pend[s], pub) /\ c.at \in Stages
      /\ c.buf \in Seq(Nat) /\ Len(c.buf) <= BufSize /\ c.backlog \in Seq(Nat) /\ c.backlog # <<>>
      /\ pend \in [Subs -> Stages \cup {"done"}]
  BY DEF FanoutInv, Replay, Subscription, SubInv, Staged, Stages
<1>2. pub' = pub /\ pend' = pend /\ sub' = [sub EXCEPT ![s] = d]
  BY DEF Replay
<1>3. Tail(c.backlog) \in Seq(Nat) /\ Head(c.backlog) \in Nat
  BY <1>1
<1>4. b \in Seq(Nat) /\ next \in Stages \cup {"done"}
  BY <1>1, <1>3, SentBuffer
<1> HIDE DEF next, b
<1>5. /\ sending \in Subscription /\ sending.buf = b /\ sending.backlog = c.backlog /\ sending.got = c.got
      /\ sending.at = c.at /\ sending.from = c.from /\ sending.mixed = c.mixed
  BY <1>1, <1>4, SetBuf
<1> HIDE DEF sending
<1>6. CASE next # "done"
  <2>1. /\ d \in Subscription /\ d.buf = b /\ d.backlog = c.backlog /\ d.got = c.got
        /\ d.at = next /\ d.from = c.from /\ d.mixed = c.mixed
    BY <1>4, <1>5, <1>6, SetAt
  <2> HIDE DEF d, c
  <2>2. SubInv(d, pend[s], pub)
    BY <1>1, <1>6, <2>1, ReplaySub DEF next, b
  <2>3. pend' = [pend EXCEPT ![s] = pend[s]]
    BY <1>1, <1>2
  <2> QED
    BY <1>2, <2>2, <2>3, OneSub
<1>7. CASE next = "done"
  <2> DEFINE r == [sending EXCEPT !.backlog = Tail(c.backlog)]
  <2>1. /\ r \in Subscription /\ r.buf = b /\ r.backlog = Tail(c.backlog) /\ r.got = c.got
        /\ r.at = c.at /\ r.from = c.from /\ r.mixed = c.mixed
    BY <1>3, <1>5, SetBacklog
  <2>2. d = [r EXCEPT !.at = at] /\ at \in Stages \cup {"off", "on"}
    BY <1>7 DEF Stages
  <2> HIDE DEF r, d, at, c
  <2>3. /\ d \in Subscription /\ d.buf = b /\ d.backlog = Tail(c.backlog) /\ d.got = c.got
        /\ d.at = at /\ d.from = c.from /\ d.mixed = c.mixed
    BY <2>1, <2>2, SetAt
  <2>4. SubInv(d, pend[s], pub)
    BY <1>1, <1>7, <2>3, ReplaySub DEF next, b, at
  <2>5. pend' = [pend EXCEPT ![s] = pend[s]]
    BY <1>1, <1>2
  <2> QED
    BY <1>2, <2>4, <2>5, OneSub
<1> QED
  BY <1>6, <1>7

LEMMA ReceiveStep == ASSUME FanoutInv, NEW s \in Subs, Receive(s) PROVE FanoutInv'
<1> DEFINE c == sub[s]
           g == c.got \cup {Head(c.buf)}
           r == [c EXCEPT !.got = g]
           d == [c EXCEPT !.got = g, !.buf = Tail(c.buf)]
<1>1. /\ pub \in Nat /\ c \in Subscription /\ SubInv(c, pend[s], pub) /\ c.at = "on"
      /\ c.buf \in Seq(Nat) /\ c.buf # <<>> /\ c.got \in SUBSET Nat
      /\ pend \in [Subs -> Stages \cup {"done"}]
  BY DEF FanoutInv, Receive, Subscription
<1>2. pub' = pub /\ pend' = pend /\ sub' = [sub EXCEPT ![s] = d]
  BY DEF Receive
<1>3. Tail(c.buf) \in Seq(Nat) /\ g \in SUBSET Nat
  BY <1>1
<1>4. d = [r EXCEPT !.buf = Tail(c.buf)]
  OBVIOUS
<1>5. /\ r \in Subscription /\ r.buf = c.buf /\ r.backlog = c.backlog /\ r.got = g
      /\ r.at = c.at /\ r.from = c.from /\ r.mixed = c.mixed
  BY <1>1, <1>3, SetGot
<1> HIDE DEF r, d, c
<1>6. /\ d \in Subscription /\ d.buf = Tail(c.buf) /\ d.backlog = c.backlog /\ d.got = g
      /\ d.at = c.at /\ d.from = c.from /\ d.mixed = c.mixed
  BY <1>3, <1>4, <1>5, SetBuf, ZenonT(30)
<1>7. SubInv(d, pend[s], pub)
  BY <1>1, <1>6, ReceiveSub
<1>8. pend' = [pend EXCEPT ![s] = pend[s]]
  BY <1>1, <1>2
<1> QED
  BY <1>2, <1>7, <1>8, OneSub
(* A new subscription has the ring, or nothing, before it. *)
LEMMA NewSub ==
  ASSUME NEW p \in Nat, NEW d \in Subscription, d.buf = <<>>, d.got = {}, d.from = p + 1 \/ d.at = "off",
         d.at \in Stages <=> d.backlog # <<>>,
         \A k \in 1..Len(d.backlog) : d.backlog[k] \in 1..p,
         \A j, k \in 1..Len(d.backlog) : j < k => d.backlog[j] < d.backlog[k]
  PROVE  SubInv(d, "done", p)
<1>1. d.backlog \in Seq(Nat) /\ d.from \in Nat /\ Len(d.buf) = 0
  BY DEF Subscription
<1>2. \A k \in 1..Len(d.buf) : FALSE
  BY <1>1
<1>3. Numbered(d.buf, d.backlog, d.got, p)
  BY <1>2 DEF Numbered
<1>4. Distinct(d.buf, d.backlog)
  <2>1. ASSUME NEW j \in 1..Len(d.backlog), NEW k \in 1..Len(d.backlog), d.backlog[j] = d.backlog[k] PROVE j = k
    <3>1. ~(j < k) /\ ~(k < j)
      BY <1>1, <2>1
    <3> QED
      BY <3>1
  <2> QED
    BY <1>2, <2>1 DEF Distinct
<1>5. Sorted(d.buf, d.backlog, d.got)
  BY <1>2 DEF Sorted
<1>6. Staged(d, "done")
  BY <1>1, FanoutConstants DEF Staged
<1>7. Newest(d, "done", p)
  BY <1>1 DEF Newest, Stages
<1> QED
  BY <1>3, <1>4, <1>5, <1>6, <1>7 DEF SubInv

LEMMA RingSorted ==
  ASSUME pub \in Nat
  PROVE  /\ Ring \in Seq(Nat)
         /\ \A k \in 1..Len(Ring) : Ring[k] \in 1..pub
         /\ \A j, k \in 1..Len(Ring) : j < k => Ring[j] < Ring[k]
<1> DEFINE n == IF pub < RingSize THEN pub ELSE RingSize
<1>1. n \in Nat /\ n <= pub
  BY FanoutConstants
<1>2. Ring = [k \in 1..n |-> pub - n + k]
  BY DEF Ring
<1> HIDE DEF n
<1>3. \A k \in 1..n : pub - n + k \in 1..pub /\ pub - n + k \in Nat
  BY <1>1
<1>4. Ring \in Seq(Nat) /\ Len(Ring) = n
  BY <1>1, <1>2, <1>3
<1> QED
  BY <1>1, <1>2, <1>3, <1>4

LEMMA OffSub == ASSUME NEW p \in Nat PROVE Off \in Subscription /\ SubInv(Off, "done", p)
<1>1. /\ Off \in Subscription /\ Off.buf = <<>> /\ Off.got = {} /\ Off.at = "off" /\ Off.backlog = <<>>
      /\ "off" \notin Stages
  BY DEF Off, Subscription, Stages
<1>2. Len(Off.backlog) = 0
  BY <1>1
<1> HIDE DEF Off
<1> QED
  BY <1>1, <1>2, NewSub

LEMMA SubscribeStep ==
  ASSUME FanoutInv, NEW s \in Subs, NEW replay \in BOOLEAN, subscribe(s, replay) PROVE FanoutInv'
<1> DEFINE backlog == IF replay THEN Ring ELSE <<>>
           at == IF replay /\ Ring # <<>> THEN "try" ELSE "on"
           d1 == [Off EXCEPT !.at = at]
           d2 == [d1 EXCEPT !.backlog = backlog]
           d == [d2 EXCEPT !.from = pub + 1]
<1>1. /\ pub \in Nat /\ pend = Quiet /\ pub' = pub /\ pend' = pend
      /\ sub' = [sub EXCEPT ![s] = [Off EXCEPT !.at = at, !.backlog = backlog, !.from = pub + 1]]
  BY DEF FanoutInv, subscribe
<1>2. [Off EXCEPT !.at = at, !.backlog = backlog, !.from = pub + 1] = d
  OBVIOUS
<1>3. /\ backlog \in Seq(Nat) /\ at \in {"try", "on"} /\ (at = "try" <=> backlog # <<>>)
      /\ \A k \in 1..Len(backlog) : backlog[k] \in 1..pub
      /\ \A j, k \in 1..Len(backlog) : j < k => backlog[j] < backlog[k]
  <2>1. CASE replay
    BY <1>1, <2>1, RingSorted
  <2>2. CASE ~replay
    <3>1. backlog = <<>> /\ at = "on"
      BY <2>2
    <3> HIDE DEF at, backlog
    <3>2. backlog \in Seq(Nat) /\ Len(backlog) = 0
      BY <3>1
    <3>3. \A k \in 1..Len(backlog) : FALSE
      BY <3>2
    <3> QED
      BY <3>1, <3>2, <3>3
  <2> QED
    BY <2>1, <2>2
<1> HIDE DEF backlog, at
<1>4. Off \in Subscription /\ Off.buf = <<>> /\ Off.got = {}
  BY <1>1, OffSub DEF Off
<1>5. at \in Stages \cup {"off", "on"} /\ (at \in Stages <=> backlog # <<>>)
  BY <1>3 DEF Stages
<1>6. d1 \in Subscription /\ d1.buf = <<>> /\ d1.got = {} /\ d1.at = at
  BY <1>4, <1>5, SetAt
<1> HIDE DEF d1
<1>7. d2 \in Subscription /\ d2.buf = <<>> /\ d2.got = {} /\ d2.at = at /\ d2.backlog = backlog
  BY <1>3, <1>6, SetBacklog
<1> HIDE DEF d2
<1>8. /\ d \in Subscription /\ d.buf = <<>> /\ d.got = {} /\ d.from = pub + 1 /\ d.at = at /\ d.backlog = backlog
  BY <1>1, <1>7, SetFrom, SMTT(30)
<1> HIDE DEF d
<1>9. SubInv(d, "done", pub)
  BY <1>1, <1>3, <1>5, <1>8, NewSub
<1>10. pend' = [pend EXCEPT ![s] = "done"]
  BY <1>1 DEF Quiet
<1> QED
  BY <1>1, <1>2, <1>9, <1>10, OneSub

LEMMA UnsubscribeStep == ASSUME FanoutInv, NEW s \in Subs, unsubscribe(s) PROVE FanoutInv'
<1>1. /\ pub \in Nat /\ pend = Quiet /\ pub' = pub /\ pend' = pend /\ sub' = [sub EXCEPT ![s] = Off]
  BY DEF FanoutInv, unsubscribe
<1>2. pend' = [pend EXCEPT ![s] = "done"]
  BY <1>1 DEF Quiet
<1> QED
  BY <1>1, <1>2, OffSub, OneSub

LEMMA PublishStep == ASSUME FanoutInv, Publish PROVE FanoutInv'
<1>1. /\ pub \in Nat /\ pub' = pub + 1
      /\ pend' = [s \in Subs |-> IF sub[s].at = "off" THEN "done" ELSE "try"]
      /\ sub' = [s \in Subs |-> [sub[s] EXCEPT !.mixed = sub[s].mixed \/ sub[s].at \notin {"off", "on"}]]
  BY DEF FanoutInv, Publish
<1>2. ASSUME NEW s \in Subs PROVE sub'[s] \in Subscription /\ SubInv(sub'[s], pend'[s], pub + 1)
  <2> DEFINE c == sub[s]
             m == c.mixed \/ c.at \notin {"off", "on"}
             d == [c EXCEPT !.mixed = m]
  <2>1. c \in Subscription /\ SubInv(c, "done", pub)
    BY DEF FanoutInv, Publish, Quiet
  <2>2. m \in BOOLEAN /\ (~m => ~c.mixed /\ c.at \notin Stages)
    <3>1. c.at \in {"off", "on"} => c.at \notin Stages
      BY DEF Stages
    <3>2. c.mixed \in BOOLEAN
      BY <2>1 DEF Subscription
    <3> HIDE DEF c
    <3> QED
      BY <3>1, <3>2, Zenon
  <2>3. sub'[s] = d /\ pend'[s] = IF c.at = "off" THEN "done" ELSE "try"
    BY <1>1
  <2> HIDE DEF m
  <2>4. /\ d \in Subscription /\ d.buf = c.buf /\ d.backlog = c.backlog /\ d.got = c.got
        /\ d.at = c.at /\ d.from = c.from /\ d.mixed = m
    BY <2>1, <2>2, SetMixed
  <2> HIDE DEF c, d
  <2>5. ~d.mixed => ~c.mixed /\ c.at \notin Stages
    BY <2>2, <2>4
  <2>6. SubInv(d, IF c.at = "off" THEN "done" ELSE "try", pub + 1)
    BY <1>1, <2>1, <2>4, <2>5, PublishSub
  <2> QED
    BY <2>3, <2>4, <2>6
<1>3. pend' \in [Subs -> Stages \cup {"done"}]
  BY <1>1 DEF Stages
<1>4. sub' \in [Subs -> Subscription]
  BY <1>1, <1>2
<1> QED
  BY <1>1, <1>2, <1>3, <1>4 DEF FanoutInv

LEMMA FanoutStep == FanoutInv /\ [FanoutNext]_fanoutVars => FanoutInv'
<1>1. FanoutInv /\ UNCHANGED fanoutVars => FanoutInv'
  BY DEF FanoutInv, fanoutVars
<1> QED
  BY <1>1, PublishStep, ReplayStep, SendStep, ReceiveStep, UnsubscribeStep, SubscribeStep DEF FanoutNext

LEMMA FanoutInitInv == FanoutInit => FanoutInv
<1> SUFFICES ASSUME FanoutInit PROVE FanoutInv
  OBVIOUS
<1>1. pub = 0 /\ pend = [s \in Subs |-> "done"] /\ sub = [s \in Subs |-> Off]
  BY DEF FanoutInit, Quiet
<1>2. Off \in Subscription /\ SubInv(Off, "done", 0)
  BY OffSub
<1> QED
  BY <1>1, <1>2 DEF FanoutInv

(* Two distinct sequences without a common element, in one. *)
LEMMA Joined ==
  ASSUME NEW buf \in Seq(Nat), NEW backlog \in Seq(Nat), NEW got \in SUBSET Nat, NEW p \in Nat,
         Numbered(buf, backlog, got, p), Distinct(buf, backlog)
  PROVE  IsInjective(buf \o backlog) /\ ToSet(buf \o backlog) \cap got = {}
<1> DEFINE s == buf \o backlog
           m == Len(buf)
           n == Len(backlog)
<1>1. /\ m \in Nat /\ n \in Nat /\ DOMAIN s = 1..(m + n)
      /\ \A k \in 1..(m + n) : s[k] = IF k <= m THEN buf[k] ELSE backlog[k - m]
  OBVIOUS
<1>2. \A k \in 1..(m + n) : \/ k \in 1..m /\ s[k] = buf[k]
                            \/ k - m \in 1..n /\ s[k] = backlog[k - m] /\ ~(k \in 1..m)
  BY <1>1
<1> HIDE DEF s, m, n
<1>3. ASSUME NEW j \in 1..(m + n), NEW k \in 1..(m + n), s[j] = s[k] PROVE j = k
  <2>1. CASE j \in 1..m /\ k \in 1..m
    BY <1>2, <1>3, <2>1 DEF Distinct, m, n
  <2>2. CASE ~(j \in 1..m) /\ ~(k \in 1..m)
    <3>1. j - m = k - m
      BY <1>2, <1>3, <2>2 DEF Distinct, n
    <3> QED
      BY <1>1, <3>1
  <2>3. CASE j \in 1..m /\ ~(k \in 1..m)
    BY <1>2, <1>3, <2>3 DEF Distinct, m, n
  <2>4. CASE ~(j \in 1..m) /\ k \in 1..m
    BY <1>2, <1>3, <2>4 DEF Distinct, m, n
  <2> QED
    BY <2>1, <2>2, <2>3, <2>4
<1>4. \A k \in 1..(m + n) : s[k] \notin got
  BY <1>2 DEF Numbered, m, n
<1>5. IsInjective(s)
  BY <1>1, <1>3 DEF IsInjective
<1>6. ToSet(s) \cap got = {}
  BY <1>1, <1>4 DEF ToSet
<1> QED
  BY <1>5, <1>6 DEF s

(* dropOldestSend and the replay at subscription: every subscriber gets an *)
(* entry at most once, and, when nothing was published during its replay,  *)
(* in order and with the newest entry among them, for any number of        *)
(* subscribers and any sizes of ring and buffer.                           *)
THEOREM DeliveredAlways == FanoutSpec => []Delivered
<1>1. FanoutInv => Delivered
  <2> SUFFICES ASSUME FanoutInv, NEW s \in Subs
               PROVE  /\ IsInjective(sub[s].buf \o sub[s].backlog)
                      /\ ToSet(sub[s].buf \o sub[s].backlog) \cap sub[s].got = {}
                      /\ sub[s].at = "on" /\ ~sub[s].mixed =>
                            /\ \A k \in 1..Len(sub[s].buf) :
                                  /\ \A g \in sub[s].got : g < sub[s].buf[k]
                                  /\ k > 1 => sub[s].buf[k - 1] < sub[s].buf[k]
                            /\ pub >= sub[s].from /\ pend[s] = "done" => pub \in sub[s].got \cup ToSet(sub[s].buf)
    BY DEF Delivered, AtMostOnce, NewestDelivered
  <2> DEFINE c == sub[s]
  <2>1. /\ c.buf \in Seq(Nat) /\ c.backlog \in Seq(Nat) /\ c.got \in SUBSET Nat /\ pub \in Nat
        /\ Numbered(c.buf, c.backlog, c.got, pub) /\ Distinct(c.buf, c.backlog)
        /\ ~c.mixed => Sorted(c.buf, c.backlog, c.got) /\ Newest(c, pend[s], pub)
    BY DEF FanoutInv, SubInv, Subscription
  <2> HIDE DEF c
  <2>2. IsInjective(c.buf \o c.backlog) /\ ToSet(c.buf \o c.backlog) \cap c.got = {}
    BY <2>1, Joined
  <2>3. ASSUME c.at = "on", ~c.mixed
        PROVE  /\ \A k \in 1..Len(c.buf) : /\ \A g \in c.got : g < c.buf[k]
                                           /\ k > 1 => c.buf[k - 1] < c.buf[k]
               /\ pub >= c.from /\ pend[s] = "done" => pub \in c.got \cup ToSet(c.buf)
    <3>1. Sorted(c.buf, c.backlog, c.got) /\ Newest(c, pend[s], pub)
      BY <2>1, <2>3
    <3>2. ASSUME NEW k \in 1..Len(c.buf), k > 1 PROVE c.buf[k - 1] < c.buf[k]
      <4>1. k - 1 \in 1..Len(c.buf) /\ k - 1 < k
        BY <2>1, <3>2
      <4> QED
        BY <3>1, <4>1 DEF Sorted
    <3>3. ASSUME pub >= c.from, pend[s] = "done" PROVE pub \in c.got \cup ToSet(c.buf)
      BY <2>1, <2>3, <3>1, <3>3 DEF Newest, ToSet
    <3> QED
      BY <3>1, <3>2, <3>3 DEF Sorted
  <2> QED
    BY <2>2, <2>3 DEF c
<1> QED
  BY <1>1, FanoutInitInv, FanoutStep, PTL DEF FanoutSpec

(***************************************************************************)
(* The life cycle of the DNS server, for any number of addresses, workers, *)
(* slots and callers of Shutdown.                                          *)
(*                                                                         *)
(* That a completed shutdown left nothing behind is not inductive: it must *)
(* be known that nothing can be started any more.  Phases records, for     *)
(* each phase of Start, of the janitor and of the callers, what the phases *)
(* before it established.                                                  *)
(***************************************************************************)

Phases == /\ starter = "new" => idle = 0 /\ busy = 0
          /\ (\E c \in Stoppers : caller[c] # "idle") => starter \in {"started", "failed"}
          /\ shutdownDone # "nil" => starter \in {"started", "failed"} /\ closed
          /\ janitor # "off" => shutdownDone = "open"
          /\ janitor = "join" => wg = 0
          /\ starter \in {"cleanup", "join", "failed"} => closed
          /\ starter \in {"join", "failed"} => wg = 0
          /\ starter = "failed" => idle = 0 /\ busy = 0
          /\ shutdownDone = "closed" => wg = 0 /\ idle = 0 /\ busy = 0
          /\ \A c \in Stoppers : caller[c] = "ok" => shutdownDone = "closed"

ServerInv == TypeOK /\ Accounting /\ Phases

LEMMA ServerInitInv == Init => ServerInv
<1> SUFFICES ASSUME Init PROVE ServerInv
  OBVIOUS
<1> USE ServerAssumption DEF Init
<1>1. TypeOK
  <2>1. /\ bound \in Nat /\ udpLoops \in Nat /\ tcpLoops \in Nat /\ conns \in Nat
        /\ leaving \in Nat /\ slots \in Nat /\ datagrams \in Nat /\ accepted \in Nat
        /\ admitted \in Nat /\ idle \in Nat /\ busy \in Nat /\ wg \in Nat
        /\ queue \in 0..QueueCap
    BY SMT DEF ServerAssumption
  <2>2. caller \in [Stoppers -> {"idle", "lock", "wait", "ok", "timeout"}]
    BY Zenon
  <2>3. expired \in [Stoppers -> BOOLEAN]
    BY Zenon
  <2> QED
    BY <2>1, <2>2, <2>3, Zenon DEF TypeOK
<1>2. Accounting
  BY DEF Accounting
<1>3. Phases
  BY DEF Phases
<1> QED
  BY <1>1, <1>2, <1>3 DEF ServerInv

(* Each step of Start and of its cleanup keeps the invariant. *)
LEMMA StartInv == ServerInv /\ Start => ServerInv'
<1> SUFFICES ASSUME ServerInv, Start PROVE ServerInv'
  OBVIOUS
<1> USE ServerAssumption DEF ServerInv, TypeOK, Accounting, Phases, startVars, loopVars, connVars, poolVars, shutVars
<1>1. CASE StartPool
  BY <1>1 DEF StartPool
<1>2. CASE BindUDP
  BY <1>2 DEF BindUDP
<1>3. CASE BindTCP
  BY <1>3 DEF BindTCP
<1>4. CASE BindFails
  BY <1>4 DEF BindFails
<1>5. CASE Started
  BY <1>5 DEF Started
<1>6. CASE CleanupClose
  BY <1>6 DEF CleanupClose
<1>7. CASE CleanupJoin
  BY <1>7 DEF CleanupJoin
<1> QED
  BY <1>1, <1>2, <1>3, <1>4, <1>5, <1>6, <1>7 DEF Start

(* The loops, the connections and the workers: what they take they return, *)
(* and once nothing is left none of them can step.                         *)
LEMMA ServeInv ==
  ASSUME ServerInv,
         \/ ReadFromUDP \/ Submit \/ LoopEnds
         \/ AcceptTCP \/ AdmitTCP \/ RefuseTCP \/ ServeTCP \/ ConnEnds \/ ConnDone
         \/ TakeJob \/ FinishJob \/ WorkerExits \/ Signal
  PROVE  ServerInv'
<1> USE ServerAssumption DEF ServerInv, TypeOK, Accounting, Phases, startVars, loopVars, connVars, poolVars, shutVars
<1>1. CASE ReadFromUDP
  BY <1>1 DEF ReadFromUDP
<1>11. CASE Submit
  BY <1>11 DEF Submit, PoolNil
<1>2. CASE LoopEnds
  BY <1>2 DEF LoopEnds, UDPLoopEnds, TCPLoopEnds
<1>3. CASE AcceptTCP
  BY <1>3 DEF AcceptTCP
<1>12. CASE AdmitTCP
  BY <1>12 DEF AdmitTCP, acquireTCPSlot
<1>4. CASE RefuseTCP
  BY <1>4 DEF RefuseTCP
<1>13. CASE ServeTCP
  BY <1>13 DEF ServeTCP
<1>5. CASE ConnEnds
  BY <1>5 DEF ConnEnds
<1>6. CASE ConnDone
  BY <1>6 DEF ConnDone
<1>7. CASE TakeJob
  BY <1>7 DEF TakeJob
<1>8. CASE FinishJob
  BY <1>8 DEF FinishJob
<1>9. CASE WorkerExits
  BY <1>9 DEF WorkerExits
<1>10. CASE Signal
  BY <1>10 DEF Signal
<1> QED
  BY <1>1, <1>2, <1>3, <1>4, <1>5, <1>6, <1>7, <1>8, <1>9, <1>10, <1>11, <1>12, <1>13

(* The janitor closes the channel only when everything has stopped. *)
LEMMA JanitorInv == ServerInv /\ Janitor => ServerInv'
<1> SUFFICES ASSUME ServerInv, Janitor PROVE ServerInv'
  OBVIOUS
<1> USE ServerAssumption DEF ServerInv, TypeOK, Accounting, Phases, startVars, loopVars, connVars, poolVars, shutVars
<1>1. CASE JanitorCloses
  BY <1>1 DEF JanitorCloses
<1>2. CASE JanitorJoins
  BY <1>2 DEF JanitorJoins
<1> QED
  BY <1>1, <1>2 DEF Janitor

(* The callers of Shutdown. *)
LEMMA CallerInv == ASSUME NEW c \in Stoppers, ServerInv, Call(c) \/ Shutdown(c) \/ Expire(c)
                   PROVE  ServerInv'
<1> USE ServerAssumption DEF ServerInv, TypeOK, Accounting, Phases, startVars, loopVars, connVars, poolVars, shutVars
<1>1. CASE Call(c)
  BY <1>1 DEF Call
<1>2. CASE ShutdownFirst(c)
  BY <1>2 DEF ShutdownFirst
<1>3. CASE ShutdownAgain(c)
  BY <1>3 DEF ShutdownAgain
<1>4. CASE ReturnOK(c)
  BY <1>4 DEF ReturnOK
<1>5. CASE ReturnExpired(c)
  BY <1>5 DEF ReturnExpired
<1>6. CASE Expire(c)
  BY <1>6 DEF Expire
<1> QED
  BY <1>1, <1>2, <1>3, <1>4, <1>5, <1>6 DEF Shutdown

LEMMA ServerNextInv == ServerInv /\ [Next]_vars => ServerInv'
<1>1. ServerInv /\ UNCHANGED vars => ServerInv'
  BY DEF ServerInv, TypeOK, Accounting, Phases, vars, startVars, loopVars, connVars, poolVars, shutVars
<1>2. ServerInv /\ Next => ServerInv'
  BY StartInv, ServeInv, JanitorInv, CallerInv DEF Next
<1> QED
  BY <1>1, <1>2

LEMMA ServerInvCorrect == Spec => []ServerInv
  BY ServerInitInv, ServerNextInv, PTL DEF Spec

(* The server's counters, phases and channels keep their types. *)
THEOREM ServerTypeCorrect == Spec => []TypeOK
<1>1. ServerInv => TypeOK
  BY DEF ServerInv
<1> QED
  BY ServerInvCorrect, <1>1, PTL

(* The wait group is exact and connections and workers keep to their       *)
(* limits, for every limit.                                                *)
THEOREM AccountingCorrect == Spec => []Accounting
<1>1. ServerInv => Accounting
  BY DEF ServerInv
<1> QED
  BY ServerInvCorrect, <1>1, PTL

(* No loop, connection or worker is left once the wait group is at zero    *)
(* and the workers are gone.                                               *)
LEMMA AllGone == ServerInv /\ wg = 0 /\ idle = 0 /\ busy = 0 => Stopped
  BY DEF ServerInv, TypeOK, Accounting, Stopped

(* When a call of Shutdown has returned nil, whichever of several callers  *)
(* it was, nothing of the server runs, then or later.                      *)
THEOREM ShutdownCorrect == Spec => []ShutdownComplete
<1>1. ServerInv => ShutdownComplete
  BY AllGone DEF ServerInv, Phases, ShutdownComplete
<1> QED
  BY ServerInvCorrect, <1>1, PTL

(* A Start that failed at any listener has taken everything back. *)
THEOREM FailedStartCorrect == Spec => []FailedStartClean
<1>1. ServerInv => FailedStartClean
  BY AllGone DEF ServerInv, Phases, FailedStartClean
<1> QED
  BY ServerInvCorrect, <1>1, PTL

(* Types, limits and the wait group together, for any number of listeners, *)
(* workers, slots and callers.                                             *)
THEOREM ServerConsistent == Spec => []Consistent
<1>1. ServerInv => Consistent
  BY DEF ServerInv, Consistent
<1> QED
  BY ServerInvCorrect, <1>1, PTL

(***************************************************************************)
(* The limiter of logins.                                                  *)
(***************************************************************************)
Counting == [count : Nat \ {0}, reset : Nat]
Attempt == [host : Hosts, at : 0..MaxClock, reset : Nat, nth : 1..Limit]

WindowTypeOK ==
  /\ wall \in 0..MaxClock /\ asks \in Nat
  /\ entries \in [Hosts -> Counting \cup {NoWindow}]
  /\ pruneAt \in Nat \cup {NoWindow}
  /\ asked \in [Requests -> 0..MaxClock \cup {NoWindow}]
  /\ passed \in SUBSET Attempt
  /\ late \in BOOLEAN

(* Before the first pruning the limiter knows nobody.                      *)
Untouched == pruneAt = NoWindow => passed = {} /\ \A h \in Hosts : entries[h] = NoWindow
(* An attempt was in time for its window, and the first of a window opens  *)
(* it.                                                                     *)
InWindow(a) == a.at <= a.reset /\ (a.nth = 1 => a.reset = a.at + Window)
(* The window that counted an attempt is the present one, or over by more  *)
(* than it and pruned by a request that came after its end.                *)
Followed(a) ==
  IF entries[a.host] = NoWindow THEN a.reset + Window < pruneAt
  ELSE /\ a.reset = entries[a.host].reset => a.nth <= entries[a.host].count
       /\ a.reset # entries[a.host].reset => /\ a.reset + Window < entries[a.host].reset
                                             /\ a.reset < pruneAt
(* Windows of a host follow one another, and an attempt is not counted in  *)
(* one if it came before the one before was opened.                        *)
InTurn(a, b) == a.host = b.host =>
  /\ a.reset = b.reset /\ a.nth = b.nth => a = b
  /\ a.reset < b.reset => a.reset + Window < b.reset /\ a.reset < b.at + Window

WindowInv ==
  /\ WindowTypeOK
  /\ ~late => /\ Untouched
              /\ \A a \in passed : InWindow(a) /\ Followed(a)
              /\ \A a, b \in passed : InTurn(a, b)

(* The limiter starts without windows.                                     *)
LEMMA WindowStarts == WindowInit => WindowInv
<1> SUFFICES ASSUME WindowInit PROVE WindowInv
  OBVIOUS
<1>1. WindowTypeOK
  <2>1. wall \in 0..MaxClock /\ asks \in Nat
    BY LoginLimiterAssumption DEF WindowInit
  <2>2. passed \in SUBSET Attempt /\ late \in BOOLEAN /\ pruneAt \in Nat \cup {NoWindow}
    BY DEF WindowInit
  <2>3. entries \in [Hosts -> Counting \cup {NoWindow}] /\ asked \in [Requests -> 0..MaxClock \cup {NoWindow}]
    BY DEF WindowInit
  <2> QED BY <2>1, <2>2, <2>3 DEF WindowTypeOK
<1>2. passed = {} /\ \A h \in Hosts : entries[h] = NoWindow
  BY DEF WindowInit
<1> QED BY <1>1, <1>2 DEF WindowInv, Untouched

(* Time and requests that have read the clock change no window.            *)
LEMMA WindowTickKeeps == WindowInv /\ WallTick => WindowInv'
BY LoginLimiterAssumption DEF WallTick, WindowInv, WindowTypeOK, Untouched, InWindow, Followed, InTurn

LEMMA AskKeeps == ASSUME WindowInv, NEW r \in Requests, Ask(r) PROVE WindowInv'
BY LoginLimiterAssumption DEF Ask, WindowInv, WindowTypeOK, Untouched, InWindow, Followed, InTurn

(* What allowWith finds and leaves: an entry for the host that counts the  *)
(* request as the first of a new window, or as the next of the present.    *)
LEMMA AllowUnfolded ==
  ASSUME WindowTypeOK, NEW r \in Requests, NEW h \in Hosts, allowWith(r, h)
  PROVE  \E now \in 0..MaxClock, e \in Counting :
           /\ asked' = [asked EXCEPT ![r] = NoWindow]
           /\ wall' = wall /\ asks' = asks
           /\ pruneAt' = (IF PruneDue(now) THEN now + Window ELSE pruneAt)
           /\ late' = (late \/ (pruneAt # NoWindow /\ now + Window < pruneAt))
           /\ entries' = [prunedEntries(now) EXCEPT ![h] = e]
           /\ \/ Over(entries[h], now) /\ e.count = 1 /\ e.reset = now + Window
              \/ ~Over(entries[h], now) /\ e.reset = entries[h].reset /\ e.count = entries[h].count + 1
           /\ \/ passed' = passed
              \/ /\ e.count <= Limit
                 /\ passed' = passed \cup {[host |-> h, at |-> now, reset |-> e.reset, nth |-> e.count]}
<1> DEFINE now == asked[r]
           left == prunedEntries(now)
           entry == IF Over(left[h], now) THEN [count |-> 1, reset |-> now + Window]
                    ELSE [left[h] EXCEPT !.count = left[h].count + 1]
<1>1. now \in 0..MaxClock
  BY DEF allowWith, WindowTypeOK
<1>2. left[h] = IF PruneDue(now) /\ Over(entries[h], now) THEN NoWindow ELSE entries[h]
  BY DEF prunedEntries
<1>3. Over(left[h], now) <=> Over(entries[h], now)
  BY <1>2 DEF Over
<1>4. entries[h] \in Counting \cup {NoWindow}
  BY DEF WindowTypeOK
<1>5. /\ entry \in Counting
      /\ \/ Over(entries[h], now) /\ entry.count = 1 /\ entry.reset = now + Window
         \/ ~Over(entries[h], now) /\ entry.reset = entries[h].reset /\ entry.count = entries[h].count + 1
  <2>1. CASE Over(left[h], now)
    <3>1. entry = [count |-> 1, reset |-> now + Window]
      BY <2>1
    <3> QED BY <3>1, <2>1, <1>1, <1>3, LoginLimiterAssumption DEF Counting
  <2>2. CASE ~Over(left[h], now)
    <3>1. left[h] = entries[h] /\ entries[h] \in Counting
      BY <2>2, <1>2, <1>3, <1>4 DEF Over
    <3>2. entry = [entries[h] EXCEPT !.count = entries[h].count + 1]
      BY <2>2, <3>1
    <3> QED BY <3>1, <3>2, <2>2, <1>3 DEF Counting
  <2> QED BY <2>1, <2>2
<1>6. /\ asked' = [asked EXCEPT ![r] = NoWindow]
      /\ wall' = wall /\ asks' = asks
      /\ pruneAt' = (IF PruneDue(now) THEN now + Window ELSE pruneAt)
      /\ late' = (late \/ (pruneAt # NoWindow /\ now + Window < pruneAt))
      /\ entries' = [left EXCEPT ![h] = entry]
      /\ passed' = IF ~Passes(entry.count) THEN passed
                   ELSE passed \cup {[host |-> h, at |-> now, reset |-> entry.reset, nth |-> entry.count]}
  BY DEF allowWith
<1>7. \/ passed' = passed
      \/ /\ entry.count <= Limit
         /\ passed' = passed \cup {[host |-> h, at |-> now, reset |-> entry.reset, nth |-> entry.count]}
  BY <1>6 DEF Passes
<1> HIDE DEF entry, now, left
<1> QED BY <1>1, <1>5, <1>6, <1>7 DEF left
(* A request that is counted leaves the windows of every host in order.    *)
LEMMA AllowKeeps ==
  ASSUME WindowInv, NEW r \in Requests, NEW h \in Hosts, allowWith(r, h)
  PROVE  WindowInv'
<1>1. PICK now \in 0..MaxClock, e \in Counting :
        /\ asked' = [asked EXCEPT ![r] = NoWindow]
        /\ wall' = wall /\ asks' = asks
        /\ pruneAt' = (IF PruneDue(now) THEN now + Window ELSE pruneAt)
        /\ late' = (late \/ (pruneAt # NoWindow /\ now + Window < pruneAt))
        /\ entries' = [prunedEntries(now) EXCEPT ![h] = e]
        /\ \/ Over(entries[h], now) /\ e.count = 1 /\ e.reset = now + Window
           \/ ~Over(entries[h], now) /\ e.reset = entries[h].reset /\ e.count = entries[h].count + 1
        /\ \/ passed' = passed
           \/ /\ e.count <= Limit
              /\ passed' = passed \cup {[host |-> h, at |-> now, reset |-> e.reset, nth |-> e.count]}
  BY AllowUnfolded DEF WindowInv
<1> DEFINE new == [host |-> h, at |-> now, reset |-> e.reset, nth |-> e.count]
<1>2. /\ WindowTypeOK /\ now \in Nat /\ now <= MaxClock
      /\ Limit \in Nat /\ Limit > 0 /\ Window \in Nat /\ Window > 0
      /\ e.count \in Nat /\ e.count > 0 /\ e.reset \in Nat /\ e # NoWindow
      /\ pruneAt \in Nat \cup {NoWindow}
  BY LoginLimiterAssumption DEF WindowInv, WindowTypeOK, Counting
<1>3. /\ new.host = h /\ new.at = now /\ new.reset = e.reset /\ new.nth = e.count
      /\ e.count <= Limit => new \in Attempt
  BY <1>2 DEF Attempt
<1>4. \A k \in Hosts : /\ entries[k] \in Counting \cup {NoWindow}
                      /\ entries'[k] = IF k = h THEN e
                                       ELSE IF PruneDue(now) /\ Over(entries[k], now) THEN NoWindow ELSE entries[k]
  BY <1>1, <1>2 DEF prunedEntries, WindowTypeOK
<1>5. entries' \in [Hosts -> Counting \cup {NoWindow}]
  <2>1. DOMAIN prunedEntries(now) = Hosts
    BY DEF prunedEntries
  <2>2. \A k \in Hosts : entries'[k] \in Counting \cup {NoWindow}
    BY <1>4
  <2> QED BY <1>1, <2>1, <2>2 DEF prunedEntries
<1>6. \A a \in passed' : a \in passed \/ (a = new /\ e.count <= Limit)
  <2>1. CASE passed' = passed
    BY <2>1
  <2>2. CASE e.count <= Limit /\ passed' = passed \cup {new}
    BY <2>2
  <2> QED BY <1>1, <2>1, <2>2
<1> HIDE DEF new
<1>7. WindowTypeOK'
  <2>1. passed' \in SUBSET Attempt
    BY <1>2, <1>3, <1>6 DEF WindowTypeOK
  <2>2. pruneAt' \in Nat \cup {NoWindow} /\ late' \in BOOLEAN
    BY <1>1, <1>2 DEF WindowTypeOK
  <2>3. asked' \in [Requests -> 0..MaxClock \cup {NoWindow}] /\ wall' \in 0..MaxClock /\ asks' \in Nat
    BY <1>1, <1>2 DEF WindowTypeOK
  <2> QED BY <1>5, <2>1, <2>2, <2>3 DEF WindowTypeOK
<1>8. ASSUME ~late'
      PROVE  /\ Untouched'
             /\ \A a \in passed' : InWindow(a) /\ Followed(a)'
             /\ \A a, b \in passed' : InTurn(a, b)
  <2>1. /\ ~late /\ Untouched
        /\ \A a \in passed : InWindow(a) /\ Followed(a)
        /\ \A a, b \in passed : InTurn(a, b)
        /\ pruneAt = NoWindow \/ now + Window >= pruneAt
    <3>1. ~late /\ ~(pruneAt # NoWindow /\ now + Window < pruneAt)
      BY <1>1, <1>8
    <3> QED BY <3>1, <1>2 DEF WindowInv
  <2>2. \A a \in passed : /\ a.host \in Hosts /\ a.at \in Nat /\ a.reset \in Nat /\ a.nth \in Nat
    BY <1>2 DEF WindowTypeOK, Attempt
  <2>3. /\ pruneAt' \in Nat /\ pruneAt' # NoWindow
        /\ pruneAt # NoWindow => pruneAt \in Nat /\ pruneAt <= pruneAt'
        /\ PruneDue(now) => pruneAt' = now + Window
        /\ ~PruneDue(now) => pruneAt # NoWindow /\ pruneAt' = pruneAt /\ now <= pruneAt
    BY <1>1, <1>2, LoginLimiterAssumption DEF PruneDue
  <2>4. Untouched'
    BY <2>3 DEF Untouched
  <2>5. passed # {} => pruneAt # NoWindow /\ pruneAt \in Nat
    BY <2>1, <1>2 DEF Untouched
  <2>6. ASSUME NEW k \in Hosts, entries[k] # NoWindow
        PROVE  entries[k].reset \in Nat /\ entries[k].count \in Nat /\ entries[k].count > 0
    BY <2>6, <1>4 DEF Counting
  (* What was counted for the host before: over and before the new window, *)
  (* or in the window that counts this request too.                        *)
  <2>7. ASSUME NEW a \in passed, a.host = h
        PROVE  /\ a.reset = e.reset => a.nth < e.count
               /\ a.reset # e.reset => /\ a.reset + Window < e.reset
                                       /\ a.reset < pruneAt'
                                       /\ a.reset < now + Window
    <3>1. Followed(a) /\ InWindow(a) /\ pruneAt \in Nat /\ now + Window >= pruneAt
      BY <2>1, <2>5
    <3>2. CASE entries[h] = NoWindow
      <4>1. a.reset + Window < pruneAt
        BY <3>1, <3>2, <2>7 DEF Followed
      <4>2. e.reset = now + Window
        BY <1>1, <3>2 DEF Over
      <4> QED BY <4>1, <4>2, <3>1, <2>3, <2>2, <1>2
    <3>3. CASE entries[h] # NoWindow /\ now > entries[h].reset
      <4>1. e.reset = now + Window
        BY <1>1, <3>3 DEF Over
      <4>2. a.reset <= entries[h].reset
        BY <3>1, <3>3, <2>6, <2>2, <2>7, <1>2 DEF Followed
      <4> QED BY <4>1, <4>2, <3>3, <2>6, <2>3, <2>2, <1>2
    <3>4. CASE entries[h] # NoWindow /\ ~(now > entries[h].reset)
      <4>1. e.reset = entries[h].reset /\ e.count = entries[h].count + 1
        BY <1>1, <3>4 DEF Over
      <4> QED BY <4>1, <3>1, <3>4, <2>6, <2>3, <2>2, <2>7, <1>2 DEF Followed
    <3> QED BY <3>2, <3>3, <3>4
  <2>8. ASSUME NEW a \in passed PROVE Followed(a)'
    <3>1. Followed(a) /\ pruneAt \in Nat /\ pruneAt <= pruneAt' /\ a.host \in Hosts /\ a.reset \in Nat
      BY <2>1, <2>2, <2>3, <2>5
    <3>2. CASE a.host = h
      <4>1. entries'[a.host] = e
        BY <1>4, <3>2
      <4>2. a.nth <= e.count \/ a.reset # e.reset
        BY <2>7, <3>2, <2>2, <1>2
      <4> QED BY <4>1, <4>2, <2>7, <3>2, <1>2 DEF Followed
    <3>3. CASE a.host # h /\ entries[a.host] = NoWindow
      <4>1. entries'[a.host] = NoWindow
        BY <1>4, <3>1, <3>3
      <4>2. a.reset + Window < pruneAt
        BY <3>1, <3>3 DEF Followed
      <4> QED BY <4>1, <4>2, <3>1, <2>3, <1>2 DEF Followed
    <3>4. CASE a.host # h /\ entries[a.host] # NoWindow /\ PruneDue(now) /\ Over(entries[a.host], now)
      <4>1. entries'[a.host] = NoWindow
        BY <1>4, <3>1, <3>4
      <4>2. a.reset <= entries[a.host].reset /\ entries[a.host].reset < now
        BY <3>1, <3>4, <2>6, <1>2 DEF Followed, Over
      <4> QED BY <4>1, <4>2, <3>4, <3>1, <2>3, <2>6, <1>2 DEF Followed
    <3>5. CASE a.host # h /\ entries[a.host] # NoWindow /\ ~(PruneDue(now) /\ Over(entries[a.host], now))
      <4>1. entries'[a.host] = entries[a.host]
        BY <1>4, <3>1, <3>5
      <4>2. a.reset < pruneAt => a.reset < pruneAt'
        BY <3>1, <2>3
      <4> QED BY <4>1, <4>2, <3>5, <3>1 DEF Followed
    <3> QED BY <3>2, <3>3, <3>4, <3>5
  <2>9. ASSUME new \in passed' PROVE InWindow(new) /\ Followed(new)'
    <3>1. now <= e.reset /\ (e.count = 1 => e.reset = now + Window)
      BY <1>1, <1>2, <2>6 DEF Over
    <3>2. entries'[h] = e
      BY <1>4
    <3> QED BY <3>1, <3>2, <1>2, <1>3 DEF InWindow, Followed
  <2>10. ASSUME NEW a \in passed PROVE InTurn(a, new) /\ InTurn(new, a)
    BY <2>7, <2>2, <1>2, <1>3 DEF InTurn
  <2>11. InTurn(new, new)
    BY <1>2, <1>3 DEF InTurn
  <2> QED BY <2>1, <2>4, <2>8, <2>9, <2>10, <2>11, <1>6
<1> QED BY <1>7, <1>8 DEF WindowInv

LEMMA WindowRests == WindowInv /\ UNCHANGED windowVars => WindowInv'
BY DEF windowVars, WindowInv, WindowTypeOK, Untouched, InWindow, Followed, InTurn

THEOREM WindowInvariant == WindowSpec => []WindowInv
<1>1. WindowInv /\ [WindowNext]_windowVars => WindowInv'
  BY WindowTickKeeps, AskKeeps, AllowKeeps, WindowRests DEF WindowNext
<1> QED BY <1>1, WindowStarts, PTL DEF WindowSpec

(* Two sets together have at most the elements of both.                    *)
LEMMA UnionAtMost ==
  ASSUME NEW A, NEW B, IsFiniteSet(A), IsFiniteSet(B)
  PROVE  /\ IsFiniteSet(A \cup B) /\ Cardinality(A \cup B) \in Nat
         /\ Cardinality(A \cup B) <= Cardinality(A) + Cardinality(B)
<1>1. /\ IsFiniteSet(A \cup B)
      /\ Cardinality(A \cup B) = Cardinality(A) + Cardinality(B) - Cardinality(A \cap B)
  BY FS_Union
<1>2. IsFiniteSet(A \cap B)
  BY FS_Intersection
<1>3. Cardinality(A \cup B) \in Nat /\ Cardinality(A \cap B) \in Nat /\ Cardinality(A) \in Nat /\ Cardinality(B) \in Nat
  BY <1>1, <1>2, FS_CardinalityType
<1> QED BY <1>1, <1>3

(* A window lets through what its limit allows: attempts of one window are *)
(* told apart by their number in it.                                       *)
LEMMA WindowCounts ==
  ASSUME WindowInv, ~late, NEW S \in SUBSET passed, NEW h, NEW reset, NEW first \in 1..2,
         \A a \in S : a.host = h /\ a.reset = reset /\ a.nth >= first
  PROVE  IsFiniteSet(S) /\ Cardinality(S) <= Limit - first + 1
<1> DEFINE f == [a \in S |-> a.nth]
<1>1. /\ S \subseteq Attempt /\ Limit \in Nat /\ Limit > 0
      /\ \A a, b \in S : InTurn(a, b)
  BY LoginLimiterAssumption DEF WindowInv, WindowTypeOK
<1>2. \A a \in S : a.nth \in first..Limit
  BY <1>1 DEF Attempt
<1>3. f \in Injection(S, first..Limit)
  <2>1. \A a, b \in S : a.nth = b.nth => a = b
    BY <1>1 DEF InTurn
  <2> QED BY <1>2, <2>1 DEF Injection, IsInjective
<1>4. IsFiniteSet(first..Limit) /\ Cardinality(first..Limit) = Limit - first + 1
  BY <1>1, FS_Interval
<1> HIDE DEF f
<1>5. IsFiniteSet(S) /\ Cardinality(S) <= Cardinality(first..Limit)
  BY <1>3, <1>4, FS_Injection
<1> QED BY <1>4, <1>5

(* In the order of their windows, an attempt of one is later than all of   *)
(* the window before the last by more than a window.                       *)
LEMMA ThreeWindows ==
  ASSUME WindowInv, ~late, NEW h \in Hosts, NEW t \in Nat,
         NEW a \in Within(h, t), NEW b \in Within(h, t), NEW c \in Within(h, t),
         a.reset < b.reset, b.reset < c.reset
  PROVE  /\ Overtaken(c)
         /\ \A x \in Within(h, t) : /\ x.reset \in {a.reset, b.reset, c.reset}
                                    /\ x.reset # b.reset => x.nth >= 2
<1>1. Window \in Nat /\ Window > 0
  BY LoginLimiterAssumption
<1>2. \A x \in Within(h, t) :
        /\ x.at \in Nat /\ x.reset \in Nat /\ x.nth \in Nat /\ x.nth > 0
        /\ t <= x.at /\ x.at <= t + Window /\ InWindow(x)
  BY LoginLimiterAssumption DEF Within, WindowInv, WindowTypeOK, Attempt
<1>3. \A x, y \in Within(h, t) : x.reset < y.reset =>
        x.reset + Window < y.reset /\ x.reset < y.at + Window
  BY DEF Within, WindowInv, InTurn
<1>4. /\ a.reset + Window < b.reset /\ b.reset + Window < c.reset /\ b.reset < c.at + Window
  BY <1>3
<1>5. Overtaken(c)
  BY <1>1, <1>2, <1>4 DEF Overtaken, InWindow
<1>6. ASSUME NEW x \in Within(h, t) PROVE x.reset \in {a.reset, b.reset, c.reset}
  <2>1. CASE x.reset < a.reset
    BY <2>1, <1>1, <1>2, <1>3, <1>4 DEF InWindow
  <2>2. CASE a.reset < x.reset /\ x.reset < b.reset
    BY <2>2, <1>1, <1>2, <1>3, <1>4 DEF InWindow
  <2>3. CASE b.reset < x.reset /\ x.reset < c.reset
    BY <2>3, <1>1, <1>2, <1>3, <1>4 DEF InWindow
  <2>4. CASE c.reset < x.reset
    <3>1. c.reset < x.at + Window
      BY <2>4, <1>3
    <3> QED BY <3>1, <1>1, <1>2, <1>4 DEF InWindow
  <2> QED BY <2>1, <2>2, <2>3, <2>4, <1>2
<1>7. ASSUME NEW x \in Within(h, t), x.reset # b.reset PROVE x.nth >= 2
  <2>1. CASE x.nth = 1
    <3>1. x.reset = x.at + Window
      BY <2>1, <1>2 DEF InWindow
    <3>2. x.reset = a.reset \/ x.reset = c.reset
      BY <1>6, <1>7
    <3> QED BY <3>1, <3>2, <1>1, <1>2, <1>4 DEF InWindow
  <2> QED BY <2>1, <1>2
<1> QED BY <1>5, <1>6, <1>7

(* Two windows in a stretch let through twice the limit, and the first and *)
(* the third of three not their opening requests.                          *)
LEMMA WindowBounds == WindowInv => AttemptsBounded
<1> SUFFICES ASSUME WindowInv, ~late, NEW h \in Hosts, NEW t \in 0..MaxClock
             PROVE  \/ Cardinality(Within(h, t)) <= 2 * Limit
                    \/ /\ \E a \in Within(h, t) : Overtaken(a)
                       /\ Cardinality(Within(h, t)) <= 3 * Limit - 2
  BY DEF AttemptsBounded
<1> DEFINE S == Within(h, t)
           Of(reset) == {a \in S : a.reset = reset}
<1>1. /\ Limit \in Nat /\ Limit > 0 /\ t \in Nat
      /\ S \in SUBSET passed
      /\ \A a \in S : a.host = h /\ a.reset \in Nat /\ a.nth \in Nat /\ a.nth > 0
  BY LoginLimiterAssumption DEF Within, WindowInv, WindowTypeOK, Attempt
<1>2. ASSUME NEW reset, NEW first \in 1..2, \A a \in Of(reset) : a.nth >= first
      PROVE  /\ IsFiniteSet(Of(reset)) /\ Cardinality(Of(reset)) \in Nat
             /\ Cardinality(Of(reset)) <= Limit - first + 1
  <2>1. \A a \in Of(reset) : a.host = h /\ a.reset = reset /\ a.nth >= first
    BY <1>1, <1>2
  <2>2. Of(reset) \in SUBSET passed
    BY <1>1
  <2> HIDE DEF Of, S
  <2>3. IsFiniteSet(Of(reset)) /\ Cardinality(Of(reset)) <= Limit - first + 1
    BY <2>1, <2>2, WindowCounts
  <2> QED BY <2>3, FS_CardinalityType
<1>3. CASE \E one, two : \A a \in S : a.reset \in {one, two}
  <2>1. PICK one, two : \A a \in S : a.reset \in {one, two}
    BY <1>3
  <2>2. S = Of(one) \cup Of(two)
    BY <2>1
  <2>3. \A reset : \A a \in Of(reset) : a.nth >= 1
    BY <1>1
  <2> HIDE DEF Of, S
  <2>4. /\ IsFiniteSet(Of(one)) /\ Cardinality(Of(one)) \in Nat /\ Cardinality(Of(one)) <= Limit
        /\ IsFiniteSet(Of(two)) /\ Cardinality(Of(two)) \in Nat /\ Cardinality(Of(two)) <= Limit
    BY <1>1, <1>2, <2>3
  <2>5. Cardinality(S) <= Cardinality(Of(one)) + Cardinality(Of(two))
    BY <2>2, <2>4, UnionAtMost
  <2>6. Cardinality(S) \in Nat
    BY <2>2, <2>4, UnionAtMost
  <2> QED BY <2>4, <2>5, <2>6, <1>1 DEF S
<1>4. CASE ~ \E one, two : \A a \in S : a.reset \in {one, two}
  <2>1. PICK a0 \in S : TRUE
    BY <1>4
  <2>2. PICK b0 \in S : b0.reset # a0.reset
    BY <1>4, <2>1
  <2>3. PICK c0 \in S : c0.reset # a0.reset /\ c0.reset # b0.reset
    BY <1>4
  <2>4. PICK a \in S, b \in S, c \in S : a.reset < b.reset /\ b.reset < c.reset
    <3>1. a0.reset \in Nat /\ b0.reset \in Nat /\ c0.reset \in Nat
      BY <1>1
    <3> HIDE DEF S
    <3> QED BY <3>1, <2>1, <2>2, <2>3
  <2>5. /\ Overtaken(c)
        /\ \A x \in S : /\ x.reset \in {a.reset, b.reset, c.reset}
                        /\ x.reset # b.reset => x.nth >= 2
    BY <2>4, <1>1, ThreeWindows
  <2>6. S = Of(a.reset) \cup (Of(b.reset) \cup Of(c.reset))
    BY <2>5
  <2>7. /\ \A x \in Of(a.reset) : x.nth >= 2
        /\ \A x \in Of(b.reset) : x.nth >= 1
        /\ \A x \in Of(c.reset) : x.nth >= 2
    BY <2>4, <2>5, <1>1
  <2> HIDE DEF Of, S
  <2>8. /\ IsFiniteSet(Of(a.reset)) /\ Cardinality(Of(a.reset)) \in Nat /\ Cardinality(Of(a.reset)) <= Limit - 1
        /\ IsFiniteSet(Of(b.reset)) /\ Cardinality(Of(b.reset)) \in Nat /\ Cardinality(Of(b.reset)) <= Limit
        /\ IsFiniteSet(Of(c.reset)) /\ Cardinality(Of(c.reset)) \in Nat /\ Cardinality(Of(c.reset)) <= Limit - 1
    BY <1>1, <1>2, <2>7
  <2> DEFINE T == Of(b.reset) \cup Of(c.reset)
  <2>9. IsFiniteSet(T) /\ Cardinality(T) \in Nat /\ Cardinality(T) <= Cardinality(Of(b.reset)) + Cardinality(Of(c.reset))
    BY <2>8, UnionAtMost
  <2> HIDE DEF T
  <2>10. Cardinality(S) \in Nat /\ Cardinality(S) <= Cardinality(Of(a.reset)) + Cardinality(T)
    BY <2>6, <2>8, <2>9, UnionAtMost DEF T
  <2>11. Cardinality(S) <= 3 * Limit - 2
    BY <2>8, <2>9, <2>10, <1>1
  <2> QED BY <2>4, <2>5, <2>11 DEF S
<1> QED BY <1>3, <1>4

(* Logins are bounded, however requests overtake one another: by twice the *)
(* limit in the time of a window, by two less than three times where one   *)
(* of them was counted in a window opened after it, unless a late request  *)
(* reopened a pruned window (rateLimiter.allowWith).                       *)
THEOREM AttemptsBoundedAlways == WindowSpec => []AttemptsBounded
BY WindowInvariant, WindowBounds, PTL

(***************************************************************************)
(* The rollups of the statistics.                                          *)
(***************************************************************************)
Counters == [Kinds -> Nat]
RowTable == [Minutes -> Counters]
Rollups == [Granularities -> RowTable]

(* The points that Total counts.                                           *)
Points(table, k) == UNION {{m} \X (1..table[m][k]) : m \in Minutes}

LEMMA PointsAre ==
  ASSUME NEW table, NEW k
  PROVE  /\ \A p \in Points(table, k) : p = <<p[1], p[2]>> /\ p[1] \in Minutes /\ p[2] \in 1..table[p[1]][k]
         /\ \A m \in Minutes : \A i \in 1..table[m][k] : <<m, i>> \in Points(table, k)
<1>1. ASSUME NEW p \in Points(table, k)
      PROVE  p = <<p[1], p[2]>> /\ p[1] \in Minutes /\ p[2] \in 1..table[p[1]][k]
  <2>1. PICK m \in Minutes : p \in {m} \X (1..table[m][k])
    BY DEF Points
  <2> QED BY <2>1
<1>2. ASSUME NEW m \in Minutes, NEW i \in 1..table[m][k]
      PROVE  <<m, i>> \in Points(table, k)
  <2>1. <<m, i>> \in {m} \X (1..table[m][k])
    OBVIOUS
  <2> QED BY <2>1 DEF Points
<1> QED BY <1>1, <1>2

(* A row adds as many points as it counts.                                 *)
RowPoints(m, a, d) == {m} \X ((a + 1)..(a + d))

LEMMA RowCounts ==
  ASSUME NEW m, NEW a \in Nat, NEW d \in Nat
  PROVE  IsFiniteSet(RowPoints(m, a, d)) /\ Cardinality(RowPoints(m, a, d)) = d
<1> DEFINE left == {m}
           right == (a + 1)..(a + d)
<1>1. IsFiniteSet(right) /\ Cardinality(right) = d
  <2>1. a + 1 \in Int /\ a + d \in Int
    OBVIOUS
  <2>2. /\ IsFiniteSet((a + 1)..(a + d))
        /\ Cardinality((a + 1)..(a + d)) = IF a + 1 > a + d THEN 0 ELSE (a + d) - (a + 1) + 1
    BY <2>1, FS_Interval
  <2> QED BY <2>2
<1>2. IsFiniteSet(left) /\ Cardinality(left) = 1
  BY FS_Singleton
<1>3. RowPoints(m, a, d) = left \X right
  BY DEF RowPoints
<1> HIDE DEF left, right
<1>4. IsFiniteSet(left \X right) /\ Cardinality(left \X right) = Cardinality(left) * Cardinality(right)
  BY <1>1, <1>2, FS_Product
<1>5. Cardinality(left \X right) = d
  BY <1>1, <1>2, <1>4
<1> QED BY <1>3, <1>4, <1>5

(* A table has a total, which is 0 for an empty one.                       *)
LEMMA TotalTyped ==
  ASSUME NEW table \in RowTable, NEW k \in Kinds
  PROVE  IsFiniteSet(Points(table, k)) /\ Total(table, k) = Cardinality(Points(table, k)) /\ Total(table, k) \in Nat
<1> DEFINE row(m) == {m} \X (1..table[m][k])
           box == [m \in Minutes |-> row(m)]
<1>1. IsFiniteSet(Minutes)
  BY StatisticsAssumption, FS_Interval DEF Minutes
<1>2. box \in Surjection(Minutes, {row(m) : m \in Minutes})
  BY DEF Surjection
<1>3. IsFiniteSet({row(m) : m \in Minutes})
  <2> HIDE DEF box, row
  <2> QED BY <1>1, <1>2, FS_Surjection
<1>4. ASSUME NEW m \in Minutes PROVE IsFiniteSet(row(m))
  <2>1. table[m][k] \in Nat
    BY DEF RowTable, Counters
  <2>2. RowPoints(m, 0, table[m][k]) = row(m)
    BY <2>1 DEF RowPoints
  <2> QED BY <2>1, <2>2, RowCounts
<1>5. \A s \in {row(m) : m \in Minutes} : IsFiniteSet(s)
  BY <1>4
<1>6. Points(table, k) = UNION {row(m) : m \in Minutes}
  BY DEF Points
<1>7. IsFiniteSet(Points(table, k))
  <2> HIDE DEF row
  <2> QED BY <1>3, <1>5, <1>6, FS_UNION
<1>8. Total(table, k) = Cardinality(Points(table, k))
  BY DEF Total, Points
<1> QED BY <1>7, <1>8, FS_CardinalityType

LEMMA TotalEmpty == ASSUME NEW k \in Kinds PROVE Empty \in RowTable /\ Total(Empty, k) = 0
<1>1. Empty \in RowTable /\ \A m \in Minutes : Empty[m][k] = 0
  BY DEF Empty, Zero, RowTable, Counters
<1>2. Points(Empty, k) = {}
  <2>1. ASSUME NEW p \in Points(Empty, k) PROVE FALSE
    <3>1. p[1] \in Minutes /\ p[2] \in 1..Empty[p[1]][k]
      BY PointsAre
    <3> QED BY <3>1, <1>1
  <2> QED BY <2>1
<1> QED BY <1>1, <1>2, TotalTyped, FS_EmptySet

(* A row that is added to adds to the total what was added.                *)
LEMMA TotalAdded ==
  ASSUME NEW table \in RowTable, NEW b \in Minutes, NEW d \in Counters, NEW k \in Kinds
  PROVE  /\ [table EXCEPT ![b] = Plus(table[b], d)] \in RowTable
         /\ Total([table EXCEPT ![b] = Plus(table[b], d)], k) = Total(table, k) + d[k]
<1> DEFINE new == [table EXCEPT ![b] = Plus(table[b], d)]
           more == RowPoints(b, table[b][k], d[k])
<1>1. /\ table[b] \in Counters /\ table[b][k] \in Nat /\ d[k] \in Nat
      /\ Plus(table[b], d) \in Counters
  BY DEF RowTable, Counters, Plus
<1>2. new \in RowTable
  BY <1>1 DEF RowTable
<1>3. /\ \A m \in Minutes : m # b => new[m][k] = table[m][k]
      /\ new[b][k] = table[b][k] + d[k]
  BY DEF RowTable, Plus
<1> HIDE DEF new
<1>4. Points(new, k) = Points(table, k) \cup more
  <2>1. ASSUME NEW p \in Points(new, k) PROVE p \in Points(table, k) \cup more
    <3>1. p = <<p[1], p[2]>> /\ p[1] \in Minutes /\ p[2] \in 1..new[p[1]][k]
      BY PointsAre
    <3>2. CASE p[1] # b
      BY <3>1, <3>2, <1>3, PointsAre
    <3>3. CASE p[1] = b /\ p[2] \in 1..table[b][k]
      BY <3>1, <3>3, PointsAre
    <3>4. CASE p[1] = b /\ p[2] \notin 1..table[b][k]
      <4>1. p[2] \in (table[b][k] + 1)..(table[b][k] + d[k])
        BY <3>1, <3>4, <1>1, <1>3
      <4> QED BY <4>1, <3>1, <3>4 DEF RowPoints
    <3> QED BY <3>2, <3>3, <3>4
  <2>2. ASSUME NEW p \in Points(table, k) PROVE p \in Points(new, k)
    <3>1. p = <<p[1], p[2]>> /\ p[1] \in Minutes /\ p[2] \in 1..table[p[1]][k]
      BY PointsAre
    <3>2. p[2] \in 1..new[p[1]][k]
      BY <3>1, <1>1, <1>3
    <3> QED BY <3>1, <3>2, PointsAre
  <2>3. ASSUME NEW p \in more PROVE p \in Points(new, k)
    <3>1. p = <<b, p[2]>> /\ p[2] \in 1..new[b][k]
      BY <1>1, <1>3 DEF RowPoints
    <3> QED BY <3>1, PointsAre
  <2> QED BY <2>1, <2>2, <2>3
<1>5. Points(table, k) \cap more = {}
  <2>1. ASSUME NEW p \in Points(table, k), p \in more PROVE FALSE
    <3>1. p[1] = b /\ p[2] \in (table[b][k] + 1)..(table[b][k] + d[k])
      BY <2>1 DEF RowPoints
    <3>2. p[2] \in 1..table[b][k]
      BY <3>1, PointsAre
    <3> QED BY <3>1, <3>2, <1>1
  <2> QED BY <2>1
<1>6. IsFiniteSet(more) /\ Cardinality(more) = d[k]
  BY <1>1, RowCounts
<1> HIDE DEF more
<1>7. Cardinality(Points(table, k) \cup more) = Cardinality(Points(table, k)) + Cardinality(more) - Cardinality({})
  BY <1>5, <1>6, TotalTyped, FS_Union
<1>8. Total(new, k) = Total(table, k) + d[k]
  <2>1. Total(new, k) = Cardinality(Points(table, k) \cup more)
    BY <1>2, <1>4, TotalTyped
  <2>2. Total(table, k) = Cardinality(Points(table, k)) /\ Total(table, k) \in Nat
    BY TotalTyped
  <2> QED BY <2>1, <2>2, <1>1, <1>6, <1>7, FS_EmptySet
<1> QED BY <1>2, <1>8 DEF new

(* A row that is replaced adds at most what it counts.                     *)
LEMMA TotalReplaced ==
  ASSUME NEW table \in RowTable, NEW b \in Minutes, NEW d \in Counters, NEW k \in Kinds
  PROVE  /\ [table EXCEPT ![b] = d] \in RowTable
         /\ Total([table EXCEPT ![b] = d], k) <= Total(table, k) + d[k]
<1> DEFINE new == [table EXCEPT ![b] = d]
           more == RowPoints(b, 0, d[k])
<1>1. d[k] \in Nat /\ new \in RowTable
  BY DEF RowTable, Counters
<1>2. (\A m \in Minutes : m # b => new[m][k] = table[m][k]) /\ new[b][k] = d[k]
  BY DEF RowTable
<1> HIDE DEF new
<1>3. Points(new, k) \in SUBSET (Points(table, k) \cup more)
  <2>1. ASSUME NEW p \in Points(new, k) PROVE p \in Points(table, k) \cup more
    <3>1. p = <<p[1], p[2]>> /\ p[1] \in Minutes /\ p[2] \in 1..new[p[1]][k]
      BY PointsAre
    <3>2. CASE p[1] # b
      BY <3>1, <3>2, <1>2, PointsAre
    <3>3. CASE p[1] = b
      BY <3>1, <3>3, <1>1, <1>2 DEF RowPoints
    <3> QED BY <3>2, <3>3
  <2> QED BY <2>1
<1>4. IsFiniteSet(more) /\ Cardinality(more) = d[k]
  BY <1>1, RowCounts
<1> HIDE DEF more
<1>5. /\ IsFiniteSet(Points(table, k) \cup more)
      /\ Cardinality(Points(table, k) \cup more) \in Nat
      /\ Cardinality(Points(table, k) \cup more) <= Total(table, k) + d[k]
  BY <1>4, TotalTyped, UnionAtMost
<1>6. Cardinality(Points(new, k)) <= Cardinality(Points(table, k) \cup more)
  BY <1>3, <1>5, FS_Subset
<1>7. Total(new, k) <= Total(table, k) + d[k]
  BY <1>1, <1>5, <1>6, TotalTyped
<1> QED BY <1>1, <1>7 DEF new
(* The bucket of an hour or a day is not beyond that of its minute.        *)
LEMMA BucketsAre == \A m \in Minutes : Hour(m) \in Minutes /\ Day(m) \in Minutes
<1> SUFFICES ASSUME NEW m \in Minutes PROVE Hour(m) \in Minutes /\ Day(m) \in Minutes
  OBVIOUS
<1>1. PerHour \in Nat /\ PerHour > 0 /\ 2 * PerHour \in Nat /\ 2 * PerHour > 0
      /\ MaxMinute \in Nat /\ m \in Nat /\ m <= MaxMinute
  BY StatisticsAssumption DEF Minutes
<1>2. ASSUME NEW n \in Nat, n > 0 PROVE m \div n \in 0..m
  BY <1>1, <1>2
<1> QED BY <1>1, <1>2 DEF Hour, Day, Minutes

(* What the last successful flush of this process saw.                     *)
Since(k) == IF last = NoSnapshot THEN 0 ELSE last[k]

(* The counters are not below what was flushed or is being flushed, and a  *)
(* flush writes what came between the two.                                 *)
FlushInv ==
  /\ \A k \in Kinds : /\ Since(k) <= counts[k]
                      /\ flush.at \in Granularities =>
                           flush.snap[k] <= counts[k] /\ Since(k) + flush.delta[k] = flush.snap[k]
  /\ flush.at = "load" => /\ Since("queries") <= flush.snap["queries"]
                          /\ flush.snap["queries"] <= counts["queries"]

StatsInv == StatsTypeOK /\ FlushInv /\ RollupsExact

LEMMA StatsTyped ==
  ASSUME StatsTypeOK
  PROVE  /\ rows \in Rollups /\ diskRows \in Rollups
         /\ counts \in Counters /\ settled \in Counters /\ flush.snap \in Counters /\ flush.delta \in Counters
         /\ flush.minute \in Minutes /\ NoSnapshot \notin Counters
         /\ flush.at \in {"idle", "load", "1m", "1h", "1d"}
         /\ last \in Counters \cup {NoSnapshot}
         /\ \A k \in Kinds : /\ counts[k] \in Nat /\ settled[k] \in Nat /\ flush.snap[k] \in Nat
                             /\ flush.delta[k] \in Nat /\ Since(k) \in Nat
                             /\ Flushed(k) = settled[k] + Since(k)
         /\ \A g \in Granularities : /\ rows[g] \in RowTable /\ diskRows[g] \in RowTable
                                     /\ \A k \in Kinds : Total(rows[g], k) \in Nat /\ Total(diskRows[g], k) \in Nat
<1>1. /\ rows \in Rollups /\ diskRows \in Rollups
      /\ counts \in Counters /\ settled \in Counters /\ flush.snap \in Counters /\ flush.delta \in Counters
      /\ flush.minute \in Minutes /\ NoSnapshot \notin Counters
      /\ flush.at \in {"idle", "load", "1m", "1h", "1d"}
      /\ last \in Counters \cup {NoSnapshot}
  BY StatisticsAssumption DEF StatsTypeOK, Rollups, RowTable, Counters
<1>2. ASSUME NEW k \in Kinds
      PROVE  /\ counts[k] \in Nat /\ settled[k] \in Nat /\ flush.snap[k] \in Nat
             /\ flush.delta[k] \in Nat /\ Since(k) \in Nat
             /\ Flushed(k) = settled[k] + Since(k)
  BY <1>1 DEF Counters, Since, Flushed
<1>3. \A g \in Granularities : rows[g] \in RowTable /\ diskRows[g] \in RowTable
  BY <1>1 DEF Rollups
<1> QED BY <1>1, <1>2, <1>3, TotalTyped

(* What a write adds to each granularity.                                  *)
LEMMA RowTotals ==
  ASSUME StatsTypeOK, flush.at \in Granularities
  PROVE  /\ Row \in Rollups
         /\ \A k \in Kinds :
              /\ Total(Row["1d"], k) = Total(rows["1d"], k) + Underway({"1d"}, k)
              /\ Total(Row["1h"], k) = Total(rows["1h"], k) + Underway({"1h"}, k)
              /\ Total(Row["1m"], k) <= Total(rows["1m"], k) + Underway({"1m"}, k)
              /\ Total(Row["1d"], k) \in Nat /\ Total(Row["1h"], k) \in Nat /\ Total(Row["1m"], k) \in Nat
<1>1. /\ rows \in Rollups /\ flush.delta \in Counters /\ flush.minute \in Minutes
      /\ Hour(flush.minute) \in Minutes /\ Day(flush.minute) \in Minutes
      /\ \A g \in Granularities : rows[g] \in RowTable
      /\ \A g \in Granularities, k \in Kinds : Total(rows[g], k) \in Nat
      /\ \A k \in Kinds : flush.delta[k] \in Nat
  BY StatsTyped, BucketsAre
<1>2. CASE flush.at = "1m"
  <2> DEFINE table == [rows["1m"] EXCEPT ![flush.minute] = flush.delta]
  <2>1. Row = [rows EXCEPT !["1m"] = table]
    BY <1>2 DEF Row
  <2>2. /\ "1m" \in Granularities /\ "1h" \in Granularities /\ "1d" \in Granularities
        /\ "1m" # "1h" /\ "1m" # "1d"
    BY DEF Granularities
  <2>3. table \in RowTable /\ \A k \in Kinds : Total(table, k) <= Total(rows["1m"], k) + flush.delta[k]
    <3>1. rows["1m"] \in RowTable
      BY <1>1, <2>2
    <3> QED BY <3>1, <1>1, TotalReplaced DEF Kinds
  <2> HIDE DEF table
  <2>4. Row \in Rollups /\ Row["1m"] = table /\ Row["1h"] = rows["1h"] /\ Row["1d"] = rows["1d"]
    BY <1>1, <2>1, <2>2, <2>3 DEF Rollups
  <2> QED BY <2>2, <2>3, <2>4, <1>1, <1>2, TotalTyped DEF Underway
<1>3. CASE flush.at = "1h"
  <2> DEFINE table == [rows["1h"] EXCEPT ![Hour(flush.minute)] = Plus(rows["1h"][Hour(flush.minute)], flush.delta)]
  <2>1. Row = [rows EXCEPT !["1h"] = table]
    BY <1>3 DEF Row, addRollup
  <2>2. /\ "1m" \in Granularities /\ "1h" \in Granularities /\ "1d" \in Granularities
        /\ "1m" # "1h" /\ "1h" # "1d"
    BY DEF Granularities
  <2>3. table \in RowTable /\ \A k \in Kinds : Total(table, k) = Total(rows["1h"], k) + flush.delta[k]
    <3>1. rows["1h"] \in RowTable
      BY <1>1, <2>2
    <3> QED BY <3>1, <1>1, TotalAdded DEF Kinds
  <2> HIDE DEF table
  <2>4. Row \in Rollups /\ Row["1h"] = table /\ Row["1m"] = rows["1m"] /\ Row["1d"] = rows["1d"]
    BY <1>1, <2>1, <2>2, <2>3 DEF Rollups
  <2> QED BY <2>2, <2>3, <2>4, <1>1, <1>3, TotalTyped DEF Underway
<1>4. CASE flush.at = "1d"
  <2> DEFINE table == [rows["1d"] EXCEPT ![Day(flush.minute)] = Plus(rows["1d"][Day(flush.minute)], flush.delta)]
  <2>1. Row = [rows EXCEPT !["1d"] = table]
    BY <1>4 DEF Row, addRollup
  <2>2. /\ "1m" \in Granularities /\ "1h" \in Granularities /\ "1d" \in Granularities
        /\ "1m" # "1d" /\ "1h" # "1d"
    BY DEF Granularities
  <2>3. table \in RowTable /\ \A k \in Kinds : Total(table, k) = Total(rows["1d"], k) + flush.delta[k]
    <3>1. rows["1d"] \in RowTable
      BY <1>1, <2>2
    <3> QED BY <3>1, <1>1, TotalAdded DEF Kinds
  <2> HIDE DEF table
  <2>4. Row \in Rollups /\ Row["1d"] = table /\ Row["1m"] = rows["1m"] /\ Row["1h"] = rows["1h"]
    BY <1>1, <2>1, <2>2, <2>3 DEF Rollups
  <2> QED BY <2>2, <2>3, <2>4, <1>1, <1>4, TotalTyped DEF Underway
<1> QED BY <1>2, <1>3, <1>4 DEF Granularities
(* The counters and their rollups start empty.                             *)
LEMMA StatsStarts == StatsInit => StatsInv
<1> SUFFICES ASSUME StatsInit PROVE StatsInv
  OBVIOUS
<1>1. /\ Zero \in Counters /\ \A k \in Kinds : Zero[k] = 0
      /\ Empty \in RowTable /\ \A k \in Kinds : Total(Empty, k) = 0
  BY TotalEmpty DEF Zero, Counters, Empty, RowTable
<1>2. NoFlush \in [at : {"idle", "load", "1m", "1h", "1d"}, snap : Counters, delta : Counters, minute : Minutes]
  BY <1>1, StatisticsAssumption DEF NoFlush, Minutes
<1>3. rows \in Rollups /\ diskRows \in Rollups /\ \A g \in Granularities : rows[g] = Empty /\ diskRows[g] = Empty
  BY <1>1 DEF StatsInit, Rollups
<1>4. StatsTypeOK
  <2>1. minute \in Minutes /\ inflight \in Nat /\ counts \in Counters /\ settled \in Counters
    BY <1>1, StatisticsAssumption DEF StatsInit, Minutes
  <2>2. MaxQueries \in Nat /\ MaxStatsRestarts \in Nat /\ MaxFlushFailures \in Nat
    BY StatisticsAssumption
  <2>3. queried \in 0..MaxQueries /\ statsRestarts \in 0..MaxStatsRestarts /\ flushFailures \in 0..MaxFlushFailures
    BY <2>2 DEF StatsInit
  <2>4. partial \in BOOLEAN /\ twice \in BOOLEAN /\ last \in Counters \cup {NoSnapshot}
    BY DEF StatsInit
  <2> QED BY <1>2, <1>3, <2>1, <2>3, <2>4 DEF StatsTypeOK, StatsInit, Rollups, RowTable, Counters
<1>5. FlushInv
  BY <1>1 DEF StatsInit, FlushInv, Since, NoFlush, Granularities
<1>6. \A k \in Kinds : Flushed(k) = 0 /\ Underway({"1d"}, k) = 0 /\ Underway({"1h", "1d"}, k) = 0
  BY <1>1 DEF StatsInit, Flushed, Underway, NoFlush
<1>7. RollupsExact
  <2>1. "1m" \in Granularities /\ "1h" \in Granularities /\ "1d" \in Granularities
    BY DEF Granularities
  <2> QED BY <1>1, <1>3, <1>6, <2>1 DEF RollupsExact, Exact
<1> QED BY <1>4, <1>5, <1>7 DEF StatsInv

(* Steps that write no row and end no flush leave the rows right.          *)
LEMMA RowsRest ==
  ASSUME RollupsExact, UNCHANGED <<rows, diskRows, settled, last, partial, twice>>,
         flush'.at \notin {"1h", "1d"}, flush.at \notin {"1h", "1d"}
  PROVE  RollupsExact'
BY DEF RollupsExact, Exact, Flushed, Underway

LEMMA RowsStay ==
  ASSUME RollupsExact, UNCHANGED <<rows, diskRows, settled, last, partial, twice, flush>>
  PROVE  RollupsExact'
BY DEF RollupsExact, Exact, Flushed, Underway

LEMMA IncQueryKeeps == StatsInv /\ IncQuery => StatsInv'
<1> SUFFICES ASSUME StatsInv, IncQuery PROVE StatsInv'
  OBVIOUS
<1>1. /\ counts \in Counters /\ counts' = [counts EXCEPT !["queries"] = counts["queries"] + 1]
      /\ \A k \in Kinds : counts[k] \in Nat /\ flush.snap[k] \in Nat /\ Since(k) \in Nat
      /\ "queries" \in Kinds
  BY StatsTyped DEF StatsInv, IncQuery, Kinds
<1>2. counts' \in Counters /\ \A k \in Kinds : counts'[k] \in Nat /\ counts[k] <= counts'[k]
  BY <1>1 DEF Counters
<1>3. StatsTypeOK'
  <2>1. queried' \in 0..MaxQueries
    BY StatisticsAssumption DEF IncQuery, StatsInv, StatsTypeOK
  <2> QED BY <1>2, <2>1 DEF IncQuery, StatsInv, StatsTypeOK, Counters
<1>4. FlushInv'
  BY <1>1, <1>2 DEF IncQuery, StatsInv, FlushInv, Since
<1> QED BY <1>3, <1>4, RowsStay DEF StatsInv, IncQuery

LEMMA IncHitKeeps == StatsInv /\ IncHit => StatsInv'
<1> SUFFICES ASSUME StatsInv, IncHit PROVE StatsInv'
  OBVIOUS
<1>1. /\ counts \in Counters /\ counts' = [counts EXCEPT !["hits"] = counts["hits"] + 1]
      /\ \A k \in Kinds : counts[k] \in Nat /\ flush.snap[k] \in Nat /\ Since(k) \in Nat
      /\ "hits" \in Kinds /\ "queries" \in Kinds
  BY StatsTyped DEF StatsInv, IncHit, Kinds
<1>2. counts' \in Counters /\ \A k \in Kinds : counts'[k] \in Nat /\ counts[k] <= counts'[k]
  BY <1>1 DEF Counters
<1>3. StatsTypeOK'
  BY <1>2 DEF IncHit, StatsInv, StatsTypeOK, Counters
<1>4. FlushInv'
  BY <1>1, <1>2 DEF IncHit, StatsInv, FlushInv, Since
<1> QED BY <1>3, <1>4, RowsStay DEF StatsInv, IncHit

LEMMA LoadQueriesKeeps == StatsInv /\ LoadQueries => StatsInv'
<1> SUFFICES ASSUME StatsInv, LoadQueries PROVE StatsInv'
  OBVIOUS
<1> DEFINE snap == [Zero EXCEPT !["queries"] = counts["queries"]]
<1>1. /\ counts \in Counters /\ "queries" \in Kinds /\ counts["queries"] \in Nat
      /\ Zero \in Counters
  BY StatsTyped DEF StatsInv, Kinds, Zero, Counters
<1>2. snap \in Counters /\ snap["queries"] = counts["queries"]
  BY <1>1 DEF Counters
<1> HIDE DEF snap
<1>3. flush' = [at |-> "load", snap |-> snap, delta |-> Zero, minute |-> 0]
  BY DEF LoadQueries, NoFlush, snap
<1>4. 0 \in Minutes
  BY StatisticsAssumption DEF Minutes
<1>5. StatsTypeOK'
  BY <1>1, <1>2, <1>3, <1>4 DEF LoadQueries, StatsInv, StatsTypeOK, Counters
<1>6. FlushInv'
  <2>1. Since("queries") <= counts["queries"]
    BY <1>1 DEF StatsInv, FlushInv
  <2>2. /\ counts' = counts /\ last' = last
        /\ flush'.at = "load" /\ flush'.at \notin Granularities /\ flush'.snap = snap
    <3>1. counts' = counts /\ last' = last
      BY DEF LoadQueries
    <3> QED BY <3>1, <1>3 DEF Granularities
  <2>3. \A k \in Kinds : Since(k) <= counts[k]
    BY DEF StatsInv, FlushInv
  <2> QED BY <2>1, <2>2, <2>3, <1>1, <1>2 DEF FlushInv, Since
<1> QED BY <1>3, <1>5, <1>6, RowsRest DEF StatsInv, LoadQueries

LEMMA LoadHitsKeeps == StatsInv /\ LoadHits => StatsInv'
<1> SUFFICES ASSUME StatsInv, LoadHits PROVE StatsInv'
  OBVIOUS
<1> DEFINE snap == [flush.snap EXCEPT !["hits"] = counts["hits"]]
<1>1. /\ counts \in Counters /\ flush.snap \in Counters /\ last \in Counters \cup {NoSnapshot}
      /\ \A k \in Kinds : counts[k] \in Nat /\ flush.snap[k] \in Nat /\ Since(k) \in Nat
      /\ Kinds = {"queries", "hits"}
  BY StatsTyped DEF StatsInv, Kinds
<1>2. /\ snap \in Counters /\ snap["hits"] = counts["hits"] /\ snap["queries"] = flush.snap["queries"]
  BY <1>1 DEF Counters
<1>3. \A k \in Kinds : Since(k) <= snap[k] /\ snap[k] <= counts[k] /\ snap[k] \in Nat
  <2>1. \A k \in Kinds : Since(k) <= counts[k]
    BY DEF StatsInv, FlushInv
  <2>2. Since("queries") <= flush.snap["queries"] /\ flush.snap["queries"] <= counts["queries"]
    BY DEF StatsInv, FlushInv, LoadHits
  <2> HIDE DEF snap
  <2>3. Since("queries") <= snap["queries"] /\ snap["queries"] <= counts["queries"] /\ snap["queries"] \in Nat
    BY <2>2, <1>1, <1>2
  <2>4. Since("hits") <= snap["hits"] /\ snap["hits"] <= counts["hits"] /\ snap["hits"] \in Nat
    BY <2>1, <1>1, <1>2
  <2> QED BY <2>3, <2>4, <1>1
<1>4. flush' = [at |-> "1m", snap |-> snap, delta |-> Delta(snap), minute |-> minute]
  BY DEF LoadHits
<1> HIDE DEF snap
<1>5. Delta(snap) \in Counters /\ \A k \in Kinds : Since(k) + Delta(snap)[k] = snap[k]
  <2>1. CASE last = NoSnapshot
    BY <2>1, <1>2, <1>3 DEF Delta, Since
  <2>2. CASE last # NoSnapshot
    <3>1. \A k \in Kinds : Since(k) = last[k] /\ last[k] \in Nat
      BY <2>2, <1>1 DEF Since, Counters
    <3>2. \A k \in Kinds : deltaCounter(snap[k], last[k]) = snap[k] - last[k] /\ snap[k] - last[k] \in Nat
      BY <1>3, <3>1 DEF deltaCounter
    <3>3. Delta(snap) = [k \in Kinds |-> deltaCounter(snap[k], last[k])]
      BY <2>2 DEF Delta
    <3> QED BY <3>1, <3>2, <3>3, <1>3 DEF Counters
  <2> QED BY <2>1, <2>2
<1>6. StatsTypeOK'
  <2>1. flush' \in [at : {"idle", "load", "1m", "1h", "1d"}, snap : Counters, delta : Counters, minute : Minutes]
    BY <1>2, <1>4, <1>5 DEF StatsInv, StatsTypeOK
  <2> QED BY <2>1 DEF LoadHits, StatsInv, StatsTypeOK, Counters
<1>7. FlushInv'
  <2>1. last' = last /\ counts' = counts
    BY DEF LoadHits
  <2> DEFINE delta == Delta(snap)
  <2> HIDE DEF delta
  <2>2. flush'.snap = snap /\ flush'.delta = delta /\ flush'.at # "load"
    BY <1>4 DEF delta
  <2>3. \A k \in Kinds : Since(k) <= counts[k] /\ snap[k] <= counts[k] /\ Since(k) + delta[k] = snap[k]
    BY <1>3, <1>5 DEF delta, StatsInv, FlushInv
  <2> QED BY <2>1, <2>2, <2>3 DEF FlushInv, Since
<1> QED BY <1>4, <1>6, <1>7, RowsRest DEF StatsInv, LoadHits

LEMMA StatsMinuteKeeps == StatsInv /\ Minute => StatsInv'
<1> SUFFICES ASSUME StatsInv, Minute PROVE StatsInv'
  OBVIOUS
<1>1. StatsTypeOK'
  <2>1. minute' \in Minutes
    <3>1. MaxMinute \in Nat /\ minute \in 0..MaxMinute
      BY StatisticsAssumption DEF StatsInv, StatsTypeOK, Minutes
    <3> QED BY <3>1 DEF Minute, Minutes
  <2> QED BY <2>1 DEF Minute, StatsInv, StatsTypeOK
<1>2. FlushInv'
  BY DEF Minute, StatsInv, FlushInv, Since
<1> QED BY <1>1, <1>2, RowsStay DEF StatsInv, Minute
(* What the invariant says of a table of rows, as numbers: F of them were  *)
(* flushed, and a flush is under way that has written the hour row or not. *)
LEMMA ExactReads ==
  ASSUME StatsInv, flush.at \in Granularities, NEW k \in Kinds
  PROVE  /\ Flushed(k) \in Nat /\ flush.delta[k] \in Nat /\ Flushed(k) + flush.delta[k] = settled[k] + flush.snap[k]
         /\ Total(rows["1d"], k) >= Flushed(k) /\ (~twice => Total(rows["1d"], k) = Flushed(k))
         /\ Total(rows["1h"], k) >= Flushed(k)
         /\ flush.at = "1d" => Total(rows["1h"], k) >= Flushed(k) + flush.delta[k]
         /\ ~partial => /\ Total(rows["1h"], k) = IF flush.at = "1d" THEN Flushed(k) + flush.delta[k] ELSE Flushed(k)
                        /\ Total(rows["1m"], k) <= IF flush.at = "1m" THEN Flushed(k) ELSE Flushed(k) + flush.delta[k]
         /\ Total(rows["1d"], k) \in Nat /\ Total(rows["1h"], k) \in Nat /\ Total(rows["1m"], k) \in Nat
<1>1. /\ Flushed(k) = settled[k] + Since(k) /\ settled[k] \in Nat /\ Since(k) \in Nat
      /\ flush.delta[k] \in Nat /\ flush.snap[k] \in Nat /\ Since(k) + flush.delta[k] = flush.snap[k]
  BY StatsTyped DEF StatsInv, FlushInv
<1>2. Total(rows["1d"], k) \in Nat /\ Total(rows["1h"], k) \in Nat /\ Total(rows["1m"], k) \in Nat
  BY StatsTyped DEF StatsInv, Granularities
<1>3. /\ Total(rows["1d"], k) >= Flushed(k) /\ (~twice => Total(rows["1d"], k) = Flushed(k))
      /\ Total(rows["1h"], k) >= Flushed(k) + Underway({"1d"}, k)
      /\ ~partial => /\ Total(rows["1h"], k) = Flushed(k) + Underway({"1d"}, k)
                     /\ Total(rows["1m"], k) <= Flushed(k) + Underway({"1h", "1d"}, k)
  BY DEF StatsInv, RollupsExact, Exact
<1>4. /\ Underway({"1d"}, k) = IF flush.at = "1d" THEN flush.delta[k] ELSE 0
      /\ Underway({"1h", "1d"}, k) = IF flush.at = "1m" THEN 0 ELSE flush.delta[k]
  BY DEF Underway, Granularities
<1> QED BY <1>1, <1>2, <1>3, <1>4

(* A write that succeeds leaves both copies of the rows the same.          *)
LEMMA PutExact ==
  ASSUME rows' = Row, diskRows' = rows', Exact(rows)'
  PROVE  RollupsExact'
BY DEF RollupsExact, Exact

LEMMA PutTyped ==
  ASSUME StatsInv, flush.at \in Granularities
  PROVE  Row \in Rollups /\ [flush EXCEPT !.at = "1h"] = [at |-> "1h", snap |-> flush.snap, delta |-> flush.delta, minute |-> flush.minute]
         /\ [flush EXCEPT !.at = "1d"] = [at |-> "1d", snap |-> flush.snap, delta |-> flush.delta, minute |-> flush.minute]
<1>1. Row \in Rollups
  BY RowTotals DEF StatsInv
<1>2. flush \in [at : {"idle", "load", "1m", "1h", "1d"}, snap : [Kinds -> Nat], delta : [Kinds -> Nat], minute : Minutes]
  BY DEF StatsInv, StatsTypeOK
<1> QED BY <1>1, <1>2

LEMMA PutMinuteKeeps == StatsInv /\ PutMinute => StatsInv'
<1> SUFFICES ASSUME StatsInv, PutMinute PROVE StatsInv'
  OBVIOUS
<1>1. /\ flush.at = "1m" /\ flush.at \in Granularities
      /\ rows' = Row /\ diskRows' = rows' /\ flush' = [flush EXCEPT !.at = "1h"]
      /\ UNCHANGED <<minute, counts, inflight, last, queried, statsRestarts, flushFailures, settled, partial, twice>>
  BY DEF PutMinute, Put, Granularities
<1>2. Row \in Rollups /\ flush' = [at |-> "1h", snap |-> flush.snap, delta |-> flush.delta, minute |-> flush.minute]
  BY <1>1, PutTyped
<1>3. StatsTypeOK'
  <2>1. flush' \in [at : {"idle", "load", "1m", "1h", "1d"}, snap : Counters, delta : Counters, minute : Minutes]
    BY <1>2, StatsTyped DEF StatsInv
  <2> QED BY <1>1, <1>2, <2>1 DEF StatsInv, StatsTypeOK, Rollups, RowTable, Counters
<1>4. FlushInv'
  BY <1>1, <1>2 DEF StatsInv, FlushInv, Since
<1>5. Exact(rows)'
  <2> SUFFICES ASSUME NEW k \in Kinds
               PROVE  /\ Total(Row["1d"], k) >= Flushed(k) /\ (~twice => Total(Row["1d"], k) = Flushed(k))
                      /\ Total(Row["1h"], k) >= Flushed(k)
                      /\ ~partial => /\ Total(Row["1h"], k) = Flushed(k)
                                     /\ Total(Row["1m"], k) <= Flushed(k) + flush.delta[k]
    <3>1. \A k \in Kinds : Flushed(k)' = Flushed(k)
      BY <1>1 DEF Flushed
    <3>2. \A k \in Kinds : Underway({"1d"}, k)' = 0 /\ Underway({"1h", "1d"}, k)' = flush.delta[k]
      BY <1>2 DEF Underway
    <3>3. \A k \in Kinds : Flushed(k) \in Nat
      BY <1>1, ExactReads
    <3> QED BY <1>1, <3>1, <3>2, <3>3 DEF Exact
  <2>1. /\ Total(Row["1d"], k) = Total(rows["1d"], k) + Underway({"1d"}, k)
        /\ Total(Row["1h"], k) = Total(rows["1h"], k) + Underway({"1h"}, k)
        /\ Total(Row["1m"], k) <= Total(rows["1m"], k) + Underway({"1m"}, k)
        /\ Total(Row["1m"], k) \in Nat
    BY <1>1, RowTotals DEF StatsInv
  <2>2. Underway({"1d"}, k) = 0 /\ Underway({"1h"}, k) = 0 /\ Underway({"1m"}, k) = flush.delta[k]
    BY <1>1 DEF Underway
  <2> QED BY <1>1, <2>1, <2>2, ExactReads
<1> QED BY <1>1, <1>3, <1>4, <1>5, PutExact DEF StatsInv
LEMMA PutHourKeeps == StatsInv /\ PutHour => StatsInv'
<1> SUFFICES ASSUME StatsInv, PutHour PROVE StatsInv'
  OBVIOUS
<1>1. /\ flush.at = "1h" /\ flush.at \in Granularities
      /\ rows' = Row /\ diskRows' = rows' /\ flush' = [flush EXCEPT !.at = "1d"]
      /\ UNCHANGED <<minute, counts, inflight, last, queried, statsRestarts, flushFailures, settled, partial, twice>>
  BY DEF PutHour, Put, Granularities
<1>2. Row \in Rollups /\ flush' = [at |-> "1d", snap |-> flush.snap, delta |-> flush.delta, minute |-> flush.minute]
  BY <1>1, PutTyped
<1>3. StatsTypeOK'
  <2>1. flush' \in [at : {"idle", "load", "1m", "1h", "1d"}, snap : Counters, delta : Counters, minute : Minutes]
    BY <1>2, StatsTyped DEF StatsInv
  <2> QED BY <1>1, <1>2, <2>1 DEF StatsInv, StatsTypeOK, Rollups, RowTable, Counters
<1>4. FlushInv'
  BY <1>1, <1>2 DEF StatsInv, FlushInv, Since
<1>5. Exact(rows)'
  <2> SUFFICES ASSUME NEW k \in Kinds
               PROVE  /\ Total(Row["1d"], k) >= Flushed(k) /\ (~twice => Total(Row["1d"], k) = Flushed(k))
                      /\ Total(Row["1h"], k) >= Flushed(k) + flush.delta[k]
                      /\ ~partial => /\ Total(Row["1h"], k) = Flushed(k) + flush.delta[k]
                                     /\ Total(Row["1m"], k) <= Flushed(k) + flush.delta[k]
    <3>1. \A k \in Kinds : Flushed(k)' = Flushed(k)
      BY <1>1 DEF Flushed
    <3>2. \A k \in Kinds : Underway({"1d"}, k)' = flush.delta[k] /\ Underway({"1h", "1d"}, k)' = flush.delta[k]
      BY <1>2 DEF Underway
    <3> QED BY <1>1, <3>1, <3>2 DEF Exact
  <2>1. /\ Total(Row["1d"], k) = Total(rows["1d"], k) + Underway({"1d"}, k)
        /\ Total(Row["1h"], k) = Total(rows["1h"], k) + Underway({"1h"}, k)
        /\ Total(Row["1m"], k) <= Total(rows["1m"], k) + Underway({"1m"}, k)
        /\ Total(Row["1m"], k) \in Nat
    BY <1>1, RowTotals DEF StatsInv
  <2>2. Underway({"1d"}, k) = 0 /\ Underway({"1h"}, k) = flush.delta[k] /\ Underway({"1m"}, k) = 0
    BY <1>1 DEF Underway
  <2> QED BY <1>1, <2>1, <2>2, ExactReads
<1> QED BY <1>1, <1>3, <1>4, <1>5, PutExact DEF StatsInv

LEMMA PutDayKeeps == StatsInv /\ PutDay => StatsInv'
<1> SUFFICES ASSUME StatsInv, PutDay PROVE StatsInv'
  OBVIOUS
<1>1. /\ flush.at = "1d" /\ flush.at \in Granularities
      /\ rows' = Row /\ diskRows' = rows' /\ flush' = NoFlush /\ last' = flush.snap
      /\ UNCHANGED <<minute, counts, inflight, queried, statsRestarts, flushFailures, settled, partial, twice>>
  BY DEF PutDay, Put, Granularities
<1>2. /\ Row \in Rollups /\ flush.snap \in Counters /\ flush.snap # NoSnapshot
      /\ \A k \in Kinds : Since(k)' = flush.snap[k] /\ Flushed(k)' = settled[k] + flush.snap[k]
  <2>1. Row \in Rollups /\ flush.snap \in Counters /\ flush.snap # NoSnapshot
    BY <1>1, RowTotals, StatsTyped DEF StatsInv
  <2> QED BY <2>1, <1>1 DEF Since, Flushed
<1>3. NoFlush \in [at : {"idle", "load", "1m", "1h", "1d"}, snap : Counters, delta : Counters, minute : Minutes]
  BY StatisticsAssumption DEF NoFlush, Zero, Counters, Minutes
<1>4. NoFlush.at = "idle"
  BY DEF NoFlush
<1>5. StatsTypeOK'
  BY <1>1, <1>2, <1>3 DEF StatsInv, StatsTypeOK, Rollups, RowTable, Counters
<1>6. FlushInv'
  <2>1. \A k \in Kinds : flush.snap[k] <= counts[k]
    BY <1>1 DEF StatsInv, FlushInv
  <2>2. \A k \in Kinds : last'[k] <= counts[k] /\ last' # NoSnapshot
    BY <1>1, <1>2, <2>1
  <2> QED BY <2>2, <1>1, <1>4 DEF FlushInv, Granularities, Since
<1>7. Exact(rows)'
  <2> SUFFICES ASSUME NEW k \in Kinds
               PROVE  /\ Total(Row["1d"], k) >= settled[k] + flush.snap[k]
                      /\ ~twice => Total(Row["1d"], k) = settled[k] + flush.snap[k]
                      /\ Total(Row["1h"], k) >= settled[k] + flush.snap[k]
                      /\ ~partial => /\ Total(Row["1h"], k) = settled[k] + flush.snap[k]
                                     /\ Total(Row["1m"], k) <= settled[k] + flush.snap[k]
    <3>1. \A k \in Kinds : Underway({"1d"}, k)' = 0 /\ Underway({"1h", "1d"}, k)' = 0
      BY <1>1, <1>4 DEF Underway
    <3>2. \A k \in Kinds : settled[k] \in Nat /\ flush.snap[k] \in Nat
      BY StatsTyped DEF StatsInv
    <3> QED BY <1>1, <1>2, <3>1, <3>2 DEF Exact
  <2>1. /\ Total(Row["1d"], k) = Total(rows["1d"], k) + Underway({"1d"}, k)
        /\ Total(Row["1h"], k) = Total(rows["1h"], k) + Underway({"1h"}, k)
        /\ Total(Row["1m"], k) <= Total(rows["1m"], k) + Underway({"1m"}, k)
        /\ Total(Row["1m"], k) \in Nat
    BY <1>1, RowTotals DEF StatsInv
  <2>2. Underway({"1d"}, k) = flush.delta[k] /\ Underway({"1h"}, k) = 0 /\ Underway({"1m"}, k) = 0
    BY <1>1 DEF Underway
  <2> QED BY <1>1, <2>1, <2>2, ExactReads
<1> QED BY <1>1, <1>5, <1>6, <1>7, PutExact DEF StatsInv

(* A write that fails ends the flush: what it changed is marked, and the   *)
(* rows on disk are those before or after it.                              *)
LEMMA FlushFailsKeeps == StatsInv /\ FlushFails => StatsInv'
<1> SUFFICES ASSUME StatsInv, FlushFails PROVE StatsInv'
  OBVIOUS
<1>1. /\ flush.at \in Granularities /\ flushFailures < MaxFlushFailures
      /\ flushFailures' = flushFailures + 1
      /\ rows' \in {rows, Row} /\ diskRows' \in {diskRows, rows'}
      /\ flush' = NoFlush
      /\ partial' = (partial \/ flush.at # "1m" \/ rows' # rows)
      /\ twice' = (twice \/ (flush.at = "1d" /\ rows' # rows))
      /\ UNCHANGED <<minute, counts, inflight, last, queried, statsRestarts, settled>>
  BY DEF FlushFails
<1>2. Row \in Rollups /\ rows \in Rollups /\ diskRows \in Rollups
  BY <1>1, RowTotals, StatsTyped DEF StatsInv
<1>3. /\ NoFlush \in [at : {"idle", "load", "1m", "1h", "1d"}, snap : Counters, delta : Counters, minute : Minutes]
      /\ NoFlush.at = "idle"
  BY StatisticsAssumption DEF NoFlush, Zero, Counters, Minutes
<1>4. StatsTypeOK'
  <2>1. flushFailures' \in 0..MaxFlushFailures
    BY <1>1, StatisticsAssumption DEF StatsInv, StatsTypeOK
  <2>2. partial' \in BOOLEAN /\ twice' \in BOOLEAN
    BY <1>1 DEF StatsInv, StatsTypeOK
  <2>3. rows' \in Rollups /\ diskRows' \in Rollups
    BY <1>1, <1>2
  <2> QED BY <1>1, <1>3, <2>1, <2>2, <2>3 DEF StatsInv, StatsTypeOK, Rollups, RowTable, Counters
<1>5. FlushInv'
  BY <1>1, <1>3 DEF StatsInv, FlushInv, Since, Granularities
<1>6. \A k \in Kinds : /\ Flushed(k)' = Flushed(k) /\ Flushed(k) \in Nat /\ flush.delta[k] \in Nat
                       /\ Underway({"1d"}, k)' = 0 /\ Underway({"1h", "1d"}, k)' = 0
  BY <1>1, <1>3, ExactReads DEF Flushed, Underway
(* What was right stays right when the flush ends, ...                     *)
<1>7. ASSUME NEW r \in {rows, diskRows}, NEW k \in Kinds
      PROVE  /\ Total(r["1d"], k) >= Flushed(k) /\ (~twice' => Total(r["1d"], k) = Flushed(k))
             /\ Total(r["1h"], k) >= Flushed(k)
             /\ ~partial' => Total(r["1h"], k) = Flushed(k) /\ Total(r["1m"], k) <= Flushed(k)
  <2>1. Exact(r)
    BY DEF StatsInv, RollupsExact
  <2>2. Total(r["1h"], k) \in Nat
    BY StatsTyped DEF StatsInv, Granularities
  <2>3. /\ Underway({"1d"}, k) = IF flush.at = "1d" THEN flush.delta[k] ELSE 0
        /\ Underway({"1h", "1d"}, k) = IF flush.at = "1m" THEN 0 ELSE flush.delta[k]
    BY <1>1 DEF Underway, Granularities
  <2>4. (~twice' => ~twice) /\ (~partial' => ~partial /\ flush.at = "1m")
    BY <1>1
  <2> QED BY <2>1, <2>2, <2>3, <2>4, <1>6 DEF Exact
(* ... and a failed write adds to rows that are then marked.               *)
<1>8. ASSUME NEW k \in Kinds, rows' = Row, rows' # rows
      PROVE  /\ Total(Row["1d"], k) >= Flushed(k) /\ (~twice' => Total(Row["1d"], k) = Flushed(k))
             /\ Total(Row["1h"], k) >= Flushed(k)
             /\ partial'
  <2>1. /\ Total(Row["1d"], k) = Total(rows["1d"], k) + Underway({"1d"}, k)
        /\ Total(Row["1h"], k) = Total(rows["1h"], k) + Underway({"1h"}, k)
    BY <1>1, RowTotals DEF StatsInv
  <2>2. /\ Underway({"1d"}, k) = IF flush.at = "1d" THEN flush.delta[k] ELSE 0
        /\ Underway({"1h"}, k) = IF flush.at = "1h" THEN flush.delta[k] ELSE 0
    BY <1>1 DEF Underway
  <2>3. /\ Total(rows["1d"], k) \in Nat /\ Total(rows["1h"], k) \in Nat
        /\ Total(rows["1d"], k) >= Flushed(k) /\ (~twice => Total(rows["1d"], k) = Flushed(k))
        /\ Total(rows["1h"], k) >= Flushed(k)
    BY <1>1, ExactReads
  <2>4. partial' /\ (~twice' => ~twice /\ flush.at # "1d")
    BY <1>1, <1>8
  <2> QED BY <2>1, <2>2, <2>3, <2>4, <1>6
<1>9. ASSUME NEW r \in {rows, diskRows, rows'}, NEW k \in Kinds
      PROVE  /\ Total(r["1d"], k) >= Flushed(k) /\ (~twice' => Total(r["1d"], k) = Flushed(k))
             /\ Total(r["1h"], k) >= Flushed(k)
             /\ ~partial' => Total(r["1h"], k) = Flushed(k) /\ Total(r["1m"], k) <= Flushed(k)
  <2>1. CASE r \in {rows, diskRows}
    BY <2>1, <1>7
  <2>2. CASE r = rows' /\ rows' # rows /\ rows' = Row
    BY <2>2, <1>8
  <2> QED BY <2>1, <2>2, <1>1
<1>10. RollupsExact'
  <2>1. ASSUME NEW k \in Kinds
        PROVE  /\ Total(rows'["1d"], k) >= Flushed(k) /\ (~twice' => Total(rows'["1d"], k) = Flushed(k))
               /\ Total(rows'["1h"], k) >= Flushed(k)
               /\ ~partial' => Total(rows'["1h"], k) = Flushed(k) /\ Total(rows'["1m"], k) <= Flushed(k)
    BY <1>9
  <2>2. ASSUME NEW k \in Kinds
        PROVE  /\ Total(diskRows'["1d"], k) >= Flushed(k) /\ (~twice' => Total(diskRows'["1d"], k) = Flushed(k))
               /\ Total(diskRows'["1h"], k) >= Flushed(k)
               /\ ~partial' => Total(diskRows'["1h"], k) = Flushed(k) /\ Total(diskRows'["1m"], k) <= Flushed(k)
    BY <1>1, <1>9
  <2>3. Exact(rows)'
    BY <2>1, <1>6 DEF Exact
  <2>4. Exact(diskRows)'
    BY <2>2, <1>6 DEF Exact
  <2> QED BY <2>3, <2>4 DEF RollupsExact
<1> QED BY <1>4, <1>5, <1>10 DEF StatsInv

(* A restart goes on with the rows on disk, from counters at zero.         *)
LEMMA StatsRestartKeeps == StatsInv /\ StatsRestart => StatsInv'
<1> SUFFICES ASSUME StatsInv, StatsRestart PROVE StatsInv'
  OBVIOUS
<1>1. /\ statsRestarts < MaxStatsRestarts /\ statsRestarts' = statsRestarts + 1
      /\ rows' = diskRows /\ diskRows' = diskRows
      /\ counts' = Zero /\ inflight' = 0 /\ last' = NoSnapshot /\ flush' = NoFlush
      /\ settled' = (IF last = NoSnapshot THEN settled ELSE Plus(settled, last))
      /\ partial' = (partial \/ flush.at \in {"1h", "1d"})
      /\ UNCHANGED <<minute, queried, flushFailures, twice>>
  BY DEF StatsRestart
<1>2. /\ diskRows \in Rollups /\ settled \in Counters /\ last \in Counters \cup {NoSnapshot}
      /\ \A k \in Kinds : flush.delta[k] \in Nat /\ settled[k] \in Nat /\ Since(k) \in Nat
      /\ \A k \in Kinds : Flushed(k) = settled[k] + Since(k)
      /\ \A k \in Kinds : Total(diskRows["1h"], k) \in Nat
  BY StatsTyped DEF StatsInv, Granularities
<1>3. /\ NoFlush \in [at : {"idle", "load", "1m", "1h", "1d"}, snap : Counters, delta : Counters, minute : Minutes]
      /\ NoFlush.at = "idle" /\ Zero \in Counters /\ \A k \in Kinds : Zero[k] = 0
  BY StatisticsAssumption DEF NoFlush, Zero, Counters, Minutes
<1>4. settled' \in Counters /\ \A k \in Kinds : settled'[k] = Flushed(k)
  BY <1>1, <1>2 DEF Flushed, Plus, Counters
<1>5. StatsTypeOK'
  <2>1. statsRestarts' \in 0..MaxStatsRestarts
    BY <1>1, StatisticsAssumption DEF StatsInv, StatsTypeOK
  <2>2. partial' \in BOOLEAN
    BY <1>1 DEF StatsInv, StatsTypeOK
  <2> QED BY <1>1, <1>2, <1>3, <1>4, <2>1, <2>2 DEF StatsInv, StatsTypeOK, Rollups, RowTable, Counters
<1>6. FlushInv'
  BY <1>1, <1>3 DEF FlushInv, Since, Granularities
<1>7. \A k \in Kinds : /\ Flushed(k)' = Flushed(k) /\ Flushed(k) \in Nat
                       /\ Underway({"1d"}, k)' = 0 /\ Underway({"1h", "1d"}, k)' = 0
  <2>1. \A k \in Kinds : Flushed(k)' = settled'[k] + 0
    BY <1>1 DEF Flushed
  <2>2. \A k \in Kinds : Underway({"1d"}, k)' = 0 /\ Underway({"1h", "1d"}, k)' = 0
    BY <1>1, <1>3 DEF Underway
  <2> QED BY <2>1, <2>2, <1>2, <1>4
<1>8. ASSUME NEW k \in Kinds
      PROVE  /\ Total(diskRows["1d"], k) >= Flushed(k) /\ (~twice => Total(diskRows["1d"], k) = Flushed(k))
             /\ Total(diskRows["1h"], k) >= Flushed(k)
             /\ ~partial' => Total(diskRows["1h"], k) = Flushed(k) /\ Total(diskRows["1m"], k) <= Flushed(k)
  <2>1. /\ Underway({"1d"}, k) \in Nat
        /\ flush.at \notin {"1h", "1d"} => Underway({"1d"}, k) = 0 /\ Underway({"1h", "1d"}, k) = 0
    BY <1>2 DEF Underway
  <2>2. ~partial' => ~partial /\ flush.at \notin {"1h", "1d"}
    BY <1>1
  <2>3. Exact(diskRows)
    BY DEF StatsInv, RollupsExact
  <2> QED BY <2>1, <2>2, <2>3, <1>2, <1>7 DEF Exact
<1>9. RollupsExact'
  BY <1>1, <1>7, <1>8 DEF RollupsExact, Exact
<1> QED BY <1>5, <1>6, <1>9 DEF StatsInv

LEMMA StatsRests == StatsInv /\ UNCHANGED statsVars => StatsInv'
<1> SUFFICES ASSUME StatsInv, UNCHANGED statsVars PROVE StatsInv'
  OBVIOUS
<1>1. RollupsExact'
  BY RowsStay DEF statsVars, StatsInv
<1>2. StatsTypeOK' /\ FlushInv'
  BY DEF statsVars, StatsInv, StatsTypeOK, FlushInv, Since
<1> QED BY <1>1, <1>2 DEF StatsInv

LEMMA StatsInvariant == StatsSpec => []StatsInv
<1>1. StatsInv /\ [StatsNext]_statsVars => StatsInv'
  BY IncQueryKeeps, IncHitKeeps, LoadQueriesKeeps, LoadHitsKeeps, PutMinuteKeeps, PutHourKeeps, PutDayKeeps,
     FlushFailsKeeps, StatsMinuteKeeps, StatsRestartKeeps, StatsRests DEF StatsNext
<1> QED BY <1>1, StatsStarts, PTL DEF StatsSpec

(* The rollup rows, in memory and on disk, count what the flushes saw, for *)
(* any order of increments, flushes, failed writes and restarts, and count *)
(* nothing twice but for what a failed flush repeats (Aggregator.Flush).   *)
THEOREM StatsSoundAlways == StatsSpec => []StatsSound
<1>1. StatsInv => StatsSound
  BY DEF StatsInv, StatsSound
<1> QED BY <1>1, StatsInvariant, PTL
=============================================================================
