------------------------------- MODULE Fanout -------------------------------
(***************************************************************************)
(* Live subscribers of the query log: internal/log/fanout.go.  Published   *)
(* entries are numbered.  A subscription is a buffered channel from which  *)
(* the oldest entry is dropped when it is full.  subscribe registers the   *)
(* channel and copies the ring under the mutex, but sends the copy after   *)
(* it, beside publish.                                                     *)
(***************************************************************************)
EXTENDS Integers, Sequences, SequencesExt

CONSTANTS Subs, MaxPublish, RingSize, BufSize

ASSUME FanoutAssumption == /\ MaxPublish \in Nat /\ RingSize \in Nat
                           /\ BufSize \in Nat \ {0}

VARIABLES pub,    \* number of the entry published last
          pend,   \* publish: how far its sending is, for each subscription
          sub     \* the subscriptions

fanoutVars == <<pub, pend, sub>>

Off == [at |-> "off", buf |-> <<>>, backlog |-> <<>>, got |-> {}, from |-> 0, mixed |-> FALSE]
Quiet == [s \in Subs |-> "done"]

FanoutInit == pub = 0 /\ pend = Quiet /\ sub = [s \in Subs |-> Off]

(* snapshotLocked: the last RingSize entries, oldest first. *)
Ring == LET n == IF pub < RingSize THEN pub ELSE RingSize IN [k \in 1..n |-> pub - n + k]
-----------------------------------------------------------------------------
(* dropOldestSend: try to send, make room, try again; none of them waits,  *)
(* and the receiver or another sender may come in between.                 *)
Sent(buf, e, stage) == IF stage \in {"try", "again"} /\ Len(buf) < BufSize THEN Append(buf, e)
                       ELSE IF stage = "drop" /\ buf # <<>> THEN Tail(buf) ELSE buf
NextStageNoRetry(buf, stage) == IF stage = "try" /\ Len(buf) >= BufSize THEN "drop" ELSE "done"
NextStage(buf, stage) == IF stage = "try" /\ Len(buf) >= BufSize THEN "drop"
                         ELSE IF stage = "drop" THEN "again" ELSE "done"

(* subscribe, until it releases the mutex; from is the first entry that    *)
(* comes live.                                                             *)
subscribe(s, replay) ==
    /\ sub[s].at = "off" /\ pend = Quiet
    /\ sub' = [sub EXCEPT ![s] = [Off EXCEPT !.at = IF replay /\ Ring # <<>> THEN "try" ELSE "on",
                                             !.backlog = IF replay THEN Ring ELSE <<>>, !.from = pub + 1]]
    /\ UNCHANGED <<pub, pend>>

(* subscribe sends the copy, entry by entry. *)
Replay(s) == /\ sub[s].at \in {"try", "drop", "again"}
             /\ LET c == sub[s]
                    next == NextStage(c.buf, c.at)
                    sending == [c EXCEPT !.buf = Sent(c.buf, Head(c.backlog), c.at)]
                IN  sub' = [sub EXCEPT ![s] =
                      IF next # "done" THEN [sending EXCEPT !.at = next]
                      ELSE [sending EXCEPT !.backlog = Tail(c.backlog),
                                           !.at = IF Len(c.backlog) = 1 THEN "on" ELSE "try"]]
             /\ UNCHANGED <<pub, pend>>

(* publish holds the mutex until every subscription is served.  It takes   *)
(* them one by one; they do not touch one another.                         *)
Publish == /\ pub < MaxPublish /\ pend = Quiet
           /\ pub' = pub + 1
           /\ pend' = [s \in Subs |-> IF sub[s].at = "off" THEN "done" ELSE "try"]
           /\ sub' = [s \in Subs |-> [sub[s] EXCEPT !.mixed = sub[s].mixed \/ sub[s].at \notin {"off", "on"}]]

Send(s) == /\ pend[s] # "done"
           /\ pend' = [pend EXCEPT ![s] = NextStage(sub[s].buf, pend[s])]
           /\ sub' = [sub EXCEPT ![s].buf = Sent(sub[s].buf, pub, pend[s])]
           /\ UNCHANGED pub

(* The API handler that owns the subscription. *)
Receive(s) == /\ sub[s].at = "on" /\ sub[s].buf # <<>>
              /\ sub' = [sub EXCEPT ![s] = [sub[s] EXCEPT !.got = sub[s].got \cup {Head(sub[s].buf)}, !.buf = Tail(sub[s].buf)]]
              /\ UNCHANGED <<pub, pend>>

unsubscribe(s) == /\ sub[s].at = "on" /\ pend = Quiet
                  /\ sub' = [sub EXCEPT ![s] = Off]
                  /\ UNCHANGED <<pub, pend>>

FanoutNext == \/ Publish
              \/ \E s \in Subs : \/ Replay(s) \/ Send(s) \/ Receive(s) \/ unsubscribe(s)
                                 \/ \E replay \in BOOLEAN : subscribe(s, replay)

FanoutSpec == FanoutInit /\ [][FanoutNext]_fanoutVars
-----------------------------------------------------------------------------
(* A subscriber gets no entry twice, although entries reach it both from   *)
(* the ring and live.                                                      *)
AtMostOnce == \A s \in Subs :
    LET coming == sub[s].buf \o sub[s].backlog
    IN  IsInjective(coming) /\ ToSet(coming) \cap sub[s].got = {}

(* Unless an entry was published while the ring was replayed to it         *)
(* (fanout.go:35), a subscriber gets entries in order, and a full channel  *)
(* loses old entries, never the newest.                                    *)
NewestDelivered == \A s \in Subs : sub[s].at = "on" /\ ~sub[s].mixed =>
    /\ \A k \in 1..Len(sub[s].buf) :
          /\ \A g \in sub[s].got : g < sub[s].buf[k]
          /\ k > 1 => sub[s].buf[k - 1] < sub[s].buf[k]
    /\ pub >= sub[s].from /\ pend[s] = "done" => pub \in sub[s].got \cup ToSet(sub[s].buf)

(* What any order of publishing, replaying and receiving leaves: no entry  *)
(* twice, and the newest in order.                                         *)
Delivered == AtMostOnce /\ NewestDelivered
=============================================================================
