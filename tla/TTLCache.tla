------------------------------ MODULE TTLCache ------------------------------
(***************************************************************************)
(* What the rest of Sis may rely on from the DNS response cache, whatever  *)
(* its size limit, its replacement policy or its reconfigurations do: it   *)
(* may forget at any time, but what it answers is the response stored      *)
(* last for that question, before its deadline, with record lifetimes that *)
(* were only ever shortened and that end (to the second DNS can express)   *)
(* no later than the deadline.                                             *)
(***************************************************************************)
EXTENDS Integers

CONSTANTS Keys,            \* questions: (qname, qtype, qclass)
          Msgs,            \* DNS responses
          None,            \* "no entry", "no answer"
          TicksPerSecond   \* clock resolution

VARIABLES store,           \* store[k]: the remembered response, or None
          now,             \* the clock, in ticks
          reply            \* what the last lookup returned

avars == <<store, now, reply>>

(* got shortens the lifetimes of msg, and outlives ticks by < 1 second. *)
Shortened(got, msg, ticks) ==
    /\ \A t \in got : /\ \E u \in msg : t <= u
                      /\ t * TicksPerSecond < ticks + TicksPerSecond
    /\ \A u \in msg : \E t \in got : t <= u

AInit == /\ store = [k \in Keys |-> None]
         /\ now \in Nat
         /\ reply = None

(* Any set of keys may be forgotten by any step. *)
Forgets(old, new) == \A k \in Keys : new[k] \in {old[k], None}

AStore(k) ==
    /\ store'[k] # None
    /\ store'[k].msg \in Msgs
    /\ store'[k].expires > now
    /\ \A j \in Keys \ {k} : store'[j] \in {store[j], None}
    /\ UNCHANGED <<now, reply>>

AForget == Forgets(store, store') /\ UNCHANGED <<now, reply>>

AMiss(k) == /\ reply' = [key |-> k, msg |-> None]
            /\ Forgets(store, store')
            /\ UNCHANGED now

AHit(k) == /\ store[k] # None
           /\ store[k].expires > now
           /\ reply' # None
           /\ reply'.key = k
           /\ reply'.msg # None
           /\ reply'.msg.rcode = store[k].msg.rcode
           /\ \A section \in {"answer", "ns"} :
                Shortened(reply'.msg[section], store[k].msg[section],
                          store[k].expires - now)
           /\ UNCHANGED <<store, now>>

ATick == now' > now /\ UNCHANGED <<store, reply>>

ANext == \/ \E k \in Keys : AStore(k) \/ AMiss(k) \/ AHit(k)
         \/ AForget
         \/ ATick

ASpec == AInit /\ [][ANext]_avars
=============================================================================
