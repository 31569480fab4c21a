---------------------------- MODULE DurableStore ----------------------------
(***************************************************************************)
(* What the JSON store promises its callers, whatever happens inside a     *)
(* call: each key has the value readers see, and a set of values that a    *)
(* crash may leave it with.  A caller that is told of success relies on    *)
(* there being one possibility, for its key and for all others.  A write   *)
(* that ends with an error is seen by readers all the same, and whether it *)
(* survives is open.                                                       *)
(***************************************************************************)
CONSTANTS Keys, Vals, None, Callers

VARIABLES val, may,
          asked,  \* what each caller waits for
          told    \* how each caller's last call ended

vars == <<val, may, asked, told>>

Value == Vals \cup {None}   \* None: the key is absent
Nothing == [kind |-> "none", key |-> None, val |-> None]
Requests == [kind : {"put"}, key : Keys, val : Vals]
            \cup [kind : {"delete"}, key : Keys, val : {None}]
            \cup [kind : {"close"}, key : {None}, val : {None}]

Only(m) == [k \in Keys |-> {m[k]}]

(* The map with the request carried out; closing leaves it as it is. *)
Done(r) == IF r.kind = "close" THEN val ELSE [val EXCEPT ![r.key] = r.val]

Init == /\ val = [k \in Keys |-> None]
        /\ may = Only(val)
        /\ asked = [p \in Callers |-> Nothing]
        /\ told = [p \in Callers |-> "nothing"]

Answer(p, answer) == /\ asked[p] # Nothing
                     /\ asked' = [asked EXCEPT ![p] = Nothing]
                     /\ told' = [told EXCEPT ![p] = answer]

Call(p, r) == /\ asked[p] = Nothing
              /\ asked' = [asked EXCEPT ![p] = r]
              /\ told' = [told EXCEPT ![p] = "nothing"]
              /\ UNCHANGED <<val, may>>

(* The new content is on its way to the disk. *)
Try(p) == /\ asked[p] # Nothing
          /\ may' = [k \in Keys |-> may[k] \cup {Done(asked[p])[k]}]
          /\ UNCHANGED <<val, asked, told>>

(* Success is reported: from now on nothing else can be found after a      *)
(* crash, until another call tries something.                              *)
Succeed(p) == /\ Answer(p, "ok")
              /\ val' = Done(asked[p])
              /\ may' = Only(val')

Fail(p) == /\ Answer(p, "error")
           /\ val' = Done(asked[p])
           /\ UNCHANGED may

Refuse(p) == Answer(p, "error") /\ UNCHANGED <<val, may>>

Crash == /\ val' \in [Keys -> Value]
         /\ \A k \in Keys : val'[k] \in may[k]
         /\ may' \in {may, Only(val')}
         /\ asked' = [p \in Callers |-> Nothing]
         /\ told' = [p \in Callers |-> "nothing"]

Next == \/ \E p \in Callers : \/ \E r \in Requests : Call(p, r)
                              \/ Try(p) \/ Succeed(p) \/ Fail(p) \/ Refuse(p)
        \/ Crash

Spec == Init /\ [][Next]_vars
=============================================================================
