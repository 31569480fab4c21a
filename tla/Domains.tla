------------------------------- MODULE Domains -------------------------------
(***************************************************************************)
(* The domain trie of internal/policy/domains.go.  A name is the sequence  *)
(* of its labels from the top level down, as labelsFor returns it; a       *)
(* pattern is a name that may be written with "*." in front.  A node is    *)
(* the path that leads to it; nodes stay when their entry is deleted.      *)
(***************************************************************************)
EXTENDS Sequences, Integers, FiniteSets

CONSTANTS Labels,  \* what may stand between dots
          Valid    \* the labels that validLabel and the IDNA profile accept

ASSUME LabelsAssumption == Valid \subseteq Labels

Trie == [nodes : SUBSET Seq(Valid), terminal : SUBSET Seq(Valid), size : Nat]
AnyPattern == [wild : BOOLEAN, name : Seq(Labels)]

NewDomains == [nodes |-> {}, terminal |-> {}, size |-> 0]

Pattern(name) == [wild |-> FALSE, name |-> name]
Wildcard(name) == [wild |-> TRUE, name |-> name]

(* labelsFor fails on a name with a label that is not valid, and drops the *)
(* "*." of a wildcard.                                                     *)
Normal(name) == Len(name) > 0 /\ \A i \in 1..Len(name) : name[i] \in Valid

Path(name, n) == SubSeq(name, 1, n)

CanAdd(t, p) == Normal(p.name) /\ p.name \notin t.terminal
Add(t, p) == [nodes |-> t.nodes \cup {Path(p.name, n) : n \in 1..Len(p.name)},
              terminal |-> t.terminal \cup {p.name},
              size |-> t.size + 1]

(* All of them added to an empty trie, as when a list or group is compiled. *)
Compiled(ps) == [nodes |-> UNION {{Path(p.name, n) : n \in 1..Len(p.name)} : p \in ps},
                 terminal |-> {p.name : p \in ps},
                 size |-> Cardinality({p.name : p \in ps})]

CanDelete(t, p) == Normal(p.name) /\ p.name \in t.nodes /\ p.name \in t.terminal
Delete(t, p) == [t EXCEPT !.terminal = t.terminal \ {p.name}, !.size = t.size - 1]

(* The walk from the root: node n of the path is reached, and no earlier   *)
(* node was terminal.                                                      *)
MatchM(t, name) == Normal(name) /\ name \in t.terminal
Match(t, name) ==
  LET walk[n \in 0..Len(name)] ==
        IF n = Len(name) THEN Path(name, n) \in t.terminal
        ELSE \/ Path(name, n) \in t.terminal
             \/ Path(name, n + 1) \in t.nodes /\ walk[n + 1]
  IN  Normal(name) /\ walk[0]
-----------------------------------------------------------------------------
(* A name is under an entry when the entry is a suffix of it, in whole     *)
(* labels.                                                                 *)
Under(name, entries) == \E n \in 1..Len(name) : Path(name, n) \in entries

TrieOK(t) == /\ t.terminal \subseteq t.nodes
             /\ \A p \in t.nodes : \A n \in 1..Len(p) : Path(p, n) \in t.nodes
             /\ t.size = Cardinality(t.terminal)
=============================================================================
