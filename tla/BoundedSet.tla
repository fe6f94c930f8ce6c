---------------------------- MODULE BoundedSet -----------------------------
(***************************************************************************)
(* What a cache promises whichever key it lets go: a key stays until a new *)
(* one comes for which there is no room, and then one leaves.  A cache     *)
(* that evicts by age and one that evicts by use both keep it.             *)
(***************************************************************************)
EXTENDS Naturals, FiniteSets

CONSTANT Keys

VARIABLES limit,  \* how many keys there is room for; with none nothing is kept
          held    \* the keys that a lookup finds

vars == <<limit, held>>

Init == limit \in Nat /\ held = {}

Insert(k) ==
    /\ limit > 0 /\ k \notin held
    /\ IF Cardinality(held) < limit
       THEN held' = held \cup {k}
       ELSE \E old \in held : held' = (held \ {old}) \cup {k}
    /\ UNCHANGED limit

Next == \E k \in Keys : Insert(k)

Spec == Init /\ [][Next]_vars
=============================================================================
