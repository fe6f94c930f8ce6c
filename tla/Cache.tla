------------------------------- MODULE Cache -------------------------------
(***************************************************************************)
(* What the ring of persisted queries and the cache of documents promise:  *)
(* a bounded set of keys, from which the one inserted first leaves when a  *)
(* new one comes and there is no room (http_transport.go:77,               *)
(* docs/content/docs/concepts/execution.mdx:83).                           *)
(***************************************************************************)
EXTENDS Naturals, Sequences

CONSTANT Keys

VARIABLES limit,  \* how many keys there is room for; with none nothing is kept
          held,   \* the keys that a lookup finds
          age     \* the same keys, oldest first

vars == <<limit, held, age>>

Init == limit \in Nat /\ held = {} /\ age = <<>>

Insert(k) ==
    /\ limit > 0 /\ k \notin held
    /\ IF Len(age) < limit
       THEN held' = held \cup {k} /\ age' = Append(age, k)
       ELSE held' = (held \ {Head(age)}) \cup {k} /\ age' = Append(Tail(age), k)
    /\ UNCHANGED limit

Next == \E k \in Keys : Insert(k)

Spec == Init /\ [][Next]_vars

\* The map and the order of a cache know the same keys, each once, and no more
\* than there is room for: what a handler evicts by the order is in the map, and
\* nothing stays in the map that no order would ever evict.
Sound ==
    /\ limit \in Nat /\ age \in Seq(Keys) /\ Len(age) <= limit
    /\ held = {age[i] : i \in DOMAIN age}
    /\ \A i, j \in DOMAIN age : age[i] = age[j] => i = j
=============================================================================
