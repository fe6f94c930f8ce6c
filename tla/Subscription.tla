---------------------------- MODULE Subscription ----------------------------
(***************************************************************************)
(* What a subscription over SSE promises its client, whatever lies between *)
(* the publisher and the client: the events of its topic, in the order in  *)
(* which the broker took them, none twice and none from before it was      *)
(* opened (some may be missing), then at most one complete, and nothing    *)
(* after it.  A stream completes only when its request or its bus is over. *)
(***************************************************************************)
EXTENDS Naturals, Sequences

CONSTANTS Requests, Topics

VARIABLES log,      \* log[k]: the topic of the k-th message the broker took
          topic,    \* topic[r]: what request r subscribes to
          opened,   \* opened[r]: what the broker had taken when r was opened
          seen,     \* seen[r]: the messages that were sent to the client of r
          final,    \* final[r]: "new", "open", "error" or "complete"
          ending    \* requests that are cancelled or whose bus is gone

vars == <<log, topic, opened, seen, final, ending>>

Init ==
    /\ log = <<>>
    /\ topic \in [Requests -> Topics]
    /\ opened = [r \in Requests |-> 0]
    /\ seen = [r \in Requests |-> <<>>]
    /\ final = [r \in Requests |-> "new"]
    /\ ending = {}

Publish(t) == log' = Append(log, t) /\ UNCHANGED <<topic, opened, seen, final, ending>>

\* The broker knows the subscription from here on.
Open(r) ==
    /\ final[r] = "new"
    /\ final' = [final EXCEPT ![r] = "open"]
    /\ opened' = [opened EXCEPT ![r] = Len(log)]
    /\ UNCHANGED <<log, topic, seen, ending>>

Last(r) == IF seen[r] = <<>> THEN opened[r] ELSE seen[r][Len(seen[r])]

Event(r) ==
    /\ final[r] = "open"
    /\ \E k \in Last(r) + 1 .. Len(log) :
          log[k] = topic[r] /\ seen' = [seen EXCEPT ![r] = Append(@, k)]
    /\ UNCHANGED <<log, topic, opened, final, ending>>

\* A request that is answered is over.
Answer(r, answer) ==
    /\ final' = [final EXCEPT ![r] = answer]
    /\ ending' \in {ending, ending \cup {r}}
    /\ UNCHANGED <<log, topic, opened, seen>>

\* The request was not served: an error and complete, or an HTTP error.
Error(r)    == final[r] \in {"new", "open"} /\ seen[r] = <<>> /\ Answer(r, "error")

Complete(r) == final[r] = "open" /\ r \in ending /\ Answer(r, "complete")

Stop == \E R \in SUBSET Requests : ending' = ending \cup R
                                   /\ UNCHANGED <<log, topic, opened, seen, final>>

Next ==
    \/ \E t \in Topics : Publish(t)
    \/ \E r \in Requests : Open(r) \/ Event(r) \/ Error(r) \/ Complete(r)
    \/ Stop

Spec == Init /\ [][Next]_vars
=============================================================================
