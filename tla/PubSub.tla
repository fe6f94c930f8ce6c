------------------------------- MODULE PubSub -------------------------------
(***************************************************************************)
(* What package pubsub promises of every backend (the PubSub interface):   *)
(* topic based, unpersisted fan-out with best-effort delivery.  There is   *)
(* no lock, map or goroutine here: only streams, the calls in progress and *)
(* what each may still do to the other.                                    *)
(*                                                                         *)
(* A stream is one successful Subscribe call.  A Publish call addresses,   *)
(* as it takes effect, every active stream of its topic; it may return     *)
(* only when each of them has accepted the message or has been skipped     *)
(* because its buffer was full.  A stream ends once, and only after its    *)
(* context is cancelled or the PubSub is closed.                           *)
(***************************************************************************)
EXTENDS Naturals, Sequences

CONSTANTS
  Publishers,   \* goroutines that call Publish
  Subscribers,  \* Subscribe calls; each has a context and a stream of its own
  Topics,
  Buffer,       \* capacity of a stream's buffer
  NoMessage     \* no Publish call in progress

VARIABLES
  closed,       \* Close has taken effect
  cancelled,    \* cancelled[s]: the context of stream s is done
  stream,       \* stream[s]: "none", "open" or "ended"
  topic,        \* topic[s]: what s subscribes to
  queue,        \* queue[s]: accepted and not yet received
  calls,        \* history: Publish calls that have taken effect
  inflight,     \* inflight[p]: the message p is publishing, or NoMessage
  addressed     \* addressed[p]: streams that have neither accepted nor skipped it

vars == <<closed, cancelled, stream, topic, queue, calls, inflight, addressed>>

Message == [pub : Publishers, n : Nat, topic : Topics]

-----------------------------------------------------------------------------

Init ==
  /\ closed = FALSE
  /\ cancelled = [s \in Subscribers |-> FALSE]
  /\ stream = [s \in Subscribers |-> "none"]
  /\ topic \in [Subscribers -> Topics]
  /\ queue = [s \in Subscribers |-> <<>>]
  /\ calls = 0
  /\ inflight = [p \in Publishers |-> NoMessage]
  /\ addressed = [p \in Publishers |-> {}]

OpenOn(t) == {s \in Subscribers : stream[s] = "open" /\ topic[s] = t}

ActiveOn(t) == {s \in OpenOn(t) : ~cancelled[s]}

Subscribe(s) ==
  /\ ~closed
  /\ stream[s] = "none"
  /\ stream' = [stream EXCEPT ![s] = "open"]
  /\ UNCHANGED <<closed, cancelled, topic, queue, calls, inflight, addressed>>

\* A Publish call on t takes effect: it owes a decision to every active
\* stream of the topic.  A cancelled stream that has not ended yet may be
\* addressed or not.
Publish(p, t) ==
  /\ ~closed
  /\ inflight[p] = NoMessage
  /\ \E S \in SUBSET OpenOn(t) :
       /\ ActiveOn(t) \subseteq S
       /\ addressed' = [addressed EXCEPT ![p] = S]
  /\ calls' = calls + 1
  /\ inflight' = [inflight EXCEPT ![p] = [pub |-> p, n |-> calls', topic |-> t]]
  /\ UNCHANGED <<closed, cancelled, stream, topic, queue>>

\* One addressed stream takes the message.
Accept(p, s) ==
  /\ ~closed
  /\ s \in addressed[p]
  /\ stream[s] = "open"
  /\ Len(queue[s]) < Buffer
  /\ queue' = [queue EXCEPT ![s] = Append(@, inflight[p])]
  /\ addressed' = [addressed EXCEPT ![p] = @ \ {s}]
  /\ UNCHANGED <<closed, cancelled, stream, topic, calls, inflight>>

\* A slow stream loses this message; the publisher and the others go on.
Skip(p, s) ==
  /\ s \in addressed[p]
  /\ Len(queue[s]) = Buffer
  /\ addressed' = [addressed EXCEPT ![p] = @ \ {s}]
  /\ UNCHANGED <<closed, cancelled, stream, topic, queue, calls, inflight>>

Return(p) ==
  /\ inflight[p] # NoMessage
  /\ addressed[p] = {}
  /\ inflight' = [inflight EXCEPT ![p] = NoMessage]
  /\ UNCHANGED <<closed, cancelled, stream, topic, queue, calls, addressed>>

\* The consumer ranges over the stream, also after it has ended.
Receive(s) ==
  /\ queue[s] # <<>>
  /\ queue' = [queue EXCEPT ![s] = Tail(@)]
  /\ UNCHANGED <<closed, cancelled, stream, topic, calls, inflight, addressed>>

Cancel(s) ==
  /\ cancelled' = [cancelled EXCEPT ![s] = TRUE]
  /\ UNCHANGED <<closed, stream, topic, queue, calls, inflight, addressed>>

Close ==
  /\ closed' = TRUE
  /\ UNCHANGED <<cancelled, stream, topic, queue, calls, inflight, addressed>>

End(s) ==
  /\ stream[s] = "open"
  /\ cancelled[s] \/ closed
  /\ stream' = [stream EXCEPT ![s] = "ended"]
  /\ UNCHANGED <<closed, cancelled, topic, queue, calls, inflight, addressed>>

Next ==
  \/ \E s \in Subscribers : Subscribe(s) \/ Receive(s) \/ Cancel(s) \/ End(s)
  \/ \E p \in Publishers, t \in Topics : Publish(p, t)
  \/ \E p \in Publishers, s \in Subscribers : Accept(p, s) \/ Skip(p, s)
  \/ \E p \in Publishers : Return(p)
  \/ Close

Spec == Init /\ [][Next]_vars

=============================================================================
