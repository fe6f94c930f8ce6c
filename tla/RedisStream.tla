----------------------------- MODULE RedisStream -----------------------------
(***************************************************************************)
(* A subscription from the broker to the client:                           *)
(*   src/pubsub/redis/redis.go   PubSub with one Redis connection and one  *)
(*                               forwarder goroutine for each stream,      *)
(*   src/exec/executor.go        the goroutine Subscribe starts (318-361), *)
(*   src/sse/sse.go              the handler that writes the events.       *)
(* The root field's resolver returns the channel of PubSub.Subscribe with  *)
(* the request's context.                                                  *)
(*                                                                         *)
(* External, as the code uses it: Redis takes the messages of all          *)
(* publishers in one order and passes each on to the connections that are  *)
(* subscribed, or loses it for some of them; go-redis closes a             *)
(* connection's channel once its client is shut down; net/http cancels a   *)
(* request's context when its client leaves and when its handler returns.  *)
(* A message is the number of its place in Redis' order.                   *)
(***************************************************************************)
EXTENDS Naturals, Sequences, FiniteSets

CONSTANTS Requests,     \* SSE requests
          Malformed,    \* those that are too large or do not decode
          Publishers,   \* goroutines that call Publish
          Topics,
          Buffer,       \* Config.Buffer, of every stream
          MaxActive,    \* MaxActiveSubscriptions
          MaxMessages   \* bound: Publish calls

ASSUME RedisStreamAssumption ==
    /\ IsFiniteSet(Requests)
    /\ MaxActive \in Nat \ {0} /\ Buffer \in Nat \ {0}
    /\ "" \notin Topics

VARIABLES
    \* the bus
    closed,         \* PubSub.closed
    subs,           \* PubSub.subs: the requests whose stream is registered
    uncancelled,    \* what Close still has to cancel
    calls,          \* calls[p]: the topic p is publishing, "" between calls
    published,      \* Publish calls so far
    \* Redis
    log,            \* the topics of the messages, in order
    down,           \* the client is shut down
    inbox,          \* inbox[r]: what Redis passed on and r has not read
    \* one request
    topic,
    at,             \* the handler of r
    forwarder,      \* the goroutine of redis.go
    queue,          \* queue[r]: the channel of PubSub.Subscribe
    pump,           \* the goroutine of executor.go: "off", "reading", "gone",
    held,           \* ... or "holding" the response held[r]
    cancelled,      \* requests whose context is done
    subCancelled,   \* streams whose own context Close has cancelled
    active,         \* Transport.active
    \* the client
    opened, seen, final

bus     == <<closed, subs, uncancelled, calls, published>>
redis   == <<log, down, inbox>>
request == <<at, forwarder, queue, pump, held>>
context == <<cancelled, subCancelled>>
client  == <<opened, seen, final>>
vars    == <<bus, redis, request, context, client, topic, active>>

Init ==
    /\ closed = FALSE /\ subs = {} /\ uncancelled = {}
    /\ calls = [p \in Publishers |-> ""] /\ published = 0
    /\ log = <<>> /\ down = FALSE /\ inbox = [r \in Requests |-> <<>>]
    /\ topic \in [Requests -> Topics]
    /\ at = [r \in Requests |-> "arriving"]
    /\ forwarder = [r \in Requests |-> "off"]
    /\ queue = [r \in Requests |-> <<>>]
    /\ pump = [r \in Requests |-> "off"] /\ held = [r \in Requests |-> 0]
    /\ cancelled = {} /\ subCancelled = {}
    /\ active = 0
    /\ opened = [r \in Requests |-> 0]
    /\ seen = [r \in Requests |-> <<>>]
    /\ final = [r \in Requests |-> "new"]

Goto(r, next) == at' = [at EXCEPT ![r] = next]

\* The contexts of a stream: the request's, and the one derived from it.
StreamOver(r) == r \in cancelled \cup subCancelled

\* Connections that Redis sends to: subscribed, and not closed by cleanup.
Connected == {r \in Requests : at[r] = "dialled" \/ forwarder[r] \in {"on", "stopped"}}

-----------------------------------------------------------------------------
(* Publish *)

\* The closed check, under the lock that is then given back.
PublishCheck(p, t) ==
    /\ calls[p] = "" /\ published < MaxMessages /\ ~closed
    /\ calls' = [calls EXCEPT ![p] = t]
    /\ published' = published + 1
    /\ UNCHANGED <<closed, subs, uncancelled, redis, request, context, client, topic, active>>

\* client.Publish: Redis takes the message, unless the client is shut down.
PublishSend(p) ==
    LET takers == {r \in Connected : topic[r] = calls[p]}
        n      == Len(log) + 1
    IN  /\ calls[p] # ""
        /\ calls' = [calls EXCEPT ![p] = ""]
        /\ IF down THEN UNCHANGED <<log, inbox>>
           ELSE /\ log' = Append(log, calls[p])
                /\ \E R \in SUBSET takers :
                     inbox' = [r \in Requests |-> IF r \in R THEN Append(inbox[r], n) ELSE inbox[r]]
        /\ UNCHANGED <<closed, subs, uncancelled, published, down, request, context, client, topic,
                       active>>

-----------------------------------------------------------------------------
(* The handler: Serve of sse.go, with executor.Subscribe and PubSub.Subscribe *)

\* atomic.AddInt64, and the comparison with what it returned.
Count(r) ==
    /\ at[r] = "arriving"
    /\ active' = active + 1
    /\ Goto(r, IF active + 1 > MaxActive THEN "over" ELSE "counted")
    /\ UNCHANGED <<bus, redis, forwarder, queue, pump, held, context, client, topic>>

\* The counter goes back and the handler returns; net/http cancels the context.
Leave(r, answer) ==
    /\ active' = active - 1
    /\ Goto(r, "gone")
    /\ final' = [final EXCEPT ![r] = answer]
    /\ cancelled' = cancelled \cup {r}

\* Mutant: a refused request stays counted.
RefuseKept(r) ==
    /\ at[r] = "over"
    /\ Goto(r, "gone")
    /\ final' = [final EXCEPT ![r] = "error"]
    /\ cancelled' = cancelled \cup {r}
    /\ UNCHANGED <<bus, redis, forwarder, queue, pump, held, subCancelled, opened, seen, topic, active>>

Refuse(r) ==
    /\ at[r] = "over"
    /\ Leave(r, "error")
    /\ UNCHANGED <<bus, redis, forwarder, queue, pump, held, subCancelled, opened, seen, topic>>

\* limitRequestSize or readRequest fails; so do, with the same answer here, a
\* writer that cannot flush and a Subscribe that fails before the resolver.
Reject(r) ==
    /\ at[r] = "counted" /\ r \in Malformed
    /\ Leave(r, "error")
    /\ UNCHANGED <<bus, redis, forwarder, queue, pump, held, subCancelled, opened, seen, topic>>

\* PubSub.Subscribe: the first closed check.
SubscribeCheck(r) ==
    /\ at[r] = "counted" /\ r \notin Malformed
    /\ IF closed THEN /\ Leave(r, "error")
                      /\ UNCHANGED <<opened, seen, subCancelled>>
       ELSE Goto(r, "checked") /\ UNCHANGED <<active, context, client>>
    /\ UNCHANGED <<bus, redis, forwarder, queue, pump, held, topic>>

\* Receive: Redis confirms the subscription, or the connection fails.
Dial(r) ==
    /\ at[r] = "checked"
    /\ \/ /\ ~down
          /\ Goto(r, "dialled")
          /\ opened' = [opened EXCEPT ![r] = Len(log)]
          /\ final' = [final EXCEPT ![r] = "open"]
          /\ UNCHANGED <<active, context, seen>>
       \/ /\ Leave(r, "error")
          /\ UNCHANGED <<opened, seen, subCancelled>>
    /\ UNCHANGED <<bus, redis, forwarder, queue, pump, held, topic>>

\* Mutant: a bus that was closed while Redis answered is not noticed.
RegisterUnchecked(r) ==
    /\ at[r] = "dialled"
    /\ subs' = subs \cup {r}
    /\ Goto(r, "streaming")
    /\ forwarder' = [forwarder EXCEPT ![r] = "on"]
    /\ pump' = [pump EXCEPT ![r] = "reading"]
    /\ UNCHANGED <<active, context, client, closed, uncancelled, calls, published, redis, queue, held,
                   topic>>

\* The second closed check with the insertion, under the lock; then the two
\* goroutines start.
Register(r) ==
    /\ at[r] = "dialled"
    /\ IF closed
       THEN /\ Leave(r, "error")
            /\ UNCHANGED <<subs, forwarder, pump, opened, seen, subCancelled>>
       ELSE /\ subs' = subs \cup {r}
            /\ Goto(r, "streaming")
            /\ forwarder' = [forwarder EXCEPT ![r] = "on"]
            /\ pump' = [pump EXCEPT ![r] = "reading"]
            /\ UNCHANGED <<active, context, client>>
    /\ UNCHANGED <<closed, uncancelled, calls, published, redis, queue, held, topic>>

\* Mutant: the response is written and stays where it was.
HandOverTwice(r) ==
    /\ at[r] = "streaming" /\ pump[r] = "holding"
    /\ seen' = [seen EXCEPT ![r] = Append(@, held[r])]
    /\ \E next \in {"reading", "holding"} : pump' = [pump EXCEPT ![r] = next]
    /\ UNCHANGED <<bus, redis, at, forwarder, queue, held, context, topic, active, opened, final>>

\* The select of Serve and the select of the pump meet on the channel of responses.
HandOver(r) ==
    /\ at[r] = "streaming" /\ pump[r] = "holding"
    /\ seen' = [seen EXCEPT ![r] = Append(@, held[r])]
    /\ pump' = [pump EXCEPT ![r] = "reading"]
    /\ held' = [held EXCEPT ![r] = 0]
    /\ UNCHANGED <<bus, redis, at, forwarder, queue, context, topic, active, opened, final>>

\* The other cases of the select of Serve.
ServeEnds(r) ==
    /\ at[r] = "streaming"
    /\ \/ r \in cancelled /\ Leave(r, final[r])
       \/ pump[r] = "gone" /\ Leave(r, "complete")
    /\ UNCHANGED <<bus, redis, forwarder, queue, pump, held, subCancelled, opened, seen, topic>>

-----------------------------------------------------------------------------
(* The goroutine of Executor.Subscribe *)

PumpRead(r) ==
    /\ pump[r] = "reading" /\ queue[r] # <<>>
    /\ held' = [held EXCEPT ![r] = Head(queue[r])]
    /\ queue' = [queue EXCEPT ![r] = Tail(@)]
    /\ pump' = [pump EXCEPT ![r] = "holding"]
    /\ UNCHANGED <<bus, redis, at, forwarder, context, client, topic, active>>

\* The request is cancelled, at either select, or the channel is closed and empty.
PumpEnds(r) ==
    /\ \/ pump[r] \in {"reading", "holding"} /\ r \in cancelled
       \/ pump[r] = "reading" /\ forwarder[r] = "gone" /\ queue[r] = <<>>
    /\ pump' = [pump EXCEPT ![r] = "gone"]
    /\ held' = [held EXCEPT ![r] = 0]
    /\ UNCHANGED <<bus, redis, at, forwarder, queue, context, client, topic, active>>

-----------------------------------------------------------------------------
(* The forwarder: forward and cleanup of redis.go *)

\* One message: into the buffer, or away when that is full (the default of the
\* inner select).  A context that is done may win over the send.
Forward(r) ==
    /\ forwarder[r] = "on" /\ inbox[r] # <<>>
    /\ inbox' = [inbox EXCEPT ![r] = Tail(@)]
    /\ \/ /\ Len(queue[r]) < Buffer
          /\ queue' = [queue EXCEPT ![r] = Append(@, Head(inbox[r]))]
          /\ UNCHANGED forwarder
       \/ /\ Len(queue[r]) = Buffer /\ ~StreamOver(r)
          /\ UNCHANGED <<queue, forwarder>>
       \/ /\ StreamOver(r)
          /\ forwarder' = [forwarder EXCEPT ![r] = "stopped"]
          /\ UNCHANGED queue
    /\ UNCHANGED <<bus, log, down, at, pump, held, context, client, topic, active>>

\* The context is done, or go-redis closed the channel it reads.
ForwardStops(r) ==
    /\ forwarder[r] = "on"
    /\ StreamOver(r) \/ (down /\ inbox[r] = <<>>)
    /\ forwarder' = [forwarder EXCEPT ![r] = "stopped"]
    /\ UNCHANGED <<bus, redis, at, queue, pump, held, context, client, topic, active>>

\* cleanup: out of the map under the lock, then the connection and the channel
\* are closed; between the two only the forwarder itself can tell.
Cleanup(r) ==
    /\ forwarder[r] = "stopped"
    /\ subs' = subs \ {r}
    /\ forwarder' = [forwarder EXCEPT ![r] = "gone"]
    /\ inbox' = [inbox EXCEPT ![r] = <<>>]
    /\ UNCHANGED <<closed, uncancelled, calls, published, log, down, at, queue, pump, held, context,
                   client, topic, active>>

-----------------------------------------------------------------------------
(* Close, and what happens outside *)

\* The lock is held while the flag is set and the map is taken ...
Close ==
    /\ ~closed
    /\ closed' = TRUE
    /\ uncancelled' = subs
    /\ subs' = {}
    /\ UNCHANGED <<calls, published, redis, request, context, client, topic, active>>

\* ... and not while the streams are cancelled, one after the other.
CloseCancel(r) ==
    /\ r \in uncancelled
    /\ uncancelled' = uncancelled \ {r}
    /\ subCancelled' = subCancelled \cup {r}
    /\ UNCHANGED <<closed, subs, calls, published, redis, request, cancelled, client, topic, active>>

\* Nothing looks at the context before Redis has answered.
ClientLeaves(r) ==
    /\ at[r] \in {"dialled", "streaming"} /\ r \notin cancelled
    /\ cancelled' = cancelled \cup {r}
    /\ UNCHANGED <<bus, redis, request, subCancelled, client, topic, active>>

\* The owner of the Redis client shuts it down.
RedisDown ==
    /\ ~down /\ down' = TRUE
    /\ UNCHANGED <<bus, log, inbox, request, context, client, topic, active>>

Idle == /\ \A r \in Requests : at[r] = "gone" /\ forwarder[r] \in {"off", "gone"}
        /\ UNCHANGED vars

Handler(r)    == Count(r) \/ Refuse(r) \/ Reject(r) \/ SubscribeCheck(r) \/ Dial(r) \/ Register(r) \/ ServeEnds(r)
                 \/ HandOver(r)
PumpStep(r)   == PumpRead(r) \/ PumpEnds(r)
Forwarding(r) == Forward(r) \/ ForwardStops(r) \/ Cleanup(r)

Next ==
    \/ \E p \in Publishers : PublishSend(p) \/ \E t \in Topics : PublishCheck(p, t)
    \/ \E r \in Requests : Handler(r) \/ PumpStep(r) \/ Forwarding(r)
                           \/ CloseCancel(r) \/ ClientLeaves(r)
    \/ Close \/ RedisDown \/ Idle

\* Every goroutine that can go on does: the Go scheduler.  Dial ends because
\* Redis answers or the connection times out.
Fairness ==
    \A r \in Requests : /\ WF_vars(Handler(r)) /\ WF_vars(PumpStep(r)) /\ WF_vars(Forwarding(r))
                        /\ WF_vars(CloseCancel(r))

Spec == Init /\ [][Next]_vars /\ Fairness

-----------------------------------------------------------------------------

Ending == IF closed \/ down THEN Requests ELSE cancelled

Promise == INSTANCE Subscription WITH ending <- Ending

\* A client sees its topic's events in the broker's order, none twice, none
\* from before its subscription, and nothing after the end, although each event
\* passes through two goroutines and a bounded buffer, and Close, a shutdown of
\* Redis and the client's leaving race with it.  redis.go:151, executor.go:322,
\* sse.go:121.
PromiseSpec == Promise!Spec

Counted  == {r \in Requests : at[r] \notin {"arriving", "gone"}}
Admitted == {r \in Counted : at[r] # "over"}

\* The counter is exact: every handler that was counted is taken off once,
\* whichever way it returns, and no more than MaxActive are ever past the check.
\* sse.go:70.
CounterExact ==
    /\ active = Cardinality(Counted)
    /\ Cardinality(Admitted) <= MaxActive

\* A request whose client left, or whose bus was closed or lost, ends: the
\* handler has returned, both goroutines are gone, the map has no entry of it
\* and no connection is left.  A Close that falls between the two checks of
\* Subscribe is included.  redis.go:135, :163, executor.go:322.
StreamsEnd ==
    \A r \in Requests :
       (at[r] # "arriving" /\ (r \in cancelled \/ closed \/ down))
          ~> (at[r] = "gone" /\ forwarder[r] \in {"off", "gone"} /\ pump[r] \in {"off", "gone"}
              /\ r \notin subs \cup uncancelled)
=============================================================================
