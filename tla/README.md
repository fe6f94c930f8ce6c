# Verification of grx

grx is a GraphQL server library in Go. This directory holds TLA+ models of it, the
TLC configurations that check them, and proofs for TLAPS. The models cover the
concurrent parts, the path of a request from its tokens to its last payload, and
the serving of overlapping requests.
Paths are relative to the repository's root. `PROJECT.json` maps every
definition to the lines it models.

## 1. The system

### Components

| Component | State | Operations | Modelled by |
| --- | --- | --- | --- |
| PubSub contract, `pubsub/pubsub.go` | streams, calls in progress | Publish, Subscribe, Close | `PubSub` |
| In-process PubSub, `pubsub/memory` | closed flag, map of subscriptions, one channel and context each, RWMutex | Publish, Subscribe, unsubscribe, Close | `MemoryPubSub` |
| Redis PubSub, `pubsub/redis` | closed flag, map of cancels, forwarders | Publish, Subscribe, forward, cleanup, Close | `RedisStream` |
| WebSocket session, `websocket/dispatcher.go` and the write side of `conn.go` | initialised flag, read deadline, operations by id, closed flag, write mutex | run, startSubscription, runStream, cancelSubscription, cancelAll, removeSubscription, serverPings, SendClose | `WSSession` |
| WebSocket framing, `websocket/conn.go` | the message being assembled | ReadMessage, upgrade, deflate, inflate | outcomes only |
| WebSocket transport, `websocket/websocket_transport.go` | active connections, draining flag, wait group | Serve, register, unregister, Shutdown | `WSTransport` |
| Loader scope, `loader/loader.go` | queue and cache per loader, active flag, dispatch lock | NewScope, Load, Read, Dispatch, callBatch | `Loader` |
| Batched execution, `exec/loader_execution.go` | prepared fields, pending lookups | prepareBatch, executeBatchedMutation, completeLoaderEvent | `Execution` |
| Parallel query, `exec/query_concurrency.go`, `exec/resolver_cache.go` | next index, results, single-flight cache | executeParallelQuery, resolve | `ParallelQuery` |
| Executor, `exec/executor.go`, `field_resolution.go`, `directives.go` | document cache, token cache | Execute, Subscribe, completeValue, flattenSelections | `QueryService`, `Execution`, `RedisStream` (the pump), `Serving` (the caches) |
| Parser, `exec/parser.go`, `document_bundle.go`, `operation_kind.go` | none between calls | parse, selectOperation, operationKindFromTokens | `QueryParser` |
| Validation and coercion, `exec/validate.go` and the files beside it | none between calls | ValidateDocument, coerceOperationVariables, coerceArguments | `QueryValidation`, `InputCoercion` |
| Incremental delivery, `exec/incremental.go` | list of pending work | ExecuteIncrementalStream, runIncrementalWork | `QueryService`, `Execution` |
| Path arena, `exec/path_arena.go` | a pool of growing path buffers, one for each goroutine that executes | withPathArena, recyclePathArena, extendAppendedPath, clonePath | `PathArena` |
| Type system, `schema/types.go` | built once at start | lookups | `TypeSystem` |
| Schema builder, SDL, diff, `schema`, `exec/sdl_parser.go` | none | Build, SDL, Diff | not modelled |
| HTTP transport and persisted queries, `http` | ring and map of persisted queries | Serve, writeIncremental, lookup, store | `Serving`, `QueryService` |
| SSE transport, `sse` | number of active streams | Serve | `RedisStream` |
| Server, `server` | configuration | New, serveHTTP | `Serving` |
| Codecs, uploads, request ids, `core` | none | encode, decode | negotiation only, in `Serving` |
| Plugins, client, facade | counters and logs | hooks | their power to refuse a request, in `QueryService` |

### How they interact

A request comes to `server`, which hands it to the first transport that matches.
HTTP answers once, or in parts for incremental delivery; SSE and WebSocket call
`Executor.Subscribe` and forward what comes on its channel. A subscription
resolver usually returns a channel fed from a PubSub, so an event goes from the
goroutine that calls `Publish`, through the subscription's buffered channel, the
resolver's goroutine, the executor's pump, and the goroutine of the WebSocket
operation, to a connection whose writes are serialised by a mutex. Cancellation
goes the other way, from a `complete` message, a disconnect or a shutdown through
contexts down to the PubSub. A resolver may return a `loader.Pending`; the
executor dispatches the scope when all ready resolvers have run.

### What is hard

* Publish sends to channels that two other goroutines may be about to close.
* Operation ids are reused while the worker that last held them still runs.
* A context is checked and a frame is then written; the two are separate steps.
* Closing a connection is two steps (frame, flag), and other goroutines write.
* A peer that does not read blocks a write, and with it the write mutex.
* Connections are admitted while the server shuts down.
* Dispatch reads the queues of a scope without the mutex; a flag excludes Load.
* Contexts end, adapters panic and fail, and writes fail, at any point.
* A stream passes through three goroutines, each with its own way to end.
* Two pieces of code read a query: a scan of the tokens, which decides whether a
  GET may have it, and the parser, whose tree is executed.
* Validation promises what coercion and execution then rely on, rule by rule.
* There are four ways to execute (serial, parallel, batched, incremental), and a
  null has to travel to the same place in each.
* Caches are looked up under one lock and filled under another.
* Response paths share one buffer, in which every field overwrites its sibling's.

`PROJECT.json` lists these as hazards with the line where each bites and the
property that covers it.

### What makes each part correct

* PubSub: no send on a closed channel, no channel closed twice, each stream ends
  once after cancellation or Close and not before, publishers are never held up,
  a subscriber gets one publisher's messages in order and without repeats.
* Session: an operation can be cancelled as long as it runs, the limit holds, the
  frames of an operation are in protocol order, nothing starts before the
  acknowledgement, nothing follows a `SendClose` that has returned, and everything
  ends when the peer goes.
* Transport: the limit holds, and Shutdown means what it returns.
* Loader: one call per key, every queued lookup resolved, results never change.
* Parallel query: every field once, in place; a resolver memoised runs once.
* Streams: what a client sees of its topic is in order and without repeats, and
  everything behind a stream ends with it.
* Requests: an accepted text is read as it is written; a valid document executes
  without request errors; a null and an error account for one another; how a
  request is executed does not show in its data.
* Incremental: pieces after their parents, nothing below a null, one last part,
  and the pieces add up.
* Paths: whoever keeps one, or goes on using one after a call, reads in it what it
  said when it was made.
* Caches: map and order agree and stay within the limit, and none of it shows in
  an answer.

## 2. The modules

### PubSub and MemoryPubSub

`PubSub` is the contract in the comments of `pubsub.go`, without lock, map or
goroutine. A publish takes effect, addresses every active stream of its topic,
and may return when each has accepted or, its buffer being full, skipped the
message.

`MemoryPubSub` has one action for each stretch of code between two points where
another goroutine can interfere. A critical section of the write lock is one step,
preceded by `LockBar`: in Go, a goroutine waiting in `Lock` already keeps new
readers out. The read lock is held from `PublishRLock` to `PublishDone`, with one
step per channel send. `SubscribeInsert` and `SubscribeArm` are the two halves of
Subscribe, on either side of the unlock. `watcher` is the `context.AfterFunc`
callback. `calls`, `received` and `panicked` are history.

The refinement maps a stream to "open" from its insertion into the map until its
channel is closed, and a publish to the moment it passes the closed check under
the read lock. `Contract!Spec` is checked as a property and proved.

### WSSession

Three kinds of goroutine: the reader (`dispatcher.run`), one worker per accepted
subscribe message, and the pinger. A received message is a nondeterministic
choice of what it makes `run` do: the contents matter only through the id it
names and the branch taken. OnConnect, the executor and JSON encoding succeed or
fail by choice. The wire is three flags and a history per operation. A frame is
one step, as the write mutex makes it; a write that blocks on a stalled peer
without a write timeout is a step that is not enabled. `SendClose` is two steps,
and so are `cancelSubscription` and `cancelAll`, which call the cancels after
unlocking. `doomed` holds the operations that are off the map and not cancelled.

### WSTransport

Around the sessions. Here a write is two steps, since the holder of the write
mutex is what Shutdown may wait for. A session writes, closes and ends as it
likes; it ends when its connection is down, which `WSSession` checks
(`DisconnectEndsAll`). Refused connections and those without the subprotocol are
closed by `Serve` itself. `Shutdown` takes a snapshot, closes what is in it in
turn, and then waits for the wait group or the context.

### Loader

One scope. Goroutines call Load; others call Dispatch, one of which gets the
lock. Queues are walked key by key, so that every step of the walk can interleave
with every Load. The adapter answers each key well or badly, or fails as a whole,
which stands for an error, a panic and a wrong number of results; it may call
Dispatch. A value is represented by its key, so a result that went to another key
would show. `asked` is history. All loaders have the same batch size; Load and
Dispatch outside a scope, or with a loader that is not registered, change nothing
and are left out.

### ParallelQuery

The workers of one query, the caller among them. A worker claims a field with one
atomic step, fills the field's slot, and claims the next. Of a field there is the
list of resolver calls it makes, chosen at the start: its own first, then those
below it in turn; what completion does besides (lists, null propagation, errors)
is left as the choice in `Proceed` between going on and ending the field. The
cache is modelled statement by statement: lookup under the mutex, the result
written without it, the channel closed, the other callers' `select`. `seen` and
`late` are history. `prepareBatchFields` runs the same claims and cache with
lists of length one. Left out are `__typename`, which calls nothing, the serial
path for a single field, and a panic in an error hook, which is called again by
the handler of that panic and ends the process.

### PathArena

Response paths as Go slices on a heap: a path is an array and a length, and says
what the array's cells say *now*. `says` is history: what the path was made to say.
Each worker has the stack of the paths of the calls it is in, and an arena out of
the pool, whose buffer holds nearly all of them at once. `ExtendBare`, `ExtendGrow`
and `ExtendInPlace` are the three ways through `extendAppendedPath`; what is in the
buffer already and what has to be copied there are one action, since a copy onto
itself changes nothing. `kept` are the paths that outlive the call, with a copy of
their own (`clonePath`, `NewFieldError`) or made for them (`appendPath`). Execution
begins at the root, at the key of an event, or at a kept path, and with batches goes
down along kept paths (`Complete`), which it finds by the text of the path it reads.
Arrays that nobody refers to may be returned by `make` again.

### RedisStream and Subscription

`RedisStream` composes three components along one subscription: the Redis
backend, the goroutine that `Executor.Subscribe` starts, and the SSE handler. The
root field's resolver hands the channel of `PubSub.Subscribe` on, with the
request's context. The handler is counted, refused or admitted, rejects a
malformed request, and enters `Subscribe`, which is three steps as in the code:
the first look at `closed`, the call to Redis without the lock, and the second
look with the registration. Redis is external: it takes messages in one order and
passes each on to the connections that are subscribed, or loses it for some of
them; a call to it fails; its client can be shut down. A stream has two contexts,
the request's and the one that `Close` cancels, and the forwarder and the pump each
choose among the cases of their `select` that are ready.

`Subscription` is what a client may rely on, with neither goroutines nor buffers:
events of its topic in the broker's order, none twice, none from before the
subscription, then at most one `complete`, and that only when the request or the
bus is over. The refinement takes `ending` to be the requests whose context is
done, and all of them once the bus is closed or Redis is gone.

### The path of a request

Seven modules, in the order in which a request passes them. Text is a sequence of
tokens; names, strings and numbers are tokens that the configuration interprets.

* `TypeSystem`: the built schema as a constant, and the questions asked of it.
* `QueryParser`: every production, in recursive descent over a position, with
  the depth limit; selection of the operation; and, apart, the scan of
  `operation_kind.go`, which counts brackets and looks for keywords.
* `QueryValidation`: the rules of `ValidateDocument`, each a set of locations at
  which it complains. Go stops at some of the errors; whether there is one is the
  same.
* `InputCoercion`: literals, variables and defaults against their types, and the
  binding of variables into the tree. JSON numbers are floats, as in the code.
* `Execution`: collection and merging of fields, `@skip` and `@include`,
  resolvers, completion with null propagation, and the batches of
  `loader_execution.go`. A *world* says which resolvers fail, return nil, return a
  value that does not serialise, have a nil in their list, are loaders, or resolve
  an abstract type to what. A result is a value, the set of the paths of its
  errors, and the work left to `@defer` and `@stream`.
* `QueryService`: the state machine. The transport's choice between refusing,
  executing and incremental execution; the steps of `prepareExecution`, in the
  order of the code, each with its refusal; the response; the loop over pending
  work, one patch a step; and subscriptions, one event a step. The client may
  leave between any two steps of a stream or of incremental delivery.
* `QueryProperties`: the properties, with a printer of documents, an independent
  statement of what a sound response is, and a client that applies patches.

The order of errors and of response keys is not modelled. `RoundTrip` does not
count tokens in documents with a redundant alias (`a: a`), which is not kept.

### Serving, Cache and BoundedSet

Concurrent handlers of one server. A step is what a handler does between two of
its accesses to a cache, so that every interleaving of lookups and insertions is
there. Routing, negotiation and refusals are functions of the request, which is a
record of what they look at. Bodies are decoded item by item, persisted queries
resolved and registered on the way; operations are executed one after the other,
each with the token cache and the document cache. What a document executes to is
`QueryService`'s: here the outcome names the document. A text stands for its own
hash. `Cache` is what the ring of persisted queries and the document cache promise, a
bounded set of keys that forgets the one inserted first (`http_transport.go:77`,
`execution.mdx:83`); the ring implements it from its write position on. `BoundedSet`
is what the token cache promises: one key leaves for a new one, and only where there
is no room. It does not say which, because the documentation names another order
than the code has (see the disagreements).

### Plan

Done, in this order: `PubSub`, `MemoryPubSub`; `WSSession`; `WSTransport`; `Loader`;
`ParallelQuery`; `RedisStream` with the pump and SSE; the path of a request;
`Serving` with the caches; `PathArena`. Left: the framing of `ReadMessage`, and the
input cycle check of the schema builder.

## 3. Runs

| Run | Instance | Shows |
| --- | --- | --- |
| `pubsub_memory` | 2 publishers, 2 subscribers, 1 closer, 1 topic, buffer 1, 2 publishes | invariant, order, termination, contract |
| `ws_session` | 2 ids, 2 operations, 5 messages, 2 events, limit 1 | safety of the session |
| `ws_session_live` | 2 ids, 2 operations, 3 messages, pings | liveness of the session |
| `ws_session_leak` | 1 operation, no idle timeout | violation: operations outlive the server's close |
| `ws_transport` | 2 connections, limit 1, 1 Shutdown, write timeout | admission and shutdown |
| `ws_transport_stall` | 1 connection, no write timeout | violation: Shutdown ignores its context |
| `loader` | 2 loaders, 2 keys, batches of 1, 2 loading and 2 dispatching goroutines | safety and termination of dispatch |
| `parallel_query` | 2 fields, 2 workers, 2 cached keys and 1 other, 2 calls a field | slots, cache, cancellation, no deadlock |
| `path_arena` | 2 workers, 2 arenas, 3 arrays, paths of up to 3 segments, 2 kept | what a path says |
| `streams` | 2 requests of which 1 malformed, limit 1, 2 publishers, 2 topics, 2 messages, buffer 1 | the promise to the client, the counter, termination |
| `query` | 15 documents and every edit of one token, 10 worlds, 4 ways to execute, GET, POST and streams, 4 Accept headers | the six properties of a request, below |
| `serving` | 2 handlers, 3 requests out of 39, 6 texts, 3 configurations, caches of 0 to 2 | answers, what is executed, and caches |

The properties of `query`:

* `RoundTrip`: a parsed document, printed, has the tokens it came from and parses
  to itself. A directive that is read and dropped, or a token that is skipped,
  shows.
* `GetNeverMutates`: the scan and the parser agree on the kind of every operation
  that gets as far as the executor, so no GET changes anything.
* `ValidIsSafe`: where resolvers do not fail, a document that passed validation,
  with variables that were accepted, executes without an error. Left to the run are
  null variables, integers out of range, and `{ name: null }` for a oneOf input
  object, of which validation counts the fields only (`validate.go:644`,
  `input_coercion.go:146`).
* `NullPropagation`: in every payload a null has a reason, and every error with a path
  is at or below a null; a non-null position is not null, with one exception: the root
  field of a subscription's event (`RootNullKept`, see the disagreements), whose null
  still needs its error.
* `ModesAgree`: batches and concurrency do not change the data.
* `Incremental`: each patch lands where earlier payloads left room for it,
  `hasNext` is false on the last one only, and the whole adds up to what `Execute`
  would have sent. It speaks of responses whose first payload has no errors; that the
  whole adds up is said where no part failed, and not of batched mutations that defer
  at their root. What the code loses in the cases left out is listed under the
  disagreements.

### Bounds

* `pubsub_memory`: two publishers overlap, two messages overfill a buffer of one,
  two subscribers make a publish a loop in which one may be slow, one closer
  races all of them and its own callbacks. A second topic adds no interaction,
  since nothing relates two topics but the lock, and triples the state space; the
  theorems hold for every set of topics. `MaxCalls` bounds publishes that pass the
  closed check; calls refused are not bounded.
* `ws_session`: the second operation can take the id of the first while the first
  still runs; with a limit of one it also needs its place. Five messages are
  connection_init, subscribe, complete, subscribe and one more. Two events make a
  stream, and a frame too many after a cancellation visible.
* `ws_session_live`: no limit on subscriptions, so that two operations are live at
  the disconnect.
* `ws_transport`: two connections for one place and one shutdown give every order
  of upgrade, registration, refusal, release and snapshot.
* `loader`: with batches of one, two keys in a queue are two batches, and the
  second of two queues is walked while keys for the first arrive.
* `parallel_query`: with two fields that make two calls each from two cached keys,
  workers meet at one key, at both in opposite orders, and one worker meets its
  own earlier entry; a third worker adds a second waiter and nothing else.

* `path_arena`: with a least capacity of 1 instead of 16, buffers have 2 and then 6
  cells, so a buffer is replaced while outer calls still use the old one; two workers
  pass arenas, and what is kept, to one another. Two segments are enough to tell an
  overwritten cell. Workers, arenas, arrays and segments are symmetric, and the cells
  of an array that nobody refers to are left out of the state (`View`).
* `streams`: with one place and two requests one is refused while the other holds
  the place or gives it back; with a buffer of one and two messages the forwarder
  finds it full, or ready together with a cancellation. `Close` and the shutdown
  of Redis fall between any two steps of `Subscribe`.
* `query`: a document exercises each construct of the grammar and each rule at
  least once, and its edits (a token dropped, doubled or replaced by one of 14) the
  errors around it. The worlds fail at a field, at a non-null field, in a list, in
  a scalar, in the resolution of a type, in a loader and in a dispatch. `MaxDepth`
  is 5, one less than the deepest document; a subscription has at most 2 events. `MaxInt`
  is 50, so that 99 is an integer out of range.
* `serving`: three requests on two handlers make one insertion race with another
  and a third request look at what they left; a cache of one evicts at the second
  key, the ring of two wraps at the third. With room for two, a key that was counted
  twice makes a cache evict while there is room.

### Fairness

Every assumption is about goroutines that are able to run. None makes a caller
call, a context end, a peer read or an executor answer.

* `MemoryPubSub`: the Go scheduler runs runnable goroutines, and the write lock
  bars new readers, so a waiting writer gets it; each goroutine is weakly fair
  for the code it is inside.
* `WSSession`: weak fairness of the reader's own steps, the pinger's and each
  worker's. `Kind` is fair because `OperationKind` only parses. `Execute`,
  `Subscribe` and the stream are the executor's and not assumed to end; once a
  context is done they are assumed to return, which is what contexts are for.
  Read deadlines expire, and so do write deadlines, in the runs that have them.
* `WSTransport`: strong fairness for whoever waits for a write mutex, which Go's
  mutex gives by its starvation mode; strong fairness for a write that a peer
  would take again and again; a session whose connection is down ends.
* `Loader`: a dispatch goes on, and an adapter that was called returns.
* `RedisStream`: handler, pump, forwarder and the loop of `Close` are weakly fair,
  each as a whole. Calls to Redis return. Between two cases of a `select` that stay
  ready no fairness is assumed: the bound on messages makes the choice of the
  event come to an end, where in Go a fair random choice does.
* `ParallelQuery`: workers and the caller go on. That resolvers return is not
  assumed: `QueryEnds` has it as its hypothesis, `WaitersLeave` holds without.

### Disagreements found

* `conn.go:488`. `SendClose` documents that it marks the connection as closed for
  further writes. The frame goes out first and the flag is set after the write
  mutex is released, so a waiting operation can put a `next` message behind the
  close frame. It has no run: `LateOnlyUnmarkedHolds` proves that this is
  the only moment when that can happen, and `WireOrder` that it is over when `SendClose` returns.
* `dispatcher.go:239`. The documentation of subscriptions says that the context is
  cancelled when the server closes the connection after a write timeout or a
  protocol error. After either, `run` reads on and operations keep running until
  the peer leaves or an idle timeout, off by default, expires.
* `websocket_transport.go:173`. `Shutdown` documents that it returns when its
  context is cancelled. Without a write timeout, which is off by default, one
  stalled peer blocks it in `SendClose` for ever.

Others are smaller, or concern behaviour on which the documentation is silent.
They have no run of their own, and the properties say where they stop:

* A deferred patch that fails drops every pending piece below its path, also a
  sibling deferred fragment at the same path, which is independent of it; the
  comment at `incremental.go:308` promises to keep those. In the same way work
  registered below a position that is nulled later in the initial payload is not
  dropped.
* `executeBatchedMutation` executes fragments without collecting what is deferred
  at the root: those fragments never arrive (`loader_execution.go:86`). Its comment
  only promises the same semantics.
* `execution.mdx:62` has errors bubble as in the GraphQL specification and makes each
  event of a subscription a field-execution pass. `Subscribe` puts what the root field
  came to under its key (`executor.go:344`): where the field is not nullable, as
  `tick: User!`, an error below it sends `{"tick": null}` with the error, and `data`
  does not become null. `NullPropagation` excepts this null and no other; in the
  instance of `query` it occurs, so without the exception TLC refutes the property.
* The token cache is documented as LRU (`executor.go:218`, `option.go:61`,
  `document_bundle.go:17`, `server.go:156`) and evicts the entry inserted first, used or
  not (`executor.go:427`). `CachesSpec` leaves the order of the token cache open;
  the theorem `TokensByAge` says what the code does.
* A response that cannot be encoded as the client demands is refused with 406
  after the operation was executed; an incremental response is sent all the same.
* When an item of a batch is refused, the queries registered by the items before
  it stay registered.
* `@defer` on a field passes validation and has no effect; of two merged selections
  the directives of the second are not looked at.

## 4. Proofs

Eight components have a module of proofs, which states the properties above for every value of the constants under the named
assumptions of the component: sets of any size (finite where something is counted),
any buffer, batch size and limit. Every safety property that a run checks is a
theorem, except the six of `query`.

| Module | Theorems |
| --- | --- |
| `MemoryPubSub_proofs` | `Invariance`, `NeverPanics`, `InOrder`, `TopicsApart`, `RefinesContract` |
| `WSSession_proofs` | `Invariance`, `EveryOperationCancellable`, `FramesInOrder`, `LastWordsHold`, `WireOrderHolds`, `LateOnlyUnmarkedHolds`, `LimitHolds` |
| `WSTransport_proofs` | `Invariance`, `LimitHolds`, `ShutdownDrains`, `WaitGroupUse` |
| `Loader_proofs` | `Invariance`, `AdapterAskedOnce`, `NothingUnresolved`, `NoLoadDuringWalk`, `ResultsStay` |
| `RedisStream_proofs` | `ExactCounter`, `KeepsPromise`, `EventsInOrder`, `SilentAfterEnd` |
| `ParallelQuery_proofs` | `Invariance`, `JoinedTheorem`, `SharedResultTheorem`, `NoCircleOfWaiters`, `OneLateCallTheorem`, `SlotsOnceTheorem` |
| `PathArena_proofs` | `Invariance`, `PathsStay` |
| `Serving_proofs` | `Invariance`, `Answers`, `Judging`, `Refinement`, `TokensByAge`, `CachesBounded` |

Each rests on an inductive invariant `IInv`, of which the type invariant is the
first conjunct. Each invariant was found with TLC on the instance of the run; the
runs check the properties only, since the invariance theorem of the module settles
the rest.

* `MemoryPubSub`. That nothing panics is not inductive. It needs that a publisher
  in its loop holds only subscriptions that are in the map (`LockInv`), that no
  channel of a subscription in the map is closed (`MapInv`), and that whoever
  closes a channel has first been through the write lock, which no publisher in
  its loop lets it have. The refinement uses the same facts: what a publisher
  reads under the lock are the open streams of its topic, and all the active ones.
  The order of what a subscriber receives needs `Numbered`: messages carry the number
  of their call, and one that is still to be sent to a stream is newer than all that
  the stream has, received or buffered, of the same publisher. `TopicsApart`,
  which the run's one topic cannot show, needs that a publisher has only subscriptions
  of its message's topic before it (`Addressed`).
* `WSSession`. `Cancellable` needs the numbering of operations and what the reader
  may hold (`Handover`). `OperationFrames` and `LastWords` need what has been
  written at each program counter (`FramesSoFar`, `StaleSoFar`). The limit is kept
  by the map together with `doomed`, and bounds live operations through
  `Cancellable`. `Sealed` is inductive by itself: who wrote the close frame has
  the flag still to set.
* `WSTransport`. The wait group is the size of the map, which holds every session
  being served (`Counted`); a shutdown has set draining, and has brought down
  every connection it has passed (`Stopping`).
* `Loader`. `Mark` is how far a dispatch has come in a queue: keys before it are
  resolved, keys from it on are not, each is in the queue once, and every
  unresolved lookup is in its queue beyond the mark (`Queued`). `InHand` ties the
  results in hand to their batch, `AskedSoFar` the calls made to the entries.
* `ParallelQuery`. `Claims` gives every claimed field to exactly one worker until
  its slot is filled, which is what keeps slots from being written twice and the
  response from having holes. `Entries` gives every entry that is not ready to its
  owner alone, so that nobody else writes it and nobody reads it. `LateSoFar` says
  that the context was not done when a worker got as far as the cache. `Owned` says
  that such an entry still has its owner, so a waiter waits for a worker that is in a
  resolver or about to publish (`NoCircleOfWaiters`). That is the reason why fields
  that ask for the same keys in opposite orders do not deadlock; that the query then
  ends is `QueryEnds`, which TLC checks.
* `PathArena`. That every path holds is not inductive: an extension in place writes
  over cells that the paths of outer calls cover. It changes nothing there because
  calls are nested and a path says what the outer ones say (`Nested`), and it reaches
  nobody else because a buffer is one arena's, an arena one goroutine's, the paths in
  a buffer are its owner's, and what is kept is in no buffer (`Private`). When the
  buffer is replaced the outer paths stay in the old array, which is no buffer any
  more. `AllHold` also says that the cells a path covers exist.
* `RedisStream`. The promise is about one client; the proof carries, for each
  request, that what is held by the pump, what is queued and what is in the inbox
  are, in this order, increasing numbers of messages of its topic, all later than
  what the client has seen and than its subscription. `Complete` needs that a
  closed channel has a reason: a context that is done, a closed bus or a lost
  Redis. The counter needs the set of counted requests to be finite. What the promise
  means for one client is then an argument about `Subscription` alone: `Last` is the
  highest number sent so far, so the next event is later than all of them
  (`EventsInOrder`), and no action of an ended stream is left (`SilentAfterEnd`).
* `Serving`. That an answer is right says nothing of the steps before it. The
  invariant says that whatever a cache keeps under a key is what the key names
  (`CachesHold`), so that it does not matter which handler stored it or evicted it
  between two lookups; that each text and each outcome a handler has so far is the
  one its request asked for, at its place (`SoFar`); and what it may be doing with
  the next one (`InHand`): it is past the test of method and batch, and it looks
  for a stream only where the client takes one and the document has one. `RingHolds`
  says how far the ring has been written. The assumptions on the constants say what
  the decoder and the configuration guarantee: normalising a text does not change
  what kind of operation it is, a body that is no batch has one operation, sizes are
  numbers and transports are known; and that no text is one of the three words that
  stand for the results of resolving one, which is about the model only. `Judging`
  is read off the same invariant: every outcome so far is right for a text of the
  request (`Executed`), and no right outcome of a barred operation has a document.
* `Cache` and `BoundedSet`. The refinement of a cache maps its age to the order list of
  the executor, and for persisted queries to the ring read from its write position on
  (`Rotation`: writing one place and moving on is a `Tail` and an `Append`; before
  the ring is full it is an `Append`). That an insertion keeps the promise sound is
  proved once, for any set, order and limit (`Younger`), and carried over to all three
  (`CachesBounded`): map and order name the same keys, each
  once, and so the map has no more entries than its limit. The token cache is a
  `BoundedSet` because it is such a queue (`TokensByAge`, `QueueIsBounded`): a sound
  order is as long as the map has keys (`Counted`), so what is full to the one is full
  to the other. It holds because the second
  look under the write lock comes before the eviction; the mutant without it breaks
  `CachesSpec`.

Only model-checked:

* every liveness property (`StreamsEnd`, `PublishReturns`, `InitDeadline`,
  `CancelledEnds`, `DisconnectEndsAll`, `ShutdownReturns`, `DispatchEnds`, `QueryEnds`,
  `WaitersLeave`): fairness and `ENABLED` are beyond the prover;
* the six properties of `query`. The modules of the request path define trees by
  recursion, and what a recursive definition computes for every tree is an induction
  over data, which the installed provers cannot carry out. The modules proved about
  use no recursive operator. What concerns concurrency in the request path is in
  `Serving`, which takes the kind of a text and what it executes to as constants.
* the second and the third disagreement above, which are counterexamples.

## 5. What is not modelled

* Characters: the lexer, JSON, frame layout, compression, the framing of
  multipart responses, and headers beyond the negotiation. The grammar of SDL is
  parsed at start-up and by tools, sequentially and into plain data.
* Start-up: building a schema by reflection over Go types, its validation, the
  comparison of two schemas, options. The models take the schema as a constant.
* Introspection beyond its being refused: the answer is data of the schema.
* Panics in resolvers and hooks outside the components that recover on their own
  goroutine; both `Execute` and `Serve` turn one into an error. Deadlines of
  requests.
* In `Serving`: brotli, a coding listed twice, HEAD, documents that lex and do not
  parse, and what WebSocket and SSE do with a request that is handed to them.
* Observers: logging, tracing, metrics. A hook is modelled by its power to refuse.
* The client, the playground, benchmarks, examples and the documentation site.
* Memory-model effects finer than the steps above: each access that the models
  split is under a mutex, an atomic or a channel in the code, and the one that is
  not, the walk of the queues in `Dispatch`, is covered by `NoQueueRace`.
