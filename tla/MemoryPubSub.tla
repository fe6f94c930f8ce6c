---------------------------- MODULE MemoryPubSub ----------------------------
(***************************************************************************)
(* The in-process PubSub of pubsub/memory: one RWMutex guards the closed   *)
(* flag and the map of subscriptions, Publish sends to buffered channels   *)
(* under the read lock, and a channel is closed outside the lock by        *)
(* whichever of two goroutines comes first: the context.AfterFunc callback *)
(* of the subscription (here its watcher) or Close.                        *)
(*                                                                         *)
(* A step is what a goroutine does between two points where another can    *)
(* observe it: a critical section of the write lock, one channel send, one *)
(* channel close.  The read lock is held from PublishRLock to PublishDone. *)
(***************************************************************************)
EXTENDS Naturals, Sequences, FiniteSets

CONSTANTS
  Publishers,   \* goroutines that call Publish, one call at a time
  Subscribers,  \* Subscribe calls; nextID makes each a key of its own
  Closers,      \* goroutines that call Close
  Topics,
  Buffer,       \* Config.Buffer after New's default
  NoMessage,    \* no message in hand
  Nobody,       \* no owner of the write lock, no subscription in hand
  MaxCalls      \* bound: how many Publish calls get past closed

Message == [pub : Publishers, n : Nat, topic : Topics]

\* Goroutines that take the write lock: the caller of Subscribe, the
\* AfterFunc callback of a subscription, the caller of Close.
Writer == ({"subscribe", "watch"} \X Subscribers) \cup ({"close"} \X Closers)

ASSUME MemoryPubSubAssumption ==
  /\ Buffer \in Nat \ {0}
  /\ MaxCalls \in Nat
  /\ NoMessage \notin Message
  /\ Nobody \notin Subscribers \cup Writer

VARIABLES
  closed,     \* memoryPubSub.closed
  subs,       \* subscriptions in memoryPubSub.subs
  topic,      \* topic[s]: the topic argument of Subscribe
  ch,         \* ch[s]: contents of the channel
  chClosed,   \* chClosed[s]: close(sub.ch) has run; closeOnce has fired
  ctxDone,    \* ctxDone[s]: subCtx is done, by its parent or by sub.cancel
  wlock,      \* the goroutine inside mu.Lock() that new readers wait for
  caller,     \* caller[s]: program counter of Subscribe
  watcher,    \* watcher[s]: program counter of the AfterFunc callback
  pub,        \* pub[p]: program counter of Publish
  calls,      \* history: Publish calls that got past closed
  msg,        \* msg[p]: the message in hand
  todo,       \* todo[p]: subscriptions the range loop has not reached
  closer,     \* closer[c]: program counter of Close
  pending,    \* pending[c]: subscriptions Close has still to end
  cur,        \* cur[c]: the one it is ending
  received,   \* history: received[s] is what the consumer took, in order
  panicked    \* history: a send on, or a second close of, a closed channel

vars == <<closed, subs, topic, ch, chClosed, ctxDone, wlock, caller, watcher,
          pub, calls, msg, todo, closer, pending, cur, received, panicked>>

shared == <<closed, subs, topic, ch, chClosed, ctxDone, wlock>>
subscribeVars == <<caller, watcher>>
publishVars == <<pub, calls, msg, todo>>
closeVars == <<closer, pending, cur>>
history == <<received, panicked>>

TypeOK ==
  /\ closed \in BOOLEAN
  /\ subs \in SUBSET Subscribers
  /\ topic \in [Subscribers -> Topics]
  /\ ch \in [Subscribers -> Seq(Message)]
  /\ chClosed \in [Subscribers -> BOOLEAN]
  /\ ctxDone \in [Subscribers -> BOOLEAN]
  /\ wlock \in Writer \cup {Nobody}
  /\ caller \in [Subscribers -> {"lock", "arm", "refused", "returned"}]
  /\ watcher \in [Subscribers -> {"none", "armed", "close", "done"}]
  /\ pub \in [Publishers -> {"idle", "rlock", "send"}]
  /\ calls \in Nat
  /\ msg \in [Publishers -> Message \cup {NoMessage}]
  /\ todo \in [Publishers -> SUBSET Subscribers]
  /\ closer \in [Closers -> {"begin", "next", "lock", "close", "done"}]
  /\ pending \in [Closers -> SUBSET Subscribers]
  /\ cur \in [Closers -> Subscribers \cup {Nobody}]
  /\ received \in [Subscribers -> Seq(Message)]
  /\ panicked \in BOOLEAN

Init ==
  /\ closed = FALSE
  /\ subs = {}
  /\ topic \in [Subscribers -> Topics]
  /\ ch = [s \in Subscribers |-> <<>>]
  /\ chClosed = [s \in Subscribers |-> FALSE]
  /\ ctxDone = [s \in Subscribers |-> FALSE]
  /\ wlock = Nobody
  /\ caller = [s \in Subscribers |-> "lock"]
  /\ watcher = [s \in Subscribers |-> "none"]
  /\ pub = [p \in Publishers |-> "idle"]
  /\ calls = 0
  /\ msg = [p \in Publishers |-> NoMessage]
  /\ todo = [p \in Publishers |-> {}]
  /\ closer = [c \in Closers |-> "begin"]
  /\ pending = [c \in Closers |-> {}]
  /\ cur = [c \in Closers |-> Nobody]
  /\ received = [s \in Subscribers |-> <<>>]
  /\ panicked = FALSE

-----------------------------------------------------------------------------
(* sync.RWMutex.  A goroutine in Lock() first bars new readers (LockBar),  *)
(* then waits for those inside to leave; the critical section that follows *)
(* is one step, which also unlocks.  Subscribe and Close start with Lock;  *)
(* the AfterFunc callback does once the context is done.                   *)

WaitsForLock(w) ==
  \/ w[1] = "subscribe" /\ caller[w[2]] = "lock"
  \/ w[1] = "watch" /\ watcher[w[2]] = "armed" /\ ctxDone[w[2]]
  \/ w[1] = "close" /\ closer[w[2]] \in {"begin", "lock"}

LockBar(w) ==
  /\ WaitsForLock(w)
  /\ wlock = Nobody
  /\ wlock' = w
  /\ UNCHANGED <<closed, subs, topic, ch, chClosed, ctxDone>>
  /\ UNCHANGED <<subscribeVars, publishVars, closeVars, history>>

\* Mutant: publishers do not hold the read lock while they send.
LockedPastReaders(w) ==
  /\ wlock = w
  /\ wlock' = Nobody

\* w holds the write lock, for the length of the step.
Locked(w) ==
  /\ wlock = w
  /\ \A p \in Publishers : pub[p] # "send"
  /\ wlock' = Nobody

\* close(sub.ch) through sub.closeOnce: the second caller finds it done.
CloseChannel(s) ==
  /\ chClosed' = [chClosed EXCEPT ![s] = TRUE]
  /\ UNCHANGED panicked

-----------------------------------------------------------------------------
(* Subscribe                                                               *)

SubscribeInsert(s) ==
  /\ Locked(<<"subscribe", s>>)
  /\ IF closed
       THEN /\ caller' = [caller EXCEPT ![s] = "refused"]
            /\ UNCHANGED subs
       ELSE /\ caller' = [caller EXCEPT ![s] = "arm"]
            /\ subs' = subs \cup {s}
  /\ UNCHANGED <<closed, topic, ch, chClosed, ctxDone>>
  /\ UNCHANGED <<watcher, publishVars, closeVars, history>>

\* Mutant: a context that is done by now gets no callback.
SubscribeArmIfLive(s) ==
  /\ caller[s] = "arm"
  /\ caller' = [caller EXCEPT ![s] = "returned"]
  /\ watcher' = [watcher EXCEPT ![s] = IF ctxDone[s] THEN "none" ELSE "armed"]
  /\ UNCHANGED <<shared, publishVars, closeVars, history>>

\* context.AfterFunc, after the lock is released: the subscription is already
\* published to and may already be cancelled.
SubscribeArm(s) ==
  /\ caller[s] = "arm"
  /\ caller' = [caller EXCEPT ![s] = "returned"]
  /\ watcher' = [watcher EXCEPT ![s] = "armed"]
  /\ UNCHANGED <<shared, publishVars, closeVars, history>>

\* The caller's context ends, at any time.
CancelContext(s) ==
  /\ ~ctxDone[s]
  /\ ctxDone' = [ctxDone EXCEPT ![s] = TRUE]
  /\ UNCHANGED <<closed, subs, topic, ch, chClosed, wlock>>
  /\ UNCHANGED <<subscribeVars, publishVars, closeVars, history>>

\* The consumer takes the next message; an ended stream can still be drained.
Receive(s) ==
  /\ ch[s] # <<>>
  /\ received' = [received EXCEPT ![s] = Append(@, Head(ch[s]))]
  /\ ch' = [ch EXCEPT ![s] = Tail(@)]
  /\ UNCHANGED <<closed, subs, topic, chClosed, ctxDone, wlock>>
  /\ UNCHANGED <<subscribeVars, publishVars, closeVars, panicked>>

-----------------------------------------------------------------------------
(* unsubscribe, run by the AfterFunc callback                              *)

WatcherRemove(s) ==
  /\ Locked(<<"watch", s>>)
  /\ watcher' = [watcher EXCEPT ![s] = "close"]
  /\ subs' = subs \ {s}
  /\ UNCHANGED <<closed, topic, ch, chClosed, ctxDone>>
  /\ UNCHANGED <<caller, publishVars, closeVars, history>>

WatcherClose(s) ==
  /\ watcher[s] = "close"
  /\ CloseChannel(s)
  /\ watcher' = [watcher EXCEPT ![s] = "done"]
  /\ UNCHANGED <<closed, subs, topic, ch, ctxDone, wlock>>
  /\ UNCHANGED <<caller, publishVars, closeVars, received>>

-----------------------------------------------------------------------------
(* Publish                                                                 *)

PublishCall(p) ==
  /\ pub[p] = "idle"
  /\ calls + Cardinality({q \in Publishers : pub[q] = "rlock"}) < MaxCalls
  /\ pub' = [pub EXCEPT ![p] = "rlock"]
  /\ UNCHANGED <<shared, subscribeVars, calls, msg, todo, closeVars, history>>

\* RLock, the closed check, and the lookup of the topic's subscriptions.
PublishRLock(p) ==
  /\ pub[p] = "rlock"
  /\ wlock = Nobody
  /\ IF closed
       THEN /\ pub' = [pub EXCEPT ![p] = "idle"]
            /\ UNCHANGED <<calls, msg, todo>>
       ELSE \E t \in Topics :
            /\ pub' = [pub EXCEPT ![p] = "send"]
            /\ calls' = calls + 1
            /\ msg' = [msg EXCEPT ![p] = [pub |-> p, n |-> calls + 1, topic |-> t]]
            /\ todo' = [todo EXCEPT ![p] = {s \in subs : topic[s] = t}]
  /\ UNCHANGED <<shared, subscribeVars, closeVars, history>>

\* Mutant: the send repeats until the buffer is full.
PublishSendRepeated(p, s) ==
  /\ pub[p] = "send"
  /\ s \in todo[p]
  /\ todo' = [todo EXCEPT ![p] = IF Len(ch[s]) < Buffer THEN @ ELSE @ \ {s}]
  /\ ch' = [ch EXCEPT ![s] = IF Len(@) < Buffer THEN Append(@, msg[p]) ELSE @]
  /\ UNCHANGED panicked
  /\ UNCHANGED <<closed, subs, topic, chClosed, ctxDone, wlock>>
  /\ UNCHANGED <<subscribeVars, pub, calls, msg, closeVars, received>>

\* Mutant: no default branch.
PublishSendBlocking(p, s) ==
  /\ pub[p] = "send"
  /\ s \in todo[p]
  /\ Len(ch[s]) < Buffer
  /\ todo' = [todo EXCEPT ![p] = @ \ {s}]
  /\ ch' = [ch EXCEPT ![s] = Append(@, msg[p])]
  /\ UNCHANGED panicked
  /\ UNCHANGED <<closed, subs, topic, chClosed, ctxDone, wlock>>
  /\ UNCHANGED <<subscribeVars, pub, calls, msg, closeVars, received>>

\* Mutant: the loop breaks at the first slow subscriber.
PublishSendBreak(p, s) ==
  /\ pub[p] = "send"
  /\ s \in todo[p]
  /\ todo' = [todo EXCEPT ![p] = IF Len(ch[s]) < Buffer THEN @ \ {s} ELSE {}]
  /\ ch' = [ch EXCEPT ![s] = IF Len(@) < Buffer THEN Append(@, msg[p]) ELSE @]
  /\ UNCHANGED panicked
  /\ UNCHANGED <<closed, subs, topic, chClosed, ctxDone, wlock>>
  /\ UNCHANGED <<subscribeVars, pub, calls, msg, closeVars, received>>

\* One turn of the range loop: a select with a default branch.
PublishSend(p, s) ==
  /\ pub[p] = "send"
  /\ s \in todo[p]
  /\ todo' = [todo EXCEPT ![p] = @ \ {s}]
  /\ ch' = [ch EXCEPT ![s] = IF Len(@) < Buffer /\ ~chClosed[s]
                               THEN Append(@, msg[p]) ELSE @]
  /\ panicked' = (panicked \/ chClosed[s])
  /\ UNCHANGED <<closed, subs, topic, chClosed, ctxDone, wlock>>
  /\ UNCHANGED <<subscribeVars, pub, calls, msg, closeVars, received>>

PublishDone(p) ==
  /\ pub[p] = "send"
  /\ todo[p] = {}
  /\ pub' = [pub EXCEPT ![p] = "idle"]
  /\ msg' = [msg EXCEPT ![p] = NoMessage]
  /\ UNCHANGED <<shared, subscribeVars, calls, todo, closeVars, history>>

-----------------------------------------------------------------------------
(* Close                                                                   *)

\* Sets the flag, takes the subscriptions over and empties the map; a second
\* Close returns at once.
CloseBegin(c) ==
  /\ closer[c] = "begin"
  /\ Locked(<<"close", c>>)
  /\ IF closed
       THEN /\ closer' = [closer EXCEPT ![c] = "done"]
            /\ UNCHANGED <<closed, subs, pending>>
       ELSE /\ closer' = [closer EXCEPT ![c] = "next"]
            /\ closed' = TRUE
            /\ pending' = [pending EXCEPT ![c] = subs]
            /\ subs' = {}
  /\ UNCHANGED <<topic, ch, chClosed, ctxDone, cur>>
  /\ UNCHANGED <<subscribeVars, publishVars, history>>

\* p.sub.cancel(), which wakes the watcher, then unsubscribe.
CloseCancel(c, s) ==
  /\ closer[c] = "next"
  /\ s \in pending[c]
  /\ closer' = [closer EXCEPT ![c] = "lock"]
  /\ cur' = [cur EXCEPT ![c] = s]
  /\ pending' = [pending EXCEPT ![c] = @ \ {s}]
  /\ ctxDone' = [ctxDone EXCEPT ![s] = TRUE]
  /\ UNCHANGED <<closed, subs, topic, ch, chClosed, wlock>>
  /\ UNCHANGED <<subscribeVars, publishVars, history>>

CloseRemove(c) ==
  /\ closer[c] = "lock"
  /\ Locked(<<"close", c>>)
  /\ closer' = [closer EXCEPT ![c] = "close"]
  /\ subs' = subs \ {cur[c]}
  /\ UNCHANGED <<closed, topic, ch, chClosed, ctxDone>>
  /\ UNCHANGED <<subscribeVars, publishVars, pending, cur, history>>

CloseClose(c) ==
  /\ closer[c] = "close"
  /\ CloseChannel(cur[c])
  /\ closer' = [closer EXCEPT ![c] = "next"]
  /\ cur' = [cur EXCEPT ![c] = Nobody]
  /\ UNCHANGED <<closed, subs, topic, ch, ctxDone, wlock>>
  /\ UNCHANGED <<subscribeVars, publishVars, pending, received>>

CloseReturn(c) ==
  /\ closer[c] = "next"
  /\ pending[c] = {}
  /\ closer' = [closer EXCEPT ![c] = "done"]
  /\ UNCHANGED <<shared, subscribeVars, publishVars, pending, cur, history>>

-----------------------------------------------------------------------------

SubscriberNext(s) ==
  \/ SubscribeInsert(s) \/ SubscribeArm(s)
  \/ CancelContext(s) \/ Receive(s)
  \/ WatcherRemove(s) \/ WatcherClose(s)

PublisherNext(p) ==
  \/ PublishCall(p) \/ PublishRLock(p) \/ PublishDone(p)
  \/ \E s \in Subscribers : PublishSend(p, s)

CloserNext(c) ==
  \/ CloseBegin(c) \/ CloseRemove(c) \/ CloseClose(c)
  \/ CloseReturn(c)
  \/ \E s \in Subscribers : CloseCancel(c, s)

Next ==
  \/ \E w \in Writer : LockBar(w)
  \/ \E s \in Subscribers : SubscriberNext(s)
  \/ \E p \in Publishers : PublisherNext(p)
  \/ \E c \in Closers : CloserNext(c)

\* The Go scheduler runs every runnable goroutine, and a mutex is handed to
\* some waiter.  Nothing makes a caller call, a context end or a consumer read.
Fairness ==
  /\ \A s \in Subscribers :
       /\ WF_vars(SubscribeInsert(s) \/ SubscribeArm(s))
       /\ WF_vars(LockBar(<<"watch", s>>))
       /\ WF_vars(WatcherRemove(s) \/ WatcherClose(s))
  /\ \A p \in Publishers :
       WF_vars(PublishRLock(p) \/ PublishDone(p)
               \/ \E s \in Subscribers : PublishSend(p, s))
  /\ \A c \in Closers :
       /\ WF_vars(closer[c] = "lock" /\ LockBar(<<"close", c>>))
       /\ WF_vars(CloseBegin(c) \/ CloseRemove(c) \/ CloseClose(c) \/ CloseReturn(c)
                  \/ \E s \in Subscribers : CloseCancel(c, s))

Spec == Init /\ [][Next]_vars

FairSpec == Spec /\ Fairness

-----------------------------------------------------------------------------
(* Properties                                                              *)

\* No goroutine ever sends on a closed channel or closes one twice, either of
\* which crashes the server: Publish sends without the subscription's own
\* lock, and two goroutines race to close it (memory.go:82-87, 116-138, 166).
NoPanic == ~panicked

\* Why: a publisher only holds subscriptions that are in the map, no channel
\* of a subscription in the map is closed, and a goroutine that is about to
\* close one has taken it out under the write lock first.
Running(s) == caller[s] \in {"arm", "returned"}

LockInv ==
  /\ \A w \in Writer : wlock = w => WaitsForLock(w)
  /\ \A p \in Publishers :
       IF pub[p] = "send" THEN ~closed /\ todo[p] \subseteq subs /\ msg[p] \in Message
                          ELSE todo[p] = {} /\ msg[p] = NoMessage

MapInv ==
  /\ closed => subs = {}
  /\ \A s \in subs : Running(s) /\ ~chClosed[s] /\ watcher[s] \in {"none", "armed"}
  /\ \A s \in Subscribers :
       /\ Running(s) /\ ~closed /\ ~ctxDone[s] => s \in subs
       /\ ~Running(s) => watcher[s] = "none" /\ ~chClosed[s]
       /\ watcher[s] \in {"close", "done"} => ctxDone[s]
       /\ Len(ch[s]) <= Buffer

CloserInv ==
  \A c \in Closers :
    /\ closer[c] # "begin" => closed
    /\ \A s \in pending[c] : Running(s)
    /\ closer[c] \in {"lock", "close"} => cur[c] \in Subscribers /\ Running(cur[c])

\* The inductive invariant the proofs rest on: who may hold, close or send to
\* a channel, and when (memory.go:69-171).
IInv == TypeOK /\ NoPanic /\ LockInv /\ MapInv /\ CloserInv

\* A consumer sees the messages of one publisher in the order of its Publish
\* calls and none of them twice, whatever was skipped in between.
Delivered(s) == received[s] \o ch[s]

PublisherOrder ==
  \A s \in Subscribers : \A i, j \in 1..Len(Delivered(s)) :
    i < j /\ Delivered(s)[i].pub = Delivered(s)[j].pub
      => Delivered(s)[i].n < Delivered(s)[j].n

\* Why: the messages of one publisher are numbered upwards, and one that is
\* still to be sent to a stream is newer than all the stream has of its publisher.
Numbered ==
  /\ \A s \in Subscribers : \A i \in 1..Len(Delivered(s)) : Delivered(s)[i].n <= calls
  /\ \A p \in Publishers : pub[p] = "send" => msg[p].pub = p /\ msg[p].n <= calls
  /\ \A p \in Publishers : \A s \in todo[p] : \A i \in 1..Len(Delivered(s)) :
       Delivered(s)[i].pub = p => Delivered(s)[i].n < msg[p].n

\* A consumer gets messages of the topic it subscribed to, and of no other
\* (memory.go:69).
OwnTopic ==
  \A s \in Subscribers : \A i \in 1..Len(Delivered(s)) : Delivered(s)[i].topic = topic[s]

\* Why: a publisher has only subscriptions of its message's topic before it.
Addressed == \A p \in Publishers : \A s \in todo[p] : msg[p].topic = topic[s]

\* A consumer may range over its stream safely: once its context is done or
\* the PubSub is closed, the channel of a successful Subscribe is closed, even
\* if either happens between the map insert and context.AfterFunc.
StreamsEnd ==
  \A s \in Subscribers :
    (Running(s) /\ (ctxDone[s] \/ closed)) ~> chClosed[s]

\* A stalled consumer (none is ever obliged to receive), a pending Subscribe or
\* a Close never blocks a Publish call for good.
PublishReturns ==
  \A p \in Publishers : pub[p] # "idle" ~> pub[p] = "idle"

\* The contract of package pubsub: a stream is open from the map insert until
\* its channel is closed, and Publish takes effect when it has the read lock.
streamOf ==
  [s \in Subscribers |->
     IF chClosed[s] THEN "ended"
     ELSE IF Running(s) THEN "open" ELSE "none"]

Contract == INSTANCE PubSub WITH
  cancelled <- ctxDone,
  stream <- streamOf,
  queue <- ch,
  inflight <- msg,
  addressed <- todo

\* Every step of the implementation is a step the contract allows: in
\* particular every active subscriber of the topic gets the message unless its
\* own buffer is full, and no stream ends on its own.
ContractSpec == Contract!Spec

=============================================================================
