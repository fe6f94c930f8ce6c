------------------------------- MODULE Loader -------------------------------
(***************************************************************************)
(* One scope of package loader: resolvers queue lookups with Load, and     *)
(* Dispatch hands the queued keys to the batch adapters and stores the     *)
(* results in the Pending values that resolvers hold.                      *)
(*                                                                         *)
(* scope.mu guards the queues and the active flag, scope.dispatch is only  *)
(* ever tried.  Dispatch walks the queues without scope.mu: what keeps     *)
(* Load away from them then is the active flag alone.                      *)
(*                                                                         *)
(* An adapter answers the i-th key with its value or an error, or fails as *)
(* a whole: an error, a panic, the wrong number of results.  It may call   *)
(* Load and Dispatch, which its documentation forbids.                     *)
(***************************************************************************)
EXTENDS Naturals, Sequences, FiniteSets

CONSTANTS
  NumLoaders,    \* loaders registered with the scope, in registration order
  Keys,
  MaxBatch,      \* maxBatchSize, of every loader
  Loadings,      \* goroutines that call Load
  Dispatchers,   \* goroutines that call Dispatch
  Absent,        \* no entry for the key
  Unready,       \* an entry that is not resolved
  Failed,        \* an entry resolved with an error
  Nobody,        \* no holder of scope.dispatch
  Idle           \* no Load call

Loaders == 1..NumLoaders

ASSUME LoaderAssumption ==
  /\ NumLoaders \in Nat
  /\ MaxBatch \in Nat \ {0}
  /\ IsFiniteSet(Keys)
  /\ Nobody \notin Dispatchers
  /\ Idle \notin Loaders \X Keys
  /\ Cardinality({Absent, Unready, Failed}) = 3
  /\ Keys \cap {Absent, Unready, Failed} = {}

VARIABLES
  ctxDone,   \* the context of the execution is done
  entries,   \* entries[l][k]: queue.entries, and the result of the Pending
  keys,      \* keys[l]: queue.keys
  active,    \* scope.active
  holder,    \* holder of scope.dispatch
  load,      \* load[g]: the lookup g queues, its context already looked at
  pc,        \* pc[d]: program counter of Dispatch
  at,        \* the queue the range loop is at
  start,     \* start of the current batch in that queue; like at, results and stored,
             \* a local variable of the Dispatch that holds the lock
  results,   \* what callBatch returned for the batch
  stored,    \* how many of them are stored
  asked      \* history: asked[l][k] adapter calls were given k

dispatchVars == <<pc, at, start, results, stored>>
vars == <<ctxDone, entries, keys, active, holder, load, dispatchVars, asked>>

Values == Keys \cup {Failed}

TypeOK ==
  /\ ctxDone \in BOOLEAN
  /\ entries \in [Loaders -> [Keys -> Values \cup {Absent, Unready}]]
  /\ keys \in [Loaders -> Seq(Keys)]
  /\ active \in BOOLEAN
  /\ holder \in Dispatchers \cup {Nobody}
  /\ load \in [Loadings -> (Loaders \X Keys) \cup {Idle}]
  /\ pc \in [Dispatchers -> {"idle", "activate", "batch", "adapter", "reenter",
                             "answer", "store", "unlock"}]
  /\ at \in 1..(NumLoaders + 1)
  /\ start \in Nat
  /\ results \in Seq(Values)
  /\ stored \in Nat
  /\ asked \in [Loaders -> [Keys -> Nat]]

\* NewScope
Init ==
  /\ ctxDone = FALSE
  /\ entries = [l \in Loaders |-> [k \in Keys |-> Absent]]
  /\ keys = [l \in Loaders |-> <<>>]
  /\ active = FALSE
  /\ holder = Nobody
  /\ load = [g \in Loadings |-> Idle]
  /\ pc = [d \in Dispatchers |-> "idle"]
  /\ at = 1
  /\ start = 0
  /\ results = <<>>
  /\ stored = 0
  /\ asked = [l \in Loaders |-> [k \in Keys |-> 0]]

CancelContext ==
  /\ ~ctxDone
  /\ ctxDone' = TRUE
  /\ UNCHANGED <<entries, keys, active, holder, load, dispatchVars, asked>>

-----------------------------------------------------------------------------
(* Load                                                                    *)

LoadBegin(g, l, k) ==
  /\ load[g] = Idle
  /\ ~ctxDone
  /\ load' = [load EXCEPT ![g] = <<l, k>>]
  /\ UNCHANGED <<ctxDone, entries, keys, active, holder, dispatchVars, asked>>

LoadReturns(g) == load' = [load EXCEPT ![g] = Idle]

\* The lookup is new: it gets an entry and a place in the queue.
Enqueue(l, k) ==
  /\ entries' = [entries EXCEPT ![l][k] = Unready]
  /\ keys' = [keys EXCEPT ![l] = Append(@, k)]

\* Mutant: the active flag is not looked at.
LoadQueueActive(g) ==
  /\ load[g] # Idle
  /\ LET l == load[g][1] k == load[g][2] IN
       IF entries[l][k] = Absent THEN Enqueue(l, k) ELSE UNCHANGED <<entries, keys>>
  /\ LoadReturns(g)
  /\ UNCHANGED <<ctxDone, active, holder, dispatchVars, asked>>

\* Mutant: a lookup that is cached is queued again.
LoadQueueAgain(g) ==
  /\ load[g] # Idle
  /\ ~active
  /\ LET l == load[g][1] k == load[g][2] IN
       /\ keys' = [keys EXCEPT ![l] = Append(@, k)]
       /\ entries' = IF entries[l][k] = Absent
                       THEN [entries EXCEPT ![l][k] = Unready] ELSE entries
  /\ LoadReturns(g)
  /\ UNCHANGED <<ctxDone, active, holder, dispatchVars, asked>>

\* The critical section of Load; its error while a dispatch is active.
LoadQueue(g) ==
  /\ load[g] # Idle
  /\ ~active
  /\ LET l == load[g][1] k == load[g][2] IN
       IF entries[l][k] = Absent THEN Enqueue(l, k) ELSE UNCHANGED <<entries, keys>>
  /\ LoadReturns(g)
  /\ UNCHANGED <<ctxDone, active, holder, dispatchVars, asked>>

LoadRefused(g) ==
  /\ load[g] # Idle
  /\ active
  /\ LoadReturns(g)
  /\ UNCHANGED <<ctxDone, entries, keys, active, holder, dispatchVars, asked>>

-----------------------------------------------------------------------------
(* Dispatch                                                                *)

Goto(d, to) == pc' = [pc EXCEPT ![d] = to]

\* TryLock succeeds; a Dispatch that finds it held returns an error at once.
DispatchBegin(d) ==
  /\ pc[d] = "idle"
  /\ holder = Nobody
  /\ holder' = d
  /\ Goto(d, "activate")
  /\ UNCHANGED <<ctxDone, entries, keys, active, load, at, start, results, stored, asked>>

Activate(d) ==
  /\ pc[d] = "activate"
  /\ active' = TRUE
  /\ at' = 1
  /\ start' = 0
  /\ Goto(d, "batch")
  /\ UNCHANGED <<ctxDone, entries, keys, holder, load, results, stored, asked>>

BatchEnd ==
  IF start + MaxBatch < Len(keys[at]) THEN start + MaxBatch ELSE Len(keys[at])

Batch == SubSeq(keys[at], start + 1, BatchEnd)

\* Mutant: a batch that is not started is passed over.
BatchCancelledDropped(d) ==
  /\ pc[d] = "batch"
  /\ at <= NumLoaders
  /\ start < Len(keys[at])
  /\ ctxDone
  /\ start' = start + MaxBatch
  /\ UNCHANGED <<ctxDone, entries, keys, active, holder, load, pc, at, results, stored, asked>>

\* callBatch: a context that is done fails the batch and spares the adapter.
BatchCancelled(d) ==
  /\ pc[d] = "batch"
  /\ at <= NumLoaders
  /\ start < Len(keys[at])
  /\ ctxDone
  /\ results' = [i \in 1..Len(Batch) |-> Failed]
  /\ stored' = 0
  /\ Goto(d, "store")
  /\ UNCHANGED <<ctxDone, entries, keys, active, holder, load, at, start, asked>>

BatchCalled(d) ==
  /\ pc[d] = "batch"
  /\ at <= NumLoaders
  /\ start < Len(keys[at])
  /\ ~ctxDone
  /\ asked' = [asked EXCEPT ![at] =
                 [k \in Keys |-> @[k] + Cardinality({i \in DOMAIN Batch : Batch[i] = k})]]
  /\ Goto(d, "adapter")
  /\ UNCHANGED <<ctxDone, entries, keys, active, holder, load, at, start, results, stored>>

\* The adapter calls Dispatch, which fails to take the lock.
AdapterDispatches(d) ==
  /\ pc[d] = "adapter"
  /\ Goto(d, "reenter")
  /\ UNCHANGED <<ctxDone, entries, keys, active, holder, load, at, start, results, stored, asked>>

\* Mutant: Dispatch waits for the lock.
ReenterWaits(d) ==
  /\ pc[d] = "reenter"
  /\ holder = Nobody
  /\ Goto(d, "answer")
  /\ UNCHANGED <<ctxDone, entries, keys, active, holder, load, at, start, results, stored, asked>>

ReenterRefused(d) ==
  /\ pc[d] = "reenter"
  /\ holder # Nobody
  /\ Goto(d, "answer")
  /\ UNCHANGED <<ctxDone, entries, keys, active, holder, load, at, start, results, stored, asked>>

\* The adapter returns, and callBatch looks at what it returned and once more
\* at the context.
AdapterReturns(d) ==
  /\ pc[d] \in {"adapter", "answer"}
  /\ \/ /\ ~ctxDone
        /\ \E bad \in SUBSET (1..Len(Batch)) :
             results' = [i \in 1..Len(Batch) |-> IF i \in bad THEN Failed ELSE Batch[i]]
     \/ results' = [i \in 1..Len(Batch) |-> Failed]
  /\ stored' = 0
  /\ Goto(d, "store")
  /\ UNCHANGED <<ctxDone, entries, keys, active, holder, load, at, start, asked>>

\* Mutant: results are stored by their place in the queue, not in the batch.
StoreFromStart(d) ==
  /\ pc[d] = "store"
  /\ stored < Len(results)
  /\ entries' = [entries EXCEPT ![at][keys[at][stored + 1]] = results[stored + 1]]
  /\ stored' = stored + 1
  /\ UNCHANGED <<ctxDone, keys, active, holder, load, pc, at, start, results, asked>>

\* One key's Pending is resolved, under its own lock.
Store(d) ==
  /\ pc[d] = "store"
  /\ stored < Len(results)
  /\ entries' = [entries EXCEPT ![at][keys[at][start + stored + 1]] = results[stored + 1]]
  /\ stored' = stored + 1
  /\ UNCHANGED <<ctxDone, keys, active, holder, load, pc, at, start, results, asked>>

\* start += maxBatchSize
StoreDone(d) ==
  /\ pc[d] = "store"
  /\ stored = Len(results)
  /\ start' = start + MaxBatch
  /\ Goto(d, "batch")
  /\ UNCHANGED <<ctxDone, entries, keys, active, holder, load, at, results, stored, asked>>

\* The queue is done: q.keys = nil, and on to the next.
QueueDone(d) ==
  /\ pc[d] = "batch"
  /\ at <= NumLoaders
  /\ start >= Len(keys[at])
  /\ keys' = [keys EXCEPT ![at] = <<>>]
  /\ at' = at + 1
  /\ start' = 0
  /\ UNCHANGED <<ctxDone, entries, active, holder, load, pc, results, stored, asked>>

\* The deferred calls: active goes first, then the lock.
Deactivate(d) ==
  /\ pc[d] = "batch"
  /\ at > NumLoaders
  /\ active' = FALSE
  /\ Goto(d, "unlock")
  /\ UNCHANGED <<ctxDone, entries, keys, holder, load, at, start, results, stored, asked>>

DispatchReturns(d) ==
  /\ pc[d] = "unlock"
  /\ holder' = Nobody
  /\ Goto(d, "idle")
  /\ UNCHANGED <<ctxDone, entries, keys, active, load, at, start, results, stored, asked>>

-----------------------------------------------------------------------------

Loading(g) ==
  \/ \E l \in Loaders, k \in Keys : LoadBegin(g, l, k)
  \/ LoadQueue(g) \/ LoadRefused(g)

\* What Dispatch does once it has the lock.
Running(d) ==
  \/ Activate(d) \/ BatchCancelled(d) \/ BatchCalled(d)
  \/ ReenterRefused(d) \/ AdapterReturns(d)
  \/ Store(d) \/ StoreDone(d) \/ QueueDone(d) \/ Deactivate(d) \/ DispatchReturns(d)

Next ==
  \/ CancelContext
  \/ \E g \in Loadings : Loading(g)
  \/ \E d \in Dispatchers : DispatchBegin(d) \/ AdapterDispatches(d) \/ Running(d)

Spec == Init /\ [][Next]_vars

\* A dispatch goes on, and adapters return.  Nobody has to call Load or Dispatch.
FairSpec == Spec /\ \A d \in Dispatchers : WF_vars(Running(d))

-----------------------------------------------------------------------------
(* Properties                                                              *)

\* Dispatch is among the queues, which it reads without scope.mu.
Walking(d) == pc[d] \in {"batch", "adapter", "reenter", "answer", "store"}

\* No Load touches the queues and the map while a dispatch walks them, nor do
\* two dispatches: the active flag covers every step of the loop
\* (loader.go:182-202), and the lock every holder.
NoQueueRace ==
  [][(\E l \in Loaders : Len(keys'[l]) > Len(keys[l])) =>
       \A d \in Dispatchers : ~Walking(d)]_vars

OneWalker == \A d, e \in Dispatchers : Walking(d) /\ Walking(e) => d = e

\* An adapter sees a key at most once in a scope, however often it is loaded and
\* however many dispatches run, fail or are cancelled.
AskedOnce == \A l \in Loaders, k \in Keys : asked[l][k] <= 1

\* A lookup is absent, unready and then resolved, with its own key's value or an
\* error, and what a resolver has read never changes.
Memoised ==
  [][\A l \in Loaders, k \in Keys :
       \/ entries'[l][k] = entries[l][k]
       \/ entries[l][k] = Absent /\ entries'[l][k] = Unready
       \/ entries[l][k] = Unready /\ entries'[l][k] \in {k, Failed}]_vars

\* When Dispatch returns, every lookup that was queued is resolved, so the Read
\* that follows in prepareBatch cannot find one that has not been dispatched.
DispatchResolves ==
  active /\ at > NumLoaders => \A l \in Loaders, k \in Keys : entries[l][k] # Unready

\* A dispatch ends, although its adapter calls Dispatch.
DispatchEnds == \A d \in Dispatchers : (pc[d] # "idle") ~> (pc[d] = "idle")

\* The lock, the flag and the point where the dispatch is agree.
LockHeld ==
  /\ \A d \in Dispatchers : pc[d] # "idle" <=> holder = d
  /\ active <=> \E d \in Dispatchers : Walking(d)

\* How far the dispatch has come in queue l: keys before the mark are resolved.
Mark(l) == IF ~active \/ l # at THEN 0
           ELSE IF \E d \in Dispatchers : pc[d] = "store" THEN start + stored
           ELSE IF start < Len(keys[l]) THEN start ELSE Len(keys[l])

\* An unready lookup is in its queue once, ahead of the mark; the rest resolved.
Queued ==
  \A l \in Loaders :
    /\ \A i, j \in DOMAIN keys[l] : keys[l][i] = keys[l][j] => i = j
    /\ \A i \in DOMAIN keys[l] :
         IF i > Mark(l) THEN entries[l][keys[l][i]] = Unready
                        ELSE entries[l][keys[l][i]] \in Values
    /\ \A k \in Keys : entries[l][k] = Unready =>
         \E i \in DOMAIN keys[l] : keys[l][i] = k /\ i > Mark(l)

\* Queues behind the loop are empty, and the batch in hand fits its queue.
InHand ==
  /\ active => \A l \in Loaders : l < at => keys[l] = <<>>
  /\ \A d \in Dispatchers :
       /\ pc[d] \in {"adapter", "reenter", "answer", "store"} =>
            at <= NumLoaders /\ start < Len(keys[at])
       /\ pc[d] = "store" =>
            /\ Len(results) = Len(Batch)
            /\ stored <= Len(results)
            /\ \A i \in DOMAIN results : results[i] \in {Batch[i], Failed}

\* A key is given to an adapter when its batch is, and not before.
AskedSoFar ==
  \A l \in Loaders, k \in Keys : asked[l][k] > 0 =>
    \/ entries[l][k] \in Values
    \/ /\ l = at
       /\ \E d \in Dispatchers : pc[d] \in {"adapter", "reenter", "answer", "store"}
       /\ \E i \in DOMAIN Batch : Batch[i] = k

\* The inductive invariant.
IInv ==
  /\ TypeOK
  /\ LockHeld
  /\ OneWalker
  /\ Queued
  /\ InHand
  /\ AskedSoFar
  /\ AskedOnce
  /\ DispatchResolves

=============================================================================
