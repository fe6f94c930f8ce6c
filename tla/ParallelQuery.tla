--------------------------- MODULE ParallelQuery ---------------------------
(***************************************************************************)
(* The root fields of one query on several goroutines                      *)
(* (exec/query_concurrency.go): workers claim the next field with an       *)
(* atomic counter, resolve it and everything below it, and put the result  *)
(* into the field's own slot; the caller is a worker too, waits for the    *)
(* others, and assembles the response.  What they share besides the        *)
(* counter is the cache of resolver results, in which the first to come    *)
(* calls the resolver and the others wait for it.                          *)
(*                                                                         *)
(* Of a field the model keeps its plan: the keys of the resolver calls it  *)
(* makes, first its own and then, one by one, those of its nested fields.  *)
(* With loaders only the first of them is made here (prepareBatchFields).  *)
(***************************************************************************)
EXTENDS Naturals, Sequences, FiniteSets

CONSTANTS
  NumFields,    \* root fields, at least two
  Concurrency,  \* Executor.queryConcurrency, at least two
  Keys,         \* resolver calls that can be told apart: field, source and arguments
  Cached,       \* those for which resolverCacheKey finds a key
  MaxSteps      \* bound: resolver calls of one field

Fields == 1..NumFields
Workers == 1..(IF Concurrency < NumFields THEN Concurrency ELSE NumFields)

\* The goroutine of Execute.
Caller == 1

ASSUME ParallelQueryAssumption ==
  /\ NumFields \in Nat \ {0, 1}
  /\ Concurrency \in Nat \ {0, 1}
  /\ Cached \subseteq Keys
  /\ MaxSteps \in Nat \ {0}

VARIABLES
  ctxDone,  \* the context of the request is done
  plan,     \* plan[f]: the resolver calls of f, in order
  next,     \* the field to be claimed next; all are claimed if it is none
  pc,       \* pc[w]: program counter of worker w
  field,    \* field[w]: the field it has claimed last
  step,     \* step[w]: the call it is at in the plan
  results,  \* results[f]: "none", or what f came to
  entry,    \* entry[k]: cache entry, "absent", "unset", "value" or "error"
  ready,    \* ready[k]: entry.ready is closed
  done,     \* the response is assembled
  calls,    \* history: calls[k] resolver calls were made for k
  seen,     \* history: seen[k] is what was taken out of the entry of k
  late      \* history: late[w] calls were begun by w after ctxDone

workVars == <<next, pc, field, step, results>>
cacheVars == <<entry, ready>>
history == <<calls, seen, late>>
vars == <<ctxDone, plan, workVars, cacheVars, done, history>>

Outcomes == {"value", "error"}

Plans == UNION {[1..n -> Keys] : n \in 1..MaxSteps}

TypeOK ==
  /\ ctxDone \in BOOLEAN
  /\ plan \in [Fields -> Plans]
  /\ next \in Nat \ {0}
  /\ pc \in [Workers -> {"claim", "check", "lookup", "resolver", "publish", "wait", "exit"}]
  /\ field \in [Workers -> Nat]
  /\ step \in [Workers -> Nat]
  /\ results \in [Fields -> Outcomes \cup {"none"}]
  /\ entry \in [Keys -> Outcomes \cup {"absent", "unset"}]
  /\ ready \in [Keys -> BOOLEAN]
  /\ done \in BOOLEAN
  /\ calls \in [Keys -> Nat]
  /\ seen \in [Keys -> SUBSET (Outcomes \cup {"absent", "unset"})]
  /\ late \in [Workers -> Nat]

\* The slots and the cache are made, the workers started.
Init ==
  /\ ctxDone = FALSE
  /\ plan \in [Fields -> Plans]
  /\ next = 1
  /\ pc = [w \in Workers |-> "claim"]
  /\ field = [w \in Workers |-> 0]
  /\ step = [w \in Workers |-> 0]
  /\ results = [f \in Fields |-> "none"]
  /\ entry = [k \in Keys |-> "absent"]
  /\ ready = [k \in Keys |-> FALSE]
  /\ done = FALSE
  /\ calls = [k \in Keys |-> 0]
  /\ seen = [k \in Keys |-> {}]
  /\ late = [w \in Workers |-> 0]

CancelContext ==
  /\ ~ctxDone
  /\ ctxDone' = TRUE
  /\ UNCHANGED <<plan, workVars, cacheVars, done, history>>

-----------------------------------------------------------------------------
(* The loop of a worker                                                    *)

Goto(w, to) == pc' = [pc EXCEPT ![w] = to]

\* Mutant: the counter is read and written in two steps, and an update is lost.
ClaimLost(w) ==
  /\ pc[w] = "claim"
  /\ next' \in {next, next + 1}
  /\ IF next \in Fields
       THEN /\ field' = [field EXCEPT ![w] = next]
            /\ step' = [step EXCEPT ![w] = 1]
            /\ Goto(w, "check")
       ELSE /\ Goto(w, "exit")
            /\ UNCHANGED <<field, step>>
  /\ UNCHANGED <<ctxDone, plan, results, cacheVars, done, history>>

\* next.Add(1), and the loop's condition.
Claim(w) ==
  /\ pc[w] = "claim"
  /\ next' = next + 1
  /\ IF next \in Fields
       THEN /\ field' = [field EXCEPT ![w] = next]
            /\ step' = [step EXCEPT ![w] = 1]
            /\ Goto(w, "check")
       ELSE /\ Goto(w, "exit")
            /\ UNCHANGED <<field, step>>
  /\ UNCHANGED <<ctxDone, plan, results, cacheVars, done, history>>

\* resolveParallelField returns: the slot is filled, the next field is claimed.
FieldDone(w, outcome) ==
  /\ results' = [results EXCEPT ![field[w]] = outcome]
  /\ Goto(w, "claim")
  /\ UNCHANGED <<next, field, step>>

NextCall(w) ==
  /\ step[w] < Len(plan[field[w]])
  /\ step' = [step EXCEPT ![w] = @ + 1]
  /\ Goto(w, "check")
  /\ UNCHANGED <<next, field, results>>

\* A call of the plan came to outcome.  If it is the field's own and failed,
\* nothing is below it.  After a nested failure its neighbours run on.  Null where
\* null may not be, or a panic while completing, makes an end of the field.
Proceed(w, outcome) ==
  \/ /\ outcome = "value" \/ step[w] > 1
     /\ NextCall(w)
  \/ /\ outcome = "value"
     /\ step[w] = Len(plan[field[w]])
     /\ FieldDone(w, "value")
  \/ /\ outcome = "error"
     /\ step[w] = Len(plan[field[w]]) /\ step[w] > 1
     /\ FieldDone(w, "value")
  \/ FieldDone(w, "error")

-----------------------------------------------------------------------------
(* One resolver call: prepareSelectedField, and the cache                  *)

Key(w) == plan[field[w]][step[w]]

\* Mutant: the context is not looked at.
CheckNothing(w) ==
  /\ pc[w] = "check"
  /\ Goto(w, "lookup")
  /\ UNCHANGED <<next, field, step, results>>
  /\ UNCHANGED <<ctxDone, plan, cacheVars, done, history>>

\* The context, then authorizer, hooks and arguments, which may refuse the field.
Check(w) ==
  /\ pc[w] = "check"
  /\ \/ /\ ~ctxDone
        /\ Goto(w, "lookup")
        /\ UNCHANGED <<next, field, step, results>>
     \/ Proceed(w, "error")
  /\ UNCHANGED <<ctxDone, plan, cacheVars, done, history>>

\* A panic outside a resolver, in the authorizer or a hook, ends the field with
\* an error.
Panics(w) ==
  /\ pc[w] = "check"
  /\ FieldDone(w, "error")
  /\ UNCHANGED <<ctxDone, plan, cacheVars, done, history>>

\* The resolver of w's key is called.
Call(w) ==
  /\ Goto(w, "resolver")
  /\ calls' = [calls EXCEPT ![Key(w)] = @ + 1]
  /\ late' = [late EXCEPT ![w] = IF ctxDone THEN @ + 1 ELSE @]

\* The critical section of the cache: the first to come makes the entry.
Lookup(w) ==
  /\ pc[w] = "lookup"
  /\ \/ /\ Key(w) \notin Cached
        /\ Call(w)
        /\ UNCHANGED entry
     \/ /\ Key(w) \in Cached /\ entry[Key(w)] = "absent"
        /\ entry' = [entry EXCEPT ![Key(w)] = "unset"]
        /\ Call(w)
     \/ /\ Key(w) \in Cached /\ entry[Key(w)] # "absent"
        /\ Goto(w, "wait")
        /\ UNCHANGED <<entry, calls, late>>
  /\ UNCHANGED <<ctxDone, plan, next, field, step, results, ready, done, seen>>

\* callResolver returns; a panic of the resolver is an error.
ResolverReturns(w) ==
  /\ pc[w] = "resolver"
  /\ \E outcome \in Outcomes :
       IF Key(w) \in Cached
         THEN /\ entry' = [entry EXCEPT ![Key(w)] = outcome]
              /\ Goto(w, "publish")
              /\ UNCHANGED <<next, field, step, results>>
         ELSE /\ Proceed(w, outcome)
              /\ UNCHANGED entry
  /\ UNCHANGED <<ctxDone, plan, ready, done, history>>

Take(w) == seen' = [seen EXCEPT ![Key(w)] = @ \cup {entry[Key(w)]}]

\* Mutant: an error returns before the channel is closed.
PublishValues(w) ==
  /\ pc[w] = "publish"
  /\ ready' = [ready EXCEPT ![Key(w)] = entry[Key(w)] = "value"]
  /\ Take(w)
  /\ Proceed(w, entry[Key(w)])
  /\ UNCHANGED <<ctxDone, plan, entry, done, calls, late>>

\* close(entry.ready), before anything below the field is resolved.
Publish(w) ==
  /\ pc[w] = "publish"
  /\ ready' = [ready EXCEPT ![Key(w)] = TRUE]
  /\ Take(w)
  /\ Proceed(w, entry[Key(w)])
  /\ UNCHANGED <<ctxDone, plan, entry, done, calls, late>>

\* Mutant: an entry that is there is taken for one that is ready.
WaitNot(w) ==
  /\ pc[w] = "wait"
  /\ Take(w)
  /\ Proceed(w, IF entry[Key(w)] = "error" THEN "error" ELSE "value")
  /\ UNCHANGED <<ctxDone, plan, cacheVars, done, calls, late>>

Wait(w) ==
  /\ pc[w] = "wait"
  /\ ready[Key(w)]
  /\ Take(w)
  /\ Proceed(w, entry[Key(w)])
  /\ UNCHANGED <<ctxDone, plan, cacheVars, done, calls, late>>

\* Mutant: select has no case for the context until the entry is ready.
WaitCancelledReady(w) ==
  /\ pc[w] = "wait"
  /\ ctxDone /\ ready[Key(w)]
  /\ Proceed(w, "error")
  /\ UNCHANGED <<ctxDone, plan, cacheVars, done, history>>

WaitCancelled(w) ==
  /\ pc[w] = "wait"
  /\ ctxDone
  /\ Proceed(w, "error")
  /\ UNCHANGED <<ctxDone, plan, cacheVars, done, history>>

-----------------------------------------------------------------------------
(* The caller                                                              *)

\* Mutant: the response is assembled when the caller runs out of fields.
AssembleAtOnce ==
  /\ ~done
  /\ pc[Caller] = "exit"
  /\ done' = TRUE
  /\ UNCHANGED <<ctxDone, plan, workVars, cacheVars, history>>

\* workers.Wait, then the slots are read in order.
Assemble ==
  /\ ~done
  /\ \A w \in Workers : pc[w] = "exit"
  /\ done' = TRUE
  /\ UNCHANGED <<ctxDone, plan, workVars, cacheVars, history>>

Worker(w) ==
  \/ Claim(w) \/ Check(w) \/ Panics(w) \/ Lookup(w)
  \/ Publish(w) \/ Wait(w) \/ WaitCancelled(w)

Next ==
  \/ CancelContext
  \/ \E w \in Workers : Worker(w) \/ ResolverReturns(w)
  \/ Assemble

Spec == Init /\ [][Next]_vars

\* Workers go on; whether a resolver returns is its own affair.
FairSpec == Spec /\ WF_vars(Assemble) /\ \A w \in Workers : WF_vars(Worker(w))

-----------------------------------------------------------------------------
(* Properties                                                              *)

Working(w) == pc[w] \notin {"claim", "exit"}

\* A slot is written once, by one worker: no field is resolved twice, and none
\* after the response has been assembled (query_concurrency.go:42-43).
SlotsOnce ==
  [][\A f \in Fields : results[f] # "none" => results'[f] = results[f]]_vars

\* The response is assembled from slots that are all filled, and nobody is at
\* work on one any more.
Joined ==
  done => /\ \A f \in Fields : results[f] # "none"
          /\ \A w \in Workers : ~Working(w)

\* A resolver whose result can be remembered is called once, however many fields
\* want it at the same time and however often; and all who use the entry get what
\* that call returned, never an entry that has not been filled in, which they read
\* without the mutex (query_concurrency.go:98).
SharedResult ==
  /\ \A k \in Cached : calls[k] <= 1
  /\ \A k \in Keys : seen[k] \subseteq Outcomes /\ Cardinality(seen[k]) <= 1

\* Cancellation stops the query at the next resolver: a worker begins one more
\* at the most, the one it had looked at the context for.
OneLateCall == \A w \in Workers : late[w] <= 1

\* If resolvers return, the query ends: workers wait for one another's entries,
\* in any order of keys, but never while they hold one back
\* (query_concurrency.go:98).
QueryEnds == (\A w \in Workers : WF_vars(ResolverReturns(w))) => <>done

\* A worker that waits for another's resolver leaves when the request is
\* cancelled, even if that resolver never returns.
WaitersLeave ==
  \A w \in Workers : (pc[w] = "wait" /\ ctxDone) ~> (pc[w] # "wait")

\* A claimed field is in the hands of one worker, or finished.
Claims ==
  /\ \A w \in Workers : Working(w) =>
       /\ field[w] \in Fields /\ field[w] < next
       /\ results[field[w]] = "none"
       /\ step[w] \in DOMAIN plan[field[w]]
  /\ \A v, w \in Workers : Working(v) /\ Working(w) /\ field[v] = field[w] => v = w
  /\ \A f \in Fields : f >= next => results[f] = "none"
  /\ \A f \in Fields : results[f] = "none" =>
       f >= next \/ \E w \in Workers : Working(w) /\ field[w] = f
  /\ \A w \in Workers : pc[w] = "exit" => next > NumFields
  /\ done => \A w \in Workers : pc[w] = "exit"

\* An entry that is not ready is in the hands of the one that made it.
Owns(w, k) == pc[w] \in {"resolver", "publish"} /\ Key(w) = k

EntryOK(k) ==
  /\ entry[k] = "absent" => calls[k] = 0
  /\ ready[k] => entry[k] \in Outcomes
  /\ seen[k] # {} => ready[k]
  /\ seen[k] \subseteq {entry[k]}

HolderOK(w) ==
  /\ \A k \in Cached : Owns(w, k) => ~ready[k] /\ entry[k] # "absent"
  /\ pc[w] = "publish" => Key(w) \in Cached /\ entry[Key(w)] \in Outcomes
  /\ pc[w] = "wait" => Key(w) \in Cached /\ entry[Key(w)] # "absent"

Entries ==
  /\ \A k \in Cached : EntryOK(k)
  /\ \A k \in Keys \ Cached : seen[k] = {}
  /\ \A w \in Workers : HolderOK(w)
  /\ \A v, w \in Workers : \A k \in Cached : Owns(v, k) /\ Owns(w, k) => v = w

CalledOnce == \A k \in Cached : calls[k] <= 1

\* An entry that is not ready has not been left behind.
Owned ==
  \A k \in Cached : entry[k] # "absent" /\ ~ready[k] => \E w \in Workers : Owns(w, k)

LateSoFar == \A w \in Workers : late[w] > 0 => ctxDone /\ pc[w] # "lookup"

\* Who waits for an entry waits for a worker that is in a resolver or about to close
\* the channel, never for one that waits itself: no circle of workers, in whatever
\* order their fields ask for the same keys.
WaitsForWork ==
  \A w \in Workers : pc[w] = "wait" /\ ~ready[Key(w)] =>
    \E v \in Workers \ {w} : Owns(v, Key(w))

\* The inductive invariant.
IInv == TypeOK /\ Claims /\ Entries /\ CalledOnce /\ Owned /\ LateSoFar /\ OneLateCall

=============================================================================
