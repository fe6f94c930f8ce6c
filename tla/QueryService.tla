---------------------------- MODULE QueryService ----------------------------
(***************************************************************************)
(* One request on its way through the transport and the executor:          *)
(* src/http/http_transport.go (Serve, writeIncremental), src/exec/         *)
(* executor.go (prepareExecution, Execute, Subscribe and the goroutine it  *)
(* starts) and src/exec/incremental.go (ExecuteIncrementalStream).         *)
(*                                                                         *)
(* The stages are the control points between which somebody else acts: a   *)
(* plugin, the limiter or the authorizer that refuses the request (only    *)
(* when the configuration has one: guarded), the client that goes away,    *)
(* the source of a subscription.  What a stage computes is in QueryParser, *)
(* QueryValidation, InputCoercion and Execution.                           *)
(*                                                                         *)
(* A request has doc (tokens), name (operationName), vars, via ("GET",     *)
(* "POST", or "STREAM" for a Subscribe from WebSocket or SSE), accept      *)
(* (which of "json" and "multipart" the client takes), world, and config:  *)
(* batch (the executor has loaders), wide (WithQueryConcurrency above 1),  *)
(* guarded, introspection, strict (WithRejectUnknownVariables), maxRoots,  *)
(* maxSelections and maxAliases, 0 for no limit.                           *)
(***************************************************************************)
EXTENDS Execution

CONSTANTS Arrivals,     \* the requests that may arrive, as records of sets: one of
                        \* each of docs, names, vars, vias, accepts, worlds, configs
          MaxEvents     \* bound: events a subscription's source sends

VARIABLES request,
          stage,        \* where the request is
          entry,        \* "execute", "incremental" or "subscribe", once routed
          bundle,       \* the parsed document, or None
          op,           \* the selected operation, bound once it is coerced
          work,         \* incrementalCollector.work
          sent,         \* what has been written to the client, in order
          cancelled     \* the request's context is done

vars == <<request, stage, entry, bundle, op, work, sent, cancelled>>

None == "none"

Init ==
    /\ \E a \in Arrivals : \E doc \in a.docs, name \in a.names, given \in a.vars, via \in a.vias,
                              accept \in a.accepts, world \in a.worlds, config \in a.configs :
         request = [doc |-> doc, name |-> name, vars |-> given, via |-> via, accept |-> accept,
                    world |-> world, config |-> config]
    /\ stage = "arrived" /\ entry = None /\ bundle = None /\ op = None
    /\ work = <<>> /\ sent = <<>> /\ cancelled = FALSE

Failure(why) == [type |-> "failure", why |-> why]

\* An early return: the one answer is an error.
Refuse(why) ==
    /\ sent' = Append(sent, Failure(why))
    /\ stage' = "done"
    /\ UNCHANGED <<request, entry, bundle, op, work, cancelled>>

\* A hook, the rate limiter or the authorizer may refuse where there is one.
Guard == IF request.config.guarded THEN BOOLEAN ELSE {FALSE}

-----------------------------------------------------------------------------
(* The HTTP transport *)

\* Raw values, not yet coerced, as HasIncrementalDirectives binds them.
RawValues(selected) ==
    LET scope == VarScope(selected)
        names == DOMAIN request.vars \cup {n \in DOMAIN scope : scope[n].default # NoDefault}
    IN  [n \in names |-> [v |-> "bound", value |->
           IF n \in DOMAIN request.vars THEN request.vars[n] ELSE scope[n].default]]

\* Every selection of an operation and of the fragments it reaches.
Selected(sels, frags) ==
    AllSelections(sels) \cup UNION {AllSelections(frags[n].sels) : n \in Reachable(sels, frags)}

Delays(sels, frags) ==
    \E s \in Selected(sels, frags) : Active(s.dirs, "defer") \/ Active(s.dirs, "stream")

HasIncrementalDirectives ==
    \E parsed \in {Bundle(request.doc)} :
       /\ parsed.ok
       /\ \E selected \in {SelectOperation(parsed, request.name)} :
            /\ selected.ok
            /\ Delays(BindSelections(selected.node.sels, RawValues(selected.node)),
                      BindFragments(parsed.frags, RawValues(selected.node)))

NotAllowed == {<<"GET", "mutation">>, <<"GET", "subscription">>, <<"POST", "subscription">>}

\* Serve, for one operation.  The kind is asked of the tokens alone; when they
\* do not tell, the request goes on to the executor.
Route ==
    /\ stage = "arrived" /\ entry = None
    /\ \E kind \in {ParseOperationKind(request.doc, request.name)},
          multipart \in {"multipart" \in request.accept /\ HasIncrementalDirectives} :
         IF request.via = "STREAM"
         THEN entry' = "subscribe" /\ UNCHANGED <<request, stage, bundle, op, work, sent, cancelled>>
         ELSE IF request.accept = {} THEN Refuse("406")
         ELSE IF kind.ok /\ <<request.via, kind.node>> \in NotAllowed
         THEN Refuse("405")
         ELSE IF ~multipart /\ "json" \notin request.accept THEN Refuse("406")
         ELSE /\ entry' = IF multipart THEN "incremental" ELSE "execute"
              /\ UNCHANGED <<request, stage, bundle, op, work, sent, cancelled>>

-----------------------------------------------------------------------------
(* prepareExecution, and the same steps at the head of Subscribe *)

Goto(next) == stage' = next /\ UNCHANGED <<request, entry, work, sent, cancelled>>

\* startRequest and notifyParsing.  Only the incremental entry looks at the context.
Start ==
    /\ stage = "arrived" /\ entry # None
    /\ \E refused \in Guard :
         IF entry = "incremental" /\ cancelled
         THEN /\ stage' = "done"
              /\ UNCHANGED <<request, entry, bundle, op, work, sent, cancelled>>
         ELSE IF refused THEN Refuse("hook")
         ELSE Goto("started") /\ UNCHANGED <<bundle, op>>

Parse ==
    /\ stage = "started"
    /\ \E parsed \in {Bundle(request.doc)} :
         IF ~parsed.ok THEN Refuse("syntax")
         ELSE \E selected \in {SelectOperation(parsed, request.name)} :
                IF ~selected.ok THEN Refuse("operation")
                ELSE Goto("parsed") /\ bundle' = parsed /\ op' = selected.node

\* selectionsIntrospect.
Introspects ==
    \E s \in Selected(op.sels, bundle.frags) : s.kind = "field" /\ s.name \in {"__schema", "__type"}

Validate ==
    /\ stage = "parsed"
    /\ IF ValidationErrors(bundle) # {} THEN Refuse("invalid")
       ELSE IF entry # "subscribe" /\ ~request.config.introspection /\ Introspects
       THEN Refuse("introspection")
       ELSE Goto("valid") /\ UNCHANGED <<bundle, op>>

\* coerceOperationVariables.  An operation that declares none is left as it is.
Coerce ==
    /\ stage = "valid"
    /\ \E values \in {CoerceVariables(op, request.vars)} :
         IF op.vars = <<>> THEN Goto("coerced") /\ UNCHANGED <<bundle, op>>
         ELSE IF ~values.ok THEN Refuse("variables")
         ELSE /\ Goto("coerced")
              /\ op' = [op EXCEPT !.sels = BindSelections(@, values.value)]
              /\ bundle' = [bundle EXCEPT !.frags = BindFragments(@, values.value)]

\* collectLimitStats: selections and aliases at any depth, spreads not opened;
\* root fields only where they stand in the operation itself.
Aliases       == {s \in AllSelections(op.sels) : s.kind = "field" /\ s.key # s.name}
RootFields    == SelectSeq(op.sels, LAMBDA s : s.kind = "field")
Above(n, max) == max > 0 /\ n > max

WithinLimits ==
    /\ ~Above(Len(RootFields), request.config.maxRoots)
    /\ ~Above(Cardinality(AllSelections(op.sels)), request.config.maxSelections)
    /\ ~Above(Cardinality(Aliases), request.config.maxAliases)

\* validateDocumentSecurity, then the kind of operation the entry serves.  The
\* trusted documents, the limiter and the authorizer are the guard.
Secure ==
    /\ stage = "coerced"
    /\ \E refused \in Guard :
         IF ~WithinLimits THEN Refuse("limits")
         ELSE IF request.config.strict /\ ~(DOMAIN request.vars \subseteq DOMAIN VarScope(op))
         THEN Refuse("unknown variable")
         ELSE IF refused THEN Refuse("denied")
         ELSE IF (entry = "subscribe") # (op.kind = "subscription") THEN Refuse("wrong kind")
         ELSE Goto("allowed") /\ UNCHANGED <<bundle, op>>

-----------------------------------------------------------------------------
(* Execution *)

\* What the executor of this request carries into execution.
Context(collect) ==
    LET c == request.config
    IN  [frags |-> bundle.frags, world |-> request.world, collect |-> collect, batch |-> c.batch,
         gather |-> c.wide /\ (c.batch \/ (op.kind = "query" /\ ~collect)),
         prepared |-> NothingPrepared]

Response(r, next) == [type |-> "response", value |-> r.value, errs |-> r.errs, hasNext |-> next]

\* ValidationStart and ExecutionStart, the selections, then ResponseSend, which
\* may put an error in the place of the response.
Execute ==
    /\ stage = "allowed" /\ entry = "execute"
    /\ \/ \E refused \in Guard : refused /\ Refuse("hook")
       \/ /\ sent' = Append(sent, Response(ExecuteOperation(Context(FALSE), op.kind,
                                                            RootObject(op.kind), op.sels), FALSE))
          /\ stage' = "done"
          /\ UNCHANGED <<request, entry, bundle, op, work, cancelled>>

\* The first payload of ExecuteIncrementalStream.
EmitInitial ==
    /\ stage = "allowed" /\ entry = "incremental"
    /\ \/ \E refused \in Guard : refused /\ Refuse("hook")
       \/ \E r \in {ExecuteOperation(Context(TRUE), op.kind, RootObject(op.kind), op.sels)} :
            /\ work' = r.work
            /\ sent' = IF cancelled THEN sent ELSE Append(sent, Response(r, r.work # <<>>))
            /\ stage' = IF cancelled \/ r.work = <<>> THEN "done" ELSE "patching"
            /\ UNCHANGED <<request, entry, bundle, op, cancelled>>

\* incrementalWorkOutsidePath.
WorkOutside(pending, path) ==
    SelectSeq(pending, LAMBDA w : ~(Len(path) <= Len(w.path) /\ SubSeq(w.path, 1, Len(path)) = path))

\* Where a payload that came to null leaves nothing to deliver: its own path,
\* and for a list of non-null items the list.
NullPath(item) ==
    IF item.kind = "stream" /\ IsNonNull(item.type)
    THEN SubSeq(item.path, 1, Len(item.path) - 1) ELSE item.path

\* Mutant: nothing is pruned.
RemainingAll(pending, item, r) == pending \o r.work

\* What is left to deliver once `item` came to r.
Remaining(pending, item, r) ==
    IF r.value = Null THEN WorkOutside(pending \o r.work, NullPath(item)) ELSE pending \o r.work

\* One turn of the loop: take, run, prune, emit.
EmitPatch ==
    /\ stage = "patching"
    /\ IF cancelled THEN stage' = "done" /\ UNCHANGED <<work, sent>>
       ELSE \E r \in {ExecuteWork(Context(TRUE), Head(work))} :
              \E rest \in {Remaining(Tail(work), Head(work), r)} :
                /\ work' = rest
                /\ sent' = Append(sent, [type |-> "patch", item |-> Head(work), value |-> r.value,
                                         errs |-> r.errs, hasNext |-> rest # <<>>])
                /\ stage' = IF rest = <<>> THEN "done" ELSE "patching"
    /\ UNCHANGED <<request, entry, bundle, op, cancelled>>

\* The context is read where responses and patches are emitted; a client that
\* leaves during Execute goes unnoticed here.
Cancel ==
    /\ entry \in {"incremental", "subscribe"} /\ stage # "done" /\ ~cancelled
    /\ cancelled' = TRUE
    /\ UNCHANGED <<request, stage, entry, bundle, op, work, sent>>

-----------------------------------------------------------------------------
(* Subscriptions *)

Root == Flatten(Context(FALSE), RootObject(op.kind), op.sels)

\* From notifyValidation to the channel: exactly one field, whose resolver
\* returns the source.
OpenSource ==
    /\ stage = "allowed" /\ entry = "subscribe"
    /\ \E refused \in Guard, object \in {RootObject(op.kind)}, root \in {Root} :
         IF refused THEN Refuse("hook")
         ELSE IF root.bad \/ Len(root.fields) # 1 THEN Refuse("root field")
         ELSE IF \/ ~HasField(object, root.fields[1].name)
                 \/ <<object, root.fields[1].name>> \in request.world.fail
                 \/ ~CoerceArguments(FieldOf(object, root.fields[1].name).args,
                                     root.fields[1].args).ok
         THEN Refuse("source")
         ELSE Goto("subscribed") /\ UNCHANGED <<bundle, op>>

\* One event, completed as the value of the root field.  A null goes to the
\* root field even where its type is not nullable.
DeliverEvent ==
    /\ stage = "subscribed" /\ Len(sent) < MaxEvents
    /\ \E field \in {Root.fields[1]}, cx \in {Context(FALSE)}, object \in {RootObject(op.kind)} :
       \E type \in {FieldOf(object, field.name).type} :
       \E raw \in {RawValue(cx, <<object, field.name>>, NoArguments, type)} :
       \E r \in {ExecuteValue(cx, type, raw, field.sels, <<field.key>>)} :
         sent' = Append(sent, [type |-> "event", value |-> Obj(field.key :> r.value), errs |-> r.errs])
    /\ UNCHANGED <<request, stage, entry, bundle, op, work, cancelled>>

\* The source is closed or the context is done.
EndOfSource ==
    /\ stage = "subscribed"
    /\ Goto("done") /\ UNCHANGED <<bundle, op>>

Finished == stage = "done" /\ UNCHANGED vars

Next ==
    \/ Route \/ Start \/ Parse \/ Validate \/ Coerce \/ Secure
    \/ Execute \/ EmitInitial \/ EmitPatch \/ Cancel
    \/ OpenSource \/ DeliverEvent \/ EndOfSource \/ Finished

Spec == Init /\ [][Next]_vars
=============================================================================
