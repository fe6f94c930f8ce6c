------------------------------ MODULE Execution ------------------------------
(***************************************************************************)
(* The executor's data pipeline: src/exec/directives.go, executor.go,      *)
(* field_resolution.go, query_concurrency.go, loader_execution.go and the  *)
(* collecting half of incremental.go.                                      *)
(*                                                                         *)
(* What resolvers return is a world, a record over field ids               *)
(* (<<object, field>>): nil, fail (an error, a panic, a refusal of a hook  *)
(* or of the authorizer), bad (a leaf that does not serialise), hole (a    *)
(* list whose second item is nil), loaders (answered by a loader), the     *)
(* concrete type of each abstract one ("?" when it does not resolve), and  *)
(* dispatch (whether loaders can be dispatched).  A leaf carries its field *)
(* and the arguments its resolver received.                                *)
(*                                                                         *)
(* cx is what a request carries: frags, world, collect (incremental: the   *)
(* collector is there), batch (the executor has loaders), gather (root     *)
(* fields all run although one has nulled the root) and prepared (what     *)
(* prepareBatch resolved).                                                 *)
(*                                                                         *)
(* A result has a value, the set of the paths of its errors, and the work  *)
(* it left to the collector, in order.  An order of errors or of response  *)
(* keys is not modelled, and cancellation only between steps.              *)
(***************************************************************************)
EXTENDS InputCoercion, TLC

Nil       == [v |-> "nil"]          \* what a resolver returns
Null      == [d |-> "null"]         \* what a response has
Obj(f)    == [d |-> "obj", obj |-> f]
List(s)   == [d |-> "list", list |-> s]
Leaf(x)   == [d |-> "leaf", leaf |-> x]

Result(value, errs, work) == [value |-> value, errs |-> errs, work |-> work]
NullAt(path)   == Result(Null, {path}, <<>>)
NoPath         == <<"?">>           \* an error that has no path
Index(k)       == <<"0", "1", "2", "3">>[k]

-----------------------------------------------------------------------------
(* directives.go: which fields a selection set asks of an object *)

\* boolArg: the reference must carry a value, and a Boolean.
Condition(d) == IF "if" \in DOMAIN d.args THEN DirectiveValue(d.args["if"]) ELSE NullValue
Conditions(dirs) == SelectSeq(dirs, LAMBDA d : d.name \in {"skip", "include"})
BadCondition(dirs) ==
    \E k \in DOMAIN Conditions(dirs) : Condition(Conditions(dirs)[k]).v # "bool"
LeftOut(dirs) ==
    \E k \in DOMAIN Conditions(dirs) :
       LET d == Conditions(dirs)[k] IN Condition(d).bool = (d.name = "skip")

\* appendMergedSelection: selections of one key share the first one's field.
AppendMerged(values, next) ==
    IF \E k \in DOMAIN values : values[k].key = next.key
    THEN [k \in DOMAIN values |->
            IF values[k].key = next.key THEN [values[k] EXCEPT !.sels = @ \o next.sels]
            ELSE values[k]]
    ELSE Append(values, next)

NoFields == [fields |-> <<>>, defers |-> <<>>, bad |-> FALSE]

RECURSIVE Flatten(_, _, _), AppendAllMerged(_, _)
AppendAllMerged(base, values) ==
    IF values = <<>> THEN base
    ELSE AppendAllMerged(AppendMerged(base, Head(values)), Tail(values))

\* flattenSelections.  A plan cached by selection_plan.go is one of its results.
Flatten(cx, object, sels) ==
    LET join(acc, inner) == [fields |-> AppendAllMerged(acc.fields, inner.fields),
                             defers |-> acc.defers \o inner.defers,
                             bad    |-> acc.bad \/ inner.bad]
        open(acc, s, on, children) ==
            IF on # "" /\ ~MatchesTypeCondition(object, on) THEN acc
            ELSE IF cx.collect /\ Active(s.dirs, "defer")
            THEN [acc EXCEPT !.defers = Append(@, [label |-> DirectiveLabel(s.dirs, "defer"),
                                                   sels  |-> children])]
            ELSE join(acc, Flatten(cx, object, children))
        step(acc, s) ==
            CASE BadCondition(s.dirs) -> [acc EXCEPT !.bad = TRUE]
              [] ~BadCondition(s.dirs) /\ LeftOut(s.dirs) -> acc
              [] OTHER ->
                   CASE s.kind = "field"  -> [acc EXCEPT !.fields = AppendMerged(@, s)]
                     [] s.kind = "inline" -> open(acc, s, s.on, s.sels)
                     [] s.kind = "spread" /\ s.name \notin DOMAIN cx.frags ->
                          [acc EXCEPT !.bad = TRUE]
                     [] s.kind = "spread" /\ s.name \in DOMAIN cx.frags ->
                          open(acc, s, cx.frags[s.name].on, cx.frags[s.name].sels)
        upTo[k \in 0 .. Len(sels)] == IF k = 0 THEN NoFields ELSE step(upTo[k - 1], sels[k])
    IN  upTo[Len(sels)]

-----------------------------------------------------------------------------
(* field_resolution.go: what a resolver returns *)

RECURSIVE RawValue(_, _, _, _)
RawValue(cx, id, args, type) ==
    LET item == RawValue(cx, id, args, type.of) IN
    CASE IsNonNull(type) -> RawValue(cx, id, args, type.of)
      [] IsList(type)    -> [v |-> "list", items |-> <<item, IF id \in cx.world.hole THEN Nil ELSE item>>]
      [] type.ref = "named" /\ IsLeafType(type.name) ->
           [v |-> "leaf", id |-> id, args |-> args, bad |-> id \in cx.world.bad]
      [] OTHER           -> [v |-> "object"]

Failed(wire) == [st |-> "failed", wire |-> wire]

\* The resolver's answer; a loader's is read after the next dispatch.
Answer(cx, id, type, args) ==
    IF ~args.ok \/ (id \in cx.world.fail /\ id \notin cx.world.loaders) THEN Failed(TRUE)
    ELSE [st |-> IF cx.batch /\ id \in cx.world.loaders THEN "pending" ELSE "value",
          value |-> IF id \in cx.world.nil THEN Nil ELSE RawValue(cx, id, args.value, type),
          lost  |-> id \in cx.world.fail,
          type  |-> type, typename |-> FALSE]

\* prepareSelectedField: hooks, arguments, resolver.
ResolveField(cx, object, sel) ==
    IF sel.name = "__typename"
    THEN [st |-> "value", type |-> NonNull(Named("String")), typename |-> TRUE,
          value |-> [v |-> "leaf", id |-> <<object, sel.name>>, args |-> NoArguments, bad |-> FALSE]]
    ELSE IF ~HasField(object, sel.name) THEN Failed(FALSE)
    ELSE Answer(cx, <<object, sel.name>>, FieldOf(object, sel.name).type,
                CoerceArguments(FieldOf(object, sel.name).args, sel.args))

\* loader.Read after the dispatch: the value, or its error.
ReadLoaded(r) ==
    IF r.st = "failed" \/ r.typename THEN r
    ELSE IF r.lost THEN Failed(TRUE) ELSE [r EXCEPT !.st = "value"]

\* Without a batch a loader's field is an ordinary one.
Resolved(cx, object, sel) == ReadLoaded(ResolveField(cx, object, sel))

ConcreteType(cx, abstract) ==
    LET name == cx.world.concrete[abstract]
    IN  IF name \in PossibleObjects(abstract) THEN name ELSE "?"

\* The item type when the collector is there and the field is streamed.
ListItemType(type) == Nullable(type).of
Streamed(cx, sel, type) ==
    cx.collect /\ Active(sel.dirs, "stream") /\ IsList(Nullable(type))
Smaller(a, b) == IF a <= b THEN a ELSE b
InitialCount(dirs) ==
    LET counts == SelectSeq(Named1(dirs, "stream"), LAMBDA d :
                    /\ "initialCount" \in DOMAIN d.args
                    /\ DirectiveValue(d.args["initialCount"]).v = "int")
        last   == DirectiveValue(counts[Len(counts)].args["initialCount"]).int
    IN  IF counts = <<>> \/ last < 0 THEN 0 ELSE last

-----------------------------------------------------------------------------
(* loader_execution.go: the values a batch resolves before it completes any *)

NothingPrepared == [ok |-> TRUE, fields |-> <<>>, abstract |-> <<>>]
NothingFound    == [objects |-> {}, abstract |-> <<>>]
Both(a, b)      == [objects |-> a.objects \cup b.objects, abstract |-> a.abstract @@ b.abstract]

RECURSIVE FoldFound(_, _)
FoldFound(founds, k) ==
    IF k = 0 THEN NothingFound ELSE Both(founds[k], FoldFound(founds, k - 1))

\* collectBatchValue and collectBatchAbstract: the objects below a value.
RECURSIVE CollectValue(_, _, _, _, _)
CollectValue(cx, type, val, sels, path) ==
    LET found(object) == {[object |-> object, sels |-> sels, path |-> path]} IN
    CASE val = Nil -> NothingFound
      [] val # Nil /\ IsNonNull(type) -> CollectValue(cx, type.of, val, sels, path)
      [] val # Nil /\ IsList(type) ->
           FoldFound([k \in DOMAIN val.items |->
                        CollectValue(cx, type.of, val.items[k], sels, Append(path, Index(k)))],
                     Len(val.items))
      [] OTHER ->
           CASE Kind(type.name) = "OBJECT" -> [NothingFound EXCEPT !.objects = found(type.name)]
             [] IsLeafType(type.name)      -> NothingFound
             [] OTHER ->
                  LET object == ConcreteType(cx, type.name)
                  IN  [objects  |-> IF object = "?" THEN {} ELSE found(object),
                       abstract |-> path :> object]

\* collectBatchField: of a streamed list only the items of the first payload.
CollectField(cx, sel, r, path) ==
    IF r.value # Nil /\ Streamed(cx, sel, r.type)
    THEN LET n == Smaller(InitialCount(sel.dirs), Len(r.value.items))
         IN  FoldFound([k \in 1 .. n |->
                          CollectValue(cx, ListItemType(r.type), r.value.items[k], sel.sels,
                                       Append(path, Index(k)))], n)
    ELSE CollectValue(cx, r.type, r.value, sel.sels, path)

\* A field of an object, known by its path.
FieldsOf(cx, o, fields) ==
    {[path |-> Append(o.path, fields[k].key), sel |-> fields[k],
      r |-> ResolveField(cx, o.object, fields[k])] : k \in DOMAIN fields}

RECURSIVE PrepareBatch(_, _, _, _)

\* What is known of the fresh fields is kept, and what they lead to is next.
PrepareBelow(cx, fresh, below, pending, prepared) ==
    PrepareBatch(cx, UNION {a.objects : a \in below}, pending \cup {f \in fresh : f.r.st = "pending"},
      [prepared EXCEPT
         !.fields   = [p \in {f.path : f \in fresh} |-> (CHOOSE f \in fresh : f.path = p).r] @@ @,
         !.abstract = [p \in UNION {DOMAIN a.abstract : a \in below} |->
                         (CHOOSE a \in below : p \in DOMAIN a.abstract).abstract[p]] @@ @])
PrepareFields(cx, fresh, pending, prepared) ==
    PrepareBelow(cx, fresh, {CollectField(cx, f.sel, f.r, f.path) :
                               f \in {f \in fresh : f.r.st = "value" /\ ~f.r.typename}},
                 pending, prepared)

\* prepareBatch: the fields of every object there is, then one dispatch for
\* what waits for a loader, until nothing is left.
PrepareBatch(cx, objects, pending, prepared) ==
    IF objects = {} /\ pending = {} THEN prepared
    ELSE IF objects = {} /\ ~cx.world.dispatch THEN [prepared EXCEPT !.ok = FALSE]
    ELSE PrepareFields(cx,
           IF objects = {} THEN {[f EXCEPT !.r = ReadLoaded(@)] : f \in pending}
           ELSE UNION {FieldsOf(cx, o, Flatten(cx, o.object, o.sels).fields) : o \in objects},
           IF objects = {} THEN {} ELSE pending, prepared)

-----------------------------------------------------------------------------
(* executor.go: completion *)

RECURSIVE Complete(_, _, _, _, _), SelectionSetResult(_, _, _, _),
          CompleteFirst(_, _, _, _, _, _), ExecuteFirst(_, _, _, _, _)

StreamWork(itemType, item, sel, path) ==
    [kind |-> "stream", type |-> itemType, item |-> item, sels |-> sel.sels, path |-> path,
     label |-> DirectiveLabel(sel.dirs, "stream")]
DeferWork(object, d, path) ==
    [kind |-> "defer", object |-> object, sels |-> d.sels, path |-> path, label |-> d.label]

\* Mutant: an item that failed is null in its list, whatever the type of the items.
AddItemKept(acc, r, nulls) ==
    IF acc.dead THEN acc
    ELSE [list |-> Append(acc.list, r.value), errs |-> acc.errs \cup r.errs,
          work |-> acc.work \o r.work, dead |-> FALSE]

\* What the items so far come to; nulls: an item that came to null ends the list.
AddItem(acc, r, nulls) ==
    IF acc.dead THEN acc
    ELSE [list |-> Append(acc.list, r.value), errs |-> acc.errs \cup r.errs,
          work |-> acc.work \o r.work, dead |-> nulls /\ r.errs # {} /\ r.value = Null]
ListResult(all) == Result(IF all.dead THEN Null ELSE List(all.list), all.errs, all.work)

\* The first k items of a list in order.
CompleteFirst(k, cx, itemType, items, sels, path) ==
    IF k = 0 THEN [list |-> <<>>, errs |-> {}, work |-> <<>>, dead |-> FALSE]
    ELSE AddItem(CompleteFirst(k - 1, cx, itemType, items, sels, path),
                 Complete(cx, itemType, items[k], sels, Append(path, Index(k))),
                 IsNonNull(itemType))
CompleteItems(cx, itemType, items, sels, path) ==
    ListResult(CompleteFirst(Len(items), cx, itemType, items, sels, path))

\* completeListStreamed: the first n items inline, the others left as work.
WithRest(head, rest) == IF head.value = Null THEN head ELSE [head EXCEPT !.work = @ \o rest]
CompleteListStreamed(cx, type, items, sel, path, n) ==
    WithRest(CompleteItems(cx, ListItemType(type), SubSeq(items, 1, n), sel.sels, path),
             [k \in 1 .. Len(items) - n |->
                StreamWork(ListItemType(type), items[n + k], sel, Append(path, Index(n + k)))])

\* A null that no error explains gets one where the type is not nullable.
NotNull(r, path) == IF r.value = Null /\ r.errs = {} THEN [r EXCEPT !.errs = {path}] ELSE r

CompleteObject(cx, object, sels, path) ==
    IF object = "?" THEN NullAt(path) ELSE SelectionSetResult(cx, object, sels, path)

\* completeValue.  The type of an abstract value was found when it was prepared.
Complete(cx, type, val, sels, path) ==
    CASE val = Nil -> IF IsNonNull(type) THEN NullAt(path) ELSE Result(Null, {}, <<>>)
      [] val # Nil /\ IsNonNull(type) -> NotNull(Complete(cx, type.of, val, sels, path), path)
      [] val # Nil /\ IsList(type) -> CompleteItems(cx, type.of, val.items, sels, path)
      [] OTHER ->
           IF IsLeafType(type.name)
           THEN IF val.bad THEN NullAt(path)
                ELSE Result(Leaf([id |-> val.id, args |-> val.args]), {}, <<>>)
           ELSE CompleteObject(cx,
                  CASE Kind(type.name) = "OBJECT" -> type.name
                    [] Kind(type.name) # "OBJECT" /\ ~cx.batch -> ConcreteType(cx, type.name)
                    [] OTHER -> IF path \in DOMAIN cx.prepared.abstract
                                THEN cx.prepared.abstract[path] ELSE "?",
                  sels, path)

\* completeResolvedField.  wire: the key is written.
CompleteResolved(cx, r, sel, path) ==
    IF r.st = "failed" THEN [result |-> NullAt(path), wire |-> r.wire]
    ELSE [wire |-> TRUE,
          result |-> IF r.value # Nil /\ Streamed(cx, sel, r.type)
                     THEN CompleteListStreamed(cx, r.type, r.value.items, sel, path,
                                               Smaller(InitialCount(sel.dirs), Len(r.value.items)))
                     ELSE Complete(cx, r.type, r.value, sel.sels, path)]

\* resolveSelectedField, or what the batch prepared in its place.
CompleteField(cx, object, sel, path) ==
    CompleteResolved(cx, IF ~cx.batch THEN Resolved(cx, object, sel)
                         ELSE IF path \in DOMAIN cx.prepared.fields THEN cx.prepared.fields[path]
                         ELSE Failed(TRUE), sel, path)

\* What the fields so far come to.  onward: a dead object's fields still run.
NoKeys(bad, work) == [data |-> <<>>, errs |-> IF bad THEN {NoPath} ELSE {}, work |-> work, dead |-> FALSE]
AddField(acc, key, f, nonNull, onward) ==
    IF acc.dead /\ ~onward THEN acc
    ELSE [data |-> IF f.wire THEN acc.data @@ (key :> f.result.value) ELSE acc.data,
          errs |-> acc.errs \cup f.result.errs,
          work |-> acc.work \o f.result.work,
          dead |-> acc.dead \/ (f.result.errs # {} /\ f.result.value = Null /\ nonNull)]

\* finalizeSelectionObject.
ObjectResult(all) ==
    Result(IF all.dead \/ (all.errs # {} /\ DOMAIN all.data = {}) THEN Null ELSE Obj(all.data),
           all.errs, all.work)

\* The first k fields of a flattened selection set, in order.  The work a field
\* leaves stays when a later field nulls the object.
ExecuteFirst(k, cx, object, flat, path) ==
    IF k = 0
    THEN NoKeys(flat.bad, [d \in DOMAIN flat.defers |-> DeferWork(object, flat.defers[d], path)])
    ELSE AddField(ExecuteFirst(k - 1, cx, object, flat, path), flat.fields[k].key,
           CompleteField(cx, object, flat.fields[k], Append(path, flat.fields[k].key)),
           /\ HasField(object, flat.fields[k].name)
           /\ IsNonNull(FieldOf(object, flat.fields[k].name).type),
           cx.gather /\ path = <<>>)
ExecuteFields(cx, object, flat, path) ==
    ObjectResult(ExecuteFirst(Len(flat.fields), cx, object, flat, path))

\* executeSelectionSet.
SelectionSetResult(cx, object, sels, path) == ExecuteFields(cx, object, Flatten(cx, object, sels), path)

-----------------------------------------------------------------------------
(* Batches, the root, and work left for later *)

\* prepareBatch for what was found; without loaders there is nothing to prepare.
Prepared(cx, found) ==
    IF ~cx.batch THEN cx
    ELSE [cx EXCEPT !.prepared = PrepareBatch(cx, found.objects, {},
                                   [NothingPrepared EXCEPT !.abstract = found.abstract])]

\* Completion of what was prepared, when its dispatch succeeded.
FinishSelections(cx, object, sels, path) ==
    IF cx.prepared.ok THEN SelectionSetResult(cx, object, sels, path) ELSE NullAt(path)
FinishValue(cx, type, val, sels, path) ==
    IF cx.prepared.ok THEN Complete(cx, type, val, sels, path) ELSE NullAt(path)

\* executeBatchSelection, or executeSelectionSet without loaders.
ExecuteSelections(cx, object, sels, path) ==
    FinishSelections(Prepared(cx, [NothingFound EXCEPT !.objects =
                                     {[object |-> object, sels |-> sels, path |-> path]}]),
                     object, sels, path)

\* One value with what is below it: completeBatchValue, or completeValue.
ExecuteValue(cx, type, val, sels, path) ==
    FinishValue(Prepared(cx, CollectValue(cx, type, val, sels, path)), type, val, sels, path)

\* Mutant: a root field that came to null does not end the mutation.
AddRootFieldOn(acc, r) ==
    IF acc.dead THEN acc
    ELSE [data |-> IF r.value = Null THEN acc.data ELSE acc.data @@ r.value.obj,
          errs |-> acc.errs \cup r.errs, work |-> acc.work \o r.work, dead |-> FALSE]

AddRootField(acc, r) ==
    IF acc.dead THEN acc
    ELSE [data |-> IF r.value = Null THEN acc.data ELSE acc.data @@ r.value.obj,
          errs |-> acc.errs \cup r.errs, work |-> acc.work \o r.work, dead |-> r.value = Null]

\* The first k root fields, each alone and in order.
RECURSIVE ExecuteFirstRoots(_, _, _, _)
ExecuteFirstRoots(k, cx, root, flat) ==
    IF k = 0 THEN NoKeys(flat.bad, <<>>)
    ELSE AddRootField(ExecuteFirstRoots(k - 1, cx, root, flat),
                      ExecuteSelections(cx, root, <<flat.fields[k]>>, <<>>))
ExecuteRootFields(cx, root, flat) == ObjectResult(ExecuteFirstRoots(Len(flat.fields), cx, root, flat))

\* executeBatchedMutation.  What is deferred at the root is not run.
ExecuteBatchedMutation(cx, root, sels) == ExecuteRootFields(cx, root, Flatten(cx, root, sels))

\* Execute and the first half of ExecuteIncrementalStream.
ExecuteOperation(cx, kind, root, sels) ==
    IF cx.batch /\ kind = "mutation" THEN ExecuteBatchedMutation(cx, root, sels)
    ELSE ExecuteSelections(cx, root, sels, <<>>)

\* runIncrementalWork: what one piece of pending work comes to.
ExecuteWork(cx, item) ==
    IF item.kind = "defer" THEN ExecuteSelections(cx, item.object, item.sels, item.path)
    ELSE ExecuteValue(cx, item.type, item.item, item.sels, item.path)
=============================================================================
