--------------------------- MODULE QueryProperties ---------------------------
(***************************************************************************)
(* What a request may rely on, whatever its document, its world and the    *)
(* configuration of the executor: properties of QueryService.              *)
(***************************************************************************)
EXTENDS QueryService

LOCAL INSTANCE SequencesExt

Prefix(p, q) == Len(p) <= Len(q) /\ SubSeq(q, 1, Len(p)) = p

-----------------------------------------------------------------------------
(* The parser *)

TokenOf(table, x) == CHOOSE t \in DOMAIN table : table[t] = x

\* The pieces of a sequence of nodes, or of a map, printed one after the other.
PrintAll(seq, P(_)) == FlattenSeq([k \in DOMAIN seq |-> P(seq[k])])
PrintMap(map, P(_)) == PrintAll(SetToSeq(DOMAIN map), LAMBDA n : <<n, ":">> \o P(map[n]))

RECURSIVE PrintValue(_), PrintType(_), PrintSelections(_)
PrintValue(x) ==
    CASE x.v = "str"   -> <<TokenOf(StringOf, x.str)>>
      [] x.v = "int"   -> <<TokenOf(IntOf, x.int)>>
      [] x.v = "float" -> <<x.float>>
      [] x.v = "bool"  -> <<IF x.bool THEN "true" ELSE "false">>
      [] x.v = "null"  -> <<"null">>
      [] x.v = "enum"  -> <<x.enum>>
      [] x.v = "var"   -> <<"$", x.var>>
      [] x.v = "obj"   -> <<"{">> \o PrintMap(x.obj, PrintValue) \o <<"}">>
      [] x.v = "list"  -> <<"[">> \o PrintAll(x.list, PrintValue) \o <<"]">>
PrintType(t) ==
    CASE t.ref = "named"   -> <<t.name>>
      [] t.ref = "list"    -> <<"[">> \o PrintType(t.of) \o <<"]">>
      [] t.ref = "nonnull" -> PrintType(t.of) \o <<"!">>
Parens(inner) == IF inner = <<>> THEN <<>> ELSE <<"(">> \o inner \o <<")">>
PrintDirectives(ds) ==
    PrintAll(ds, LAMBDA d : <<"@", d.name>> \o Parens(PrintMap(d.args, PrintValue)))
PrintSelection(s) ==
    (CASE s.kind = "field"  -> (IF s.key = s.name THEN <<s.name>> ELSE <<s.key, ":", s.name>>)
                               \o Parens(PrintMap(s.args, PrintValue))
       [] s.kind = "spread" -> <<"...", s.name>>
       [] s.kind = "inline" -> IF s.on = "" THEN <<"...">> ELSE <<"...", "on", s.on>>)
    \o PrintDirectives(s.dirs) \o PrintSelections(s.sels)
PrintSelections(ss) == IF ss = <<>> THEN <<>> ELSE <<"{">> \o PrintAll(ss, PrintSelection) \o <<"}">>
PrintVariable(v) ==
    <<"$", v.name, ":">> \o PrintType(v.type)
    \o (IF v.default = NoDefault THEN <<>> ELSE <<"=">> \o PrintValue(v.default))
    \o PrintDirectives(v.dirs)
PrintOperation(o) ==
    <<o.kind>> \o (IF o.name = "" THEN <<>> ELSE <<o.name>>)
    \o Parens(PrintAll(o.vars, PrintVariable)) \o PrintDirectives(o.dirs) \o PrintSelections(o.sels)
PrintFragment(f) ==
    <<"fragment", f.name, "on", f.on>> \o PrintDirectives(f.dirs) \o PrintSelections(f.sels)
PrintBundle(b) ==
    PrintAll(b.ops, PrintOperation)
    \o PrintAll(SetToSeq(DOMAIN b.frags), LAMBDA n : PrintFragment(b.frags[n])) \o <<EOF>>

\* A node without the positions of its tokens.
RECURSIVE Bare(_)
Bare(sels) == [k \in DOMAIN sels |-> [sels[k] EXCEPT !.loc = 0, !.sels = Bare(@)]]
BareDefinition(d) == [d EXCEPT !.loc = 0, !.sels = Bare(@)]
BareBundle(b) == [ops   |-> [k \in DOMAIN b.ops |-> BareDefinition(b.ops[k])],
                  frags |-> [n \in DOMAIN b.frags |-> BareDefinition(b.frags[n])]]

Count(p, t) == Cardinality({k \in DOMAIN p : p[k] = t})
\* `a: a` is an alias that changes nothing, and is not kept.
RedundantAlias(p) == \E k \in 1 .. Len(p) - 2 : p[k + 1] = ":" /\ p[k] = p[k + 2]

\* Nothing of an accepted document is lost, invented or read twice: what was
\* parsed, printed again, has the same tokens (the keyword of an anonymous
\* query aside) and parses to the same document.  src/exec/parser.go.
RoundTrip ==
    stage = "parsed" =>
       LET printed == PrintBundle(bundle)
           again   == Bundle(printed)
       IN  /\ again.ok
           /\ BareBundle(again) = BareBundle(bundle)
           /\ \/ RedundantAlias(request.doc)
              \/ \A t \in (Range(printed) \cup Range(request.doc)) \ {"query"} :
                    Count(printed, t) = Count(request.doc, t)

\* The transport decides from the tokens, the executor from the parse: they see
\* the same kind of operation, so an HTTP GET never runs a mutation and neither
\* GET nor POST starts a subscription.  src/http/http_transport.go:207.
GetNeverMutates ==
    /\ stage = "parsed" =>
         LET kind == ParseOperationKind(request.doc, request.name)
         IN  kind.ok /\ kind.node = op.kind
    /\ (sent # <<>> /\ sent[1].type # "failure") => <<request.via, op.kind>> \notin NotAllowed

-----------------------------------------------------------------------------
(* Valid operations *)

Healthy(w) == /\ w.nil = {} /\ w.fail = {} /\ w.bad = {} /\ w.hole = {} /\ w.dispatch
              /\ \A n \in DOMAIN w.concrete : w.concrete[n] # "?"

\* What validation leaves to the run: a variable that is null, an integer out
\* of range, and `{ name: null }` for a oneOf object.
LeftToRun ==
    \/ \E n \in DOMAIN request.vars : request.vars[n] = NullValue
    \/ \E k \in DOMAIN request.doc :
         request.doc[k] \in DOMAIN IntOf /\ ~InRange(IntOf[request.doc[k]])
    \/ \E k \in 4 .. Len(request.doc) :
         request.doc[k] = "null" /\ request.doc[k - 3] = "{" /\ request.doc[k + 1] = "}"

\* Where no resolver fails, an operation that passed validation and whose
\* variables were accepted has no error at all: every field exists, every
\* argument coerces, every condition is a Boolean, every fragment is there.
\* src/exec/validate.go against src/exec/directives.go and input_coercion.go.
ValidIsSafe ==
    Healthy(request.world) /\ ~LeftToRun =>
       \A k \in DOMAIN sent : sent[k].type # "failure" => sent[k].errs = {}

-----------------------------------------------------------------------------
(* Null and errors *)

RECURSIVE Sound(_, _, _, _, _, _)

\* The keys of an object are those its selections ask for, each sound.
SoundFields(cx, object, data, fields, path, errs) ==
    /\ DOMAIN data.obj = {fields[k].key : k \in DOMAIN fields}
    /\ \A k \in DOMAIN fields :
          IF fields[k].name = "__typename" THEN data.obj[fields[k].key] # Null
          ELSE Sound(cx, <<object, fields[k].name>>, FieldOf(object, fields[k].name).type,
                     fields[k].sels,
                     [data |-> data.obj[fields[k].key], at |-> Append(path, fields[k].key)], errs)
SoundObject(cx, object, data, sels, path, errs) ==
    SoundFields(cx, object, data, Flatten(cx, object, sels).fields, path, errs)

\* pos.data stands where `type` is declared: it is null only where the resolver
\* returned null or an error at or below it says so, and never where the type
\* is not nullable.
Sound(cx, id, type, sels, pos, errs) ==
    CASE IsNonNull(type) -> pos.data # Null /\ Sound(cx, id, type.of, sels, pos, errs)
      [] ~IsNonNull(type) /\ pos.data = Null ->
           \/ id \in cx.world.nil \cup cx.world.hole
           \/ \E e \in errs : Prefix(pos.at, e)
      [] pos.data # Null /\ IsList(type) ->
           \A k \in DOMAIN pos.data.list :
              Sound(cx, id, type.of, sels,
                    [data |-> pos.data.list[k], at |-> Append(pos.at, Index(k))], errs)
      [] OTHER ->
           IsLeafType(type.name)
           \/ SoundObject(cx, IF Kind(type.name) = "OBJECT" THEN type.name
                              ELSE ConcreteType(cx, type.name), pos.data, sels, pos.at, errs)

\* A null on the way from the top of `data` to the place of an error.
RECURSIVE NullOnPath(_, _)
NullOnPath(data, path) ==
    CASE data = Null                        -> TRUE
      [] data # Null /\ path = <<>>         -> FALSE
      [] data.d = "obj" /\ path # <<>>      ->
           Head(path) \in DOMAIN data.obj /\ NullOnPath(data.obj[Head(path)], Tail(path))
      [] data.d = "list" /\ path # <<>>     ->
           \E k \in DOMAIN data.list : Index(k) = Head(path) /\ NullOnPath(data.list[k], Tail(path))
      [] OTHER -> FALSE

Errors(payload) == payload.errs \ {NoPath}
Collecting      == entry = "incremental"

SoundResponse(cx, p) ==
    /\ IF p.value = Null THEN p.errs # {}
       ELSE SoundObject(cx, RootObject(op.kind), p.value, op.sels, <<>>, Errors(p))
    /\ \A e \in Errors(p) : NullOnPath(p.value, e)
\* The exception to null propagation: Subscribe puts what the root field came to
\* under its key and sends it (src/exec/executor.go:339-348).  Where the field is
\* not nullable, the null stays there and `data` does not become null.
RootNullKept(type, value) == IsNonNull(type) /\ value = Null
SoundEvent(cx, p, f) ==
    LET type  == FieldOf(RootObject(op.kind), f.name).type
        value == p.value.obj[f.key]
    IN  /\ IF RootNullKept(type, value) THEN <<f.key>> \in {SubSeq(e, 1, 1) : e \in Errors(p)}
           ELSE Sound(cx, <<RootObject(op.kind), f.name>>, type, f.sels,
                      [data |-> value, at |-> <<f.key>>], Errors(p))
        /\ \A e \in Errors(p) : NullOnPath(p.value, e)
SoundPatch(cx, p, item) ==
    /\ IF p.value = Null
       THEN \/ p.errs # {}
            \/ item.kind = "stream" /\ ~IsNonNull(item.type) /\ item.item = Nil
       ELSE IF item.kind = "defer"
       THEN SoundObject(cx, item.object, p.value, item.sels, item.path, Errors(p))
       ELSE Sound(cx, "item", item.type, item.sels, [data |-> p.value, at |-> item.path], Errors(p))
    /\ \A e \in Errors(p) :
          Prefix(item.path, e) /\ NullOnPath(p.value, SubSeq(e, Len(item.path) + 1, Len(e)))

\* In every payload: a null has a reason, and an error with a path is at or below
\* a null; a non-null position is not null (the nearest nullable position above
\* is, or a patch as a whole), except the root field of a subscription's event.
\* There the documentation has a field-execution pass, and its errors bubble
\* (docs/content/docs/concepts/execution.mdx:62), but the code sends the null,
\* with its error.  src/exec/executor.go:344, :481, :621, :697; incremental.go:132, :259.
NullPropagation ==
    \A k \in DOMAIN sent :
       CASE sent[k].type = "failure"  -> TRUE
         [] sent[k].type = "response" -> SoundResponse(Context(Collecting), sent[k])
         [] sent[k].type = "event"    -> SoundEvent(Context(FALSE), sent[k], Root.fields[1])
         [] sent[k].type = "patch"    -> SoundPatch(Context(TRUE), sent[k], sent[k].item)

-----------------------------------------------------------------------------
(* Ways to execute *)

\* One field after the other, without loaders: what an operation and a piece of
\* pending work come to.
Serially(collect) == [Context(collect) EXCEPT !.batch = FALSE, !.gather = FALSE]
SerialOperation(collect) ==
    SelectionSetResult(Serially(collect), RootObject(op.kind), op.sels, <<>>)
SerialWork(item) ==
    IF item.kind = "defer"
    THEN SelectionSetResult(Serially(TRUE), item.object, item.sels, item.path)
    ELSE Complete(Serially(TRUE), item.type, item.item, item.sels, item.path)

\* Loaders and concurrency change how the data is fetched, never the data: the
\* value of a response and of a patch is the one serial execution has.
\* src/exec/loader_execution.go:14, query_concurrency.go:21.
ModesAgree ==
    request.world.dispatch =>
       \A k \in DOMAIN sent :
          CASE sent[k].type = "response" ->
                 sent[k].value = SerialOperation(Collecting).value
            [] sent[k].type = "patch" ->
                 sent[k].value = SerialWork(sent[k].item).value
            [] OTHER -> TRUE

-----------------------------------------------------------------------------
(* Incremental delivery *)

RECURSIVE Merge(_, _), Graft(_, _, _), Reaches(_, _)

\* Two parts of one object.
Merge(a, b) ==
    IF a.d # "obj" \/ b.d # "obj" THEN b
    ELSE Obj([n \in DOMAIN a.obj \cup DOMAIN b.obj |->
           CASE n \in DOMAIN a.obj \cap DOMAIN b.obj -> Merge(a.obj[n], b.obj[n])
             [] n \in DOMAIN a.obj \ DOMAIN b.obj    -> a.obj[n]
             [] OTHER                                -> b.obj[n]])

At(list, segment) == CHOOSE k \in 1 .. Len(list) + 1 : Index(k) = segment

\* `data` with x at path, as a client applies a patch.
Graft(data, path, x) ==
    IF path = <<>> THEN Merge(data, x)
    ELSE IF data.d = "obj" THEN [data EXCEPT !.obj[Head(path)] = Graft(@, Tail(path), x)]
    ELSE IF At(data.list, Head(path)) > Len(data.list) THEN [data EXCEPT !.list = Append(@, x)]
    ELSE [data EXCEPT !.list[At(data.list, Head(path))] = Graft(@, Tail(path), x)]

\* The path leads to a place in data: an object, or the next item of a list.
Reaches(data, path) ==
    CASE data = Null                         -> FALSE
      [] data # Null /\ path = <<>>          -> data.d = "obj"
      [] data.d = "obj" /\ path # <<>>       ->
           Head(path) \in DOMAIN data.obj /\ Reaches(data.obj[Head(path)], Tail(path))
      [] data.d = "list" /\ Len(path) = 1    ->
           \/ Head(path) = Index(Len(data.list) + 1)
           \/ \E k \in DOMAIN data.list : Index(k) = Head(path) /\ data.list[k].d = "obj"
      [] data.d = "list" /\ Len(path) > 1    ->
           \E k \in DOMAIN data.list : Index(k) = Head(path) /\ Reaches(data.list[k], Tail(path))
      [] OTHER -> FALSE

\* What the client has after the first k payloads.  A deferred fragment that
\* came to null adds nothing; a null item of non-null items nulls its list.
Received ==
    LET apply(data, p) ==
          CASE p.item.kind = "defer" /\ p.value = Null -> data
            [] p.item.kind = "stream" /\ p.value = Null /\ IsNonNull(p.item.type) ->
                 Graft(data, NullPath(p.item), Null)
            [] OTHER -> Graft(data, p.item.path, p.value)
        upTo[k \in 1 .. Len(sent)] ==
          IF k = 1 THEN sent[1].value ELSE apply(upTo[k - 1], sent[k])
    IN  upTo

\* executeBatchedMutation does not run what is deferred at the root.
RootDeferLost == /\ request.config.batch /\ op.kind = "mutation"
                 /\ Flatten(Context(TRUE), RootObject(op.kind), op.sels).defers # <<>>

Delivered == stage = "done" /\ Collecting /\ sent # <<>> /\ sent[1].type = "response"

\* A first payload without errors is followed by patches that each land where
\* the payloads before left room for them; hasNext is false on the last one
\* only; and when nothing failed, the client ends with the data that Execute
\* would have sent at once.  Not said of a fragment beside a deferred one that
\* failed, which is dropped with it (incremental.go:308 promises to keep it), nor of
\* what a batched mutation defers at its root.  src/exec/incremental.go:193, :259, :310.
Incremental ==
    Delivered /\ sent[1].errs = {} =>
       /\ \A k \in DOMAIN sent \ {1} : Reaches(Received[k - 1], sent[k].item.path)
       /\ ~cancelled => \A k \in DOMAIN sent : sent[k].hasNext = (k < Len(sent))
       /\ (~cancelled /\ ~RootDeferLost /\ \A k \in DOMAIN sent : sent[k].errs = {}) =>
             Received[Len(sent)] = SerialOperation(FALSE).value
=============================================================================
