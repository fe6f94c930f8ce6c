----------------------------- MODULE QueryParser -----------------------------
(***************************************************************************)
(* From tokens to a documentBundle: the recursive-descent parser of        *)
(* src/exec/parser.go, the bundle of src/exec/document_bundle.go, and the  *)
(* second reader of the same tokens, src/exec/operation_kind.go, which the *)
(* HTTP transport asks for the kind of an operation before anything is     *)
(* parsed.                                                                 *)
(*                                                                         *)
(* A token is the text it prints as; a document is a sequence of tokens    *)
(* that ends with "EOF".  A parsing operator takes the tokens p and an     *)
(* index i and returns what it built and the index it stopped at, or Fail: *)
(* the parser's position is the index, its error is Fail.  A location is   *)
(* the index of a token.                                                   *)
(***************************************************************************)
EXTENDS Naturals, Integers, Sequences, FiniteSets, TypeSystem

CONSTANTS IntOf,        \* integer literal -> its value
          FloatTokens,  \* literals with '.', 'e' or 'E'
          StringOf,     \* string literal -> its value
          MaxDepth      \* the limit on nested selection sets, 0 for none

EOF == "EOF"
Punctuators == {"{", "}", "(", ")", "[", "]", ":", "$", "!", "...", "=", "@", "&", "|"}
IsName(t) == /\ t \notin Punctuators /\ t # EOF
             /\ t \notin DOMAIN IntOf /\ t \notin FloatTokens /\ t \notin DOMAIN StringOf

Fail          == [ok |-> FALSE]
Done(i, node) == [ok |-> TRUE, next |-> i, node |-> node]

\* `if err != nil { return err }`: go on with F only after a success.
Then(r, F(_, _)) == IF r.ok THEN F(r.next, r.node) ELSE Fail

\* expect(kind), and next() with a check that it was a name.
Expect(p, i, t)  == IF p[i] = t THEN Done(i + 1, t) ELSE Fail
NameAt(p, i)     == IF IsName(p[i]) THEN Done(i + 1, p[i]) ELSE Fail

\* The loop of every bracketed list: up to `close`, an error at the end of the
\* query; P parses one item.
Items(p, i, close, P(_)) ==
    LET from[j \in 1 .. Len(p)] ==
            IF p[j] = close THEN Done(j + 1, <<>>)
            ELSE IF p[j] = EOF THEN Fail
            ELSE Then(P(j), LAMBDA k, x :
                   Then(from[k], LAMBDA m, xs : Done(m, <<x>> \o xs)))
    IN  from[i]

\* The map built from <<name, value>> pairs; a repeated name is an error.
AsMap(i, pairs) ==
    LET names == {pairs[k][1] : k \in DOMAIN pairs}
    IN  IF Cardinality(names) # Len(pairs) THEN Fail
        ELSE Done(i, [n \in names |-> (CHOOSE k \in DOMAIN pairs : pairs[k][1] = n)])

\* `name : value`, the entry of argument lists and of input objects.
Entry(p, i, P(_)) ==
    Then(NameAt(p, i), LAMBDA j, n :
      Then(Expect(p, j, ":"), LAMBDA k, c :
        Then(P(k), LAMBDA m, v : Done(m, <<n, v>>))))

EntryMap(p, i, close, P(_)) ==
    Then(Items(p, i, close, LAMBDA j : Entry(p, j, P)), LAMBDA k, pairs :
      Then(AsMap(k, pairs), LAMBDA m, at : Done(m, [n \in DOMAIN at |-> pairs[at[n]][2]])))

-----------------------------------------------------------------------------
(* Values *)

NullValue == [v |-> "null"]
NameValue(n) ==
    CASE n \in {"true", "false"} -> [v |-> "bool", bool |-> n = "true"]
      [] n = "null"              -> NullValue
      [] OTHER                   -> [v |-> "enum", enum |-> n]

\* parseValue and, with const, parseConstValue, where "$" is no value.
RECURSIVE Value(_, _, _)
Value(p, i, const) ==
    LET t == p[i] IN
    CASE t \in DOMAIN StringOf -> Done(i + 1, [v |-> "str", str |-> StringOf[t]])
      [] t \in FloatTokens     -> Done(i + 1, [v |-> "float", float |-> t])
      [] t \in DOMAIN IntOf    -> Done(i + 1, [v |-> "int", int |-> IntOf[t]])
      [] IsName(t)             -> Done(i + 1, NameValue(t))
      [] t = "$" /\ ~const     -> Then(NameAt(p, i + 1), LAMBDA j, n :
                                    Done(j, [v |-> "var", var |-> n]))
      [] t = "{"               -> Then(EntryMap(p, i + 1, "}", LAMBDA j : Value(p, j, const)),
                                       LAMBDA k, o : Done(k, [v |-> "obj", obj |-> o]))
      [] t = "["               -> Then(Items(p, i + 1, "]", LAMBDA j : Value(p, j, const)),
                                       LAMBDA k, l : Done(k, [v |-> "list", list |-> l]))
      [] OTHER                 -> Fail

\* `( name : value ... )`, at least one; no parenthesis is no argument.
NoArguments == [n \in {} |-> NullValue]
Arguments(p, i) ==
    IF p[i] # "(" THEN Done(i, NoArguments)
    ELSE IF p[i + 1] = ")" THEN Fail
    ELSE EntryMap(p, i + 1, ")", LAMBDA j : Value(p, j, FALSE))

RECURSIVE Directives(_, _)
Directives(p, i) ==
    IF p[i] # "@" THEN Done(i, <<>>)
    ELSE Then(NameAt(p, i + 1), LAMBDA j, n :
           Then(Arguments(p, j), LAMBDA k, args :
             Then(Directives(p, k), LAMBDA m, ds :
               Done(m, <<[name |-> n, args |-> args]>> \o ds))))

-----------------------------------------------------------------------------
(* Variable definitions *)

RECURSIVE TypeRef(_, _)
TypeRef(p, i) ==
    LET bang(j, t) == IF p[j] = "!" THEN Done(j + 1, NonNull(t)) ELSE Done(j, t) IN
    CASE p[i] = "["    -> Then(TypeRef(p, i + 1), LAMBDA j, inner :
                            Then(Expect(p, j, "]"), LAMBDA k, c : bang(k, ListOf(inner))))
      [] IsName(p[i])  -> bang(i + 1, Named(p[i]))
      [] OTHER         -> Fail

DefaultValue(p, i) == IF p[i] = "=" THEN Value(p, i + 1, TRUE) ELSE Done(i, NoDefault)

VariableDefinition(p, i) ==
    Then(Expect(p, i, "$"), LAMBDA j0, d :
      Then(NameAt(p, j0), LAMBDA j, n :
        Then(Expect(p, j, ":"), LAMBDA k, c :
          Then(TypeRef(p, k), LAMBDA m, t :
            Then(DefaultValue(p, m), LAMBDA q, dv :
              Then(Directives(p, q), LAMBDA z, ds :
                Done(z, [name |-> n, type |-> t, default |-> dv, dirs |-> ds])))))))

VariableDefinitions(p, i) ==
    IF p[i] # "(" THEN Done(i, <<>>)
    ELSE IF p[i + 1] = ")" THEN Fail
    ELSE Items(p, i + 1, ")", LAMBDA j : VariableDefinition(p, j))

-----------------------------------------------------------------------------
(* Selections *)

\* A response key that differs from the field name was written as an alias.
Aliased(p, i) ==
    Then(NameAt(p, i), LAMBDA j, first :
      IF p[j] # ":" THEN Done(j, <<first, first>>)
      ELSE Then(NameAt(p, j + 1), LAMBDA k, real : Done(k, <<first, real>>)))

RECURSIVE SelectionSet(_, _, _)

\* `{ selection ... }`, or nothing where a field has no selection set.
OptionalSelections(p, i, depth) ==
    IF p[i] = "{" THEN SelectionSet(p, i, depth) ELSE Done(i, <<>>)

FieldSelection(p, i, depth) ==
    Then(Aliased(p, i), LAMBDA j, names :
      Then(Arguments(p, j), LAMBDA k, args :
        Then(Directives(p, k), LAMBDA m, ds :
          Then(OptionalSelections(p, m, depth + 1), LAMBDA z, ss :
            Done(z, [kind |-> "field", key |-> names[1], name |-> names[2],
                     args |-> args, dirs |-> ds, sels |-> ss, loc |-> i])))))

\* i is after "..." or after the type condition `on`.
InlineFragment(p, i, on, loc, depth) ==
    Then(Directives(p, i), LAMBDA j, ds :
      Then(SelectionSet(p, j, depth + 1), LAMBDA k, ss :
        Done(k, [kind |-> "inline", on |-> on, dirs |-> ds, sels |-> ss, loc |-> loc])))

\* Mutant: the directives of a spread are read and not kept.
FragmentSpreadBare(p, i) ==
    Then(NameAt(p, i), LAMBDA j, n :
      Then(Directives(p, j), LAMBDA k, ds :
        Done(k, [kind |-> "spread", name |-> n, dirs |-> <<>>, sels |-> <<>>, loc |-> i])))

FragmentSpread(p, i) ==
    Then(NameAt(p, i), LAMBDA j, n :
      Then(Directives(p, j), LAMBDA k, ds :
        Done(k, [kind |-> "spread", name |-> n, dirs |-> ds, sels |-> <<>>, loc |-> i])))

Selection(p, i, depth) ==
    IF p[i] # "..." THEN FieldSelection(p, i, depth)
    ELSE IF p[i + 1] \in {"{", "@"} THEN InlineFragment(p, i + 1, "", i, depth)
    ELSE IF p[i + 1] = "on"
         THEN Then(NameAt(p, i + 2), LAMBDA j, t : InlineFragment(p, j, t, i + 2, depth))
    ELSE FragmentSpread(p, i + 1)

SelectionSet(p, i, depth) ==
    IF MaxDepth > 0 /\ depth > MaxDepth THEN Fail
    ELSE Then(Expect(p, i, "{"), LAMBDA j, b :
           IF p[j] = "}" THEN Fail
           ELSE Items(p, j, "}", LAMBDA k : Selection(p, k, depth)))

-----------------------------------------------------------------------------
(* Definitions and the bundle *)

\* The names used as values between two indices, without the declarations:
\* only a declared variable is followed by a colon.
VariableUses(p, i, j) == {p[k + 1] : k \in {k \in i .. j - 2 : p[k] = "$" /\ p[k + 2] # ":"}}

FragmentDefinition(p, i) ==
    Then(Expect(p, i, "fragment"), LAMBDA j, kw :
      Then(NameAt(p, j), LAMBDA k, n :
        Then(Expect(p, k, "on"), LAMBDA m, o :
          Then(NameAt(p, m), LAMBDA q, t :
            Then(Directives(p, q), LAMBDA x, ds :
              Then(SelectionSet(p, x, 1), LAMBDA z, ss :
                Done(z, [def |-> "fragment", name |-> n, on |-> t, dirs |-> ds, sels |-> ss,
                         loc |-> j, uses |-> VariableUses(p, i, z)])))))))

OperationKinds == {"query", "mutation", "subscription"}

\* The optional type, name and variables; `{` alone is an anonymous query.
OperationHeader(p, i) ==
    CASE p[i] \in OperationKinds ->
           LET named == IsName(p[i + 1])
           IN  Then(VariableDefinitions(p, IF named THEN i + 2 ELSE i + 1), LAMBDA j, vs :
                 Then(Directives(p, j), LAMBDA k, ds :
                   Done(k, [kind |-> p[i], name |-> IF named THEN p[i + 1] ELSE "",
                            vars |-> vs, dirs |-> ds])))
      [] IsName(p[i]) /\ p[i] \notin OperationKinds -> Fail
      [] OTHER -> Done(i, [kind |-> "query", name |-> "", vars |-> <<>>, dirs |-> <<>>])

OperationDefinition(p, i) ==
    Then(OperationHeader(p, i), LAMBDA j, h :
      Then(SelectionSet(p, j, 1), LAMBDA z, ss :
        Done(z, [def |-> "operation", kind |-> h.kind, name |-> h.name, vars |-> h.vars,
                 dirs |-> h.dirs, sels |-> ss, loc |-> i, uses |-> VariableUses(p, i, z)])))

Definition(p, i) ==
    IF p[i] = "fragment" THEN FragmentDefinition(p, i) ELSE OperationDefinition(p, i)

\* Fragments are a map, so their names are unique; there is an operation.
Assemble(ops, frags) ==
    LET names == {frags[k].name : k \in DOMAIN frags} IN
    IF ops = <<>> \/ Cardinality(names) # Len(frags) THEN Fail
    ELSE [ok |-> TRUE, ops |-> ops,
          frags |-> [n \in names |-> frags[CHOOSE k \in DOMAIN frags : frags[k].name = n]],
          hasVariableRefs |-> \/ \E k \in DOMAIN ops : ops[k].uses # {}
                              \/ \E k \in DOMAIN frags : frags[k].uses # {}]

\* parseDocumentBundleWithLexer: every definition up to the end of the query.
Bundle(p) ==
    LET from[j \in 1 .. Len(p)] ==
            IF p[j] = EOF THEN Done(j, <<>>)
            ELSE Then(Definition(p, j), LAMBDA k, d :
                   Then(from[k], LAMBDA m, ds : Done(m, <<d>> \o ds)))
    IN  Then(from[1], LAMBDA end, all :
          Assemble(SelectSeq(all, LAMBDA d : d.def = "operation"),
                   SelectSeq(all, LAMBDA d : d.def = "fragment")))

\* selectOperationDefinition: the first operation of that name, or the only one.
SelectOperation(bundle, operationName) ==
    LET named == {k \in DOMAIN bundle.ops : bundle.ops[k].name = operationName}
        first == CHOOSE k \in named : \A m \in named : k <= m
    IN  CASE operationName # "" /\ named # {}          -> Done(0, bundle.ops[first])
          [] operationName = "" /\ Len(bundle.ops) = 1 -> Done(0, bundle.ops[1])
          [] OTHER                                     -> Fail

-----------------------------------------------------------------------------
(* operation_kind.go: the kind of an operation from its tokens alone *)

\* skipSelectionTokens: past the brace that closes the one the scan is at.
RECURSIVE SkipSelection(_, _, _)
SkipSelection(p, i, depth) ==
    CASE p[i] = EOF               -> Fail
      [] p[i] = "}" /\ depth = 1  -> Done(i + 1, "skipped")
      [] OTHER -> SkipSelection(p, i + 1, CASE p[i] = "{" -> depth + 1
                                            [] p[i] = "}" -> depth - 1
                                            [] OTHER      -> depth)

\* skipUntilSelection: a brace inside parentheses or brackets is a value.
RECURSIVE SkipUntilSelection(_, _, _, _)

\* Mutant: the first brace is taken for the selection set, be it a default value.
SkipUntilSelectionFlat(p, i, parens, brackets) ==
    CASE p[i] = EOF -> Fail
      [] p[i] = "{" -> SkipSelection(p, i, 0)
      [] OTHER      -> SkipUntilSelection(p, i + 1, 0, 0)

SkipUntilSelection(p, i, parens, brackets) ==
    LET after(n, open, close) == CASE p[i] = open            -> n + 1
                                   [] p[i] = close /\ n > 0  -> n - 1
                                   [] OTHER                  -> n
    IN  CASE p[i] = EOF                                     -> Fail
          [] p[i] = "{" /\ parens = 0 /\ brackets = 0       -> SkipSelection(p, i, 0)
          [] OTHER -> SkipUntilSelection(p, i + 1, after(parens, "(", ")"),
                                         after(brackets, "[", "]"))

\* operationKindFromTokens.  found counts operations, last is the latest kind.
RECURSIVE KindScan(_, _, _, _, _)
KindScan(p, i, operationName, found, last) ==
    LET named == IsName(p[i + 1])
        kind  == p[i]
    IN  CASE p[i] = EOF ->
               IF operationName = "" /\ found = 1 THEN Done(i, last) ELSE Fail
          [] p[i] = "{" ->
               Then(SkipSelection(p, i, 0), LAMBDA j, s :
                 KindScan(p, j, operationName, found + 1, "query"))
          [] p[i] = "fragment" ->
               Then(SkipUntilSelection(p, i + 1, 0, 0), LAMBDA j, s :
                 KindScan(p, j, operationName, found, last))
          [] p[i] \in OperationKinds /\ operationName # "" /\ named /\ p[i + 1] = operationName ->
               Done(i, kind)
          [] p[i] \in OperationKinds /\ ~(operationName # "" /\ named /\ p[i + 1] = operationName) ->
               Then(SkipUntilSelection(p, IF named THEN i + 2 ELSE i + 1, 0, 0), LAMBDA j, s :
                 KindScan(p, j, operationName, found + 1, kind))
          [] OTHER -> Fail

ParseOperationKind(p, operationName) == KindScan(p, 1, operationName, 0, "")
=============================================================================
