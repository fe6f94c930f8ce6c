--------------------------- MODULE QueryValidation ---------------------------
(***************************************************************************)
(* ValidateDocument of src/exec/validate.go with the files it calls:       *)
(* field_merge_validation, fragment_reachability, variable_validation,     *)
(* directive_validation, validate_subscription and composite_validation.   *)
(*                                                                         *)
(* A rule yields the set of names of the rules a document breaks; the      *)
(* messages and their locations are left out.  A document is valid when    *)
(* the set is empty, and only then does the executor go on.                *)
(***************************************************************************)
EXTENDS QueryParser

CONSTANT Introspection    \* the field names that start with "__"

Unless(cond, rule) == IF cond THEN {} ELSE {rule}
Where(cond, rules) == IF cond THEN rules ELSE {}

\* Variables by name; a name declared twice keeps its last definition.
VarScope(op) ==
    LET last(n) == CHOOSE k \in DOMAIN op.vars :
                     /\ op.vars[k].name = n
                     /\ \A m \in DOMAIN op.vars : op.vars[m].name = n => m <= k
    IN  [n \in {op.vars[k].name : k \in DOMAIN op.vars} |-> op.vars[last(n)]]

RECURSIVE AllSelections(_)
AllSelections(sels) ==
    UNION {{sels[k]} \cup AllSelections(sels[k].sels) : k \in DOMAIN sels}

-----------------------------------------------------------------------------
(* Input values *)

ScalarAccepts(name, kind) ==
    CASE name = "Int"     -> kind = "int"
      [] name = "Float"   -> kind \in {"int", "float"}
      [] name = "Boolean" -> kind = "bool"
      [] name = "String"  -> kind = "str"
      [] name = "ID"      -> kind \in {"str", "int"}
      [] OTHER            -> TRUE

RECURSIVE InputValueErrors(_, _)

\* A required field without a default has to be there; a oneOf object has one.
InputObjectErrors(name, value) ==
    IF value.v # "obj" THEN {"InputObject"}
    ELSE LET fields == Def(name).fields
             given  == DOMAIN value.obj
         IN  Unless(given \subseteq DOMAIN fields, "InputField")
             \cup UNION {InputValueErrors(fields[n].type, value.obj[n]) :
                           n \in given \cap DOMAIN fields}
             \cup Unless(\A n \in DOMAIN fields \ given :
                           IsNonNull(fields[n].type) => fields[n].default # NoDefault,
                         "RequiredInputField")
             \cup Unless(Def(name).oneOf => Cardinality(given) = 1, "OneOf")

\* validateInputValue: a literal against the type it is written for.
InputValueErrors(type, value) ==
    CASE value.v = "var" -> {}
      [] value.v # "var" /\ IsNonNull(type) ->
           IF value = NullValue THEN {"NonNullInput"} ELSE InputValueErrors(type.of, value)
      [] value.v # "var" /\ IsList(type) ->
           CASE value = NullValue -> {}
             [] value.v = "list"  -> UNION {InputValueErrors(type.of, value.list[k]) :
                                              k \in DOMAIN value.list}
             [] OTHER             -> InputValueErrors(type.of, value)
      [] value.v # "var" /\ type.ref = "named" ->
           CASE value = NullValue              -> {}
             [] value # NullValue /\ Kind(type.name) = "INPUT_OBJECT" ->
                  InputObjectErrors(type.name, value)
             [] value # NullValue /\ Kind(type.name) = "ENUM" ->
                  Unless(value.v = "enum" /\ value.enum \in Def(type.name).values, "Enum")
             [] value # NullValue /\ Kind(type.name) = "SCALAR" ->
                  Unless(ScalarAccepts(type.name, value.v), "Scalar")
             [] OTHER                          -> {}

\* Mutant: a nullable variable may stand anywhere.
PositionTypeNullable(expected, default, var) ==
    IF ~IsNonNull(var.type) THEN Nullable(expected) ELSE expected

\* The type asked of a variable: without its "!" when the variable is nullable
\* but the position, or the variable, has a default that is not null.
PositionType(expected, default, var) ==
    IF /\ ~IsNonNull(var.type)
       /\ default # NoDefault \/ var.default \notin {NoDefault, NullValue}
    THEN Nullable(expected) ELSE expected

RECURSIVE VariablePositionErrors(_, _, _, _)
VariablePositionErrors(expected, value, default, vars) ==
    CASE value.v = "var" ->
           Unless(value.var \in DOMAIN vars =>
                    VariableTypeAllowed(vars[value.var].type,
                                        PositionType(expected, default, vars[value.var])),
                  "VariablePosition")
      [] value.v # "var" /\ IsNonNull(expected) ->
           VariablePositionErrors(expected.of, value, default, vars)
      [] value.v # "var" /\ IsList(expected) ->
           IF value.v = "list"
           THEN UNION {VariablePositionErrors(expected.of, value.list[k], NoDefault, vars) :
                         k \in DOMAIN value.list}
           ELSE VariablePositionErrors(expected.of, value, NoDefault, vars)
      [] value.v = "obj" /\ expected.ref = "named" /\ Kind(expected.name) = "INPUT_OBJECT" ->
           LET fields == Def(expected.name).fields
           IN  UNION {VariablePositionErrors(fields[n].type, value.obj[n], fields[n].default, vars) :
                        n \in DOMAIN value.obj \cap DOMAIN fields}
      [] OTHER -> {}

\* The arguments of a field or directive against their definitions.
ArgumentErrors(given, defs, vars) ==
    Unless(DOMAIN given \subseteq DOMAIN defs, "KnownArgument")
    \cup UNION {InputValueErrors(defs[n].type, given[n])
                \cup VariablePositionErrors(defs[n].type, given[n], defs[n].default, vars) :
                  n \in DOMAIN given \cap DOMAIN defs}
    \cup Unless(\A n \in DOMAIN defs \ DOMAIN given :
                  IsNonNull(defs[n].type) => defs[n].default # NoDefault,
                "RequiredArgument")

-----------------------------------------------------------------------------
(* Directives *)

ExecutableDirectives == {"skip", "include", "defer", "stream"}
BuiltinLocations(name) ==
    IF name = "stream" THEN {"FIELD"} ELSE {"FIELD", "FRAGMENT_SPREAD", "INLINE_FRAGMENT"}
BuiltinArguments(name) ==
    CASE name \in {"skip", "include"} -> [if |-> NonNull(Named("Boolean"))]
      [] name = "defer"  -> [if |-> Named("Boolean"), label |-> Named("String")]
      [] name = "stream" -> [if |-> Named("Boolean"), label |-> Named("String"),
                             initialCount |-> Named("Int")]

\* validateDirectiveArguments and the positions of variables in them.  A null
\* literal is no Boolean, String or int to Go, so null is refused too.
BuiltinArgumentErrors(d, vars) ==
    LET types == BuiltinArguments(d.name)
        base(n)  == InnerNamedType(types[n])
        typed(n) == IF d.args[n].v = "var" THEN TRUE
                    ELSE d.args[n].v = IF base(n) = "Boolean" THEN "bool"
                                       ELSE IF base(n) = "String" THEN "str" ELSE "int"
        known == DOMAIN d.args \cap DOMAIN types
    IN  Unless(DOMAIN d.args \subseteq DOMAIN types, "KnownArgument")
        \cup Unless(d.name \in {"skip", "include"} => "if" \in DOMAIN d.args, "RequiredArgument")
        \cup Unless(\A n \in known : typed(n), "DirectiveArgument")
        \cup UNION {VariablePositionErrors(types[n], d.args[n], NoDefault, vars) : n \in known}

\* A directive the schema defines takes that definition's locations and arguments.
DirectiveRules(d, repeated, location, vars) ==
    CASE d.name \in DOMAIN Schema.directives ->
           IF repeated /\ ~Schema.directives[d.name].repeatable THEN {"UniqueDirective"}
           ELSE Unless(location \in Schema.directives[d.name].locations, "DirectiveLocation")
                \cup ArgumentErrors(d.args, Schema.directives[d.name].args, vars)
      [] d.name \in ExecutableDirectives \ DOMAIN Schema.directives ->
           IF repeated THEN {"UniqueDirective"}
           ELSE Unless(location \in BuiltinLocations(d.name), "DirectiveLocation")
                \cup BuiltinArgumentErrors(d, vars)
      [] OTHER -> {"KnownDirective"}
DirectiveErrors(dirs, location, vars) ==
    UNION {DirectiveRules(dirs[k], \E m \in 1 .. k - 1 : dirs[m].name = dirs[k].name,
                          location, vars) : k \in DOMAIN dirs}

\* resolveDirectiveValue: a reference that carries no value yet is nil.
DirectiveValue(value) == IF value.v = "var" THEN NullValue
                         ELSE IF value.v = "bound" THEN value.value ELSE value

FalseValue == [v |-> "bool", bool |-> FALSE]
Named1(dirs, name) == SelectSeq(dirs, LAMBDA d : d.name = name)

\* deferDirective and streamDirective: there, and not with `if: false`.
Active(dirs, name) ==
    LET ds == Named1(dirs, name)
    IN  /\ ds # <<>>
        /\ \A k \in DOMAIN ds :
             "if" \in DOMAIN ds[k].args => DirectiveValue(ds[k].args["if"]) # FalseValue
DirectiveLabel(dirs, name) ==
    LET with == SelectSeq(Named1(dirs, name), LAMBDA d :
                  "label" \in DOMAIN d.args /\ DirectiveValue(d.args["label"]).v = "str")
    IN  IF with = <<>> THEN "" ELSE DirectiveValue(with[Len(with)].args["label"]).str

-----------------------------------------------------------------------------
(* Fragments *)

FragmentNames(sels) == {s.name : s \in {s \in AllSelections(sels) : s.kind = "spread"}}

RECURSIVE Closure(_, _)
Closure(names, frags) ==
    LET more == names \cup UNION {FragmentNames(frags[n].sels) \cap DOMAIN frags : n \in names}
    IN  IF more = names THEN names ELSE Closure(more, frags)

\* collectReachableFragments.
Reachable(sels, frags) == Closure(FragmentNames(sels) \cap DOMAIN frags, frags)

FragmentDefinitionErrors(frags) ==
    UNION {IF ~Known(frags[n].on) THEN {"KnownType"}
           ELSE Unless(IsCompositeType(frags[n].on), "FragmentOnComposite") : n \in DOMAIN frags}

-----------------------------------------------------------------------------
(* Fields that meet under one response key *)

\* collectMergeFields: the fields of a selection set, fragments opened, each
\* with the type it is selected on.  within holds the fragments being opened.
RECURSIVE MergeFields(_, _, _, _)
MergeFields(parent, sels, frags, within) ==
    UNION {LET s == sels[k] IN
           CASE s.kind = "field"  -> {[parent |-> parent, sel |-> s]}
             [] s.kind = "inline" ->
                  LET on == IF s.on = "" THEN parent ELSE s.on
                  IN  IF Known(on) THEN MergeFields(on, s.sels, frags, within) ELSE {}
             [] s.kind = "spread" ->
                  IF /\ s.name \in DOMAIN frags \ within
                     /\ Known(frags[s.name].on)
                  THEN MergeFields(frags[s.name].on, frags[s.name].sels, frags,
                                   within \cup {s.name})
                  ELSE {} : k \in DOMAIN sels}

HasType(f)  == f.sel.name = "__typename" \/ HasField(f.parent, f.sel.name)
MergeType(f) == IF f.sel.name = "__typename" THEN NonNull(Named("String"))
                ELSE FieldOf(f.parent, f.sel.name).type

RECURSIVE CompatibleResponseShape(_, _)
CompatibleResponseShape(left, right) ==
    CASE IsNonNull(left) \/ IsNonNull(right) ->
           IsNonNull(left) /\ IsNonNull(right) /\ CompatibleResponseShape(left.of, right.of)
      [] ~IsNonNull(left) /\ ~IsNonNull(right) /\ (IsList(left) \/ IsList(right)) ->
           IsList(left) /\ IsList(right) /\ CompatibleResponseShape(left.of, right.of)
      [] OTHER ->
           IsLeafType(left.name) \/ IsLeafType(right.name) => left.name = right.name

\* validateMergePair.  exclusive: the two can never apply to the same object.
RECURSIVE MergePairErrors(_, _, _, _, _)
MergePairErrors(left, right, exclusive, frags, stack) ==
    LET key == <<left.sel.loc, right.sel.loc, left.parent, right.parent>>
        apart == \/ exclusive
                 \/ /\ Kind(left.parent) = "OBJECT" /\ Kind(right.parent) = "OBJECT"
                    /\ left.parent # right.parent
        children(f) == MergeFields(InnerNamedType(MergeType(f)), f.sel.sels, frags, {})
    IN  IF \/ key \in stack
           \/ left.sel.loc = right.sel.loc /\ left.parent = right.parent
           \/ ~HasType(left) \/ ~HasType(right)
        THEN {}
        ELSE IF \/ ~CompatibleResponseShape(MergeType(left), MergeType(right))
                \/ ~apart /\ (left.sel.name # right.sel.name \/ left.sel.args # right.sel.args)
        THEN {"FieldMerge"}
        ELSE UNION {MergePairErrors(l, r, apart, frags, stack \cup {key}) :
                      <<l, r>> \in {lr \in children(left) \X children(right) :
                                      lr[1].sel.key = lr[2].sel.key}}

\* The order of two fields of a set does not matter to the rule: each unordered
\* pair is compared once, the earlier one in the document on the left.
FieldMergeErrors(parent, sels, frags) ==
    LET fields == MergeFields(parent, sels, frags, {})
        pairs  == {fg \in fields \X fields :
                     fg[1].sel.key = fg[2].sel.key /\ fg[1].sel.loc <= fg[2].sel.loc}
    IN  IF Len(sels) < 2 THEN {}
        ELSE UNION {MergePairErrors(fg[1], fg[2], FALSE, frags, {}) : fg \in pairs}

-----------------------------------------------------------------------------
(* Selections *)

RECURSIVE SelectionsErrors(_, _, _, _, _)

\* validateFragmentSpread.  A fragment that cannot apply is not looked into.
SpreadErrors(parent, s, frags, active, vars) ==
    CASE s.name \notin DOMAIN frags -> {"KnownFragment"}
      [] s.name \in active          -> {"FragmentCycle"}
      [] OTHER ->
           LET on == frags[s.name].on
           IN  DirectiveErrors(s.dirs, "FRAGMENT_SPREAD", vars)
               \cup (CASE ~IsCompositeType(on)                -> {}
                       [] IsCompositeType(on) /\ ~CompositeTypesOverlap(parent, on) ->
                            {"PossibleFragment"}
                       [] OTHER -> SelectionsErrors(on, frags[s.name].sels, frags,
                                                    active \cup {s.name}, vars))

InlineErrors(parent, s, frags, active, vars) ==
    DirectiveErrors(s.dirs, "INLINE_FRAGMENT", vars)
    \cup (CASE s.on = ""           -> SelectionsErrors(parent, s.sels, frags, active, vars)
            [] s.on # "" /\ ~Known(s.on) -> {"KnownType"}
            [] Known(s.on) /\ ~IsCompositeType(s.on) -> {"FragmentOnComposite"}
            [] IsCompositeType(s.on) /\ ~CompositeTypesOverlap(parent, s.on) ->
                 {"PossibleFragment"}
            [] OTHER               -> SelectionsErrors(s.on, s.sels, frags, active, vars))

FieldErrors(parent, s, frags, active, vars) ==
    DirectiveErrors(s.dirs, "FIELD", vars)
    \cup (CASE s.name = "__typename" ->
                 ArgumentErrors(s.args, NoArguments, vars)
                 \cup Unless(s.sels = <<>>, "LeafSelection")
            [] s.name # "__typename" /\ ~HasField(parent, s.name) -> {"KnownField"}
            [] OTHER ->
                 LET field == FieldOf(parent, s.name)
                     inner == InnerNamedType(field.type)
                 IN  ArgumentErrors(s.args, field.args, vars)
                     \cup (IF IsLeafType(inner) THEN Unless(s.sels = <<>>, "LeafSelection")
                           ELSE IF s.sels = <<>> THEN {"CompositeSelection"}
                           ELSE SelectionsErrors(inner, s.sels, frags, active, vars)))

SelectionsErrors(parent, sels, frags, active, vars) ==
    FieldMergeErrors(parent, sels, frags)
    \cup UNION {CASE sels[k].kind = "spread" -> SpreadErrors(parent, sels[k], frags, active, vars)
                  [] sels[k].kind = "inline" -> InlineErrors(parent, sels[k], frags, active, vars)
                  [] sels[k].kind = "field"  -> FieldErrors(parent, sels[k], frags, active, vars) :
                    k \in DOMAIN sels}

-----------------------------------------------------------------------------
(* Operations *)

OperationNameErrors(ops) ==
    Unless(\A j, k \in DOMAIN ops : j # k /\ ops[j].name # "" => ops[j].name # ops[k].name,
           "UniqueOperationName")
    \cup Unless(Len(ops) > 1 => \A k \in DOMAIN ops : ops[k].name # "", "LoneAnonymousOperation")

\* validateVariables: every use is declared and every declaration used, here
\* or in a fragment the operation reaches.  Skipped without any variable.
VariableErrors(op, bundle, reachable) ==
    LET declared == {op.vars[k].name : k \in DOMAIN op.vars}
        used     == op.uses \cup UNION {bundle.frags[n].uses : n \in reachable}
    IN  Where(op.vars # <<>> \/ bundle.hasVariableRefs,
              Unless(used \subseteq declared, "DefinedVariable")
              \cup Unless(declared \subseteq used, "UsedVariable"))

VariableDefinitionErrors(op) ==
    LET var(k) == op.vars[k]
        base(k) == InnerNamedType(VarScope(op)[var(k).name].type)
        definition(k) == VarScope(op)[var(k).name]
    IN  Unless(\A j, k \in DOMAIN op.vars : j # k => var(j).name # var(k).name, "UniqueVariable")
        \cup UNION {IF ~Known(base(k)) THEN {"KnownType"}
                    ELSE IF ~IsInputType(base(k)) THEN {"VariableInputType"}
                    ELSE Where(definition(k).default # NoDefault,
                               InputValueErrors(definition(k).type, definition(k).default)) :
                      k \in DOMAIN op.vars}

DefinitionDirectiveErrors(op, bundle, reachable) ==
    DirectiveErrors(op.dirs, CASE op.kind = "query"        -> "QUERY"
                               [] op.kind = "mutation"     -> "MUTATION"
                               [] op.kind = "subscription" -> "SUBSCRIPTION", VarScope(op))
    \cup UNION {DirectiveErrors(VarScope(op)[op.vars[k].name].dirs, "VARIABLE_DEFINITION",
                                VarScope(op)) : k \in DOMAIN op.vars}
    \cup UNION {DirectiveErrors(bundle.frags[n].dirs, "FRAGMENT_DEFINITION", VarScope(op)) :
                  n \in reachable}

\* Labels are unique over the operation and every fragment of the document;
\* root selections of a mutation or subscription are neither deferred nor
\* streamed.  Only the direct ones are looked at.
DeferStreamErrors(op, frags) ==
    LET all == AllSelections(op.sels) \cup UNION {AllSelections(frags[n].sels) : n \in DOMAIN frags}
        uses == {<<s.loc, n, DirectiveLabel(s.dirs, n)>> :
                   <<s, n>> \in {sn \in all \X {"defer", "stream"} :
                                   Active(sn[1].dirs, sn[2]) /\ DirectiveLabel(sn[1].dirs, sn[2]) # ""}}
    IN  Unless(op.kind # "query" =>
                 \A k \in DOMAIN op.sels :
                    ~Active(op.sels[k].dirs, "defer") /\ ~Active(op.sels[k].dirs, "stream"),
               "DeferOnRoot")
        \cup Unless(\A a, b \in uses : a[3] = b[3] => a = b, "UniqueLabel")

\* What a subscription selects at its root: the fragments that apply by name or
\* interface are opened, each once.
RECURSIVE SubscriptionSelections(_, _, _, _)
SubscriptionSelections(root, sels, frags, within) ==
    UNION {LET s == sels[k] IN
           {s} \cup
           (CASE /\ s.kind = "spread" /\ s.name \in DOMAIN frags \ within
                 /\ FragmentTypeMatches(root, frags[s.name].on) ->
                   SubscriptionSelections(root, frags[s.name].sels, frags, within \cup {s.name})
              [] s.kind = "inline" /\ (s.on = "" \/ FragmentTypeMatches(root, s.on)) ->
                   SubscriptionSelections(root, s.sels, frags, within)
              [] OTHER -> {}) : k \in DOMAIN sels}

SubscriptionErrors(op, root, frags) ==
    LET all    == SubscriptionSelections(root, op.sels, frags, {})
        fields == {s \in all : s.kind = "field"}
    IN  Unless(Cardinality({s.key : s \in fields}) = 1, "SingleRootField")
        \cup Unless(\A s \in fields : s.name \notin Introspection, "SubscriptionIntrospection")
        \cup Unless(\A s \in all : Named1(s.dirs, "skip") = <<>> /\ Named1(s.dirs, "include") = <<>>,
                    "SubscriptionConditional")

OperationErrors(op, bundle) ==
    LET frags     == bundle.frags
        reachable == Reachable(op.sels, frags)
        root      == RootObject(op.kind)
    IN  DefinitionDirectiveErrors(op, bundle, reachable)
        \cup VariableErrors(op, bundle, reachable)
        \cup VariableDefinitionErrors(op)
        \cup DeferStreamErrors(op, frags)
        \cup (IF root = "" THEN {"RootType"}
              ELSE Where(op.kind = "subscription", SubscriptionErrors(op, root, frags))
                   \cup SelectionsErrors(root, op.sels, frags, {}, VarScope(op)))

\* Every spread that validation meets is reachable, so the fragments in use are
\* the reachable ones.
ValidationErrors(bundle) ==
    LET ops  == bundle.ops
        used == UNION {Reachable(ops[k].sels, bundle.frags) : k \in DOMAIN ops}
    IN  OperationNameErrors(ops)
        \cup FragmentDefinitionErrors(bundle.frags)
        \cup UNION {OperationErrors(ops[k], bundle) : k \in DOMAIN ops}
        \cup Unless(DOMAIN bundle.frags \subseteq used, "UnusedFragment")
=============================================================================
