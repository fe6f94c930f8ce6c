---------------------------- MODULE InputCoercion ----------------------------
(***************************************************************************)
(* From the variables of a request and the literals of a document to the   *)
(* arguments a resolver receives: src/exec/input_coercion.go,              *)
(* operation_variables.go, variable_binding.go, input_value_transform.go.  *)
(*                                                                         *)
(* A variable that has a value becomes [v |-> "bound", value |-> ...] where *)
(* it stands in the document; one that has none disappears from argument   *)
(* maps and input objects and is null in a list.  "num" is a JSON number   *)
(* without a fraction, which Go reads as a float64.  A schema's own scalar *)
(* has the set of values its parser rejects.                               *)
(***************************************************************************)
EXTENDS QueryValidation

CONSTANT MaxInt     \* stands for math.MaxInt32

Reject    == [ok |-> FALSE]
Accept(x) == [ok |-> TRUE, value |-> x]
AcceptIf(cond, x) == IF cond THEN Accept(x) ELSE Reject

InRange(k)  == -MaxInt - 1 <= k /\ k <= MaxInt
IdText(k)   == [v |-> "str", str |-> CHOOSE t \in DOMAIN IntOf : IntOf[t] = k]

CoerceScalar(name, raw) ==
    CASE raw = NullValue    -> Accept(NullValue)
      [] raw # NullValue /\ name = "Int" ->
           CASE raw.v = "int" -> AcceptIf(InRange(raw.int), raw)
             [] raw.v = "num" -> AcceptIf(InRange(raw.num), [v |-> "int", int |-> raw.num])
             [] OTHER         -> Reject
      [] raw # NullValue /\ name = "Float" ->
           CASE raw.v = "int" -> Accept([v |-> "num", num |-> raw.int])
             [] OTHER         -> AcceptIf(raw.v \in {"num", "float"}, raw)
      [] raw # NullValue /\ name = "Boolean" -> AcceptIf(raw.v = "bool", raw)
      [] raw # NullValue /\ name = "String"  -> AcceptIf(raw.v = "str", raw)
      [] raw # NullValue /\ name = "ID" ->
           CASE raw.v = "str" -> Accept(raw)
             [] raw.v = "int" -> Accept(IdText(raw.int))
             [] OTHER         -> Reject
      [] OTHER -> Accept(raw)

\* An enum takes the name of one of its values, written or sent as a string.
CoerceEnum(name, raw) ==
    CASE raw = NullValue -> Accept(NullValue)
      [] raw.v = "enum"  -> AcceptIf(raw.enum \in Def(name).values, raw)
      [] raw.v = "str"   -> AcceptIf(raw.str \in Def(name).values, [v |-> "enum", enum |-> raw.str])
      [] OTHER           -> Reject

\* The values of a map of coercions, when none was rejected.
AllAccepted(results) ==
    IF \E n \in DOMAIN results : ~results[n].ok THEN Reject
    ELSE Accept([n \in DOMAIN results |-> results[n].value])

RECURSIVE CoerceInput(_, _, _)

\* coerceInputObjectUsing.  parse: custom scalars are parsed, which is so for
\* variables; the default of a field is not.
CoerceObject(name, raw, parse) ==
    IF raw = NullValue THEN Accept(NullValue)
    ELSE IF raw.v # "obj" THEN Reject
    ELSE LET fields  == Def(name).fields
             given   == DOMAIN raw.obj
             present == {n \in DOMAIN fields : n \in given \/ fields[n].default # NoDefault}
             out     == AllAccepted([n \in present |->
                          IF n \in given THEN CoerceInput(fields[n].type, raw.obj[n], parse)
                          ELSE CoerceInput(fields[n].type, fields[n].default, FALSE)])
         IN  IF \/ ~(given \subseteq DOMAIN fields)
                \/ \E n \in DOMAIN fields \ present : IsNonNull(fields[n].type)
                \/ ~out.ok
             THEN Reject
             ELSE AcceptIf(Def(name).oneOf => /\ Cardinality(present) = 1
                                              /\ \A n \in present : out.value[n] # NullValue,
                           [v |-> "obj", obj |-> out.value])

\* coerceInputValueUsing.  A value that was coerced as a variable is taken as
\* it is, unless it is null; one that is not a list is a list of itself.
CoerceInput(type, raw, parse) ==
    CASE raw.v = "bound" ->
           IF raw.value # NullValue THEN Accept(raw.value) ELSE CoerceInput(type, NullValue, parse)
      [] raw.v # "bound" /\ IsNonNull(type) ->
           IF raw = NullValue THEN Reject
           ELSE LET r == CoerceInput(type.of, raw, parse)
                IN  IF r.ok /\ r.value = NullValue THEN Reject ELSE r
      [] raw.v # "bound" /\ IsList(type) ->
           CASE raw = NullValue -> Accept(NullValue)
             [] raw.v = "list" ->
                  LET items == AllAccepted([k \in DOMAIN raw.list |->
                                              CoerceInput(type.of, raw.list[k], parse)])
                  IN  IF items.ok THEN Accept([v |-> "list", list |-> items.value]) ELSE Reject
             [] OTHER ->
                  LET item == CoerceInput(type.of, raw, parse)
                  IN  IF item.ok THEN Accept([v |-> "list", list |-> <<item.value>>]) ELSE Reject
      [] OTHER ->
           CASE Kind(type.name) = "INPUT_OBJECT" -> CoerceObject(type.name, raw, parse)
             [] Kind(type.name) = "ENUM"         -> CoerceEnum(type.name, raw)
             [] Kind(type.name) = "SCALAR" /\ parse /\ raw \in Def(type.name).rejects -> Reject
             [] OTHER                            -> CoerceScalar(type.name, raw)

\* coerceArguments: a missing argument takes its default or stays missing.
CoerceArguments(defs, given) ==
    LET present == {n \in DOMAIN defs : n \in DOMAIN given \/ defs[n].default # NoDefault}
    IN  IF \E n \in DOMAIN defs \ present : IsNonNull(defs[n].type) THEN Reject
        ELSE AllAccepted([n \in present |->
               CoerceInput(defs[n].type, IF n \in DOMAIN given THEN given[n] ELSE defs[n].default,
                           FALSE)])

-----------------------------------------------------------------------------
(* Variables *)

\* The value of a declared variable: provided, or the default of the operation.
VariableInput(def, provided) ==
    IF def.name \in DOMAIN provided THEN provided[def.name] ELSE def.default

\* coerceOperationVariables: the values by name, or Reject.
CoerceVariables(op, provided) ==
    LET scope   == VarScope(op)
        raw(n)  == VariableInput(scope[n], provided)
        present == {n \in DOMAIN scope : raw(n) # NoDefault}
        out     == AllAccepted([n \in present |->
                     CoerceInput(Nullable(scope[n].type), raw(n), TRUE)])
    IN  IF \/ \E n \in DOMAIN scope : IsNonNull(scope[n].type) /\ raw(n) \in {NoDefault, NullValue}
           \/ ~out.ok
        THEN Reject
        ELSE Accept([n \in present |-> [v |-> "bound", value |-> out.value[n]]])

Absent == [v |-> "absent"]

RECURSIVE BindValue(_, _)

\* transformInputValueMap: an entry whose variable has no value is dropped.
BindMap(map, values) ==
    LET bound == [n \in DOMAIN map |-> BindValue(map[n], values)]
    IN  [n \in {n \in DOMAIN map : bound[n] # Absent} |-> bound[n]]

BindValue(value, values) ==
    CASE value.v = "var"  -> IF value.var \in DOMAIN values THEN values[value.var] ELSE Absent
      [] value.v = "obj"  -> [v |-> "obj", obj |-> BindMap(value.obj, values)]
      [] value.v = "list" ->
           [v |-> "list", list |-> [k \in DOMAIN value.list |->
              LET item == BindValue(value.list[k], values)
              IN  IF item = Absent THEN NullValue ELSE item]]
      [] OTHER            -> value

BindDirectives(dirs, values) ==
    [k \in DOMAIN dirs |-> [dirs[k] EXCEPT !.args = BindMap(@, values)]]

RECURSIVE BindSelections(_, _)
BindSelections(sels, values) ==
    [k \in DOMAIN sels |->
       LET s == [sels[k] EXCEPT !.dirs = BindDirectives(@, values),
                                !.sels = BindSelections(@, values)]
       IN  IF s.kind = "field" THEN [s EXCEPT !.args = BindMap(@, values)] ELSE s]

BindFragments(frags, values) ==
    [n \in DOMAIN frags |-> [frags[n] EXCEPT !.sels = BindSelections(@, values),
                                             !.dirs = BindDirectives(@, values)]]
=============================================================================
