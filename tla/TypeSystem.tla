----------------------------- MODULE TypeSystem -----------------------------
(***************************************************************************)
(* The type system every stage of a request consults: src/schema/types.go  *)
(* as the validator and the executor read it.                              *)
(*                                                                         *)
(* Schema is the built schema:                                             *)
(*   query, mutation, subscription  the names of the root objects, "" for  *)
(*                                  a root the schema does not have;       *)
(*   types       name -> definition.  A definition has a kind; an object   *)
(*               or interface has fields (name -> [type, args, default]),  *)
(*               an interface or union has possible (names of objects), an *)
(*               object implements interfaces, an enum has values, an      *)
(*               input object has fields and oneOf;                        *)
(*   directives  the directives the schema defines.                        *)
(* Where Go compares printed type names ("[Int!]") this compares the       *)
(* structure of the reference.                                             *)
(***************************************************************************)
EXTENDS Naturals, Sequences, FiniteSets

CONSTANT Schema

Named(n)   == [ref |-> "named", name |-> n]
ListOf(t)  == [ref |-> "list", of |-> t]
NonNull(t) == [ref |-> "nonnull", of |-> t]

IsNonNull(t) == t.ref = "nonnull"
IsList(t)    == t.ref = "list"

\* The type without its outermost "!" (strings.TrimSuffix(name, "!")).
Nullable(t) == IF IsNonNull(t) THEN t.of ELSE t

NoDefault == [v |-> "none"]

Known(n) == n \in DOMAIN Schema.types
Def(n)   == Schema.types[n]
Kind(n)  == IF Known(n) THEN Def(n).kind ELSE "UNKNOWN"

RECURSIVE InnerNamedType(_)
InnerNamedType(t) == IF t.ref = "named" THEN t.name ELSE InnerNamedType(t.of)

IsInputType(n)     == Kind(n) \in {"SCALAR", "ENUM", "INPUT_OBJECT"}
IsCompositeType(n) == Kind(n) \in {"OBJECT", "INTERFACE", "UNION"}
IsLeafType(n)      == Kind(n) \in {"SCALAR", "ENUM"}

\* The root object of an operation kind, "" when the schema has none.
RootObject(kind) ==
    CASE kind = "query"        -> Schema.query
      [] kind = "mutation"     -> Schema.mutation
      [] kind = "subscription" -> Schema.subscription

\* selectionField: unions have no fields of their own.
HasField(parent, name) ==
    Kind(parent) \in {"OBJECT", "INTERFACE"} /\ name \in DOMAIN Def(parent).fields
FieldOf(parent, name) == Def(parent).fields[name]

PossibleObjects(n) ==
    IF Kind(n) \in {"INTERFACE", "UNION"} THEN Def(n).possible ELSE {}

CompositeTypesOverlap(left, right) ==
    \/ left = right
    \/ Kind(left) = "OBJECT" /\ left \in PossibleObjects(right)
    \/ /\ Kind(left) # "OBJECT" /\ Kind(right) = "OBJECT"
       /\ right \in PossibleObjects(left)
    \/ /\ Kind(left) # "OBJECT" /\ Kind(right) # "OBJECT"
       /\ PossibleObjects(left) \cap PossibleObjects(right) # {}

\* Whether a fragment on `condition` applies to the concrete object: its own
\* name, an interface it implements, a union or interface it is a member of.
FragmentTypeMatches(object, condition) ==
    condition = object \/ condition \in Def(object).interfaces
MatchesTypeCondition(object, condition) ==
    FragmentTypeMatches(object, condition) \/ object \in PossibleObjects(condition)

\* Whether a variable of the declared type may stand where `expected` is asked.
RECURSIVE VariableTypeAllowed(_, _)
VariableTypeAllowed(declared, expected) ==
    \/ declared = expected
    \/ /\ declared # expected
       /\ \/ /\ IsNonNull(expected) /\ IsNonNull(declared)
             /\ VariableTypeAllowed(declared.of, expected.of)
          \/ /\ ~IsNonNull(expected) /\ IsNonNull(declared)
             /\ VariableTypeAllowed(declared.of, expected)
          \/ /\ ~IsNonNull(expected) /\ ~IsNonNull(declared)
             /\ IsList(expected) /\ IsList(declared)
             /\ VariableTypeAllowed(declared.of, expected.of)
=============================================================================
