------------------------------ MODULE MCQuery ------------------------------
(***************************************************************************)
(* The instance of QueryProperties that TLC checks: a small schema with    *)
(* every kind of type, documents that use every construct, the same        *)
(* documents with one token dropped, doubled or replaced, and worlds in    *)
(* which one thing goes wrong.                                             *)
(***************************************************************************)
EXTENDS QueryProperties

StrT == Named("String")
IntT == Named("Int")
NoArgs == [n \in {} |-> IntT]
F(t)         == [type |-> t, args |-> NoArgs]
FA(t, args)  == [type |-> t, args |-> args]
A(t)         == [type |-> t, default |-> NoDefault]
AD(t, value) == [type |-> t, default |-> value]
TheInt(k)    == [v |-> "int", int |-> k]
Object(fields, interfaces) == [kind |-> "OBJECT", fields |-> fields, interfaces |-> interfaces]
Scalar(rejects) == [kind |-> "SCALAR", rejects |-> rejects]

Bad == [v |-> "str", str |-> "s:bad"]

MCSchema ==
    [query |-> "Query", mutation |-> "Mutation", subscription |-> "Subscription",
     types |->
       [Query |-> Object(
          [user |-> FA(Named("User"), [id |-> A(NonNull(Named("ID"))), f |-> A(Named("Filter"))]),
           me   |-> F(NonNull(Named("User"))),
           users |-> FA(ListOf(NonNull(Named("User"))),
                        [n |-> AD(IntT, TheInt(1)), tags |-> A(ListOf(NonNull(Named("Tag"))))]),
           node |-> F(Named("Node")),
           found |-> FA(ListOf(Named("Result")), [by |-> A(Named("Pick")), at |-> A(Named("Date"))]),
           __schema |-> F(NonNull(Named("__Schema")))], {}),
        Mutation |-> Object([rename |-> FA(Named("User"), [to |-> A(NonNull(StrT))]),
                             count  |-> F(NonNull(IntT))], {}),
        Subscription |-> Object([tick |-> FA(NonNull(Named("User")), [n |-> A(IntT)]),
                                 beat |-> F(IntT)], {}),
        User |-> Object([id |-> F(NonNull(Named("ID"))), name |-> F(StrT),
                         boss |-> F(NonNull(Named("User"))), pals |-> F(ListOf(Named("User")))],
                        {"Node"}),
        Bot  |-> Object([id |-> F(NonNull(Named("ID"))), model |-> F(StrT)], {"Node"}),
        Node |-> [kind |-> "INTERFACE", fields |-> [id |-> F(NonNull(Named("ID")))],
                  possible |-> {"User", "Bot"}],
        Result |-> [kind |-> "UNION", possible |-> {"User", "Bot"}],
        __Schema |-> Object([description |-> F(StrT)], {}),
        Filter |-> [kind |-> "INPUT_OBJECT", oneOf |-> FALSE,
                    fields |-> [tag |-> AD(Named("Tag"), [v |-> "enum", enum |-> "RED"]),
                                min |-> A(NonNull(IntT)), in |-> A(Named("Pick"))]],
        Pick |-> [kind |-> "INPUT_OBJECT", oneOf |-> TRUE,
                  fields |-> [a |-> A(IntT), b |-> A(StrT)]],
        Tag  |-> [kind |-> "ENUM", values |-> {"RED", "BLUE"}],
        Date |-> Scalar({Bad}), ID |-> Scalar({}), Int |-> Scalar({}), Float |-> Scalar({}),
        String |-> Scalar({}), Boolean |-> Scalar({})],
     directives |-> [auth |-> [locations |-> {"FIELD", "QUERY"}, repeatable |-> FALSE,
                               args |-> [role |-> A(NonNull(Named("Tag")))]]]]

MCIntOf    == ("1" :> 1) @@ ("0" :> 0) @@ ("99" :> 99)
MCStringOf == ("\"x\"" :> "s:x") @@ ("\"y\"" :> "s:y") @@ ("\"bad\"" :> "s:bad")

-----------------------------------------------------------------------------
(* Documents *)

Args      == <<"{", "user", "(", "id", ":", "\"x\"", "f", ":", "{", "min", ":", "1", "in", ":", "{",
               "b", ":", "\"y\"", "}", "}", ")", "{", "n", ":", "name", "}", "}", "EOF">>
Vars      == <<"query", "Q", "(", "$", "i", ":", "ID", "!", "$", "t", ":", "[", "Tag", "!", "]", "=",
               "[", "RED", "]", "$", "b", ":", "Boolean", "=", "true", ")", "{",
               "user", "(", "id", ":", "$", "i", ")", "{", "id", "}",
               "users", "(", "tags", ":", "$", "t", ")", "@", "include", "(", "if", ":", "$", "b", ")",
               "{", "id", "}", "}", "EOF">>
Deep      == <<"{", "me", "{", "boss", "{", "name", "id", "}", "pals", "{", "id", "}", "}", "}", "EOF">>
TooDeep   == <<"{", "me", "{", "boss", "{", "boss", "{", "boss", "{", "boss", "{", "id",
               "}", "}", "}", "}", "}", "}", "EOF">>
Frags     == <<"query", "{", "node", "{", "...", "N", "...", "on", "Bot", "{", "model", "}", "}", "}",
               "fragment", "N", "on", "Node", "{", "id", "...", "U", "}",
               "fragment", "U", "on", "User", "{", "pals", "{", "id", "}", "}", "EOF">>
Unions    == <<"{", "found", "(", "by", ":", "{", "a", ":", "1", "}", ")", "{", "__typename",
               "...", "on", "User", "{", "boss", "{", "id", "}", "}", "}",
               "found", "(", "by", ":", "{", "a", ":", "1", "}", ")", "{",
               "...", "on", "Bot", "@", "skip", "(", "if", ":", "false", ")", "{", "id", "}", "}",
               "}", "EOF">>
Streams   == <<"{", "users", "@", "stream", "(", "initialCount", ":", "1", "label", ":", "\"x\"", ")",
               "{", "id", "...", "@", "defer", "{", "boss", "{", "name", "}", "}", "}",
               "...", "on", "Query", "@", "defer", "(", "label", ":", "\"y\"", ")",
               "{", "me", "{", "id", "}", "node", "{", "id", "}", "}", "}", "EOF">>
Defers    == <<"query", "(", "$", "d", ":", "Boolean", ")", "{", "me", "{", "id",
               "...", "D", "@", "defer", "(", "if", ":", "$", "d", ")", "}", "}",
               "fragment", "D", "on", "User", "{", "boss", "{", "id",
               "...", "@", "defer", "{", "pals", "@", "stream", "{", "id", "}", "}", "}", "}", "EOF">>
Two       == <<"query", "Q", "(", "$", "f", ":", "Filter", "=", "{", "min", ":", "1", "}", ")", "{",
               "user", "(", "id", ":", "1", "f", ":", "$", "f", ")", "{", "id", "}", "}",
               "mutation", "M", "(", "$", "s", ":", "String", "!", ")", "{", "rename", "(", "to", ":",
               "$", "s", ")", "{", "id", "...", "@", "defer", "{", "boss", "{", "id", "}", "}", "}",
               "count", "}", "EOF">>
Change    == <<"mutation", "{", "...", "on", "Mutation", "{", "count", "}", "a", ":", "rename", "(",
               "to", ":", "\"x\"", ")", "{", "boss", "{", "id", "}", "}", "}", "EOF">>
Tick      == <<"subscription", "S", "{", "tick", "(", "n", ":", "1", ")",
               "{", "name", "boss", "{", "id", "}", "}", "}", "EOF">>
Pruned    == <<"{", "me", "{", "name", "...", "@", "defer", "{",
               "boss", "{", "...", "@", "defer", "{", "name", "}", "id", "}", "}",
               "...", "@", "defer", "(", "label", ":", "\"x\"", ")", "{", "pals", "{", "name", "}", "}",
               "}", "}", "EOF">>
Custom    == <<"query", "Q", "@", "auth", "(", "role", ":", "RED", ")", "{",
               "found", "(", "at", ":", "\"bad\"", "by", ":", "{", "a", ":", "99", "}", ")",
               "@", "auth", "(", "role", ":", "BLUE", ")", "{", "__typename", "}", "}", "EOF">>
Schema0   == <<"{", "...", "I", "}", "fragment", "I", "on", "Query",
               "{", "__schema", "{", "description", "}", "}", "EOF">>
Picked    == <<"query", "(", "$", "p", ":", "Pick", "$", "at", ":", "Date", "$", "n", ":", "Int", "=", "1",
               ")", "{", "found", "(", "by", ":", "$", "p", "at", ":", "$", "at", ")", "{", "__typename", "}",
               "users", "(", "n", ":", "$", "n", ")", "{", "id", "}", "}", "EOF">>

Documents == {Args, Vars, Deep, Frags, Unions, Streams, Defers, Two, Change, Tick, Custom, Schema0,
              Picked, Pruned, TooDeep}

\* A document with one token dropped, doubled, or put in the place of another.
Other == {"{", "}", "(", ")", ":", "$", "@", "...", "[", "!", "on", "id", "null", "mutation"}
Edited(p) ==
    LET before(k) == SubSeq(p, 1, k - 1)
        after(k)  == SubSeq(p, k + 1, Len(p))
        places    == 1 .. Len(p) - 1
    IN  {before(k) \o after(k) : k \in places}
        \cup {before(k) \o <<p[k]>> \o <<p[k]>> \o after(k) : k \in places}
        \cup {before(k) \o <<t>> \o after(k) : <<k, t>> \in places \X Other}

-----------------------------------------------------------------------------
(* Worlds and requests *)

Fine == [nil |-> {}, fail |-> {}, bad |-> {}, hole |-> {}, loaders |-> {<<"User", "boss">>},
         concrete |-> [Node |-> "User", Result |-> "Bot"], dispatch |-> TRUE]

Worlds ==
    {Fine,
     [Fine EXCEPT !.nil = {<<"User", "boss">>}],
     [Fine EXCEPT !.nil = {<<"User", "id">>, <<"User", "name">>}],
     [Fine EXCEPT !.fail = {<<"User", "boss">>}, !.concrete.Node = "Bot"],
     [Fine EXCEPT !.fail = {<<"Query", "me">>, <<"Mutation", "count">>}],
     [Fine EXCEPT !.bad = {<<"User", "id">>}, !.concrete.Result = "User"],
     [Fine EXCEPT !.hole = {<<"Query", "users">>, <<"User", "pals">>}],
     [Fine EXCEPT !.concrete = [Node |-> "?", Result |-> "?"]],
     [Fine EXCEPT !.loaders = {<<"Query", "node">>, <<"User", "pals">>, <<"Query", "found">>,
                               <<"Mutation", "rename">>}],
     [Fine EXCEPT !.loaders = {<<"User", "pals">>}, !.dispatch = FALSE]}

Plain  == [batch |-> FALSE, wide |-> FALSE, guarded |-> FALSE, introspection |-> TRUE,
           strict |-> FALSE, maxRoots |-> 0, maxSelections |-> 0, maxAliases |-> 0]
Modes  == {[Plain EXCEPT !.batch = b, !.wide = w] : <<b, w>> \in BOOLEAN \X BOOLEAN}
Strict == [Plain EXCEPT !.guarded = TRUE, !.introspection = FALSE, !.strict = TRUE,
                        !.maxRoots = 2, !.maxSelections = 6, !.maxAliases = 1]

Num(k)  == [v |-> "num", num |-> k]
StrV(s) == [v |-> "str", str |-> s]
BoolV(b) == [v |-> "bool", bool |-> b]
NoVars  == [n \in {} |-> NullValue]

VarsFor(p) ==
    CASE p = Vars   -> {NoVars, [i |-> StrV("s:x")], [i |-> NullValue], [i |-> StrV("s:x"), b |-> NullValue],
                        [i |-> StrV("s:x"), t |-> StrV("RED"), b |-> BoolV(FALSE)],
                        [i |-> StrV("s:x"), t |-> [v |-> "list", list |-> <<NullValue>>]],
                        [i |-> Num(1)], [i |-> StrV("s:x"), z |-> Num(1)]}
      [] p = Defers -> {NoVars, [d |-> BoolV(FALSE)], [d |-> BoolV(TRUE)]}
      [] p = Two    -> {NoVars, [s |-> StrV("s:y")]}
      [] p = Picked -> {NoVars, [p |-> [v |-> "obj", obj |-> [a |-> Num(1)]], at |-> StrV("s:x")],
                        [p |-> [v |-> "obj", obj |-> [a |-> NullValue]]],
                        [p |-> [v |-> "obj", obj |-> [a |-> Num(1), b |-> StrV("s:x")]]],
                        [at |-> Bad], [n |-> Num(99)], [n |-> NullValue]}
      [] OTHER      -> {NoVars}
EditVars(p) == VarsFor(p) \cap {NoVars, [i |-> StrV("s:x")], [s |-> StrV("s:y")]}
NameFor(p) == IF p = Two THEN "M" ELSE ""

Arrival(docs, names, given, via, accepts, worlds, configs) ==
    [docs |-> docs, names |-> names, vars |-> given, vias |-> via, accepts |-> accepts,
     worlds |-> worlds, configs |-> configs]

Via(p) == IF p[1] = "subscription" THEN "STREAM" ELSE "POST"

\* Every edited document through the executor; every document in every world and
\* mode; the transport's choices; a guarded executor with limits.
MCArrivals ==
    UNION {{Arrival(Edited(p), {NameFor(p)}, EditVars(p), {Via(p)}, {{"json"}},
                    {Fine}, {Plain}),
            Arrival({p}, {NameFor(p)}, VarsFor(p), {Via(p)}, {{"json"}, {"json", "multipart"}},
                    Worlds, Modes),
            Arrival({p}, {"", "Q", "M", "S"}, VarsFor(p), {"GET", "POST", "STREAM"},
                    SUBSET {"json", "multipart"}, {Fine}, {Strict})} : p \in Documents}
=============================================================================
