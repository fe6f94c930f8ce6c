----------------------------- MODULE MCServing -----------------------------
(***************************************************************************)
(* The server for TLC: two handlers, three requests, six texts of which    *)
(* two differ in their line ends only, and caches with room for none, one  *)
(* or two entries.                                                         *)
(***************************************************************************)
EXTENDS Serving

MCTexts    == {"q", "q crlf", "p", "m", "s", "bad"}
MCNorm     == [t \in MCTexts |-> IF t = "q crlf" THEN "q" ELSE t]
MCKind     == [t \in MCTexts |-> CASE t = "m" -> "mutation" [] t = "s" -> "subscription"
                                   [] t = "bad" -> "none" [] OTHER -> "query"]
MCDeferred == {"p"}
MCHuge     == {"m"}

Plain(text)          == [text |-> text, pq |-> "absent", hash |-> "", variables |-> "none"]
Hashed(text, hash)   == [text |-> text, pq |-> "hash", hash |-> hash, variables |-> "none"]
ByHash(hash)         == Hashed("", hash)

Request == [path |-> "graphql", method |-> "POST", upgrade |-> FALSE, events |-> FALSE,
            hasAccept |-> FALSE, accept |-> {}, encodings |-> {}, content |-> "json", size |-> 1,
            decodes |-> TRUE, batch |-> FALSE, items |-> <<Plain("q")>>]

Post(item)   == [Request EXCEPT !.items = <<item>>]
Get(item)    == [Post(item) EXCEPT !.method = "GET", !.content = "none"]
Batch(items) == [Request EXCEPT !.items = items, !.batch = TRUE]
Accepts(r, ranges) == [r EXCEPT !.hasAccept = TRUE, !.accept = ranges]
Range1(range, q) == [range |-> range, q |-> q]

Routed ==
    {[Request EXCEPT !.path = "favicon", !.method = "GET"],
     [Request EXCEPT !.path = "sdl", !.method = "GET"],
     [Request EXCEPT !.path = "playground", !.method = "GET"],
     [Request EXCEPT !.method = "OPTIONS"],
     [Request EXCEPT !.path = "subscriptions", !.method = "GET", !.upgrade = TRUE],
     [Request EXCEPT !.method = "GET", !.upgrade = TRUE, !.items = <<Plain("")>>],
     [Request EXCEPT !.path = "subscriptions", !.events = TRUE],
     [Request EXCEPT !.events = TRUE],
     Get(Plain(""))}

Refused ==
    {Accepts(Post(Plain("q")), {Range1("json", 0), Range1("*/*", 0)}),
     [Request EXCEPT !.content = "none"],
     [Request EXCEPT !.size = 3],
     [Request EXCEPT !.decodes = FALSE]}

Served ==
    {Post(Plain("q")), Post(Plain("m")), Post(Plain("s")), Post(Plain("bad")), Get(Plain("m")),
     Get(ByHash("q")), Post(ByHash("p")), Post(Hashed("q", "q")), Post(Hashed("q crlf", "q crlf")),
     Post(Hashed("p", "p")), Post(Hashed("p", "q")), Post(Hashed("m", "m")),
     Post([Plain("q") EXCEPT !.pq = "invalid"]),
     Post([Plain("q") EXCEPT !.pq = "blank", !.variables = "some"]),
     Post([Plain("q") EXCEPT !.variables = "oversized"]),
     Accepts(Post(Plain("bad")), {Range1("graphql-response+json", 10)}),
     Accepts(Post(Plain("p")), {Range1("multipart/mixed", 10), Range1("*/*", 5)}),
     Accepts(Post(Plain("q")), {Range1("multipart/mixed", 10)}),
     [Post(Plain("m")) EXCEPT !.encodings = {[coding |-> "identity", q |-> 0]}],
     Accepts([Post(Plain("p")) EXCEPT !.encodings = {[coding |-> "*", q |-> 0]}],
             {Range1("multipart/mixed", 10)}),
     [Post(Plain("q")) EXCEPT !.encodings = {[coding |-> "gzip", q |-> 5], [coding |-> "*", q |-> 0]}],
     [Post(ByHash("q")) EXCEPT !.content = "multipart/form-data"],
     Batch(<<>>),
     Batch(<<Hashed("p", "p"), ByHash("q")>>),
     Batch(<<Plain("m"), Plain("bad"), Plain("q crlf")>>),
     Accepts(Batch(<<Plain("q")>>), {Range1("multipart/mixed", 10)})}

MCInputs == Routed \cup Refused \cup Served

Config == [apqSize |-> 1, lexLimit |-> 1, docLimit |-> 1, strict |-> FALSE, require |-> FALSE,
           persisted |-> [k \in {} |-> ""], maxBytes |-> 2, gzip |-> TRUE, sdl |-> TRUE,
           separate |-> FALSE, transports |-> <<"websocket", "sse">>]

MCConfigs ==
    {Config,
     [Config EXCEPT !.apqSize = 2, !.lexLimit = 2, !.docLimit = 2, !.separate = TRUE],
     [Config EXCEPT !.apqSize = 0, !.lexLimit = 0, !.strict = TRUE, !.require = TRUE,
                    !.persisted = [k \in {"q"} |-> "q crlf"], !.gzip = FALSE, !.sdl = FALSE]}
=============================================================================
