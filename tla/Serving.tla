------------------------------- MODULE Serving -------------------------------
(***************************************************************************)
(* Concurrent requests to one server, and the three caches they share:     *)
(*   src/server/server.go         which transport serves a request,        *)
(*   src/http/http_transport.go   Serve of the HTTP transport,             *)
(*   src/http/decode.go, apq.go   bodies, persisted queries and their ring,*)
(*   src/core/httpmedia.go        Accept and Content-Type,                 *)
(*   src/exec/executor.go         the token and the document cache.        *)
(* A step is what a handler does between two of its accesses to a cache.   *)
(* What a document executes to is in QueryService; here the outcome of an  *)
(* operation is the document that was executed.  A text stands for its own *)
(* SHA-256 hash.                                                           *)
(***************************************************************************)
EXTENDS Naturals, Sequences, FiniteSets, FiniteSetsExt

CONSTANTS Handlers,     \* goroutines of net/http
          Texts,        \* query texts
          Norm,         \* Norm[t]: t without byte order mark and carriage returns
          Kind,         \* Kind[t]: "query", "mutation", "subscription", or "none" when t does not lex
          Deferred,     \* the documents with @defer or @stream
          Huge,         \* the texts above maxAPQQueryBytes
          Inputs,       \* requests that clients send
          Configs,      \* configurations of the server
          MaxRequests   \* bound: requests in a behaviour

\* One operation of a body; "" is a text, or a hash, that is blank or missing.
Items == [text : Texts \cup {""}, pq : {"absent", "blank", "invalid", "hash"},
          hash : Texts \cup {""}, variables : {"none", "some", "oversized"}]

\* A text that consists of nothing but what Norm takes away has a name too, which
\* is not "".  The lexer only sees the normal form, so both forms have one kind,
\* and no document comes of no text.
ASSUME TextsAssumption ==
    /\ {"", "refused", "not found"} \cap Texts = {}
    /\ Norm \in [Texts -> Texts]
    /\ Kind \in [Texts -> {"query", "mutation", "subscription", "none"}]
    /\ \A t \in Texts : Kind[Norm[t]] = Kind[t]
    /\ Deferred \subseteq Texts

ASSUME InputsAssumption ==
    \A r \in Inputs : /\ r.items \in Seq(Items)
                      /\ r.batch \in BOOLEAN
                      /\ ~r.batch => Len(r.items) = 1

ASSUME ConfigsAssumption ==
    \A c \in Configs :
        /\ c.apqSize \in Nat /\ c.lexLimit \in Nat /\ c.docLimit \in Nat
        /\ \A hash \in DOMAIN c.persisted : c.persisted[hash] \in Texts \cup {""}
        /\ c.transports \in Seq({"websocket", "sse"})

VARIABLES
    config,     \* server.Config, with what exec and http keep of it
    queries,    \* persistedQueryCache.queries
    ring,       \* persistedQueryCache.order, "" where nothing was stored yet
    next,       \* persistedQueryCache.next, from 1
    tokens,     \* Executor.lexTokenCache
    tokenOrder, \* Executor.lexCacheOrder
    docs,       \* Executor.documentCache
    docOrder,   \* Executor.documentCacheOrder
    arrived,    \* requests so far
    at,         \* at[h]: where handler h is
    goal,       \* goal[h]: what it parses a document for: "probe" or "execute"
    req,        \* req[h]: its request
    bodies,     \* bodies[h]: the texts it decoded
    parts,      \* parts[h]: the outcomes of its operations so far
    found,      \* found[h]: the document it has parsed and not yet kept
    status      \* status[h]: the HTTP status it answered, or who took the request over

apq    == <<queries, ring, next>>
lexing == <<tokens, tokenOrder>>
parsed == <<docs, docOrder>>
caches == <<apq, lexing, parsed>>
vars   == <<config, caches, arrived, at, goal, req, bodies, parts, found, status>>

Nothing == [k \in {} |-> ""]
Without(map, key)   == [k \in DOMAIN map \ {key} |-> map[k]]
With(map, key, val) == [k \in DOMAIN map \cup {key} |-> IF k = key THEN val ELSE map[k]]

Init ==
    /\ config \in Configs
    /\ queries = Nothing /\ ring = [i \in 1 .. config.apqSize |-> ""] /\ next = 1
    /\ tokens = Nothing /\ tokenOrder = <<>>
    /\ docs = Nothing /\ docOrder = <<>>
    /\ arrived = 0
    /\ at = [h \in Handlers |-> "idle"] /\ goal = [h \in Handlers |-> ""]
    /\ req = [h \in Handlers |-> <<>>] /\ bodies = [h \in Handlers |-> <<>>]
    /\ parts = [h \in Handlers |-> <<>>] /\ found = [h \in Handlers |-> ""]
    /\ status = [h \in Handlers |-> ""]

Goto(h, place) == at' = [at EXCEPT ![h] = place]

-----------------------------------------------------------------------------
(* server.go: which transport *)

Matches(transport, r) ==
    CASE transport = "websocket" -> r.upgrade
      [] transport = "sse"       -> r.method \in {"GET", "POST"} /\ r.events
      [] transport = "http"      -> \/ r.method = "POST"
                                    \/ /\ r.method = "GET"
                                       /\ r.items[1].text # "" \/ r.items[1].pq # "absent"

\* The first transport of a chain that takes the request.
Taker(chain, r) ==
    LET takers == {i \in DOMAIN chain : Matches(chain[i], r)}
    IN  IF takers = {} THEN "404" ELSE chain[Min(takers)]

\* New: with a path of their own the streaming transports leave the main chain.
MainChain == IF config.separate THEN <<"http">> ELSE config.transports \o <<"http">>

Responder(r) ==
    CASE r.path = "favicon" /\ r.method = "GET"               -> "204"
      [] r.path = "sdl" /\ r.method = "GET" /\ config.sdl     -> "sdl"
      [] r.path = "playground" /\ r.method = "GET"            -> "playground"
      [] r.path = "graphql" /\ r.method = "OPTIONS"           -> "204"
      [] r.path = "subscriptions" /\ config.separate          -> Taker(config.transports, r)
      [] r.path = "graphql" /\ r.method # "OPTIONS"           -> Taker(MainChain, r)
      [] OTHER                                                -> "404"

-----------------------------------------------------------------------------
(* httpmedia.go and http_transport.go: negotiation *)

\* Ranges of the Accept header that cover a type, by rising specificity.
Covering(type) == <<"*/*", "application/*", type>>

\* The quality of the most specific range that covers the type, in tenths; a
\* type that no range covers is as good as one that is excluded.
Preference(accept, type) ==
    LET given == {i \in 1 .. 3 : \E a \in accept : a.range = Covering(type)[i]}
    IN  IF given = {} THEN 0
        ELSE Max({a.q : a \in {b \in accept : b.range = Covering(type)[Max(given)]}})

\* The media type of the response, "" when none is accepted.
ResponseType(r) ==
    LET graphql == Preference(r.accept, "graphql-response+json")
        json    == Preference(r.accept, "json")
    IN  IF ~r.hasAccept THEN "json"
        ELSE IF graphql > 0 /\ graphql >= json THEN "graphql-response+json"
        ELSE IF json > graphql THEN "json"
        ELSE ""

MultipartAccepted(r) == \E a \in r.accept : a.range = "multipart/mixed" /\ a.q > 0

\* negotiateEncoding: is there a coding the response can be written in?
EncodingAccepted(r) ==
    LET q(coding)  == LET of(c) == {a.q : a \in {b \in r.encodings : b.coding = c}}
                      IN  IF of(coding) # {} THEN Max(of(coding))
                          ELSE IF of("*") # {} THEN Max(of("*")) ELSE 99
        offered    == {c \in {"gzip"} : config.gzip /\ q(c) \in 1 .. 10}
    IN  r.encodings = {} \/ offered # {} \/ q("identity") > 0

\* Serve, before the body is read: the status of a refusal, or "".
Refusal(r) ==
    IF ResponseType(r) = "" /\ ~MultipartAccepted(r) THEN "406"
    ELSE IF r.method = "POST" /\ r.content \notin {"json", "multipart/form-data"} THEN "415"
    ELSE IF r.size > config.maxBytes THEN "413"
    ELSE IF ~r.decodes THEN "400"
    ELSE ""

-----------------------------------------------------------------------------
(* decode.go: persisted queries *)

\* A hash that comes with a text has to be the text's.
HashChecked == config.strict \/ config.apqSize > 0

\* Mutant: a hash that comes with a text is not compared with it.
ResolveUnverified(item) ==
    CASE item.pq \in {"absent", "blank"} -> IF config.require THEN "refused" ELSE item.text
      [] item.pq = "invalid"             -> "refused"
      [] item.pq = "hash" /\ item.text # "" -> item.text
      [] item.pq = "hash" /\ item.text = "" ->
            IF item.hash \in DOMAIN queries THEN queries[item.hash] ELSE "not found"

\* The text of one item, or the refusal.
Resolve(item) ==
    CASE item.pq \in {"absent", "blank"} -> IF config.require THEN "refused" ELSE item.text
      [] item.pq = "invalid"             -> "refused"
      [] item.pq = "hash" /\ item.text # "" ->
            IF \/ HashChecked /\ item.hash # item.text
               \/ config.apqSize > 0 /\ item.text \in Huge
            THEN "refused" ELSE item.text
      [] item.pq = "hash" /\ item.text = "" ->
            IF item.hash \in DOMAIN config.persisted THEN config.persisted[item.hash]
            ELSE IF item.hash \in DOMAIN queries THEN queries[item.hash]
            ELSE IF config.apqSize > 0 THEN "not found" ELSE "refused"

Registers(item) == item.pq = "hash" /\ item.text # "" /\ config.apqSize > 0

\* persistedQueryCache.store, under its lock.
StoreQuery(hash, text) ==
    IF hash \in DOMAIN queries THEN UNCHANGED apq
    ELSE /\ queries' = With(Without(queries, ring[next]), hash, text)
         /\ ring' = [ring EXCEPT ![next] = hash]
         /\ next' = (next % config.apqSize) + 1

\* Mutant: nobody looks whether the key came in meanwhile.
StoreDocumentUnchecked(key, bundle) ==
    LET full == Len(docOrder) >= config.docLimit
        kept == IF full THEN Without(docs, Head(docOrder)) ELSE docs
    IN  /\ docs' = With(kept, key, bundle)
        /\ docOrder' = Append(IF full THEN Tail(docOrder) ELSE docOrder, key)

\* parseBundle, from its second lock on.
StoreDocument(key, bundle) ==
    LET full == Len(docOrder) >= config.docLimit
        kept == IF full THEN Without(docs, Head(docOrder)) ELSE docs
    IN  IF key \in DOMAIN docs THEN UNCHANGED parsed
        ELSE /\ docs' = With(kept, key, bundle)
             /\ docOrder' = Append(IF full THEN Tail(docOrder) ELSE docOrder, key)

\* sharedLexNormalized, from its second lock on.
StoreTokens(source) ==
    LET full == Len(tokenOrder) >= config.lexLimit
        kept == IF full THEN Without(tokens, Head(tokenOrder)) ELSE tokens
    IN  IF source \in DOMAIN tokens THEN UNCHANGED lexing
        ELSE /\ tokens' = With(kept, source, source)
             /\ tokenOrder' = Append(IF full THEN Tail(tokenOrder) ELSE tokenOrder, source)

-----------------------------------------------------------------------------
(* One request *)

Answer(h, code) == Goto(h, "answered") /\ status' = [status EXCEPT ![h] = code]

\* serveHTTP, then Serve up to the body.
Arrive(h, r) ==
    /\ at[h] = "idle" /\ arrived < MaxRequests
    /\ arrived' = arrived + 1
    /\ req' = [req EXCEPT ![h] = r]
    /\ IF Responder(r) # "http" THEN Answer(h, Responder(r))
       ELSE IF Refusal(r) # "" THEN Answer(h, Refusal(r))
       ELSE Goto(h, "decoding") /\ UNCHANGED status
    /\ UNCHANGED <<config, caches, goal, bodies, parts, found>>

\* One item of the body; the items before a refused one stay registered.  A
\* multipart form does not look at the extensions.
Decode(h) ==
    LET done == Len(bodies[h])
        item == req[h].items[done + 1]
        form == req[h].content = "multipart/form-data" /\ req[h].method = "POST"
        text == IF form THEN item.text ELSE Resolve(item)
    IN  /\ at[h] = "decoding" /\ done < Len(req[h].items)
        /\ IF item.variables = "oversized" \/ text \in {"refused", "not found", ""}
           THEN /\ Answer(h, IF item.variables # "oversized" /\ text = "not found"
                             THEN "not found" ELSE "400")
                /\ UNCHANGED <<apq, bodies>>
           ELSE /\ bodies' = [bodies EXCEPT ![h] = Append(@, text)]
                /\ IF Registers(item) /\ ~form THEN StoreQuery(item.hash, text) ELSE UNCHANGED apq
                /\ UNCHANGED <<at, status>>
        /\ UNCHANGED <<config, lexing, parsed, arrived, goal, req, parts, found>>

Item(h)   == Len(parts[h]) + 1
Text(h)   == bodies[h][Item(h)]
Source(h) == Norm[Text(h)]

\* responseStatus, of a single operation that was not executed.
ErrorStatus(h) ==
    /\ ~req[h].batch /\ parts[h][1].outcome = "error"
    /\ ResponseType(req[h]) = "graphql-response+json"

Decoded(h) ==
    /\ at[h] = "decoding" /\ Len(bodies[h]) = Len(req[h].items)
    /\ IF req[h].batch /\ ResponseType(req[h]) = "" THEN Answer(h, "406")
       ELSE Goto(h, "next") /\ UNCHANGED status
    /\ UNCHANGED <<config, caches, arrived, goal, req, bodies, parts, found>>

\* writeIncremental has sent the parts as they came, and asks for no coding.
Streamed(h) == \E i \in DOMAIN parts[h] : parts[h][i].outcome = "streamed"

\* The loop over the operations, and the answer after the last one.
NextOperation(h) ==
    /\ at[h] = "next"
    /\ IF Item(h) <= Len(bodies[h])
       THEN Goto(h, "kind") /\ UNCHANGED status
       ELSE Answer(h, IF ~EncodingAccepted(req[h]) /\ ~Streamed(h) THEN "406"
                      ELSE IF ErrorStatus(h) THEN "400" ELSE "200")
    /\ UNCHANGED <<config, caches, arrived, goal, req, bodies, parts, found>>

\* The operation has its outcome.
Conclude(h, outcome, document) ==
    /\ parts' = [parts EXCEPT ![h] = Append(@, [outcome |-> outcome, document |-> document])]
    /\ Goto(h, "next")
    /\ UNCHANGED <<goal, status>>

\* A document is wanted: to look for @defer and @stream, or to execute it.
Want(h, aim) ==
    /\ goal' = [goal EXCEPT ![h] = aim]
    /\ Goto(h, "parse")
    /\ UNCHANGED <<parts, status>>

\* Serve, when it was told the kind.  Of a single operation whose kind cannot be
\* told the executor reports the error.
Dispatch(h) ==
    LET kind   == Kind[Text(h)]
        barred == kind = "subscription" \/ (kind = "mutation" /\ req[h].method = "GET")
    IN  IF req[h].batch
        THEN IF kind = "query" THEN Want(h, "execute") ELSE Conclude(h, "refused", "")
        ELSE IF barred THEN Answer(h, "405") /\ UNCHANGED <<goal, parts>>
        ELSE Want(h, IF MultipartAccepted(req[h]) THEN "probe" ELSE "execute")

\* OperationKind: no token cache is kept, or it has the source, or it has not.
KindKnown(h) ==
    /\ at[h] = "kind"
    /\ config.lexLimit = 0 \/ Source(h) \in DOMAIN tokens
    /\ Dispatch(h)
    /\ UNCHANGED <<config, caches, arrived, req, bodies, found>>

Lexes(h, before, after) ==
    /\ at[h] = before
    /\ config.lexLimit > 0 /\ Source(h) \notin DOMAIN tokens
    /\ Goto(h, after)
    /\ UNCHANGED <<config, caches, arrived, goal, req, bodies, parts, status, found>>

KindStore(h) ==
    /\ at[h] = "kind lexed"
    /\ IF Kind[Text(h)] = "none" THEN UNCHANGED lexing ELSE StoreTokens(Source(h))
    /\ Dispatch(h)
    /\ UNCHANGED <<config, apq, parsed, arrived, req, bodies, found>>

-----------------------------------------------------------------------------
(* parseBundle *)

Cacheable(h) == config.docLimit > 0 /\ req[h].items[Item(h)].variables = "none"

\* HasIncrementalDirectives is answered; the operation is executed.
Parsed(h, document) ==
    CASE goal[h] = "probe" /\ document \in Deferred -> Want(h, "stream")
      [] goal[h] = "probe" /\ document \notin Deferred ->
            IF ResponseType(req[h]) = "" THEN Answer(h, "406") /\ UNCHANGED <<goal, parts>>
            ELSE Want(h, "execute")
      [] goal[h] = "stream"  -> Conclude(h, "streamed", document)
      [] goal[h] = "execute" -> Conclude(h, IF document = "" THEN "error" ELSE "executed", document)

DocumentHit(h) ==
    /\ at[h] = "parse" /\ Cacheable(h) /\ Source(h) \in DOMAIN docs
    /\ Parsed(h, docs[Source(h)])
    /\ UNCHANGED <<config, caches, arrived, req, bodies, found>>

DocumentMiss(h) ==
    /\ at[h] = "parse" /\ ~(Cacheable(h) /\ Source(h) \in DOMAIN docs)
    /\ Goto(h, "lex")
    /\ UNCHANGED <<config, caches, arrived, goal, req, bodies, parts, status, found>>

\* The parser has tokens: from the cache, or its own where none is kept.
TokensHit(h) ==
    /\ at[h] = "lex"
    /\ config.lexLimit = 0 \/ Source(h) \in DOMAIN tokens
    /\ IF config.lexLimit = 0 /\ Kind[Text(h)] = "none"
       THEN Parsed(h, "") /\ UNCHANGED found
       ELSE /\ found' = [found EXCEPT ![h] = IF config.lexLimit = 0 THEN Source(h) ELSE tokens[Source(h)]]
            /\ Goto(h, "built")
            /\ UNCHANGED <<goal, parts, status>>
    /\ UNCHANGED <<config, caches, arrived, req, bodies>>

TokensStore(h) ==
    /\ at[h] = "lexed"
    /\ IF Kind[Text(h)] = "none"
       THEN Parsed(h, "") /\ UNCHANGED <<lexing, found>>
       ELSE /\ StoreTokens(Source(h))
            /\ found' = [found EXCEPT ![h] = Source(h)]
            /\ Goto(h, "built")
            /\ UNCHANGED <<goal, parts, status>>
    /\ UNCHANGED <<config, apq, parsed, arrived, req, bodies>>

\* The caller gets its own document, also when another one is kept.
DocumentStore(h) ==
    /\ at[h] = "built"
    /\ IF Cacheable(h) THEN StoreDocument(Source(h), found[h]) ELSE UNCHANGED parsed
    /\ Parsed(h, found[h])
    /\ found' = [found EXCEPT ![h] = ""]
    /\ UNCHANGED <<config, apq, lexing, arrived, req, bodies>>

-----------------------------------------------------------------------------

\* net/http has written the answer and is done with the request.
Return(h) ==
    /\ at[h] = "answered"
    /\ Goto(h, "idle")
    /\ goal' = [goal EXCEPT ![h] = ""] /\ req' = [req EXCEPT ![h] = <<>>]
    /\ bodies' = [bodies EXCEPT ![h] = <<>>] /\ parts' = [parts EXCEPT ![h] = <<>>]
    /\ status' = [status EXCEPT ![h] = ""]
    /\ UNCHANGED <<config, caches, arrived, found>>

AllDone == arrived = MaxRequests /\ (\A h \in Handlers : at[h] = "idle") /\ UNCHANGED vars

Next ==
    \/ \E h \in Handlers :
          \/ \E r \in Inputs : Arrive(h, r)
          \/ Decode(h) \/ Decoded(h) \/ NextOperation(h)
          \/ KindKnown(h) \/ Lexes(h, "kind", "kind lexed") \/ KindStore(h)
          \/ DocumentHit(h) \/ DocumentMiss(h) \/ DocumentStore(h)
          \/ TokensHit(h) \/ Lexes(h, "lex", "lexed") \/ TokensStore(h)
          \/ Return(h)
    \/ AllDone

Spec == Init /\ [][Next]_vars
-----------------------------------------------------------------------------

\* Every place of the ring has been written.
RingFull == next \in DOMAIN ring /\ ring[next] # ""

\* The keys in the ring: from the write position on, and before it.
RingAge == (IF RingFull THEN SubSeq(ring, next, Len(ring)) ELSE <<>>) \o SubSeq(ring, 1, next - 1)

Queries   == INSTANCE Cache WITH Keys <- Texts, limit <- config.apqSize,
                                 held <- DOMAIN queries, age <- RingAge
Documents == INSTANCE Cache WITH Keys <- Texts, limit <- config.docLimit,
                                 held <- DOMAIN docs, age <- docOrder
Tokens    == INSTANCE BoundedSet WITH Keys <- Texts, limit <- config.lexLimit,
                                      held <- DOMAIN tokens

\* The ring and the document cache are bounded first-in first-out sets of keys,
\* and the token cache is a bounded set, whatever its handlers do between the
\* lookup under one lock and the insertion under another: no key is kept or counted
\* twice, none leaves while there is room, and none is left behind that nobody
\* would evict.  Which key leaves the token cache is not said: it is documented as
\* LRU (executor.go:218, option.go:61), and the code evicts the one inserted first.
\* executor.go:389, 425, apq.go:45.
CachesSpec == Queries!Spec /\ Tokens!Spec /\ Documents!Spec

\* The text an item asks for.
Named(item) ==
    IF item.text # "" THEN item.text
    ELSE IF item.hash \in DOMAIN config.persisted THEN config.persisted[item.hash] ELSE item.hash

\* The outcome of the operation a text holds, for a client that is alone.
Right(r, text) ==
    LET kind    == Kind[text]
        result(outcome) == [outcome |-> outcome, document |-> Norm[text]]
    IN  IF r.batch
        THEN IF kind = "query" THEN {result("executed")}
             ELSE {[outcome |-> "refused", document |-> ""]}
        ELSE CASE kind = "none" -> {[outcome |-> "error", document |-> ""]}
               [] kind = "query" \/ (kind = "mutation" /\ r.method = "POST") ->
                    {result(IF Norm[text] \in Deferred /\ MultipartAccepted(r)
                            THEN "streamed" ELSE "executed")}
               [] OTHER -> {}

\* A request is answered for what it asked, item by item and each in its place,
\* whoever else registers, evicts and parses meanwhile: no answer is another
\* text's, a batch has one for every item, and nothing is executed that the method
\* or the batch bars, also where the request is then refused, although its kind is
\* read off one lookup of the caches and its document comes from a later one.
\* executor.go:388, apq.go:45, http_transport.go:211, 243.
AnsweredRight(h) ==
    /\ \A i \in DOMAIN parts[h] : parts[h][i] \in Right(req[h], Named(req[h].items[i]))
    /\ \/ status[h] = "200" /\ Len(parts[h]) = Len(req[h].items)
       \/ status[h] # "200" /\ parts[h] = <<>>
       \/ status[h] = "400" /\ parts[h][1].outcome = "error"
       \/ status[h] = "406" /\ ~EncodingAccepted(req[h]) /\ ~Streamed(h)

RightAnswer == \A h \in Handlers : at[h] = "answered" => AnsweredRight(h)

-----------------------------------------------------------------------------
(* Why: what is kept under a key is what the key says, so that it does not  *)
(* matter who stored it, and a handler has for each of its operations what  *)
(* its request asks for.                                                    *)

Working == {"next", "kind", "kind lexed", "parse", "lex", "lexed", "built"}

Outcomes == [outcome : {"executed", "streamed", "error", "refused"}, document : Texts \cup {""}]

TypeOK ==
    /\ config \in Configs
    /\ at \in [Handlers -> {"idle", "decoding", "answered"} \cup Working]
    /\ goal \in [Handlers -> {"", "probe", "stream", "execute"}]
    /\ found \in [Handlers -> Texts \cup {""}]
    /\ DOMAIN req = Handlers /\ DOMAIN status = Handlers
    /\ bodies \in [Handlers -> Seq(Texts)] /\ parts \in [Handlers -> Seq(Outcomes)]

\* Texts of which the lexer makes tokens.
Lexable == {t \in Texts : Kind[t] # "none"}

\* A key is kept with the text it names.
Kept(map, keys) == DOMAIN map \subseteq keys /\ map = [k \in DOMAIN map |-> k]

CachesHold ==
    /\ Kept(queries, Texts) /\ Kept(tokens, Lexable) /\ Kept(docs, Lexable)
    /\ tokenOrder \in Seq(Lexable) /\ docOrder \in Seq(Lexable)

\* The ring is written from the first place on, and round again.
RingHolds ==
    /\ ring \in [1 .. config.apqSize -> Texts \cup {""}]
    /\ next \in Nat \ {0} /\ (config.apqSize > 0 => next <= config.apqSize)
    /\ config.apqSize = 0 => next = 1
    /\ \A i \in DOMAIN ring : i < next \/ RingFull <=> ring[i] # ""

\* Serve does not execute the operation for this request.
Barred(r, kind) ==
    IF r.batch THEN kind # "query"
    ELSE kind = "subscription" \/ (kind = "mutation" /\ r.method = "GET")

Incrementally(r, text) ==
    ~r.batch /\ MultipartAccepted(r) /\ Kind[text] # "none" /\ Norm[text] \in Deferred

\* The operation handler h is at, as far as it has come.
InHand(h) ==
    /\ at[h] \in Working \ {"next"} => Len(parts[h]) < Len(bodies[h])
    /\ at[h] \in {"kind lexed", "lexed"} => config.lexLimit > 0
    /\ at[h] \in {"parse", "lex", "lexed", "built"} =>
          /\ goal[h] \in {"probe", "stream", "execute"}
          /\ ~Barred(req[h], Kind[Text(h)])
          /\ goal[h] = "probe" => ~req[h].batch /\ MultipartAccepted(req[h])
          /\ goal[h] = "stream" => Incrementally(req[h], Text(h))
          /\ goal[h] = "execute" => ~Incrementally(req[h], Text(h))
    /\ at[h] = "built" => Kind[Text(h)] # "none" /\ found[h] = Source(h)

\* What handler h has decoded and answered so far.
SoFar(h) ==
    /\ req[h] \in Inputs /\ req[h].method \in {"GET", "POST"}
    /\ Len(bodies[h]) <= Len(req[h].items)
    /\ \A i \in DOMAIN bodies[h] : bodies[h][i] = Named(req[h].items[i])
    /\ Len(parts[h]) <= Len(bodies[h])
    /\ \A i \in DOMAIN parts[h] : parts[h][i] \in Right(req[h], bodies[h][i])
    /\ at[h] = "decoding" => parts[h] = <<>>
    /\ at[h] \in Working => Len(bodies[h]) = Len(req[h].items)

\* What handler h has executed is what its texts ask for.
Executed(h) ==
    /\ req[h] \in Inputs /\ Len(parts[h]) <= Len(bodies[h])
    /\ \A i \in DOMAIN parts[h] : parts[h][i] \in Right(req[h], bodies[h][i])

HandlerHolds(h) ==
    /\ at[h] = "idle" => bodies[h] = <<>> /\ parts[h] = <<>>
    /\ at[h] \in {"decoding"} \cup Working => SoFar(h) /\ InHand(h)
    /\ at[h] = "answered" => Executed(h) /\ AnsweredRight(h)

\* The inductive invariant.
IInv == TypeOK /\ CachesHold /\ RingHolds /\ \A h \in Handlers : HandlerHolds(h)
=============================================================================
