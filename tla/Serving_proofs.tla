--------------------------- MODULE Serving_proofs ---------------------------
(***************************************************************************)
(* For any number of handlers and requests, any texts and any size of the  *)
(* caches: a request is answered for what it asked, the ring of persisted  *)
(* queries and the document cache are the bounded first-in first-out sets  *)
(* that module Cache describes, and the token cache is a bounded set.      *)
(***************************************************************************)
EXTENDS Serving, WellFoundedInduction, SequenceTheorems, FiniteSetTheorems, TLAPS

LEMMA Constants ==
  /\ "" \notin Texts /\ "" \notin Deferred /\ Deferred \subseteq Texts
  /\ \A t \in Texts : /\ Norm[t] \in Texts /\ Kind[Norm[t]] = Kind[t]
                      /\ Kind[t] \in {"query", "mutation", "subscription", "none"}
BY TextsAssumption

-----------------------------------------------------------------------------
(* Which transport takes a request                                         *)

LEMMA MinIsIn ==
  ASSUME NEW S \in SUBSET Nat, S # {}
  PROVE  Min(S) \in S
<1>1. PICK x \in S : \A y \in S : ~(<<y, x>> \in OpToRel(<, Nat))
  BY NatLessThanWellFounded, WFMin, Zenon
<1>2. \A y \in S : ~(y < x)
  BY <1>1 DEF OpToRel
<1>3. \E z \in S : \A y \in S : z =< y
  BY <1>2
<1>. QED BY <1>3 DEF Min

\* A chain gives a request to a transport that matches it, or to none.
LEMMA TakerMatches ==
  ASSUME NEW chain \in Seq({"websocket", "sse", "http"}), NEW r
  PROVE  \/ Taker(chain, r) = "404"
         \/ Taker(chain, r) \in {"websocket", "sse"}
         \/ Taker(chain, r) = "http" /\ \E i \in DOMAIN chain : chain[i] = "http"
            /\ Matches("http", r)
<1>. DEFINE takers == {i \in DOMAIN chain : Matches(chain[i], r)}
<1>1. CASE takers = {}
  BY <1>1 DEF Taker
<1>2. CASE takers # {}
  <2>1. takers \in SUBSET Nat
    OBVIOUS
  <2>2. Min(takers) \in takers
    BY <1>2, <2>1, MinIsIn
  <2>3. /\ chain[Min(takers)] \in {"websocket", "sse", "http"}
        /\ Matches(chain[Min(takers)], r) /\ Min(takers) \in DOMAIN chain
    BY <2>2
  <2>4. Taker(chain, r) = chain[Min(takers)]
    BY <1>2 DEF Taker
  <2>. QED BY <2>3, <2>4
<1>. QED BY <1>1, <1>2

\* The HTTP transport gets GET and POST only, and nobody else answers 200.
LEMMA ResponderFor ==
  ASSUME config \in Configs, NEW r
  PROVE  /\ Responder(r) # "200"
         /\ Responder(r) = "http" => r.method \in {"GET", "POST"}
<1>1. config.transports \in Seq({"websocket", "sse"})
  BY ConfigsAssumption
<1>2. /\ config.transports \in Seq({"websocket", "sse", "http"})
      /\ \A i \in DOMAIN config.transports : config.transports[i] # "http"
  BY <1>1
<1>3. MainChain \in Seq({"websocket", "sse", "http"})
  <2>1. <<"http">> \in Seq({"websocket", "sse", "http"})
    OBVIOUS
  <2>2. config.transports \o <<"http">> \in Seq({"websocket", "sse", "http"})
    BY <1>2, <2>1, ConcatProperties
  <2>. QED BY <2>1, <2>2 DEF MainChain
<1>4. /\ Taker(config.transports, r) \in {"404", "websocket", "sse"}
  BY <1>2, TakerMatches
<1>5. /\ Taker(MainChain, r) \in {"404", "websocket", "sse", "http"}
      /\ Taker(MainChain, r) = "http" => r.method \in {"GET", "POST"}
  BY <1>3, TakerMatches DEF Matches
<1>. QED BY <1>4, <1>5 DEF Responder

-----------------------------------------------------------------------------
(* What an action leaves alone                                             *)

\* The step is not handler g's.
Same(g) ==
  /\ at'[g] = at[g] /\ goal'[g] = goal[g] /\ req'[g] = req[g] /\ bodies'[g] = bodies[g]
  /\ parts'[g] = parts[g] /\ found'[g] = found[g] /\ status'[g] = status[g]

LEMMA Elsewhere ==
  ASSUME NEW g \in Handlers, HandlerHolds(g), config' = config, Same(g)
  PROVE  HandlerHolds(g)'
<1>1. /\ Item(g)' = Item(g) /\ Text(g)' = Text(g) /\ Source(g)' = Source(g)
      /\ \A item : Named(item)' = Named(item)
      /\ EncodingAccepted(req[g])' = EncodingAccepted(req[g])
  BY DEF Same, Item, Text, Source, Named, EncodingAccepted
<1>2. AnsweredRight(g) => AnsweredRight(g)'
  BY <1>1 DEF Same, AnsweredRight, Streamed
<1>3. SoFar(g) => SoFar(g)'
  BY <1>1 DEF Same, SoFar
<1>4. InHand(g) => InHand(g)'
  BY <1>1 DEF Same, InHand
<1>5. Executed(g) => Executed(g)'
  BY DEF Same, Executed
<1>. QED BY <1>2, <1>3, <1>4, <1>5 DEF Same, HandlerHolds

\* So a step of handler h is about h alone, and about the caches.
LEMMA OneHandler ==
  ASSUME IInv, NEW h \in Handlers, config' = config, TypeOK', CachesHold', RingHolds',
         HandlerHolds(h)', \A g \in Handlers \ {h} : Same(g)
  PROVE  IInv'
BY Elsewhere DEF IInv

LEMMA SameCaches ==
  ASSUME IInv, UNCHANGED <<config, caches>>
  PROVE  CachesHold' /\ RingHolds'
<1>. USE DEF caches, apq, lexing, parsed
<1>1. CachesHold'
  BY DEF IInv, CachesHold
<1>2. RingHolds'
  BY DEF IInv, RingHolds, RingFull
<1>. QED BY <1>1, <1>2

-----------------------------------------------------------------------------
(* The initial states                                                      *)

LEMMA InitInv == Init => IInv
<1>. SUFFICES ASSUME Init PROVE IInv
  OBVIOUS
<1>1. TypeOK
  <2>1. <<>> \in Seq(Texts) /\ <<>> \in Seq(Outcomes)
    OBVIOUS
  <2>. QED BY <2>1 DEF Init, TypeOK
<1>2. CachesHold
  <2>1. <<>> \in Seq(Lexable)
    OBVIOUS
  <2>. QED BY <2>1 DEF Init, CachesHold, Kept, Nothing
<1>3. RingHolds
  <2>. DEFINE size == config.apqSize
  <2>1. size \in Nat
    BY ConfigsAssumption DEF Init
  <2>2. ring \in [1 .. size -> Texts \cup {""}] /\ (\A i \in 1 .. size : ring[i] = "")
    BY DEF Init
  <2>3. next = 1
    BY DEF Init
  <2>. HIDE DEF size
  <2>4. ~RingFull
    BY <2>2, <2>3 DEF RingFull
  <2>5. next \in Nat \ {0} /\ (size > 0 => next <= size)
    BY <2>1, <2>3
  <2>6. ASSUME NEW i \in 1 .. size PROVE ~(i < next)
    BY <2>1, <2>3
  <2>7. \A i \in DOMAIN ring : i < next \/ RingFull <=> ring[i] # ""
    BY <2>2, <2>4, <2>6
  <2>. QED BY <2>2, <2>3, <2>5, <2>7 DEF RingHolds, size
<1>4. ASSUME NEW h \in Handlers PROVE HandlerHolds(h)
  BY DEF Init, HandlerHolds, Working
<1>. QED BY <1>1, <1>2, <1>3, <1>4 DEF IInv

Places == {"idle", "decoding", "answered"} \cup Working

\* Of the variables of handlers that h's step to a place changes, only h's part
\* changes, and stays of its type.
Effect(h) ==
  /\ at' \in [Handlers -> Places] /\ goal' \in [Handlers -> {"", "probe", "stream", "execute"}]
  /\ DOMAIN status' = Handlers /\ parts' \in [Handlers -> Seq(Outcomes)]
  /\ \A g \in Handlers \ {h} : /\ at'[g] = at[g] /\ goal'[g] = goal[g]
                                /\ parts'[g] = parts[g] /\ status'[g] = status[g]

LEMMA GotoEffect ==
  ASSUME IInv, NEW h \in Handlers, NEW place \in Places, Goto(h, place),
         UNCHANGED <<goal, parts, status>>
  PROVE  Effect(h)
BY DEF IInv, TypeOK, Goto, Effect, Places

-----------------------------------------------------------------------------
(* What a handler's invariant says of the operation in hand                *)

\* In a place where it works, a handler has decoded all items, and is at a text.
LEMMA AtWork ==
  ASSUME IInv, NEW h \in Handlers, at[h] \in Working
  PROVE  /\ SoFar(h) /\ InHand(h)
         /\ req[h].items \in Seq(Items) /\ req[h].batch \in BOOLEAN
         /\ bodies[h] \in Seq(Texts) /\ parts[h] \in Seq(Outcomes)
         /\ Len(bodies[h]) = Len(req[h].items)
         /\ ~req[h].batch => Len(bodies[h]) = 1
         /\ at[h] # "next" =>
               /\ Item(h) \in DOMAIN bodies[h] /\ Text(h) \in Texts /\ Source(h) \in Texts
               /\ ~req[h].batch => parts[h] = <<>>
<1>1. HandlerHolds(h)
  BY DEF IInv
<1>2. SoFar(h) /\ InHand(h)
  BY <1>1 DEF HandlerHolds
<1>3. req[h] \in Inputs /\ Len(bodies[h]) = Len(req[h].items)
  BY <1>2 DEF SoFar
<1>4. /\ req[h].items \in Seq(Items) /\ req[h].batch \in BOOLEAN
      /\ ~req[h].batch => Len(req[h].items) = 1
  BY <1>3, InputsAssumption
<1>5. bodies[h] \in Seq(Texts) /\ parts[h] \in Seq(Outcomes)
  BY DEF IInv, TypeOK
<1>6. ASSUME at[h] # "next"
      PROVE  /\ Item(h) \in DOMAIN bodies[h] /\ Text(h) \in Texts /\ Source(h) \in Texts
             /\ ~req[h].batch => parts[h] = <<>>
  <2>1. Len(parts[h]) < Len(bodies[h])
    BY <1>2, <1>6 DEF InHand
  <2>2. Len(parts[h]) \in Nat /\ Len(bodies[h]) \in Nat
    BY <1>5
  <2>3. Item(h) \in 1 .. Len(bodies[h])
    BY <2>1, <2>2 DEF Item
  <2>4. bodies[h][Item(h)] \in Texts
    BY <2>3, <1>5, ElementOfSeq
  <2>5. ASSUME ~req[h].batch PROVE parts[h] = <<>>
    <3>1. Len(bodies[h]) = 1
      BY <2>5, <1>3, <1>4, Zenon
    <3>2. Len(parts[h]) = 0
      BY <2>1, <2>2, <3>1
    <3>. QED BY <3>2, <1>5
  <2>6. Text(h) \in Texts /\ Source(h) \in Texts
    BY <2>4, Constants DEF Text, Source
  <2>. QED BY <2>3, <2>5, <2>6, <1>5
<1>. QED BY <1>2, <1>3, <1>4, <1>5, <1>6

\* An answer that refuses a request of which nothing was executed is right.
LEMMA AnswerHolds ==
  ASSUME IInv, NEW h \in Handlers, NEW code, code # "200", Answer(h, code),
         UNCHANGED <<goal, parts>>, parts[h] = <<>>, req'[h] \in Inputs, bodies'[h] \in Seq(Texts)
  PROVE  HandlerHolds(h)' /\ Effect(h)
<1>1. at'[h] = "answered" /\ status'[h] = code
  BY DEF IInv, TypeOK, Answer, Goto
<1>2. AnsweredRight(h)'
  BY <1>1 DEF AnsweredRight
<1>3. Effect(h)
  BY DEF IInv, TypeOK, Answer, Goto, Effect, Places
<1>4. Executed(h)'
  <2>1. DOMAIN parts'[h] = {} /\ Len(parts'[h]) = 0 /\ Len(bodies'[h]) \in Nat
    OBVIOUS
  <2>2. Len(parts'[h]) <= Len(bodies'[h])
    BY <2>1
  <2>. QED BY <2>1, <2>2 DEF Executed
<1>. QED BY <1>1, <1>2, <1>3, <1>4 DEF HandlerHolds, Working

\* A right outcome is kept as one.
LEMMA ConcludeHolds ==
  ASSUME IInv, NEW h \in Handlers, at[h] \in Working \ {"next"},
         NEW outcome, NEW document, Conclude(h, outcome, document),
         [outcome |-> outcome, document |-> document] \in Right(req[h], Text(h)) \cap Outcomes,
         UNCHANGED <<config, req, bodies>>
  PROVE  HandlerHolds(h)' /\ Effect(h)
<1>. DEFINE part == [outcome |-> outcome, document |-> document]
<1>1. /\ SoFar(h) /\ bodies[h] \in Seq(Texts) /\ parts[h] \in Seq(Outcomes)
      /\ Item(h) \in DOMAIN bodies[h] /\ part \in Outcomes
      /\ Len(bodies[h]) = Len(req[h].items)
  BY AtWork
<1>2. at'[h] = "next" /\ parts' = [parts EXCEPT ![h] = Append(parts[h], part)]
  BY DEF IInv, TypeOK, Conclude, Goto
<1>3. parts'[h] = Append(parts[h], part)
  BY <1>2 DEF IInv, TypeOK
<1>4. /\ parts'[h] \in Seq(Outcomes) /\ Len(parts'[h]) = Len(parts[h]) + 1
      /\ \A i \in 1 .. Len(parts[h]) : parts'[h][i] = parts[h][i]
      /\ parts'[h][Len(parts[h]) + 1] = part
  <2>. HIDE DEF part
  <2>. QED BY <1>1, <1>3, AppendProperties
<1>5. Len(parts[h]) + 1 <= Len(bodies[h]) /\ Len(parts[h]) \in Nat
  BY <1>1 DEF Item
<1>6. part \in Right(req[h], bodies[h][Len(parts[h]) + 1])
  BY DEF Item, Text
<1>7. \A i \in DOMAIN parts'[h] : parts'[h][i] \in Right(req[h], bodies[h][i])
  <2>1. ASSUME NEW i \in 1 .. Len(parts[h]) + 1
        PROVE  parts'[h][i] \in Right(req[h], bodies[h][i])
    <3>1. CASE i = Len(parts[h]) + 1
      BY <3>1, <1>4, <1>6
    <3>2. CASE i # Len(parts[h]) + 1
      <4>1. i \in 1 .. Len(parts[h])
        BY <3>2, <1>5
      <4>2. parts[h][i] \in Right(req[h], bodies[h][i])
        BY <4>1, <1>1 DEF SoFar
      <4>. QED BY <4>1, <4>2, <1>4
    <3>. QED BY <3>1, <3>2
  <2>. QED BY <2>1, <1>4
<1>8. SoFar(h)'
  <2>1. \A item : Named(item)' = Named(item)
    BY DEF Named
  <2>. QED BY <2>1, <1>1, <1>2, <1>4, <1>5, <1>7 DEF SoFar
<1>9. InHand(h)'
  BY <1>2 DEF InHand
<1>10. Effect(h)
  <2>1. parts' \in [Handlers -> Seq(Outcomes)] /\ \A g \in Handlers \ {h} : parts'[g] = parts[g]
    BY <1>2, <1>3, <1>4 DEF IInv, TypeOK
  <2>. QED BY <2>1 DEF IInv, TypeOK, Conclude, Goto, Effect, Places, Working
<1>. QED BY <1>2, <1>8, <1>9, <1>10 DEF HandlerHolds, Working

\* A step from one place to another that leaves the operation in hand as it is.
LEMMA MoveHolds ==
  ASSUME IInv, NEW h \in Handlers, at[h] \in Working, NEW place \in Working,
         Goto(h, place), UNCHANGED <<config, req, bodies, parts>>,
         InHand(h)'
  PROVE  HandlerHolds(h)'
<1>1. at'[h] = place
  BY DEF IInv, TypeOK, Goto
<1>2. SoFar(h) /\ Len(bodies[h]) = Len(req[h].items)
  BY AtWork
<1>3. SoFar(h)'
  <2>1. \A item : Named(item)' = Named(item)
    BY DEF Named
  <2>2. at'[h] # "decoding"
    BY <1>1 DEF Working
  <2>. QED BY <1>2, <2>1, <2>2 DEF SoFar
<1>. QED BY <1>1, <1>3 DEF HandlerHolds, Working

\* A document is wanted for what the request allows.
LEMMA WantHolds ==
  ASSUME IInv, NEW h \in Handlers, at[h] \in Working \ {"next"},
         NEW aim \in {"probe", "stream", "execute"}, Want(h, aim),
         UNCHANGED <<config, req, bodies>>,
         ~Barred(req[h], Kind[Text(h)]),
         aim = "probe" => ~req[h].batch /\ MultipartAccepted(req[h]),
         aim = "stream" => Incrementally(req[h], Text(h)),
         aim = "execute" => ~Incrementally(req[h], Text(h))
  PROVE  HandlerHolds(h)' /\ Effect(h)
<1>1. at'[h] = "parse" /\ goal'[h] = aim /\ Goto(h, "parse") /\ parts' = parts
  BY DEF IInv, TypeOK, Want, Goto
<1>2. Text(h)' = Text(h) /\ Len(parts[h]) < Len(bodies[h])
  BY <1>1, AtWork DEF Text, Item, InHand
<1>3. InHand(h)'
  BY <1>1, <1>2 DEF InHand, Working
<1>4. Effect(h)
  BY DEF IInv, TypeOK, Want, Goto, Effect, Places, Working
<1>. QED BY <1>1, <1>3, <1>4, MoveHolds DEF Working

\* Serve does with an operation what its kind asks for.
LEMMA DispatchHolds ==
  ASSUME IInv, NEW h \in Handlers, at[h] \in {"kind", "kind lexed"}, Dispatch(h),
         UNCHANGED <<config, req, bodies>>
  PROVE  HandlerHolds(h)' /\ Effect(h)
<1>. DEFINE kind == Kind[Text(h)]
            aim  == IF MultipartAccepted(req[h]) THEN "probe" ELSE "execute"
<1>1. /\ at[h] \in Working \ {"next"} /\ (~req[h].batch => parts[h] = <<>>)
      /\ req'[h] \in Inputs /\ bodies'[h] \in Seq(Texts)
  BY AtWork DEF Working, SoFar
<1>2. CASE ~req[h].batch /\ Barred(req[h], kind)
  <2>1. Answer(h, "405") /\ UNCHANGED <<goal, parts>>
    BY <1>2 DEF Dispatch, Barred
  <2>. QED BY <2>1, <1>1, <1>2, AnswerHolds
<1>3. CASE ~req[h].batch /\ ~Barred(req[h], kind)
  <2>1. Want(h, aim)
    BY <1>3 DEF Dispatch, Barred
  <2>2. aim = "execute" => ~Incrementally(req[h], Text(h))
    BY DEF Incrementally
  <2>. QED BY <2>1, <2>2, <1>1, <1>3, WantHolds
<1>4. CASE req[h].batch /\ kind # "query"
  <2>1. Conclude(h, "refused", "")
    BY <1>4 DEF Dispatch
  <2>2. [outcome |-> "refused", document |-> ""] \in Right(req[h], Text(h)) \cap Outcomes
    BY <1>4 DEF Right, Outcomes
  <2>. QED BY <2>1, <2>2, <1>1, ConcludeHolds
<1>5. CASE req[h].batch /\ kind = "query"
  <2>1. Want(h, "execute")
    BY <1>5 DEF Dispatch
  <2>2. ~Barred(req[h], Kind[Text(h)]) /\ ~Incrementally(req[h], Text(h))
    BY <1>5 DEF Barred, Incrementally
  <2>. QED BY <2>1, <2>2, <1>1, WantHolds
<1>. QED BY <1>2, <1>3, <1>4, <1>5

\* An operation has the outcome of its own document.
LEMMA ParsedHolds ==
  ASSUME IInv, NEW h \in Handlers, at[h] \in {"parse", "lex", "lexed", "built"},
         NEW document, Parsed(h, document), UNCHANGED <<config, req, bodies>>,
         document = IF Kind[Text(h)] = "none" THEN "" ELSE Source(h)
  PROVE  HandlerHolds(h)' /\ Effect(h)
<1>1. /\ at[h] \in Working \ {"next"} /\ InHand(h) /\ SoFar(h)
      /\ Text(h) \in Texts /\ Source(h) \in Texts /\ (~req[h].batch => parts[h] = <<>>)
      /\ req'[h] \in Inputs /\ bodies'[h] \in Seq(Texts)
  BY AtWork DEF Working, SoFar
<1>2. /\ goal[h] \in {"probe", "stream", "execute"}
      /\ ~Barred(req[h], Kind[Text(h)])
      /\ goal[h] = "probe" => ~req[h].batch /\ MultipartAccepted(req[h])
      /\ goal[h] = "stream" => Incrementally(req[h], Text(h))
      /\ goal[h] = "execute" => ~Incrementally(req[h], Text(h))
  BY <1>1 DEF InHand
<1>3. /\ document = "" <=> Kind[Text(h)] = "none"
      /\ document \in Deferred => Kind[Text(h)] # "none"
      /\ Kind[Text(h)] # "none" => document = Norm[Text(h)] /\ Norm[Text(h)] \in Texts
      /\ Kind[Text(h)] \in {"query", "mutation", "subscription", "none"}
      /\ req[h].method \in {"GET", "POST"}
  BY <1>1, Constants DEF Source, SoFar
<1>4. CASE goal[h] = "probe" /\ document \in Deferred
  <2>1. Want(h, "stream")
    BY <1>4 DEF Parsed
  <2>2. Incrementally(req[h], Text(h))
    BY <1>2, <1>3, <1>4 DEF Incrementally
  <2>. QED BY <2>1, <2>2, <1>1, <1>2, WantHolds
<1>5. CASE goal[h] = "probe" /\ document \notin Deferred /\ ResponseType(req[h]) = ""
  <2>1. Answer(h, "406") /\ UNCHANGED <<goal, parts>>
    BY <1>5 DEF Parsed
  <2>. QED BY <2>1, <1>1, <1>2, <1>5, AnswerHolds
<1>6. CASE goal[h] = "probe" /\ document \notin Deferred /\ ResponseType(req[h]) # ""
  <2>1. Want(h, "execute")
    BY <1>6 DEF Parsed
  <2>2. ~Incrementally(req[h], Text(h))
    BY <1>3, <1>6 DEF Incrementally
  <2>. QED BY <2>1, <2>2, <1>1, <1>2, WantHolds
<1>7. CASE goal[h] = "stream"
  <2>1. Conclude(h, "streamed", document)
    BY <1>7 DEF Parsed
  <2>2. [outcome |-> "streamed", document |-> document] \in Right(req[h], Text(h)) \cap Outcomes
    BY <1>2, <1>3, <1>7 DEF Right, Outcomes, Incrementally, Barred
  <2>. QED BY <2>1, <2>2, <1>1, ConcludeHolds
<1>8. CASE goal[h] = "execute"
  <2>1. Conclude(h, IF document = "" THEN "error" ELSE "executed", document)
    BY <1>8 DEF Parsed
  <2>2. [outcome |-> IF document = "" THEN "error" ELSE "executed", document |-> document]
          \in Right(req[h], Text(h)) \cap Outcomes
    BY <1>2, <1>3, <1>8 DEF Right, Outcomes, Incrementally, Barred
  <2>. QED BY <2>1, <2>2, <1>1, ConcludeHolds
<1>. QED BY <1>2, <1>4, <1>5, <1>6, <1>7, <1>8

-----------------------------------------------------------------------------
(* What the caches keep                                                    *)

LEMMA WithHolds ==
  ASSUME NEW map, NEW keys, Kept(map, keys), NEW key \in keys, NEW old
  PROVE  Kept(With(map, key, key), keys) /\ Kept(With(Without(map, old), key, key), keys)
<1>1. Kept(Without(map, old), keys)
  BY DEF Kept, Without
<1>2. ASSUME NEW m, Kept(m, keys) PROVE Kept(With(m, key, key), keys)
  <2>1. DOMAIN With(m, key, key) = DOMAIN m \cup {key}
    BY DEF With
  <2>2. \A k \in DOMAIN m : m[k] = k
    BY <1>2 DEF Kept
  <2>. QED BY <1>2, <2>1, <2>2 DEF Kept, With
<1>. QED BY <1>1, <1>2

\* The write position goes round.
LEMMA Wrap ==
  ASSUME NEW n \in Nat, NEW i \in 1 .. n
  PROVE  (i % n) + 1 = IF i = n THEN 1 ELSE i + 1
<1>1. CASE i = n
  BY <1>1
<1>2. CASE i # n
  <2>1. i \in 0 .. n - 1
    BY <1>2
  <2>. QED BY <1>2, <2>1
<1>. QED BY <1>1, <1>2

LEMMA StoreQueryHolds ==
  ASSUME IInv, NEW text \in Texts, config.apqSize > 0, StoreQuery(text, text),
         UNCHANGED <<config, lexing, parsed>>
  PROVE  CachesHold' /\ RingHolds'
<1>1. CASE UNCHANGED apq
  BY <1>1, SameCaches DEF caches
<1>2. CASE /\ queries' = With(Without(queries, ring[next]), text, text)
           /\ ring' = [ring EXCEPT ![next] = text]
           /\ next' = (next % config.apqSize) + 1
  <2>1. CachesHold'
    BY <1>2, WithHolds DEF IInv, CachesHold, lexing, parsed
  <2>. DEFINE size == config.apqSize
  <2>2. size \in Nat /\ size > 0 /\ size' = size
    BY ConfigsAssumption DEF IInv, TypeOK
  <2>3. /\ ring \in [1 .. size -> Texts \cup {""}] /\ next \in Nat \ {0} /\ next <= size
        /\ \A i \in 1 .. size : i < next \/ RingFull <=> ring[i] # ""
    BY DEF IInv, RingHolds
  <2>4. /\ ring' = [ring EXCEPT ![next] = text]
        /\ next' = (next % size) + 1
    BY <1>2
  <2>. HIDE DEF size
  <2>5. next \in 1 .. size
    <3>1. next \in Nat \ {0} /\ next <= size
      BY <2>3
    <3>. QED BY <2>2, <3>1
  <2>6. next' = IF next = size THEN 1 ELSE next + 1
    BY <2>2, <2>4, <2>5, Wrap
  <2>7. next' \in 1 .. size /\ next' \in Nat \ {0} /\ next' <= size
    BY <2>2, <2>5, <2>6
  <2>8. /\ ring' \in [1 .. size -> Texts \cup {""}]
        /\ \A i \in 1 .. size : ring'[i] = IF i = next THEN text ELSE ring[i]
        /\ text # ""
    BY <2>3, <2>4, Constants
  <2>9. RingFull' <=> ring'[next'] # ""
    BY <2>7, <2>8 DEF RingFull
  <2>10. ASSUME NEW i \in 1 .. size PROVE i < next' \/ RingFull' <=> ring'[i] # ""
    <3>1. CASE next = size
      <4>1. \A j \in 1 .. size : j # next => j < next
        BY <2>2, <3>1
      <4>2. \A j \in 1 .. size : ring'[j] # ""
        BY <2>3, <2>8, <4>1
      <4>. QED BY <2>7, <2>9, <4>2
    <3>2. CASE next # size
      <4>1. next' = next + 1 /\ next + 1 \in 1 .. size /\ next + 1 # next
        BY <2>5, <2>6, <2>7, <3>2
      <4>2. ~(next + 1 < next)
        BY <2>5
      <4>3. ring'[next'] = ring[next + 1]
        BY <2>8, <4>1
      <4>4. RingFull' <=> RingFull
        BY <2>3, <2>9, <4>1, <4>2, <4>3
      <4>5. i < next' <=> i < next \/ i = next
        BY <2>5, <4>1
      <4>. QED BY <2>3, <2>8, <4>4, <4>5
    <3>. QED BY <3>1, <3>2
  <2>11. size # 0 /\ DOMAIN ring' = 1 .. size
    <3>1. size # 0
      BY <2>2
    <3>. QED BY <2>8, <3>1
  <2>12. RingHolds'
    BY <2>2, <2>7, <2>8, <2>10, <2>11 DEF RingHolds, size
  <2>. QED BY <2>1, <2>12
<1>. QED BY <1>1, <1>2 DEF StoreQuery

\* A full order loses its head when a key comes.
LEMMA OrderHolds ==
  ASSUME NEW S, NEW order \in Seq(S), NEW limit \in Nat, limit > 0, NEW key \in S
  PROVE  /\ Append(order, key) \in Seq(S)
         /\ Len(order) >= limit => Append(Tail(order), key) \in Seq(S)
         /\ Len(order) >= limit <=> ~(Len(order) < limit)
<1>1. Len(order) \in Nat
  OBVIOUS
<1>2. ASSUME Len(order) >= limit PROVE Tail(order) \in Seq(S)
  <2>1. order # <<>>
    BY <1>1, <1>2
  <2>. QED BY <2>1
<1>. QED BY <1>1, <1>2

LEMMA StoreTokensHolds ==
  ASSUME IInv, NEW source \in Lexable, StoreTokens(source), config.lexLimit > 0,
         UNCHANGED <<config, apq, parsed>>
  PROVE  CachesHold' /\ RingHolds'
<1>1. CachesHold'
  <2>1. Kept(tokens', Lexable)
    BY WithHolds DEF IInv, CachesHold, StoreTokens, lexing
  <2>2. tokenOrder \in Seq(Lexable) /\ config.lexLimit \in Nat
    BY ConfigsAssumption DEF IInv, TypeOK, CachesHold
  <2>3. tokenOrder' \in Seq(Lexable)
    BY <2>2, OrderHolds DEF StoreTokens, lexing
  <2>. QED BY <2>1, <2>3 DEF IInv, CachesHold, apq, parsed
<1>2. RingHolds'
  BY DEF IInv, RingHolds, RingFull, apq
<1>. QED BY <1>1, <1>2

LEMMA StoreDocumentHolds ==
  ASSUME IInv, NEW key \in Lexable, StoreDocument(key, key), config.docLimit > 0,
         UNCHANGED <<config, apq, lexing>>
  PROVE  CachesHold' /\ RingHolds'
<1>1. CachesHold'
  <2>1. Kept(docs', Lexable)
    BY WithHolds DEF IInv, CachesHold, StoreDocument, parsed
  <2>2. docOrder \in Seq(Lexable) /\ config.docLimit \in Nat
    BY ConfigsAssumption DEF IInv, TypeOK, CachesHold
  <2>3. docOrder' \in Seq(Lexable)
    BY <2>2, OrderHolds DEF StoreDocument, parsed
  <2>. QED BY <2>1, <2>3 DEF IInv, CachesHold, apq, lexing
<1>2. RingHolds'
  BY DEF IInv, RingHolds, RingFull, apq
<1>. QED BY <1>1, <1>2

\* What a lookup finds is the text that was asked for.
LEMMA ResolveRight ==
  ASSUME IInv, NEW item \in Items, Resolve(item) \notin {"refused", "not found", ""}
  PROVE  /\ Resolve(item) = Named(item) /\ Resolve(item) \in Texts
         /\ Registers(item) => item.hash = Resolve(item) /\ config.apqSize > 0
<1>1. /\ item.text \in Texts \cup {""} /\ item.pq \in {"absent", "blank", "invalid", "hash"}
  BY DEF Items
<1>2. CASE item.pq \in {"absent", "blank", "invalid"}
  BY <1>1, <1>2 DEF Resolve, Named, Registers
<1>3. CASE item.pq = "hash" /\ item.text # ""
  BY <1>1, <1>3 DEF Resolve, Named, Registers, HashChecked
<1>4. CASE item.pq = "hash" /\ item.text = ""
  <2>1. \A hash \in DOMAIN config.persisted : config.persisted[hash] \in Texts \cup {""}
    BY ConfigsAssumption DEF IInv, TypeOK
  <2>2. \A hash \in DOMAIN queries : hash \in Texts /\ queries[hash] = hash
    BY DEF IInv, CachesHold, Kept
  <2>. QED BY <1>4, <2>1, <2>2 DEF Resolve, Named, Registers
<1>. QED BY <1>1, <1>2, <1>3, <1>4

-----------------------------------------------------------------------------
(* Every action                                                            *)

\* The step leaves what other handlers have, and keeps the types of the rest.
Own(h) ==
  /\ DOMAIN req' = Handlers /\ bodies' \in [Handlers -> Seq(Texts)]
  /\ found' \in [Handlers -> Texts \cup {""}]
  /\ \A g \in Handlers \ {h} : req'[g] = req[g] /\ bodies'[g] = bodies[g] /\ found'[g] = found[g]

LEMMA Finish ==
  ASSUME IInv, NEW h \in Handlers, config' = config, Effect(h), Own(h), HandlerHolds(h)',
         CachesHold', RingHolds'
  PROVE  IInv'
<1>1. TypeOK'
  BY DEF IInv, TypeOK, Effect, Own, Places
<1>2. \A g \in Handlers \ {h} : Same(g)
  BY DEF Same, Effect, Own
<1>. QED BY <1>1, <1>2, OneHandler

LEMMA SameOwn ==
  ASSUME IInv, NEW h \in Handlers, UNCHANGED <<req, bodies, found>>
  PROVE  Own(h)
BY DEF IInv, TypeOK, Own

LEMMA ArriveInv ==
  ASSUME IInv, NEW h \in Handlers, NEW r \in Inputs, Arrive(h, r) PROVE IInv'
<1>1. CachesHold' /\ RingHolds' /\ config' = config
  BY SameCaches DEF Arrive
<1>2. Own(h)
  BY DEF IInv, TypeOK, Arrive, Own
<1>3. parts[h] = <<>> /\ bodies[h] = <<>>
  BY DEF IInv, HandlerHolds, Arrive
<1>4. Refusal(r) # "200"
  BY DEF Refusal
<1>5. CASE Responder(r) # "http" \/ Refusal(r) # ""
  <2>1. PICK code : code # "200" /\ Answer(h, code)
    BY <1>4, <1>5, ResponderFor DEF IInv, TypeOK, Arrive
  <2>2. req'[h] = r /\ bodies'[h] \in Seq(Texts) /\ UNCHANGED <<goal, parts>>
    BY DEF IInv, TypeOK, Arrive
  <2>. QED BY <2>1, <2>2, <1>1, <1>2, <1>3, AnswerHolds, Finish
<1>6. CASE Responder(r) = "http" /\ Refusal(r) = ""
  <2>1. Goto(h, "decoding") /\ UNCHANGED status
    BY <1>6 DEF Arrive
  <2>2. Effect(h)
    BY <2>1, GotoEffect DEF Arrive, Places
  <2>3. at'[h] = "decoding" /\ req'[h] = r /\ bodies'[h] = <<>> /\ parts'[h] = <<>>
    BY <1>3, <2>1 DEF IInv, TypeOK, Arrive, Goto
  <2>4. r.method \in {"GET", "POST"}
    BY <1>6, ResponderFor DEF IInv, TypeOK
  <2>5. Len(r.items) \in Nat
    BY InputsAssumption
  <2>6. SoFar(h)' /\ InHand(h)'
    BY <2>3, <2>4, <2>5 DEF SoFar, InHand, Working
  <2>7. HandlerHolds(h)'
    BY <2>3, <2>6 DEF HandlerHolds
  <2>. QED BY <2>2, <2>7, <1>1, <1>2, Finish
<1>. QED BY <1>5, <1>6

LEMMA DecodeInv ==
  ASSUME IInv, NEW h \in Handlers, Decode(h) PROVE IInv'
<1>. DEFINE done == Len(bodies[h])
            item == req[h].items[done + 1]
            form == req[h].content = "multipart/form-data" /\ req[h].method = "POST"
            text == IF form THEN item.text ELSE Resolve(item)
<1>1. at[h] = "decoding" /\ done < Len(req[h].items)
  BY DEF Decode
<1>2. SoFar(h) /\ parts[h] = <<>> /\ bodies[h] \in Seq(Texts) /\ req[h] \in Inputs
  BY <1>1 DEF IInv, TypeOK, HandlerHolds, SoFar
<1>3. req[h].items \in Seq(Items) /\ done \in Nat /\ Len(req[h].items) \in Nat
  BY <1>2, InputsAssumption
<1>4. item \in Items
  BY <1>1, <1>3, ElementOfSeq
<1>5. CASE item.variables = "oversized" \/ text \in {"refused", "not found", ""}
  <2>1. PICK code : code # "200" /\ Answer(h, code)
    BY <1>5 DEF Decode
  <2>2. UNCHANGED <<config, caches, goal, parts, req, bodies, found>>
    BY <1>5 DEF Decode, caches, apq
  <2>. QED BY <2>1, <2>2, <1>2, AnswerHolds, SameCaches, SameOwn, Finish
<1>6. CASE ~(item.variables = "oversized" \/ text \in {"refused", "not found", ""})
  <2>1. /\ bodies' = [bodies EXCEPT ![h] = Append(bodies[h], text)]
        /\ UNCHANGED <<at, status>>
        /\ Registers(item) /\ ~form => StoreQuery(item.hash, text)
        /\ ~(Registers(item) /\ ~form) => UNCHANGED apq
    BY <1>6 DEF Decode
  <2>2. UNCHANGED <<config, lexing, parsed, goal, parts, req, found>>
    BY DEF Decode
  <2>3. text = Named(item) /\ text \in Texts
    <3>1. CASE form
      BY <1>4, <1>6, <3>1 DEF Items, Named
    <3>2. CASE ~form
      BY <1>4, <1>6, <3>2, ResolveRight
    <3>. QED BY <3>1, <3>2
  <2>4. CachesHold' /\ RingHolds'
    <3>1. CASE Registers(item) /\ ~form
      <4>1. item.hash = text /\ config.apqSize > 0
        BY <1>4, <1>6, <3>1, ResolveRight
      <4>. HIDE DEF item, text
      <4>. QED BY <2>1, <2>2, <2>3, <3>1, <4>1, StoreQueryHolds
    <3>2. CASE ~(Registers(item) /\ ~form)
      BY <2>1, <2>2, <3>2, SameCaches DEF caches
    <3>. QED BY <3>1, <3>2
  <2>. HIDE DEF item, text, form
  <2>5. bodies'[h] = Append(bodies[h], text)
    BY <2>1 DEF IInv, TypeOK
  <2>6. /\ bodies'[h] \in Seq(Texts) /\ Len(bodies'[h]) = done + 1
        /\ \A i \in 1 .. done : bodies'[h][i] = bodies[h][i]
        /\ bodies'[h][done + 1] = text
    BY <1>2, <2>3, <2>5, AppendProperties
  <2>7. ASSUME NEW i \in 1 .. done + 1 PROVE bodies'[h][i] = Named(req[h].items[i])
    <3>1. CASE i = done + 1
      BY <2>3, <2>6, <3>1 DEF item
    <3>2. CASE i # done + 1
      <4>1. i \in 1 .. done
        BY <1>3, <3>2
      <4>2. bodies[h][i] = Named(req[h].items[i])
        BY <1>2, <4>1 DEF SoFar
      <4>. QED BY <2>6, <4>1, <4>2
    <3>. QED BY <3>1, <3>2
  <2>8. \A any : Named(any)' = Named(any)
    BY <2>2 DEF Named
  <2>9. SoFar(h)'
    <3>1. done + 1 <= Len(req[h].items)
      BY <1>1, <1>3
    <3>2. DOMAIN bodies'[h] = 1 .. done + 1
      BY <2>6
    <3>3. Len(parts'[h]) = 0 /\ parts'[h] = <<>> /\ Len(parts'[h]) <= Len(bodies'[h])
      BY <1>2, <1>3, <2>2, <2>6
    <3>4. at'[h] = "decoding" /\ req'[h] \in Inputs /\ req'[h].method \in {"GET", "POST"}
      BY <1>1, <1>2, <2>1, <2>2 DEF SoFar
    <3>5. \A i \in DOMAIN bodies'[h] : bodies'[h][i] = Named(req[h].items[i])'
      BY <2>2, <2>7, <2>8, <3>2
    <3>. QED BY <2>2, <2>6, <3>1, <3>3, <3>4, <3>5 DEF SoFar, Working
  <2>10. HandlerHolds(h)'
    BY <1>1, <2>1, <2>9 DEF HandlerHolds, InHand, Working
  <2>11. Effect(h)
    BY <2>1, <2>2 DEF IInv, TypeOK, Effect, Places
  <2>12. Own(h)
    BY <2>1, <2>2, <2>5, <2>6 DEF IInv, TypeOK, Own
  <2>. QED BY <2>2, <2>4, <2>10, <2>11, <2>12, Finish
<1>. QED BY <1>5, <1>6

LEMMA DecodedInv ==
  ASSUME IInv, NEW h \in Handlers, Decoded(h) PROVE IInv'
<1>1. /\ CachesHold' /\ RingHolds' /\ Own(h)
      /\ UNCHANGED <<config, goal, req, bodies, parts>>
  BY SameCaches, SameOwn DEF Decoded
<1>2. /\ SoFar(h) /\ parts[h] = <<>> /\ Len(bodies[h]) = Len(req[h].items)
      /\ req'[h] \in Inputs /\ bodies'[h] \in Seq(Texts)
  BY <1>1 DEF IInv, TypeOK, HandlerHolds, Decoded, SoFar
<1>3. CASE Answer(h, "406")
  BY <1>1, <1>2, <1>3, AnswerHolds, Finish
<1>4. CASE Goto(h, "next") /\ UNCHANGED status
  <2>1. Effect(h)
    BY <1>1, <1>4, GotoEffect DEF Places, Working
  <2>2. at'[h] = "next"
    BY <1>4 DEF IInv, TypeOK, Goto
  <2>3. \A item : Named(item)' = Named(item)
    BY <1>1 DEF Named
  <2>4. SoFar(h)'
    BY <1>1, <1>2, <2>2, <2>3 DEF SoFar
  <2>5. HandlerHolds(h)'
    BY <2>2, <2>4 DEF HandlerHolds, InHand, Working
  <2>. QED BY <1>1, <2>1, <2>5, Finish
<1>. QED BY <1>3, <1>4 DEF Decoded

LEMMA NextOperationInv ==
  ASSUME IInv, NEW h \in Handlers, NextOperation(h) PROVE IInv'
<1>1. /\ CachesHold' /\ RingHolds' /\ Own(h)
      /\ UNCHANGED <<config, goal, req, bodies, parts>>
  BY SameCaches, SameOwn DEF NextOperation
<1>2. /\ at[h] \in Working /\ SoFar(h) /\ bodies[h] \in Seq(Texts) /\ parts[h] \in Seq(Outcomes)
      /\ Len(bodies[h]) = Len(req[h].items)
  BY AtWork DEF NextOperation, Working
<1>3. Len(bodies[h]) \in Nat /\ Len(parts[h]) \in Nat /\ Len(parts[h]) <= Len(bodies[h])
  BY <1>2 DEF SoFar
<1>4. CASE Item(h) <= Len(bodies[h])
  <2>1. Goto(h, "kind") /\ UNCHANGED status
    BY <1>4 DEF NextOperation
  <2>2. at'[h] = "kind"
    BY <2>1 DEF IInv, TypeOK, Goto
  <2>3. Len(parts[h]) < Len(bodies[h])
    BY <1>3, <1>4 DEF Item
  <2>4. InHand(h)'
    BY <1>1, <2>2, <2>3 DEF InHand
  <2>5. HandlerHolds(h)' /\ Effect(h)
    BY <1>1, <1>2, <2>1, <2>4, MoveHolds, GotoEffect DEF Places, Working
  <2>. QED BY <1>1, <2>5, Finish
<1>5. CASE ~(Item(h) <= Len(bodies[h]))
  <2>1. PICK code : /\ Answer(h, code) /\ code \in {"406", "400", "200"}
                    /\ code = "406" => ~EncodingAccepted(req[h]) /\ ~Streamed(h)
                    /\ code = "400" => ErrorStatus(h)
    BY <1>5 DEF NextOperation
  <2>2. at'[h] = "answered" /\ status'[h] = code
    BY <2>1 DEF IInv, TypeOK, Answer, Goto
  <2>3. Len(parts[h]) = Len(req[h].items)
    BY <1>2, <1>3, <1>5 DEF Item
  <2>4. /\ EncodingAccepted(req[h])' = EncodingAccepted(req[h])
        /\ Streamed(h)' = Streamed(h)
        /\ \A item : Named(item)' = Named(item)
    BY <1>1 DEF EncodingAccepted, Named, Streamed
  <2>5. \A i \in DOMAIN parts[h] : parts[h][i] \in Right(req[h], Named(req[h].items[i]))
    BY <1>2, <1>3 DEF SoFar
  <2>6. AnsweredRight(h)'
    BY <1>1, <2>1, <2>2, <2>3, <2>4, <2>5 DEF AnsweredRight, ErrorStatus
  <2>7. HandlerHolds(h)'
    <3>1. Executed(h)'
      BY <1>1, <1>2, <1>3 DEF SoFar, Executed
    <3>. QED BY <2>2, <2>6, <3>1 DEF HandlerHolds, Working
  <2>8. Effect(h)
    BY <1>1, <2>1 DEF IInv, TypeOK, Answer, Goto, Effect, Places
  <2>. QED BY <1>1, <2>7, <2>8, Finish
<1>. QED BY <1>4, <1>5

LEMMA KindInv ==
  ASSUME IInv, NEW h \in Handlers, KindKnown(h) \/ KindStore(h) PROVE IInv'
<1>1. /\ at[h] \in {"kind", "kind lexed"} /\ Dispatch(h)
      /\ UNCHANGED <<config, req, bodies, found>>
  BY DEF KindKnown, KindStore
<1>2. HandlerHolds(h)' /\ Effect(h) /\ Own(h)
  BY <1>1, DispatchHolds, SameOwn
<1>3. CASE UNCHANGED caches
  BY <1>1, <1>2, <1>3, SameCaches, Finish
<1>4. CASE /\ KindStore(h) /\ Kind[Text(h)] # "none" /\ StoreTokens(Source(h))
  <2>1. Source(h) \in Lexable
    BY <1>1, <1>4, AtWork, Constants DEF Lexable, Source, Working
  <2>2. config.lexLimit > 0
    BY <1>4, AtWork DEF InHand, KindStore, Working
  <2>3. CachesHold' /\ RingHolds'
    BY <1>4, <2>1, <2>2, StoreTokensHolds DEF KindStore
  <2>. QED BY <1>1, <1>2, <2>3, Finish
<1>. QED BY <1>3, <1>4 DEF KindKnown, KindStore, caches

LEMMA LexesInv ==
  ASSUME IInv, NEW h \in Handlers,
         Lexes(h, "kind", "kind lexed") \/ Lexes(h, "lex", "lexed") \/ DocumentMiss(h)
  PROVE  IInv'
<1>1. /\ CachesHold' /\ RingHolds' /\ Own(h)
      /\ UNCHANGED <<config, goal, req, bodies, parts, status>>
  BY SameCaches, SameOwn DEF Lexes, DocumentMiss
<1>2. PICK place \in {"kind lexed", "lexed", "lex"} :
        /\ Goto(h, place)
        /\ place # "lex" => config.lexLimit > 0
        /\ (place = "kind lexed" /\ at[h] = "kind") \/ at[h] \in {"lex", "parse"}
  BY DEF Lexes, DocumentMiss
<1>3. at[h] \in Working /\ at[h] # "next" /\ InHand(h) /\ at'[h] = place
  BY <1>2, AtWork DEF IInv, TypeOK, Goto, Working
<1>4. Text(h)' = Text(h) /\ Source(h)' = Source(h)
  BY <1>1 DEF Text, Source, Item
<1>5. InHand(h)'
  BY <1>1, <1>2, <1>3, <1>4 DEF InHand, Working
<1>6. HandlerHolds(h)' /\ Effect(h)
  BY <1>1, <1>2, <1>3, <1>5, MoveHolds, GotoEffect DEF Places, Working
<1>. QED BY <1>1, <1>6, Finish

LEMMA DocumentHitInv ==
  ASSUME IInv, NEW h \in Handlers, DocumentHit(h) PROVE IInv'
<1>1. /\ CachesHold' /\ RingHolds' /\ Own(h) /\ UNCHANGED <<config, req, bodies>>
  BY SameCaches, SameOwn DEF DocumentHit
<1>2. docs[Source(h)] = Source(h) /\ Source(h) \in Lexable
  BY DEF IInv, CachesHold, Kept, DocumentHit
<1>3. Kind[Text(h)] # "none"
  BY <1>2, AtWork, Constants DEF Lexable, Source, DocumentHit, Working
<1>4. HandlerHolds(h)' /\ Effect(h)
  BY <1>1, <1>2, <1>3, ParsedHolds DEF DocumentHit
<1>. QED BY <1>1, <1>4, Finish

\* The parser has the tokens of its own text.
LEMMA TokensInv ==
  ASSUME IInv, NEW h \in Handlers, TokensHit(h) \/ TokensStore(h) PROVE IInv'
<1>1. /\ at[h] \in {"lex", "lexed"} /\ UNCHANGED <<config, apq, parsed, req, bodies>>
      /\ at[h] \in Working \ {"next"}
  BY DEF TokensHit, TokensStore, caches, Working
<1>2. InHand(h) /\ Text(h) \in Texts /\ Source(h) \in Texts
  BY <1>1, AtWork
<1>3. CASE Kind[Text(h)] = "none" /\ Parsed(h, "") /\ UNCHANGED <<lexing, found>>
  <2>1. HandlerHolds(h)' /\ Effect(h)
    BY <1>1, <1>3, ParsedHolds
  <2>. QED BY <1>1, <1>3, <2>1, SameCaches, SameOwn, Finish DEF caches
<1>4. CASE /\ Kind[Text(h)] # "none" /\ found' = [found EXCEPT ![h] = Source(h)]
           /\ Goto(h, "built") /\ UNCHANGED <<goal, parts, status>>
           /\ UNCHANGED lexing \/ (StoreTokens(Source(h)) /\ config.lexLimit > 0)
  <2>1. Source(h) \in Lexable
    BY <1>2, <1>4, Constants DEF Lexable, Source
  <2>2. CachesHold' /\ RingHolds'
    BY <1>1, <1>4, <2>1, SameCaches, StoreTokensHolds DEF caches
  <2>3. at'[h] = "built" /\ found'[h] = Source(h)
    BY <1>4 DEF IInv, TypeOK, Goto
  <2>4. Text(h)' = Text(h) /\ Source(h)' = Source(h)
    BY <1>1, <1>4 DEF Text, Source, Item
  <2>5. InHand(h)'
    BY <1>1, <1>2, <1>4, <2>3, <2>4 DEF InHand, Working
  <2>6. HandlerHolds(h)' /\ Effect(h)
    BY <1>1, <1>4, <2>5, MoveHolds, GotoEffect DEF Places, Working
  <2>7. Own(h)
    BY <1>1, <1>2, <1>4 DEF IInv, TypeOK, Own
  <2>. QED BY <1>1, <2>2, <2>6, <2>7, Finish
<1>5. ASSUME TokensHit(h), config.lexLimit # 0
      PROVE  tokens[Source(h)] = Source(h) /\ Kind[Text(h)] # "none"
  BY <1>2, <1>5, Constants DEF IInv, CachesHold, Kept, Lexable, TokensHit, Source
<1>6. TokensStore(h) => config.lexLimit > 0
  BY <1>2 DEF InHand, TokensStore
<1>7. CASE TokensHit(h)
  BY <1>3, <1>4, <1>5, <1>7 DEF TokensHit, caches
<1>8. CASE TokensStore(h)
  BY <1>3, <1>4, <1>6, <1>8 DEF TokensStore
<1>. QED BY <1>7, <1>8

LEMMA DocumentStoreInv ==
  ASSUME IInv, NEW h \in Handlers, DocumentStore(h) PROVE IInv'
<1>1. at[h] = "built" /\ at[h] \in Working \ {"next"} /\ UNCHANGED <<config, apq, lexing, req, bodies>>
  BY DEF DocumentStore, Working
<1>2. /\ Kind[Text(h)] # "none" /\ found[h] = Source(h)
      /\ Text(h) \in Texts /\ Source(h) \in Texts
  BY <1>1, AtWork DEF InHand
<1>3. HandlerHolds(h)' /\ Effect(h)
  BY <1>1, <1>2, ParsedHolds DEF DocumentStore
<1>4. Source(h) \in Lexable
  BY <1>2, Constants DEF Lexable, Source
<1>5. UNCHANGED parsed \/ (StoreDocument(Source(h), Source(h)) /\ config.docLimit > 0)
  <2>1. Cacheable(h) => config.docLimit > 0
    BY DEF Cacheable
  <2>. QED BY <1>2, <2>1 DEF DocumentStore
<1>6. CachesHold' /\ RingHolds'
  BY <1>1, <1>4, <1>5, SameCaches, StoreDocumentHolds DEF caches
<1>7. Own(h)
  BY <1>1 DEF IInv, TypeOK, Own, DocumentStore
<1>. QED BY <1>1, <1>3, <1>6, <1>7, Finish

LEMMA ReturnInv ==
  ASSUME IInv, NEW h \in Handlers, Return(h) PROVE IInv'
<1>1. CachesHold' /\ RingHolds' /\ config' = config
  BY SameCaches DEF Return
<1>2. <<>> \in Seq(Texts) /\ <<>> \in Seq(Outcomes)
  OBVIOUS
<1>3. Effect(h) /\ Own(h)
  BY <1>2 DEF IInv, TypeOK, Return, Goto, Effect, Own, Places
<1>4. at'[h] = "idle" /\ bodies'[h] = <<>> /\ parts'[h] = <<>>
  BY DEF IInv, TypeOK, Return, Goto
<1>5. HandlerHolds(h)'
  BY <1>4 DEF HandlerHolds, Working
<1>. QED BY <1>1, <1>3, <1>5, Finish

LEMMA NextInv == IInv /\ [Next]_vars => IInv'
<1>. SUFFICES ASSUME IInv, [Next]_vars PROVE IInv'
  OBVIOUS
<1>1. CASE UNCHANGED vars
  <2>1. CachesHold' /\ RingHolds'
    BY <1>1, SameCaches DEF vars
  <2>2. \A g \in Handlers : HandlerHolds(g)'
    BY <1>1, Elsewhere DEF IInv, Same, vars
  <2>. QED BY <1>1, <2>1, <2>2 DEF IInv, TypeOK, vars
<1>2. ASSUME NEW h \in Handlers, NEW r \in Inputs, Arrive(h, r) PROVE IInv'
  BY <1>2, ArriveInv
<1>3. ASSUME NEW h \in Handlers,
             \/ Decode(h) \/ Decoded(h) \/ NextOperation(h)
             \/ KindKnown(h) \/ Lexes(h, "kind", "kind lexed") \/ KindStore(h)
             \/ DocumentHit(h) \/ DocumentMiss(h) \/ DocumentStore(h)
             \/ TokensHit(h) \/ Lexes(h, "lex", "lexed") \/ TokensStore(h)
             \/ Return(h)
      PROVE  IInv'
  BY <1>3, DecodeInv, DecodedInv, NextOperationInv, KindInv, LexesInv, DocumentHitInv,
     DocumentStoreInv, TokensInv, ReturnInv
<1>. QED BY <1>1, <1>2, <1>3 DEF Next, AllDone

\* What is kept under a key is what the key says, and a handler has of its
\* request's operations what they asked for, at every place of its way.
THEOREM Invariance == Spec => []IInv
BY InitInv, NextInv, PTL DEF Spec

\* A request is answered for what it asked, each operation of a batch in its
\* place, whatever other handlers register, evict and parse between the steps of
\* this one: executor.go:388, apq.go:45, http_transport.go:243.
THEOREM Answers == Spec => []RightAnswer
<1>1. IInv => RightAnswer
  BY DEF IInv, HandlerHolds, RightAnswer
<1>. QED BY <1>1, Invariance, PTL

-----------------------------------------------------------------------------
(* What was executed                                                       *)

\* What has been executed was judged by the method and the batch of its request.
Judged(h) == \A i \in DOMAIN parts[h] :
                parts[h][i].document # "" => ~Barred(req[h], Kind[parts[h][i].document])

\* The right outcome of an operation that is barred has no document.
LEMMA RightJudged ==
  ASSUME NEW r \in Inputs, NEW t \in Texts,
         NEW part \in Right(r, t), part.document # ""
  PROVE  ~Barred(r, Kind[part.document])
<1>1. /\ Kind[Norm[t]] = Kind[t] /\ Kind[t] \in {"query", "mutation", "subscription", "none"}
      /\ r.batch \in BOOLEAN
  BY Constants, InputsAssumption
<1>2. CASE r.batch
  <2>1. Right(r, t) = IF Kind[t] = "query" THEN {[outcome |-> "executed", document |-> Norm[t]]}
                      ELSE {[outcome |-> "refused", document |-> ""]}
    BY <1>2, Zenon DEF Right
  <2>2. Kind[t] # "query" => part = [outcome |-> "refused", document |-> ""]
    BY <2>1
  <2>3. Kind[t] = "query" => part = [outcome |-> "executed", document |-> Norm[t]]
    BY <2>1
  <2>4. Kind[t] = "query" /\ part.document = Norm[t]
    <3>1. CASE Kind[t] # "query"
      <4>1. part = [outcome |-> "refused", document |-> ""]
        BY <2>2, <3>1
      <4>. QED BY <4>1
    <3>2. CASE Kind[t] = "query"
      <4>1. part = [outcome |-> "executed", document |-> Norm[t]]
        BY <2>3, <3>2
      <4>. QED BY <4>1, <3>2
    <3>. QED BY <3>1, <3>2
  <2>. QED BY <1>1, <1>2, <2>4 DEF Barred
<1>3. CASE ~r.batch
  <2>1. CASE Kind[t] = "none"
    <3>1. Right(r, t) = {[outcome |-> "error", document |-> ""]}
      BY <1>3, <2>1 DEF Right
    <3>2. part = [outcome |-> "error", document |-> ""]
      BY <3>1
    <3>. QED BY <3>2
  <2>2. CASE Kind[t] = "query" \/ (Kind[t] = "mutation" /\ r.method = "POST")
    <3>. DEFINE outcome == IF Norm[t] \in Deferred /\ MultipartAccepted(r) THEN "streamed" ELSE "executed"
    <3>1. part.document = Norm[t]
      <4>1. Right(r, t) = {[outcome |-> outcome, document |-> Norm[t]]}
        BY <1>3, <2>2 DEF Right
      <4>. HIDE DEF outcome
      <4>2. part = [outcome |-> outcome, document |-> Norm[t]]
        BY <4>1
      <4>. QED BY <4>2
    <3>. QED BY <1>1, <1>3, <2>2, <3>1 DEF Barred
  <2>3. CASE Kind[t] = "subscription" \/ (Kind[t] = "mutation" /\ r.method # "POST")
    BY <1>3, <2>3 DEF Right
  <2>. QED BY <1>1, <2>1, <2>2, <2>3
<1>. QED BY <1>1, <1>2, <1>3

\* For any number of handlers and any caches, at any time and whatever the request
\* is answered in the end: a mutation is executed for a POST alone, nothing but
\* queries in a batch, and no subscription: http_transport.go:211, :258.
THEOREM Judging == Spec => [](\A h \in Handlers : Judged(h))
<1>1. IInv => \A h \in Handlers : Judged(h)
  <2>. SUFFICES ASSUME IInv, NEW h \in Handlers PROVE Judged(h)
    OBVIOUS
  <2>1. HandlerHolds(h) /\ at[h] \in {"idle", "decoding", "answered"} \cup Working
    BY DEF IInv, TypeOK
  <2>2. CASE at[h] = "idle"
    <3>1. parts[h] = <<>>
      BY <2>1, <2>2 DEF HandlerHolds
    <3>2. DOMAIN parts[h] = {}
      BY <3>1
    <3>. QED BY <3>2 DEF Judged
  <2>3. CASE at[h] # "idle"
    <3>1. Executed(h)
      BY <2>1, <2>3 DEF HandlerHolds, SoFar, Executed
    <3>2. parts[h] \in Seq(Outcomes) /\ bodies[h] \in Seq(Texts)
      BY DEF IInv, TypeOK
    <3>3. ASSUME NEW i \in DOMAIN parts[h] PROVE bodies[h][i] \in Texts
      <4>1. i \in 1 .. Len(bodies[h])
        BY <3>1, <3>2 DEF Executed
      <4>. QED BY <3>2, <4>1, ElementOfSeq
    <3>. QED BY <3>1, <3>3, RightJudged DEF Executed, Judged
  <2>. QED BY <2>2, <2>3
<1>. QED BY <1>1, Invariance, PTL

-----------------------------------------------------------------------------
(* The three caches keep their promises                                    *)

\* The token cache as the code has it: the order of its keys, which its promise
\* leaves open, is the order in which they came.  executor.go:427.
TokenQueue == INSTANCE Cache WITH Keys <- Texts, limit <- config.lexLimit,
                                  held <- DOMAIN tokens, age <- tokenOrder

\* A ring that is read from place n on, and round again.
LEMMA Rotation ==
  ASSUME NEW S, NEW size \in Nat, NEW r \in [1 .. size -> S], NEW n \in 1 .. size
  PROVE  LET t == SubSeq(r, n, size) \o SubSeq(r, 1, n - 1) IN
         /\ t \in Seq(S) /\ Len(t) = size
         /\ \A i \in 1 .. size : t[i] = IF i <= size - n + 1 THEN r[n + i - 1] ELSE r[i - (size - n + 1)]
<1>. DEFINE new == SubSeq(r, n, size)
            old == SubSeq(r, 1, n - 1)
            len == size - n + 1
<1>1. /\ \A i \in n .. size : r[i] \in S
      /\ \A i \in 1 .. n - 1 : r[i] \in S
  OBVIOUS
<1>2. n \in Int /\ size \in Int /\ n - 1 \in Int /\ 1 \in Int
  OBVIOUS
<1>3. new \in Seq(S) /\ Len(new) = len /\ \A i \in 1 .. len : new[i] = r[n + i - 1]
  BY <1>1, <1>2, SubSeqProperties
<1>4. old \in Seq(S) /\ Len(old) = n - 1 /\ \A i \in 1 .. n - 1 : old[i] = r[i]
  <2>1. /\ old \in Seq(S)
        /\ Len(old) = IF 1 <= n - 1 THEN n - 1 - 1 + 1 ELSE 0
        /\ \A i \in 1 .. n - 1 - 1 + 1 : old[i] = r[1 + i - 1]
    BY <1>1, <1>2, SubSeqProperties
  <2>. HIDE DEF old
  <2>2. n - 1 - 1 + 1 = n - 1 /\ \A i \in 1 .. n - 1 : 1 + i - 1 = i
    OBVIOUS
  <2>3. Len(old) = n - 1
    BY <2>1
  <2>. QED BY <2>1, <2>2, <2>3
<1>. HIDE DEF new, old
<1>5. len + (n - 1) = size /\ len \in Nat
  BY DEF len
<1>6. /\ new \o old \in Seq(S) /\ Len(new \o old) = size
      /\ \A i \in 1 .. size : (new \o old)[i] = IF i <= len THEN new[i] ELSE old[i - len]
  <2>. HIDE DEF len
  <2>1. /\ new \o old \in Seq(S) /\ Len(new \o old) = Len(new) + Len(old)
        /\ \A i \in 1 .. Len(new) + Len(old) :
              (new \o old)[i] = IF i <= Len(new) THEN new[i] ELSE old[i - Len(new)]
    BY <1>3, <1>4, ConcatProperties
  <2>2. Len(new) = len /\ Len(new) + Len(old) = size
    BY <1>3, <1>4, <1>5
  <2>. QED BY <2>1, <2>2
<1>7. ASSUME NEW i \in 1 .. size
      PROVE  (new \o old)[i] = IF i <= len THEN r[n + i - 1] ELSE r[i - len]
  <2>1. CASE i <= len
    <3>1. i \in 1 .. len
      BY <2>1, <1>5
    <3>. QED BY <1>3, <1>6, <2>1, <3>1
  <2>2. CASE ~(i <= len)
    <3>1. i - len \in 1 .. n - 1
      BY <2>2, <1>5
    <3>. QED BY <1>4, <1>6, <2>2, <3>1
  <2>. QED BY <2>1, <2>2
<1>. QED BY <1>6, <1>7 DEF new, old

\* The sequence that store makes of a ring in which every place is taken.
LEMMA RotateOn ==
  ASSUME NEW S, NEW size \in Nat, ring \in [1 .. size -> S], next \in 1 .. size, NEW k \in S,
         ring' = [ring EXCEPT ![next] = k], next' = IF next = size THEN 1 ELSE next + 1
  PROVE  LET before == SubSeq(ring, next, size) \o SubSeq(ring, 1, next - 1) IN
         /\ Head(before) = ring[next] /\ Len(before) = size
         /\ SubSeq(ring', next', size) \o SubSeq(ring', 1, next' - 1) = Append(Tail(before), k)
<1>. DEFINE before == SubSeq(ring, next, size) \o SubSeq(ring, 1, next - 1)
            after  == SubSeq(ring', next', size) \o SubSeq(ring', 1, next' - 1)
            wanted == Append(Tail(before), k)
<1>1. /\ before \in Seq(S) /\ Len(before) = size
      /\ \A i \in 1 .. size : before[i] = IF i <= size - next + 1 THEN ring[next + i - 1] ELSE ring[i - (size - next + 1)]
  BY Rotation
<1>2. /\ ring' \in [1 .. size -> S]
      /\ \A i \in 1 .. size : ring'[i] = IF i = next THEN k ELSE ring[i]
  OBVIOUS
<1>3. next' \in 1 .. size
  OBVIOUS
<1>. HIDE DEF before
<1>4. /\ after \in Seq(S) /\ Len(after) = size
      /\ \A i \in 1 .. size :
            after[i] = IF i <= size - next' + 1 THEN ring'[next' + i - 1] ELSE ring'[i - (size - next' + 1)]
  BY <1>2, <1>3, Rotation
<1>5. Head(before) = ring[next] /\ before # <<>>
  <2>1. before # <<>> /\ Head(before) = before[1]
    BY <1>1
  <2>2. before[1] = ring[next]
    BY <1>1
  <2>. QED BY <2>1, <2>2
<1>6. /\ Tail(before) \in Seq(S) /\ Len(Tail(before)) = size - 1
      /\ \A i \in 1 .. size - 1 : Tail(before)[i] = before[i + 1]
  BY <1>1, <1>5, HeadTailProperties
<1>7. /\ wanted \in Seq(S) /\ Len(wanted) = size /\ wanted[size] = k
      /\ \A i \in 1 .. size - 1 : wanted[i] = before[i + 1]
  <2>1. /\ wanted \in Seq(S) /\ Len(wanted) = Len(Tail(before)) + 1
        /\ \A i \in 1 .. Len(Tail(before)) : wanted[i] = Tail(before)[i]
        /\ wanted[Len(Tail(before)) + 1] = k
    BY <1>6, AppendProperties
  <2>2. Len(Tail(before)) + 1 = size
    BY <1>6
  <2>. QED BY <1>6, <2>1, <2>2
<1>. HIDE DEF after, wanted
<1>8. ASSUME NEW i \in 1 .. size PROVE after[i] = wanted[i]
  <2>1. CASE i = size
    <3>1. after[i] = ring'[next]
      <4>1. CASE next = size
        BY <1>4, <2>1, <4>1
      <4>2. CASE next # size
        <5>1. ~(size <= size - next' + 1) /\ size - (size - next' + 1) = next
          BY <4>2
        <5>. QED BY <1>4, <2>1, <5>1
      <4>. QED BY <4>1, <4>2
    <3>. QED BY <1>2, <1>7, <2>1, <3>1
  <2>2. CASE i # size
    <3>1. i \in 1 .. size - 1 /\ i + 1 \in 1 .. size
      BY <2>2
    <3>2. CASE next = size
      <4>1. next' = 1 /\ i <= size - next' + 1 /\ next' + i - 1 = i /\ i # next
        BY <3>1, <3>2
      <4>2. after[i] = ring[i]
        <5>1. after[i] = ring'[i]
          BY <1>4, <4>1
        <5>. QED BY <1>2, <4>1, <5>1
      <4>3. before[i + 1] = ring[i]
        <5>1. size - next + 1 = 1 /\ ~(i + 1 <= 1) /\ (i + 1) - 1 = i
          BY <3>1, <3>2
        <5>. QED BY <1>1, <3>1, <5>1
      <4>. QED BY <1>7, <3>1, <4>2, <4>3
    <3>3. CASE next # size /\ i <= size - next
      <4>1. next' = next + 1 /\ i <= size - next' + 1 /\ next' + i - 1 = next + i /\ next + i \in 1 .. size /\ next + i # next
        BY <3>1, <3>3
      <4>2. after[i] = ring[next + i]
        <5>1. after[i] = ring'[next + i]
          BY <1>4, <4>1
        <5>. QED BY <1>2, <4>1, <5>1
      <4>3. before[i + 1] = ring[next + i]
        <5>1. i + 1 <= size - next + 1 /\ next + (i + 1) - 1 = next + i
          BY <3>1, <3>3
        <5>. QED BY <1>1, <3>1, <5>1
      <4>. QED BY <1>7, <3>1, <4>2, <4>3
    <3>4. CASE next # size /\ ~(i <= size - next)
      <4>1. /\ next' = next + 1 /\ ~(i <= size - next' + 1)
            /\ i - (size - next' + 1) = i - (size - next)
            /\ i - (size - next) \in 1 .. size /\ i - (size - next) # next
        BY <3>1, <3>4
      <4>2. after[i] = ring[i - (size - next)]
        <5>1. after[i] = ring'[i - (size - next)]
          BY <1>4, <4>1
        <5>. QED BY <1>2, <4>1, <5>1
      <4>3. before[i + 1] = ring[i - (size - next)]
        <5>1. ~(i + 1 <= size - next + 1) /\ i + 1 - (size - next + 1) = i - (size - next)
          BY <3>1, <3>4
        <5>. QED BY <1>1, <3>1, <5>1
      <4>. QED BY <1>7, <3>1, <4>2, <4>3
    <3>. QED BY <3>2, <3>3, <3>4
  <2>. QED BY <2>1, <2>2
<1>9. after = wanted
  BY <1>4, <1>7, <1>8, SeqEqual
<1>. QED BY <1>1, <1>5, <1>9 DEF before, after, wanted

\* The same of a ring that was written up to place n - 1.
LEMMA FillOn ==
  ASSUME NEW S, NEW size \in Nat, NEW r \in [1 .. size -> S], NEW n \in 1 .. size, NEW k \in S
  PROVE  LET stored == [r EXCEPT ![n] = k] IN
         /\ Len(SubSeq(r, 1, n - 1)) = n - 1
         /\ SubSeq(stored, 1, n) = Append(SubSeq(r, 1, n - 1), k)
<1>. DEFINE stored == [r EXCEPT ![n] = k]
            old    == SubSeq(r, 1, n - 1)
<1>1. stored \in Seq(S) /\ Len(stored) = size /\ stored[n] = k /\ \A i \in 1 .. n - 1 : stored[i] = r[i]
  OBVIOUS
<1>2. n \in Int /\ n - 1 \in Int /\ 1 \in Int /\ n - 1 >= 0
  OBVIOUS
<1>3. \A i \in 1 .. n - 1 : r[i] \in S /\ stored[i] \in S
  OBVIOUS
<1>4. /\ old \in Seq(S) /\ Len(old) = IF 1 <= n - 1 THEN n - 1 - 1 + 1 ELSE 0
      /\ \A i \in 1 .. n - 1 - 1 + 1 : old[i] = r[1 + i - 1]
  BY <1>2, <1>3, SubSeqProperties
<1>. HIDE DEF stored
<1>5. /\ SubSeq(stored, 1, n - 1) \in Seq(S)
      /\ Len(SubSeq(stored, 1, n - 1)) = IF 1 <= n - 1 THEN n - 1 - 1 + 1 ELSE 0
      /\ \A i \in 1 .. n - 1 - 1 + 1 : SubSeq(stored, 1, n - 1)[i] = stored[1 + i - 1]
  BY <1>2, <1>3, SubSeqProperties
<1>6. SubSeq(stored, 1, n) = SubSeq(stored, 1, n - 1) \o <<stored[n]>>
  <2>1. 1 \in 1 .. Len(stored) /\ n \in 1 .. Len(stored)
    BY <1>1
  <2>. QED BY <1>1, <2>1, SubSeqRecursiveSecond
<1>7. SubSeq(stored, 1, n - 1) = old
  <2>. DEFINE kept == SubSeq(stored, 1, n - 1)
  <2>. HIDE DEF kept, old
  <2>1. n - 1 - 1 + 1 = n - 1 /\ \A i \in 1 .. n - 1 : 1 + i - 1 = i
    OBVIOUS
  <2>2. kept \in Seq(S) /\ Len(kept) = n - 1 /\ \A i \in 1 .. n - 1 : kept[i] = stored[i]
    BY <1>2, <1>5, <2>1 DEF kept
  <2>3. old \in Seq(S) /\ Len(old) = n - 1 /\ \A i \in 1 .. n - 1 : old[i] = r[i]
    BY <1>2, <1>4, <2>1
  <2>4. kept = old
    BY <1>1, <2>2, <2>3, SeqEqual
  <2>. QED BY <2>4 DEF kept
<1>8. Append(old, k) = old \o <<k>>
  <2>. HIDE DEF old
  <2>. QED BY <1>4, AppendIsConcat
<1>. QED BY <1>1, <1>2, <1>4, <1>6, <1>7, <1>8 DEF stored

\* A query that is registered leaves the ring as the contract says.
LEMMA StoreQueryRefines ==
  ASSUME IInv, NEW text \in Texts, config.apqSize > 0, StoreQuery(text, text),
         UNCHANGED <<config, lexing, parsed>>
  PROVE  Queries!Insert(text) \/ UNCHANGED Queries!vars
<1>. DEFINE size == config.apqSize
            s    == Texts \cup {""}
<1>1. CASE UNCHANGED apq
  BY <1>1 DEF apq, Queries!vars, RingAge, RingFull
<1>2. CASE /\ text \notin DOMAIN queries
           /\ queries' = With(Without(queries, ring[next]), text, text)
           /\ ring' = [ring EXCEPT ![next] = text]
           /\ next' = (next % size) + 1
  <2>1. size \in Nat /\ size > 0 /\ size' = size
    BY ConfigsAssumption DEF IInv, TypeOK
  <2>2. ring \in [1 .. size -> s] /\ next \in Nat \ {0} /\ next <= size
    BY DEF IInv, RingHolds
  <2>3. \A i \in 1 .. size : i < next \/ RingFull <=> ring[i] # ""
    BY <2>2 DEF IInv, RingHolds
  <2>4. DOMAIN queries' = (DOMAIN queries \ {ring[next]}) \cup {text}
    BY <1>2 DEF With, Without
  <2>. HIDE DEF size, s
  <2>5. next \in 1 .. size /\ ring \in Seq(s) /\ Len(ring) = size
    BY <2>1, <2>2
  <2>6. next' = IF next = size THEN 1 ELSE next + 1
    BY <1>2, <2>1, <2>5, Wrap
  <2>7. text \in s
    BY DEF s
  <2>8. ring' \in [1 .. size -> s] /\ (\A i \in 1 .. size : ring'[i] = IF i = next THEN text ELSE ring[i])
    BY <1>2, <2>2, <2>7
  <2>9. ring' \in Seq(s) /\ Len(ring') = size /\ next' \in 1 .. size
    BY <2>1, <2>5, <2>6, <2>8
  <2>10. text # "" /\ "" \notin DOMAIN queries
    BY Constants DEF IInv, CachesHold, Kept
  <2>11. RingFull <=> ring[next] # ""
    BY <2>5, <2>2 DEF RingFull
  <2>12. RingFull' <=> ring'[next'] # ""
    BY <2>9, <2>8 DEF RingFull
  <2>13. RingFull =>
           /\ Len(RingAge) = size /\ Head(RingAge) = ring[next]
           /\ RingAge' = Append(Tail(RingAge), text)
    <3>. SUFFICES ASSUME RingFull
                  PROVE  /\ Len(RingAge) = size /\ Head(RingAge) = ring[next]
                         /\ RingAge' = Append(Tail(RingAge), text)
      OBVIOUS
    <3>1. \A i \in 1 .. size : ring[i] # ""
      BY <2>3
    <3>2. RingFull'
      BY <2>8, <2>9, <2>10, <2>12, <3>1
    <3>3. RingAge = SubSeq(ring, next, size) \o SubSeq(ring, 1, next - 1)
      BY <2>5 DEF RingAge
    <3>4. RingAge' = SubSeq(ring', next', size) \o SubSeq(ring', 1, next' - 1)
      BY <2>9, <3>2 DEF RingAge
    <3>. DEFINE before == SubSeq(ring, next, size) \o SubSeq(ring, 1, next - 1)
    <3>5. /\ size \in Nat /\ ring \in [1 .. size -> s] /\ next \in 1 .. size /\ text \in s
          /\ ring' = [ring EXCEPT ![next] = text] /\ next' = IF next = size THEN 1 ELSE next + 1
      BY <1>2, <2>1, <2>2, <2>5, <2>6, <2>7
    <3>6. /\ Head(before) = ring[next] /\ Len(before) = size
          /\ SubSeq(ring', next', size) \o SubSeq(ring', 1, next' - 1) = Append(Tail(before), text)
      BY <3>5, RotateOn
    <3>. HIDE DEF before
    <3>. QED BY <3>3, <3>4, <3>6 DEF before
  <2>14. ~RingFull =>
           /\ Len(RingAge) = next - 1 /\ RingAge' = Append(RingAge, text)
           /\ ring[next] = ""
    <3>. DEFINE old == SubSeq(ring, 1, next - 1)
                now == SubSeq(ring', 1, next)
    <3>1. SUFFICES ASSUME ~RingFull
                   PROVE  Len(RingAge) = next - 1 /\ RingAge' = Append(RingAge, text)
      BY <2>11
    <3>2. Len(old) = next - 1 /\ now = Append(old, text)
      BY <1>2, <2>1, <2>2, <2>5, <2>7, FillOn
    <3>3. old \in Seq(s) /\ now \in Seq(s)
      <4>1. /\ \A i \in 1 .. next - 1 : ring[i] \in s
            /\ \A i \in 1 .. next : ring'[i] \in s
        BY <2>1, <2>2, <2>5, <2>8
      <4>2. 1 \in Int /\ next \in Int /\ next - 1 \in Int
        BY <2>5
      <4>. QED BY <4>1, <4>2, SubSeqProperties
    <3>. HIDE DEF old, now
    <3>4. RingAge = old
      <4>1. RingAge = <<>> \o old
        BY <3>1 DEF RingAge, old
      <4>. QED BY <3>3, <4>1, ConcatEmptySeq
    <3>5. RingAge' = now
      <4>1. CASE next = size
        <5>1. next' = 1
          BY <2>6, <4>1
        <5>2. ring'[1] # ""
          <6>1. 1 \in 1 .. size /\ (1 # next => 1 < next)
            BY <2>5, <4>1
          <6>2. 1 # next => ring[1] # ""
            BY <2>3, <6>1
          <6>. QED BY <2>8, <2>10, <6>1, <6>2
        <5>3. RingAge' = SubSeq(ring', 1, next) \o SubSeq(ring', 1, 0)
          <6>1. next' - 1 = 0
            BY <5>1
          <6>2. Len(ring') = next
            BY <2>9, <4>1
          <6>3. RingFull'
            BY <2>12, <5>1, <5>2
          <6>. QED BY <5>1, <6>1, <6>2, <6>3 DEF RingAge
        <5>4. SubSeq(ring', 1, 0) = <<>>
          BY SubSeqEmpty
        <5>5. RingAge' = now \o <<>>
          BY <5>3, <5>4 DEF now
        <5>. QED BY <3>3, <5>5, ConcatEmptySeq
      <4>2. CASE next # size
        <5>1. next' = next + 1 /\ next + 1 \in 1 .. size /\ next + 1 # next /\ ~(next + 1 < next)
              /\ next + 1 - 1 = next
          BY <2>5, <2>6, <2>9, <4>2
        <5>2. ring'[next'] = ""
          BY <2>3, <2>8, <3>1, <5>1
        <5>3. RingAge' = <<>> \o now
          <6>1. next' - 1 = next
            BY <2>5, <5>1
          <6>2. ~RingFull'
            BY <2>12, <5>2
          <6>. QED BY <6>1, <6>2 DEF RingAge, now
        <5>. QED BY <3>3, <5>3, ConcatEmptySeq
      <4>. QED BY <4>1, <4>2
    <3>. QED BY <3>2, <3>4, <3>5
  <2>15. next - 1 < size /\ ~(size < size)
    BY <2>1, <2>5
  <2>16. CASE RingFull
    BY <1>2, <2>1, <2>4, <2>13, <2>15, <2>16 DEF Queries!Insert, size
  <2>17. CASE ~RingFull
    BY <1>2, <2>1, <2>4, <2>10, <2>14, <2>15, <2>17 DEF Queries!Insert, size
  <2>. QED BY <2>16, <2>17
<1>. QED BY <1>1, <1>2 DEF StoreQuery

LEMMA DomainWith ==
  ASSUME NEW map, NEW old, NEW key, NEW val
  PROVE  /\ DOMAIN With(map, key, val) = DOMAIN map \cup {key}
         /\ DOMAIN With(Without(map, old), key, val) = (DOMAIN map \ {old}) \cup {key}
BY DEF With, Without

LEMMA StoreTokensRefines ==
  ASSUME IInv, NEW source \in Lexable, config.lexLimit > 0, StoreTokens(source), config' = config
  PROVE  TokenQueue!Insert(source) \/ UNCHANGED TokenQueue!vars
<1>1. CASE source \in DOMAIN tokens
  BY <1>1 DEF StoreTokens, TokenQueue!vars, lexing
<1>2. CASE source \notin DOMAIN tokens
  <2>1. tokenOrder \in Seq(Lexable) /\ config.lexLimit \in Nat
    BY ConfigsAssumption DEF IInv, TypeOK, CachesHold
  <2>2. Len(tokenOrder) >= config.lexLimit <=> ~(Len(tokenOrder) < config.lexLimit)
    BY <2>1, OrderHolds
  <2>3. CASE Len(tokenOrder) < config.lexLimit
    <3>1. tokens' = With(tokens, source, source) /\ tokenOrder' = Append(tokenOrder, source)
      BY <1>2, <2>2, <2>3 DEF StoreTokens
    <3>2. DOMAIN tokens' = DOMAIN tokens \cup {source}
      BY <3>1 DEF With, Without
    <3>. QED BY <1>2, <2>3, <3>1, <3>2 DEF TokenQueue!Insert
  <2>4. CASE ~(Len(tokenOrder) < config.lexLimit)
    <3>1. /\ tokens' = With(Without(tokens, Head(tokenOrder)), source, source)
          /\ tokenOrder' = Append(Tail(tokenOrder), source)
      BY <1>2, <2>2, <2>4 DEF StoreTokens
    <3>2. DOMAIN tokens' = (DOMAIN tokens \ {Head(tokenOrder)}) \cup {source}
      BY <3>1 DEF With, Without
    <3>. QED BY <1>2, <2>4, <3>1, <3>2 DEF TokenQueue!Insert
  <2>. QED BY <2>3, <2>4
<1>. QED BY <1>1, <1>2

LEMMA StoreDocumentRefines ==
  ASSUME IInv, NEW key \in Lexable, NEW bundle, config.docLimit > 0, StoreDocument(key, bundle),
         config' = config
  PROVE  Documents!Insert(key) \/ UNCHANGED Documents!vars
<1>1. CASE key \in DOMAIN docs
  BY <1>1 DEF StoreDocument, Documents!vars, parsed
<1>2. CASE key \notin DOMAIN docs
  <2>1. docOrder \in Seq(Lexable) /\ config.docLimit \in Nat
    BY ConfigsAssumption DEF IInv, TypeOK, CachesHold
  <2>2. Len(docOrder) >= config.docLimit <=> ~(Len(docOrder) < config.docLimit)
    BY <2>1, OrderHolds
  <2>3. CASE Len(docOrder) < config.docLimit
    <3>1. docs' = With(docs, key, bundle) /\ docOrder' = Append(docOrder, key)
      BY <1>2, <2>2, <2>3 DEF StoreDocument
    <3>2. DOMAIN docs' = DOMAIN docs \cup {key}
      BY <3>1 DEF With, Without
    <3>. QED BY <1>2, <2>3, <3>1, <3>2 DEF Documents!Insert
  <2>4. CASE ~(Len(docOrder) < config.docLimit)
    <3>1. /\ docs' = With(Without(docs, Head(docOrder)), key, bundle)
          /\ docOrder' = Append(Tail(docOrder), key)
      BY <1>2, <2>2, <2>4 DEF StoreDocument
    <3>2. DOMAIN docs' = (DOMAIN docs \ {Head(docOrder)}) \cup {key}
      BY <3>1 DEF With, Without
    <3>. QED BY <1>2, <2>4, <3>1, <3>2 DEF Documents!Insert
  <2>. QED BY <2>3, <2>4
<1>. QED BY <1>1, <1>2

LEMMA CachesInit == Init => Queries!Init /\ TokenQueue!Init /\ Documents!Init
<1>. SUFFICES ASSUME Init PROVE Queries!Init /\ TokenQueue!Init /\ Documents!Init
  OBVIOUS
<1>1. config.apqSize \in Nat /\ config.lexLimit \in Nat /\ config.docLimit \in Nat
  BY ConfigsAssumption DEF Init
<1>2. DOMAIN queries = {} /\ DOMAIN tokens = {} /\ DOMAIN docs = {}
  BY DEF Init, Nothing
<1>3. RingAge = <<>>
  <2>1. ~RingFull
    BY DEF Init, RingFull
  <2>2. next - 1 = 0
    <3>1. next = 1
      BY DEF Init
    <3>. QED BY <3>1
  <2>3. SubSeq(ring, 1, 0) = <<>>
    BY SubSeqEmpty
  <2>4. <<>> \o <<>> = <<>>
    OBVIOUS
  <2>. QED BY <2>1, <2>2, <2>3, <2>4 DEF RingAge
<1>. QED BY <1>1, <1>2, <1>3 DEF Init, Queries!Init, TokenQueue!Init, Documents!Init

LEMMA CachesNext ==
  ASSUME IInv, [Next]_vars
  PROVE  /\ [Queries!Next]_(Queries!vars) /\ [TokenQueue!Next]_(TokenQueue!vars)
         /\ [Documents!Next]_(Documents!vars)
<1>1. UNCHANGED <<config, apq>> => UNCHANGED Queries!vars
  BY DEF apq, Queries!vars, RingAge, RingFull
<1>2. UNCHANGED <<config, lexing>> => UNCHANGED TokenQueue!vars
  BY DEF lexing, TokenQueue!vars
<1>3. UNCHANGED <<config, parsed>> => UNCHANGED Documents!vars
  BY DEF parsed, Documents!vars
<1>4. CASE UNCHANGED <<config, caches>>
  BY <1>1, <1>2, <1>3, <1>4 DEF caches
<1>5. ASSUME NEW h \in Handlers, Decode(h), ~UNCHANGED <<config, caches>>
      PROVE  [Queries!Next]_(Queries!vars) /\ UNCHANGED <<config, lexing, parsed>>
  <2>. DEFINE item == req[h].items[Len(bodies[h]) + 1]
  <2>1. /\ at[h] = "decoding" /\ Len(bodies[h]) < Len(req[h].items)
        /\ UNCHANGED <<config, lexing, parsed>>
    BY <1>5 DEF Decode
  <2>2. /\ Resolve(item) \notin {"refused", "not found", ""}
        /\ Registers(item) /\ StoreQuery(item.hash, Resolve(item))
    BY <1>5, <2>1 DEF Decode, caches
  <2>3. item \in Items
    <3>1. req[h] \in Inputs /\ bodies[h] \in Seq(Texts)
      BY <2>1 DEF IInv, TypeOK, HandlerHolds, SoFar
    <3>2. req[h].items \in Seq(Items)
      BY <3>1, InputsAssumption
    <3>3. Len(bodies[h]) + 1 \in 1 .. Len(req[h].items)
      BY <2>1, <3>1, <3>2
    <3>. QED BY <3>2, <3>3, ElementOfSeq
  <2>. HIDE DEF item
  <2>4. item.hash = Resolve(item) /\ config.apqSize > 0 /\ Resolve(item) \in Texts
    BY <2>2, <2>3, ResolveRight
  <2>. QED BY <2>1, <2>2, <2>4, StoreQueryRefines DEF Queries!Next
<1>6. ASSUME NEW h \in Handlers, KindStore(h) \/ TokensStore(h), ~UNCHANGED <<config, caches>>
      PROVE  [TokenQueue!Next]_(TokenQueue!vars) /\ UNCHANGED <<config, apq, parsed>>
  <2>1. /\ at[h] \in Working \ {"next"} /\ at[h] \in {"kind lexed", "lexed"}
        /\ UNCHANGED <<config, apq, parsed>>
    BY <1>6 DEF KindStore, TokensStore, Working
  <2>2. Kind[Text(h)] # "none" /\ StoreTokens(Source(h))
    BY <1>6, <2>1 DEF KindStore, TokensStore, caches
  <2>3. Text(h) \in Texts /\ config.lexLimit > 0
    BY <2>1, AtWork DEF InHand
  <2>4. Source(h) \in Lexable
    BY <2>2, <2>3, Constants DEF Lexable, Source
  <2>. QED BY <2>1, <2>2, <2>3, <2>4, StoreTokensRefines DEF TokenQueue!Next, Lexable
<1>7. ASSUME NEW h \in Handlers, DocumentStore(h), ~UNCHANGED <<config, caches>>
      PROVE  [Documents!Next]_(Documents!vars) /\ UNCHANGED <<config, apq, lexing>>
  <2>1. at[h] = "built" /\ at[h] \in Working \ {"next"} /\ UNCHANGED <<config, apq, lexing>>
    BY <1>7 DEF DocumentStore, Working
  <2>2. Cacheable(h) /\ StoreDocument(Source(h), found[h])
    BY <1>7, <2>1 DEF DocumentStore, caches
  <2>3. Kind[Text(h)] # "none" /\ Text(h) \in Texts
    BY <2>1, AtWork DEF InHand
  <2>4. Source(h) \in Lexable
    BY <2>3, Constants DEF Lexable, Source
  <2>5. config.docLimit > 0
    BY <2>2 DEF Cacheable
  <2>. QED BY <2>1, <2>2, <2>4, <2>5, StoreDocumentRefines DEF Documents!Next, Lexable
<1>8. \/ UNCHANGED <<config, caches>>
      \/ \E h \in Handlers : Decode(h) \/ KindStore(h) \/ TokensStore(h) \/ DocumentStore(h)
  BY DEF Next, AllDone, vars, Arrive, Decoded, NextOperation, KindKnown, Lexes, DocumentHit,
         DocumentMiss, TokensHit, Return
<1>. QED BY <1>1, <1>2, <1>3, <1>4, <1>5, <1>6, <1>7, <1>8

-----------------------------------------------------------------------------
(* What the promise of module Cache makes of the three caches *)

\* What module Cache calls sound, of a map, its order and its limit.
Coherent(K, limit, held, age) ==
  /\ limit \in Nat /\ age \in Seq(K) /\ Len(age) <= limit
  /\ held = {age[i] : i \in DOMAIN age}
  /\ \A i, j \in DOMAIN age : age[i] = age[j] => i = j

\* A key that comes is the youngest, and all others move one place up.
LEMMA Younger ==
  ASSUME NEW K, NEW limit, NEW held, NEW age, NEW held2, NEW age2, NEW k \in K,
         Coherent(K, limit, held, age), limit > 0, k \notin held,
         IF Len(age) < limit
         THEN held2 = held \cup {k} /\ age2 = Append(age, k)
         ELSE held2 = (held \ {Head(age)}) \cup {k} /\ age2 = Append(Tail(age), k)
  PROVE  Coherent(K, limit, held2, age2)
<1>1. /\ limit \in Nat /\ limit > 0 /\ k \notin held
      /\ age \in Seq(K) /\ Len(age) \in Nat /\ Len(age) <= limit /\ DOMAIN age = 1 .. Len(age)
  BY DEF Coherent
<1>2. \A i \in 1 .. Len(age) : age[i] \in held /\ age[i] # k
  BY <1>1 DEF Coherent
<1>3. \A i, j \in 1 .. Len(age) : age[i] = age[j] => i = j
  BY <1>1 DEF Coherent
<1>4. held = {age[i] : i \in 1 .. Len(age)}
  BY <1>1 DEF Coherent
<1>5. CASE Len(age) < limit
  <2>1. held2 = held \cup {k} /\ age2 = Append(age, k)
    BY <1>5
  <2>2. /\ age2 \in Seq(K) /\ Len(age2) = Len(age) + 1 /\ age2[Len(age) + 1] = k
        /\ \A i \in 1 .. Len(age) : age2[i] = age[i]
    BY <1>1, <2>1, AppendProperties
  <2>3. DOMAIN age2 = 1 .. Len(age) + 1 /\ Len(age2) <= limit
    <3>1. Len(age) + 1 <= limit
      BY <1>1, <1>5
    <3>. QED BY <1>1, <2>2, <3>1
  <2>4. \A i \in 1 .. Len(age) + 1 : i \in 1 .. Len(age) \/ i = Len(age) + 1
    BY <1>1
  <2>5. held2 = {age2[i] : i \in 1 .. Len(age) + 1}
    <3>1. \A x \in held2 : \E i \in 1 .. Len(age) + 1 : x = age2[i]
      <4>1. Len(age) + 1 \in 1 .. Len(age) + 1 /\ \A i \in 1 .. Len(age) : i \in 1 .. Len(age) + 1
        BY <1>1
      <4>. QED BY <1>4, <2>1, <2>2, <4>1
    <3>2. \A i \in 1 .. Len(age) + 1 : age2[i] \in held2
      BY <1>2, <2>1, <2>2, <2>4
    <3>. QED BY <3>1, <3>2
  <2>6. \A i, j \in 1 .. Len(age) + 1 : age2[i] = age2[j] => i = j
    BY <1>2, <1>3, <2>2, <2>4
  <2>. QED BY <1>1, <2>2, <2>3, <2>5, <2>6 DEF Coherent
<1>6. CASE ~(Len(age) < limit)
  <2>. DEFINE rest == Tail(age)
  <2>1. held2 = (held \ {Head(age)}) \cup {k} /\ age2 = Append(rest, k)
    BY <1>6
  <2>2. Len(age) = limit /\ age # <<>> /\ Head(age) = age[1] /\ Len(age) - 1 \in Nat
    <3>. DEFINE n == Len(age)
    <3>1. n \in Nat /\ limit \in Nat /\ limit > 0 /\ n <= limit /\ ~(n < limit)
      BY <1>1, <1>6
    <3>. HIDE DEF n
    <3>2. n = limit /\ n # 0 /\ n - 1 \in Nat
      BY <3>1
    <3>. USE DEF n
    <3>. QED BY <1>1, <3>2, EmptySeq
  <2>3. /\ rest \in Seq(K) /\ Len(rest) = Len(age) - 1
        /\ \A i \in 1 .. Len(age) - 1 : rest[i] = age[i + 1]
    BY <1>1, <2>2, HeadTailProperties
  <2>. HIDE DEF rest
  <2>4. /\ age2 \in Seq(K) /\ Len(age2) = Len(age) /\ age2[Len(age)] = k
        /\ \A i \in 1 .. Len(age) - 1 : age2[i] = age[i + 1]
    <3>1. /\ age2 \in Seq(K) /\ Len(age2) = Len(rest) + 1 /\ age2[Len(rest) + 1] = k
          /\ \A i \in 1 .. Len(rest) : age2[i] = rest[i]
      BY <2>1, <2>3, AppendProperties
    <3>2. Len(rest) + 1 = Len(age)
      BY <1>1, <2>3
    <3>. QED BY <2>3, <3>1, <3>2
  <2>5. DOMAIN age2 = 1 .. Len(age) /\ Len(age2) <= limit
    BY <1>1, <2>4
  <2>6. \A i \in 1 .. Len(age) :
          i = Len(age) \/ (i \in 1 .. Len(age) - 1 /\ i + 1 \in 1 .. Len(age) /\ i + 1 # 1)
    <3>1. \A n \in Nat : \A i \in 1 .. n :
             i = n \/ (i \in 1 .. n - 1 /\ i + 1 \in 1 .. n /\ i + 1 # 1)
      OBVIOUS
    <3>. QED BY <1>1, <3>1
  <2>7. held2 = {age2[i] : i \in 1 .. Len(age)}
    <3>1. ASSUME NEW x \in held2 PROVE \E i \in 1 .. Len(age) : x = age2[i]
      <4>1. CASE x = k
        <5>1. Len(age) \in 1 .. Len(age)
          BY <1>1, <2>2
        <5>. QED BY <2>4, <4>1, <5>1
      <4>2. CASE x \in held /\ x # Head(age)
        <5>1. PICK j \in 1 .. Len(age) : x = age[j]
          BY <1>4, <4>2
        <5>2. j # 1
          BY <2>2, <4>2, <5>1
        <5>3. j - 1 \in 1 .. Len(age) - 1 /\ (j - 1) + 1 = j /\ j - 1 \in 1 .. Len(age)
          BY <1>1, <5>1, <5>2
        <5>. QED BY <2>4, <5>1, <5>3
      <4>. QED BY <2>1, <4>1, <4>2
    <3>2. ASSUME NEW i \in 1 .. Len(age) PROVE age2[i] \in held2
      <4>1. CASE i = Len(age)
        BY <2>1, <2>4, <4>1
      <4>2. CASE i \in 1 .. Len(age) - 1 /\ i + 1 \in 1 .. Len(age) /\ i + 1 # 1
        <5>1. 1 \in 1 .. Len(age)
          BY <1>1, <2>2
        <5>2. age[i + 1] # Head(age)
          BY <1>3, <2>2, <4>2, <5>1
        <5>. QED BY <1>2, <2>1, <2>4, <4>2, <5>2
      <4>. QED BY <2>6, <4>1, <4>2
    <3>. QED BY <3>1, <3>2
  <2>8. ASSUME NEW i \in 1 .. Len(age), NEW j \in 1 .. Len(age), age2[i] = age2[j] PROVE i = j
    <3>1. CASE i = Len(age)
      BY <1>2, <2>4, <2>6, <2>8, <3>1
    <3>2. CASE j = Len(age)
      BY <1>2, <2>4, <2>6, <2>8, <3>2
    <3>3. CASE i # Len(age) /\ j # Len(age)
      <4>1. i + 1 = j + 1
        BY <1>3, <2>4, <2>6, <2>8, <3>3
      <4>. QED BY <4>1
    <3>. QED BY <3>1, <3>2, <3>3
  <2>. QED BY <1>1, <2>4, <2>5, <2>7, <2>8 DEF Coherent
<1>. QED BY <1>5, <1>6

LEMMA Empty ==
  ASSUME NEW K, NEW limit \in Nat
  PROVE  Coherent(K, limit, {}, <<>>)
<1>1. <<>> \in Seq(K) /\ Len(<<>>) = 0 /\ DOMAIN <<>> = {}
  BY EmptySeq
<1>2. Len(<<>>) <= limit
  BY <1>1
<1>. QED BY <1>1, <1>2 DEF Coherent

LEMMA QueriesSound ==
  /\ Queries!Init => Queries!Sound
  /\ Queries!Sound /\ [Queries!Next]_(Queries!vars) => Queries!Sound'
<1>1. Queries!Sound <=> Coherent(Texts, config.apqSize, DOMAIN queries, RingAge)
  BY DEF Queries!Sound, Coherent
<1>2. Queries!Sound' <=> Coherent(Texts, config'.apqSize, DOMAIN queries', RingAge')
  BY DEF Queries!Sound, Coherent
<1>3. Queries!Init => Queries!Sound
  BY <1>1, Empty DEF Queries!Init
<1>4. Queries!Sound /\ UNCHANGED Queries!vars => Queries!Sound'
  BY <1>1, <1>2 DEF Queries!vars
<1>5. ASSUME Queries!Sound, NEW k \in Texts, Queries!Insert(k) PROVE Queries!Sound'
  BY <1>1, <1>2, <1>5, Younger DEF Queries!Insert
<1>. QED BY <1>3, <1>4, <1>5 DEF Queries!Next

LEMMA TokenQueueSound ==
  /\ TokenQueue!Init => TokenQueue!Sound
  /\ TokenQueue!Sound /\ [TokenQueue!Next]_(TokenQueue!vars) => TokenQueue!Sound'
<1>1. TokenQueue!Sound <=> Coherent(Texts, config.lexLimit, DOMAIN tokens, tokenOrder)
  BY DEF TokenQueue!Sound, Coherent
<1>2. TokenQueue!Sound' <=> Coherent(Texts, config'.lexLimit, DOMAIN tokens', tokenOrder')
  BY DEF TokenQueue!Sound, Coherent
<1>3. TokenQueue!Init => TokenQueue!Sound
  BY <1>1, Empty DEF TokenQueue!Init
<1>4. TokenQueue!Sound /\ UNCHANGED TokenQueue!vars => TokenQueue!Sound'
  BY <1>1, <1>2 DEF TokenQueue!vars
<1>5. ASSUME TokenQueue!Sound, NEW k \in Texts, TokenQueue!Insert(k) PROVE TokenQueue!Sound'
  BY <1>1, <1>2, <1>5, Younger DEF TokenQueue!Insert
<1>. QED BY <1>3, <1>4, <1>5 DEF TokenQueue!Next

LEMMA DocumentsSound ==
  /\ Documents!Init => Documents!Sound
  /\ Documents!Sound /\ [Documents!Next]_(Documents!vars) => Documents!Sound'
<1>1. Documents!Sound <=> Coherent(Texts, config.docLimit, DOMAIN docs, docOrder)
  BY DEF Documents!Sound, Coherent
<1>2. Documents!Sound' <=> Coherent(Texts, config'.docLimit, DOMAIN docs', docOrder')
  BY DEF Documents!Sound, Coherent
<1>3. Documents!Init => Documents!Sound
  BY <1>1, Empty DEF Documents!Init
<1>4. Documents!Sound /\ UNCHANGED Documents!vars => Documents!Sound'
  BY <1>1, <1>2 DEF Documents!vars
<1>5. ASSUME Documents!Sound, NEW k \in Texts, Documents!Insert(k) PROVE Documents!Sound'
  BY <1>1, <1>2, <1>5, Younger DEF Documents!Insert
<1>. QED BY <1>3, <1>4, <1>5 DEF Documents!Next

LEMMA UpTo ==
  ASSUME NEW n \in Nat
  PROVE  IsFiniteSet(1 .. n) /\ Cardinality(1 .. n) = n
<1>1. 1 \in Int /\ n \in Int /\ (IF 1 > n THEN 0 ELSE n - 1 + 1) = n
  OBVIOUS
<1>2. IsFiniteSet(1 .. n) /\ Cardinality(1 .. n) = IF 1 > n THEN 0 ELSE n - 1 + 1
  BY <1>1, FS_Interval
<1>. QED BY <1>1, <1>2

LEMMA Fits ==
  ASSUME NEW K, NEW s \in Seq(K), NEW n \in Nat, Len(s) <= n
  PROVE  Cardinality({s[i] : i \in DOMAIN s}) <= n
<1>. DEFINE S == {s[i] : i \in 1 .. Len(s)}
            f == [i \in 1 .. Len(s) |-> s[i]]
<1>1. f \in Surjection(1 .. Len(s), S)
  BY DEF Surjection
<1>2. Len(s) \in Nat /\ DOMAIN s = 1 .. Len(s)
  OBVIOUS
<1>3. IsFiniteSet(1 .. Len(s)) /\ Cardinality(1 .. Len(s)) = Len(s)
  BY <1>2, UpTo
<1>4. IsFiniteSet(S) /\ Cardinality(S) <= Len(s)
  <2>. HIDE DEF S, f
  <2>1. IsFiniteSet(S) /\ Cardinality(S) <= Cardinality(1 .. Len(s))
    BY <1>1, <1>3, FS_Surjection, Zenon
  <2>. QED BY <1>3, <2>1, Zenon
<1>5. Cardinality(S) \in Nat
  BY <1>4, FS_CardinalityType
<1>6. Cardinality(S) <= n
  BY <1>2, <1>4, <1>5
<1>. QED BY <1>2, <1>6, Zenon

\* A sequence without repetition has as many members as places.
LEMMA Counted ==
  ASSUME NEW K, NEW s \in Seq(K), \A i, j \in DOMAIN s : s[i] = s[j] => i = j
  PROVE  Cardinality({s[i] : i \in DOMAIN s}) = Len(s)
<1>. DEFINE S == {s[i] : i \in 1 .. Len(s)}
            f == [i \in 1 .. Len(s) |-> s[i]]
<1>1. Len(s) \in Nat /\ DOMAIN s = 1 .. Len(s)
  OBVIOUS
<1>2. f \in Bijection(1 .. Len(s), S)
  BY <1>1 DEF Bijection, Injection, IsInjective, Surjection
<1>3. IsFiniteSet(1 .. Len(s)) /\ Cardinality(1 .. Len(s)) = Len(s)
  BY <1>1, UpTo
<1>4. Cardinality(S) = Len(s)
  <2>. HIDE DEF S, f
  <2>1. ExistsBijection(1 .. Len(s), S)
    BY <1>2 DEF ExistsBijection
  <2>. QED BY <1>3, <2>1, FS_Bijection, Zenon
<1>. QED BY <1>1, <1>4, Zenon

\* A sound cache that evicts by age evicts no more than a bounded set may.
LEMMA QueueIsBounded ==
  /\ TokenQueue!Init => Tokens!Init
  /\ TokenQueue!Sound /\ [TokenQueue!Next]_(TokenQueue!vars) => [Tokens!Next]_(Tokens!vars)
<1>1. TokenQueue!Init => Tokens!Init
  BY DEF TokenQueue!Init, Tokens!Init
<1>2. UNCHANGED TokenQueue!vars => UNCHANGED Tokens!vars
  BY DEF TokenQueue!vars, Tokens!vars
<1>3. ASSUME TokenQueue!Sound, NEW k \in Texts, TokenQueue!Insert(k) PROVE Tokens!Insert(k)
  <2>1. /\ config.lexLimit \in Nat /\ tokenOrder \in Seq(Texts) /\ Len(tokenOrder) \in Nat
        /\ DOMAIN tokens = {tokenOrder[i] : i \in DOMAIN tokenOrder}
    BY <1>3 DEF TokenQueue!Sound
  <2>2. Tokens!Cardinality(DOMAIN tokens) = Len(tokenOrder)
    <3>1. Cardinality(DOMAIN tokens) = Len(tokenOrder)
      BY <1>3, <2>1, Counted DEF TokenQueue!Sound
    <3>2. Tokens!Cardinality(DOMAIN tokens) = Cardinality(DOMAIN tokens)
      BY Zenon DEF Cardinality, Tokens!Cardinality
    <3>. QED BY <3>1, <3>2
  <2>3. CASE Len(tokenOrder) < config.lexLimit
    BY <1>3, <2>2, <2>3 DEF TokenQueue!Insert, Tokens!Insert
  <2>4. CASE ~(Len(tokenOrder) < config.lexLimit)
    <3>1. Head(tokenOrder) \in DOMAIN tokens
      <4>1. config.lexLimit > 0
        BY <1>3 DEF TokenQueue!Insert
      <4>2. tokenOrder # <<>> /\ 1 \in DOMAIN tokenOrder /\ Head(tokenOrder) = tokenOrder[1]
        BY <2>1, <2>4, <4>1
      <4>. QED BY <2>1, <4>2
    <3>. QED BY <1>3, <2>2, <2>4, <3>1 DEF TokenQueue!Insert, Tokens!Insert
  <2>. QED BY <2>3, <2>4
<1>. QED BY <1>1, <1>2, <1>3 DEF TokenQueue!Next, Tokens!Next

\* The ring and the document cache are bounded first-in first-out sets of keys and
\* the token cache is a bounded set, for any number of handlers between whose
\* lookups and insertions the others come, and any limit: executor.go:389, 425,
\* apq.go:45.
THEOREM Refinement == Spec => CachesSpec
<1>1. Init => Queries!Init /\ TokenQueue!Init /\ Documents!Init
  BY CachesInit
<1>2. IInv /\ [Next]_vars => /\ [Queries!Next]_(Queries!vars) /\ [TokenQueue!Next]_(TokenQueue!vars)
                             /\ [Documents!Next]_(Documents!vars)
  BY CachesNext
<1>3. Init => TokenQueue!Sound /\ Tokens!Init
  BY <1>1, TokenQueueSound, QueueIsBounded
<1>4. IInv /\ TokenQueue!Sound /\ [Next]_vars => TokenQueue!Sound' /\ [Tokens!Next]_(Tokens!vars)
  BY <1>2, TokenQueueSound, QueueIsBounded
<1>. QED BY <1>1, <1>2, <1>3, <1>4, Invariance, PTL DEF Spec, CachesSpec, Queries!Spec, Tokens!Spec, Documents!Spec

\* A key leaves the token cache in the order in which the keys came, looked up or
\* not, as from the two other caches: executor.go:427.
THEOREM TokensByAge == Spec => TokenQueue!Spec
<1>1. Init => TokenQueue!Init
  BY CachesInit
<1>2. IInv /\ [Next]_vars => [TokenQueue!Next]_(TokenQueue!vars)
  BY CachesNext
<1>. QED BY <1>1, <1>2, Invariance, PTL DEF Spec, TokenQueue!Spec

\* The map and the order of each cache name the same keys, each once, however
\* many handlers miss the same key at a time and insert it one after the other;
\* so no map grows past its limit, with none left behind in the map that the
\* order has lost: apq.go:45, executor.go:389, 426.
THEOREM CachesBounded ==
  Spec => [](/\ Queries!Sound /\ Cardinality(DOMAIN queries) <= config.apqSize
             /\ TokenQueue!Sound /\ Cardinality(DOMAIN tokens) <= config.lexLimit
             /\ Documents!Sound /\ Cardinality(DOMAIN docs) <= config.docLimit)
<1>1. Spec => Queries!Spec /\ TokenQueue!Spec /\ Documents!Spec
  BY Refinement, TokensByAge, PTL DEF CachesSpec
<1>2. Spec => []Queries!Sound /\ []TokenQueue!Sound /\ []Documents!Sound
  BY <1>1, QueriesSound, TokenQueueSound, DocumentsSound, PTL DEF Queries!Spec, TokenQueue!Spec, Documents!Spec
<1>3. Queries!Sound => Cardinality(DOMAIN queries) <= config.apqSize
  BY Fits DEF Queries!Sound
<1>4. TokenQueue!Sound => Cardinality(DOMAIN tokens) <= config.lexLimit
  BY Fits DEF TokenQueue!Sound
<1>5. Documents!Sound => Cardinality(DOMAIN docs) <= config.docLimit
  BY Fits DEF Documents!Sound
<1>. QED BY <1>2, <1>3, <1>4, <1>5, PTL

=============================================================================
