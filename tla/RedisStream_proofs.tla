------------------------- MODULE RedisStream_proofs -------------------------
(***************************************************************************)
(* For any number of requests, publishers, topics and messages, and any    *)
(* buffer and limit: the counter of active streams is exact, and what      *)
(* reaches the clients is what the contract of a subscription allows.      *)
(***************************************************************************)
EXTENDS RedisStream, FiniteSetTheorems, SequenceTheorems, TLAPS

TypeOK ==
    /\ closed \in BOOLEAN /\ down \in BOOLEAN
    /\ calls \in [Publishers -> Topics \cup {""}]
    /\ log \in Seq(Topics) /\ topic \in [Requests -> Topics]
    /\ at \in [Requests -> {"arriving", "over", "counted", "checked", "dialled", "streaming", "gone"}]
    /\ forwarder \in [Requests -> {"off", "on", "stopped", "gone"}]
    /\ pump \in [Requests -> {"off", "reading", "holding", "gone"}]
    /\ queue \in [Requests -> Seq(Nat)] /\ inbox \in [Requests -> Seq(Nat)]
    /\ seen \in [Requests -> Seq(Nat)]
    /\ held \in [Requests -> Nat] /\ opened \in [Requests -> Nat]
    /\ final \in [Requests -> {"new", "open", "error", "complete"}]
    /\ cancelled \subseteq Requests
    /\ active \in Nat

\* What is in the hands of a request before its stream is registered.
Fresh(r) ==
    /\ at[r] \in {"arriving", "over", "counted", "checked"} =>
          final[r] = "new" /\ inbox[r] = <<>>
    /\ at[r] \in {"arriving", "over", "counted", "checked", "dialled"} =>
          seen[r] = <<>> /\ queue[r] = <<>> /\ pump[r] = "off" /\ forwarder[r] = "off"
    /\ at[r] \in {"dialled", "streaming"} => final[r] = "open"

\* A goroutine of a stream ends only with its request or its bus.
Ended(r) ==
    /\ forwarder[r] \in {"stopped", "gone"} \/ pump[r] = "gone" => r \in Ending
    /\ r \in subCancelled \cup uncancelled => closed

\* A message that is on its way from Redis to the client of r.
Mine(r, k) == k \in 1 .. Len(log) /\ log[k] = topic[r]

\* What the client has, then what the pump holds, then the channel, then the
\* connection: the messages are in the order in which Redis took them.
Ordered(r) ==
    /\ Promise!Last(r) \in 0 .. Len(log)
    /\ \A i \in 1 .. Len(inbox[r]) :
          /\ Mine(r, inbox[r][i]) /\ Promise!Last(r) < inbox[r][i]
          /\ \A j \in 1 .. Len(inbox[r]) : i < j => inbox[r][i] < inbox[r][j]
    /\ \A i \in 1 .. Len(queue[r]) :
          /\ Mine(r, queue[r][i]) /\ Promise!Last(r) < queue[r][i]
          /\ \A j \in 1 .. Len(queue[r]) : i < j => queue[r][i] < queue[r][j]
          /\ \A j \in 1 .. Len(inbox[r]) : queue[r][i] < inbox[r][j]
    /\ pump[r] = "holding" =>
          /\ Mine(r, held[r]) /\ Promise!Last(r) < held[r]
          /\ \A j \in 1 .. Len(queue[r]) : held[r] < queue[r][j]
          /\ \A j \in 1 .. Len(inbox[r]) : held[r] < inbox[r][j]

IInv == /\ TypeOK /\ CounterExact
        /\ \A r \in Requests : Fresh(r) /\ Ended(r) /\ Ordered(r)

LEMMA LogLength == TypeOK => Len(log) \in Nat
<1>1. TypeOK => log \in Seq(Topics)
  BY DEF TypeOK
<1>. QED BY <1>1

-----------------------------------------------------------------------------
(* The counter *)

\* A request that is counted raises the number of those being served by one ...
LEMMA ServedAdd ==
  ASSUME TypeOK, CounterExact, NEW r \in Requests, Count(r)
  PROVE  CounterExact'
<1>1. IsFiniteSet(Counted) /\ r \notin Counted
  BY RedisStreamAssumption, FS_Subset DEF Counted, Count
<1>2. Counted' = Counted \cup {r}
  BY DEF Counted, Count, Goto, TypeOK
<1>3. Cardinality(Counted') = active' /\ IsFiniteSet(Counted')
  BY <1>1, <1>2, FS_AddElement DEF CounterExact, Count
<1>4. Cardinality(Admitted') <= MaxActive
  <2>1. CASE active + 1 > MaxActive
    <3>1. Admitted' = Admitted
      BY <1>2, <2>1 DEF Counted, Admitted, Count, Goto, TypeOK
    <3>. QED BY <3>1 DEF CounterExact
  <2>2. CASE ~(active + 1 > MaxActive)
    <3>1. Admitted' \in SUBSET Counted'
      BY DEF Admitted
    <3>2. Cardinality(Admitted') <= Cardinality(Counted') /\ Cardinality(Admitted') \in Nat
      BY <1>3, <3>1, FS_Subset, FS_CardinalityType
    <3>3. active' = active + 1 /\ active \in Nat /\ MaxActive \in Nat
      BY RedisStreamAssumption DEF Count, TypeOK
    <3>. QED BY <1>3, <2>2, <3>2, <3>3
  <2>. QED BY <2>1, <2>2
<1>. QED BY <1>3, <1>4 DEF CounterExact

\* ... and one that leaves lowers it.
LEMMA ServedRemove ==
  ASSUME TypeOK, CounterExact, NEW r \in Requests, at[r] \notin {"arriving", "gone"},
         NEW answer, Leave(r, answer)
  PROVE  CounterExact' /\ active' \in Nat
<1>1. IsFiniteSet(Counted) /\ r \in Counted /\ IsFiniteSet(Admitted)
  BY RedisStreamAssumption, FS_Subset DEF Counted, Admitted
<1>2. Counted' = Counted \ {r} /\ Admitted' \in SUBSET Admitted
  BY DEF Counted, Admitted, Leave, Goto, TypeOK
<1>3. Cardinality(Counted') = active' /\ active' \in Nat
  <2>1. Cardinality(Counted') = Cardinality(Counted) - 1 /\ IsFiniteSet(Counted')
    BY <1>1, <1>2, FS_RemoveElement
  <2>2. active' = active - 1 /\ active = Cardinality(Counted)
    BY DEF CounterExact, Leave
  <2>. QED BY <2>1, <2>2, FS_CardinalityType
<1>4. Cardinality(Admitted') <= Cardinality(Admitted) /\ Cardinality(Admitted') \in Nat /\ Cardinality(Admitted) \in Nat
  BY <1>1, <1>2, FS_Subset, FS_CardinalityType
<1>5. Cardinality(Admitted) <= MaxActive /\ MaxActive \in Nat
  BY RedisStreamAssumption DEF CounterExact
<1>. QED BY <1>3, <1>4, <1>5 DEF CounterExact

\* Between the two the handler moves on inside.
LEMMA ServedSame ==
  ASSUME TypeOK, CounterExact, active' = active,
         \A r \in Requests : \/ at'[r] = at[r]
                             \/ /\ at[r] \in {"counted", "checked", "dialled", "streaming"}
                                /\ at'[r] \in {"counted", "checked", "dialled", "streaming"}
  PROVE  CounterExact'
<1>1. Counted' = Counted /\ Admitted' = Admitted
  BY DEF Counted, Admitted
<1>. QED BY <1>1 DEF CounterExact

-----------------------------------------------------------------------------
(* What a step leaves alone *)

LEMMA OrderedKeep ==
  ASSUME NEW s \in Requests, Ordered(s), log' = log, topic' = topic,
         inbox'[s] = inbox[s], queue'[s] = queue[s], seen'[s] = seen[s], opened'[s] = opened[s],
         pump'[s] = "holding" => pump[s] = "holding" /\ held'[s] = held[s]
  PROVE  Ordered(s)'
BY DEF Ordered, Mine, Promise!Last

\* Requests, the bus and Redis are over for good.
LEMMA EndedKeep ==
  ASSUME TypeOK, NEW s \in Requests, Ended(s),
         closed => closed', down => down', cancelled \subseteq cancelled', cancelled' \subseteq Requests,
         forwarder'[s] = forwarder[s] \/ forwarder'[s] \notin {"stopped", "gone"}
            \/ s \in cancelled \/ closed \/ down,
         pump'[s] = pump[s] \/ pump'[s] # "gone" \/ s \in cancelled \/ closed \/ down,
         s \in subCancelled' \cup uncancelled' => closed'
  PROVE  Ended(s)'
BY DEF Ended, Ending, TypeOK

\* All that is not of request s.
Apart(s) ==
    /\ at'[s] = at[s] /\ forwarder'[s] = forwarder[s] /\ pump'[s] = pump[s]
    /\ queue'[s] = queue[s] /\ inbox'[s] = inbox[s] /\ held'[s] = held[s]
    /\ opened'[s] = opened[s] /\ seen'[s] = seen[s] /\ final'[s] = final[s]

LEMMA ApartKeep ==
  ASSUME IInv, NEW s \in Requests, Apart(s), log' = log, topic' = topic,
         closed => closed', down => down', cancelled \subseteq cancelled', cancelled' \subseteq Requests,
         s \in subCancelled' \cup uncancelled' => closed'
  PROVE  (Fresh(s) /\ Ended(s) /\ Ordered(s))'
<1>1. Fresh(s)'
  BY DEF IInv, Fresh, Apart
<1>2. Ended(s)'
  BY EndedKeep DEF IInv, Apart
<1>3. Ordered(s)'
  BY OrderedKeep DEF IInv, Apart
<1>. QED BY <1>1, <1>2, <1>3

-----------------------------------------------------------------------------
(* The steps of the handler *)

LEMMA CountInv ==
  ASSUME IInv, NEW r \in Requests, Count(r)
  PROVE  IInv'
<1> USE DEF bus, redis, context, client
<1>. TypeOK /\ CounterExact /\ \A s \in Requests : Fresh(s) /\ Ended(s) /\ Ordered(s)
  BY DEF IInv
<1>1. TypeOK'
  <2>1. at' \in [Requests -> {"arriving", "over", "counted", "checked", "dialled", "streaming", "gone"}]
    BY DEF TypeOK, Count, Goto
  <2>2. active' = active + 1
    BY DEF Count
  <2>3. active \in Nat
    BY DEF TypeOK
  <2>4. active' \in Nat
    BY <2>2, <2>3
  <2>. QED BY <2>1, <2>4 DEF TypeOK, Count
<1>2. CounterExact'
  BY ServedAdd
<1>3. ASSUME NEW s \in Requests PROVE (Fresh(s) /\ Ended(s) /\ Ordered(s))'
  <2>1. CASE s = r
    <3>1. Fresh(s)'
      BY <2>1 DEF TypeOK, Fresh, Count, Goto
    <3>2. Ended(s)'
      BY EndedKeep DEF TypeOK, Ended, Count
    <3>3. Ordered(s)'
      BY OrderedKeep DEF Count
    <3>. QED BY <3>1, <3>2, <3>3
  <2>2. CASE s # r
    BY <2>2, ApartKeep DEF TypeOK, Ended, Apart, Count, Goto
  <2>. QED BY <2>1, <2>2
<1>. QED BY <1>1, <1>2, <1>3 DEF IInv

\* A handler that returns with everything of its stream left as it is.
LEMMA LeaveInv ==
  ASSUME IInv, NEW r \in Requests, at[r] \notin {"arriving", "gone"},
         NEW answer \in {"new", "open", "error", "complete"}, Leave(r, answer),
         UNCHANGED <<bus, redis, forwarder, queue, pump, held, subCancelled, opened, seen, topic>>
  PROVE  IInv'
<1> USE DEF bus, redis, context, client
<1>. TypeOK /\ CounterExact /\ \A s \in Requests : Fresh(s) /\ Ended(s) /\ Ordered(s)
  BY DEF IInv
<1>1. CounterExact' /\ active' \in Nat
  BY ServedRemove
<1>2. TypeOK'
  BY <1>1 DEF TypeOK, Leave, Goto
<1>3. ASSUME NEW s \in Requests PROVE (Fresh(s) /\ Ended(s) /\ Ordered(s))'
  <2>1. CASE s = r
    <3>1. Fresh(s)'
      BY <2>1 DEF TypeOK, Fresh, Leave, Goto
    <3>2. Ended(s)'
      BY EndedKeep, <1>2 DEF TypeOK, Ended, Leave
    <3>3. Ordered(s)'
      BY OrderedKeep DEF Leave
    <3>. QED BY <3>1, <3>2, <3>3
  <2>2. CASE s # r
    <3>1. Apart(s)
      BY <2>2 DEF TypeOK, Apart, Leave, Goto
    <3>2. cancelled' \subseteq Requests /\ cancelled \subseteq cancelled'
      BY DEF TypeOK, Leave
    <3>. QED BY <3>1, <3>2, ApartKeep DEF Ended
  <2>. QED BY <2>1, <2>2
<1>. QED BY <1>1, <1>2, <1>3 DEF IInv

LEMMA DialInv ==
  ASSUME IInv, NEW r \in Requests, Dial(r)
  PROVE  IInv'
<1> USE DEF bus, redis, context, client
<1>. TypeOK /\ CounterExact /\ \A s \in Requests : Fresh(s) /\ Ended(s) /\ Ordered(s)
  BY DEF IInv
<1>. at[r] = "checked" /\ UNCHANGED <<bus, redis, forwarder, queue, pump, held, topic>>
  BY DEF Dial
<1>1. CASE Leave(r, "error") /\ UNCHANGED <<opened, seen, subCancelled>>
  BY <1>1, LeaveInv
<1>2. CASE /\ Goto(r, "dialled")
           /\ opened' = [opened EXCEPT ![r] = Len(log)]
           /\ final' = [final EXCEPT ![r] = "open"]
           /\ UNCHANGED <<active, context, seen>>
  <2>1. TypeOK'
    <3>1. Len(log) \in Nat
      BY LogLength
    <3>2. opened' \in [Requests -> Nat]
      BY <1>2, <3>1 DEF TypeOK
    <3>. QED BY <1>2, <3>2 DEF TypeOK, Goto
  <2>2. CounterExact'
    BY <1>2, ServedSame DEF TypeOK, Goto
  <2>3. ASSUME NEW s \in Requests PROVE (Fresh(s) /\ Ended(s) /\ Ordered(s))'
    <3>1. CASE s = r
      <4>1. Fresh(s)'
        BY <1>2, <3>1 DEF TypeOK, Fresh, Goto
      <4>2. Ended(s)'
        BY <1>2, EndedKeep DEF TypeOK, Ended
      <4>3. /\ seen'[s] = <<>> /\ inbox'[s] = <<>> /\ queue'[s] = <<>> /\ pump'[s] = "off"
            /\ opened'[s] = Len(log) /\ log' = log
        BY <1>2, <3>1 DEF TypeOK, Fresh
      <4>4. Len(log) \in Nat /\ Len(inbox'[s]) = 0 /\ Len(queue'[s]) = 0
        BY <4>3, LogLength
      <4>5. Promise!Last(s)' = Len(log)
        BY <4>3 DEF Promise!Last
      <4>6. Ordered(s)'
        BY <4>3, <4>4, <4>5 DEF Ordered
      <4>. QED BY <4>1, <4>2, <4>6
    <3>2. CASE s # r
      BY <1>2, <3>2, ApartKeep DEF TypeOK, Ended, Apart, Goto
    <3>. QED BY <3>1, <3>2
  <2>. QED BY <2>1, <2>2, <2>3 DEF IInv
<1>3. \/ Leave(r, "error") /\ UNCHANGED <<opened, seen, subCancelled>>
      \/ /\ Goto(r, "dialled")
         /\ opened' = [opened EXCEPT ![r] = Len(log)]
         /\ final' = [final EXCEPT ![r] = "open"]
         /\ UNCHANGED <<active, context, seen>>
  BY DEF Dial
<1>. QED BY <1>1, <1>2, <1>3

LEMMA SubscribeCheckInv ==
  ASSUME IInv, NEW r \in Requests, SubscribeCheck(r)
  PROVE  IInv'
<1>. TypeOK /\ CounterExact /\ \A s \in Requests : Fresh(s) /\ Ended(s) /\ Ordered(s)
  BY DEF IInv
<1>. at[r] = "counted" /\ UNCHANGED <<bus, redis, forwarder, queue, pump, held, topic>>
  BY DEF SubscribeCheck
<1>1. CASE Leave(r, "error") /\ UNCHANGED <<opened, seen, subCancelled>>
  BY <1>1, LeaveInv
<1>2. CASE Goto(r, "checked") /\ UNCHANGED <<active, context, client>>
  <2>1. at' = [at EXCEPT ![r] = "checked"]
    BY <1>2 DEF Goto
  <2>2. UNCHANGED <<closed, uncancelled, calls, log, down, inbox, cancelled, subCancelled, opened, seen,
                    final, active>>
    BY <1>2 DEF bus, redis, context, client
  <2>3. TypeOK'
    BY <2>1, <2>2 DEF TypeOK
  <2>4. CounterExact'
    BY <2>1, <2>2, ServedSame DEF TypeOK
  <2>5. ASSUME NEW s \in Requests PROVE (Fresh(s) /\ Ended(s) /\ Ordered(s))'
    <3>1. CASE s = r
      <4>1. Fresh(s)'
        BY <2>1, <2>2, <3>1 DEF TypeOK, Fresh
      <4>2. Ended(s)'
        BY <2>2 DEF Ended, Ending
      <4>3. Ordered(s)'
        BY <2>2, OrderedKeep
      <4>. QED BY <4>1, <4>2, <4>3
    <3>2. CASE s # r
      <4>1. Apart(s)
        BY <2>1, <2>2, <3>2 DEF TypeOK, Apart
      <4>. QED BY <2>2, <2>3, <4>1, ApartKeep DEF TypeOK, Ended
    <3>. QED BY <3>1, <3>2
  <2>. QED BY <2>3, <2>4, <2>5 DEF IInv
<1>3. \/ Leave(r, "error") /\ UNCHANGED <<opened, seen, subCancelled>>
      \/ Goto(r, "checked") /\ UNCHANGED <<active, context, client>>
  BY DEF SubscribeCheck, context, client
<1>. QED BY <1>1, <1>2, <1>3

\* The branches of ServeEnds, and the refusals.
LEMMA ReturnInv ==
  ASSUME IInv, NEW r \in Requests, Refuse(r) \/ Reject(r) \/ ServeEnds(r)
  PROVE  IInv'
<1>. TypeOK
  BY DEF IInv
<1>1. CASE Refuse(r)
  BY <1>1, LeaveInv DEF Refuse
<1>2. CASE Reject(r)
  BY <1>2, LeaveInv DEF Reject
<1>3. CASE ServeEnds(r)
  <2>1. final[r] \in {"new", "open", "error", "complete"}
    BY DEF TypeOK
  <2>2. at[r] = "streaming"
        /\ UNCHANGED <<bus, redis, forwarder, queue, pump, held, subCancelled, opened, seen, topic>>
    BY <1>3 DEF ServeEnds
  <2>3. Leave(r, final[r]) \/ Leave(r, "complete")
    BY <1>3 DEF ServeEnds
  <2>. QED BY <2>1, <2>2, <2>3, LeaveInv
<1>. QED BY <1>1, <1>2, <1>3

-----------------------------------------------------------------------------
(* The steps of a stream *)

\* A step of the goroutines of r, or of its handler while it streams.
StreamStep(r) ==
    /\ UNCHANGED <<closed, down, cancelled, subCancelled, uncancelled, log, topic, calls, active>>
    /\ \A s \in Requests \ {r} : Apart(s)

LEMMA StreamInv ==
  ASSUME IInv, NEW r \in Requests, StreamStep(r), TypeOK',
         at'[r] = at[r] \/ (at[r] = "dialled" /\ at'[r] = "streaming"),
         (Fresh(r) /\ Ended(r) /\ Ordered(r))'
  PROVE  IInv'
<1>. TypeOK /\ CounterExact /\ \A s \in Requests : Fresh(s) /\ Ended(s) /\ Ordered(s)
  BY DEF IInv
<1>. UNCHANGED <<closed, down, cancelled, subCancelled, uncancelled, log, topic, calls, active>>
     /\ \A s \in Requests \ {r} : Apart(s)
  BY DEF StreamStep
<1>1. CounterExact'
  BY ServedSame DEF Apart
<1>2. ASSUME NEW s \in Requests PROVE (Fresh(s) /\ Ended(s) /\ Ordered(s))'
  <2>1. CASE s = r
    BY <2>1
  <2>2. CASE s # r
    BY <2>2, ApartKeep DEF TypeOK, Ended
  <2>. QED BY <2>1, <2>2
<1>. QED BY <1>1, <1>2 DEF IInv

LEMMA RegisterInv ==
  ASSUME IInv, NEW r \in Requests, Register(r)
  PROVE  IInv'
<1>. TypeOK /\ Fresh(r) /\ Ended(r) /\ Ordered(r)
  BY DEF IInv
<1>. at[r] = "dialled" /\ UNCHANGED <<closed, uncancelled, calls, published, redis, queue, held, topic>>
  BY DEF Register
<1>1. CASE closed
  <2>1. Leave(r, "error") /\ UNCHANGED <<subs, forwarder, pump, opened, seen, subCancelled>>
    BY <1>1 DEF Register
  <2>. QED BY <2>1, LeaveInv DEF bus
<1>2. CASE ~closed
  <2>1. /\ at' = [at EXCEPT ![r] = "streaming"]
        /\ forwarder' = [forwarder EXCEPT ![r] = "on"]
        /\ pump' = [pump EXCEPT ![r] = "reading"]
    BY <1>2 DEF Register, Goto
  <2>2. UNCHANGED <<closed, uncancelled, calls, log, down, inbox, cancelled, subCancelled, opened, seen,
                    final, active, queue, held, topic>>
    BY <1>2 DEF Register, redis, context, client
  <2>3. TypeOK'
    BY <2>1, <2>2 DEF TypeOK
  <2>4. StreamStep(r)
    BY <2>1, <2>2 DEF StreamStep, Apart, TypeOK
  <2>5. /\ at'[r] = "streaming" /\ forwarder'[r] = "on" /\ pump'[r] = "reading" /\ final[r] = "open"
    BY <2>1 DEF TypeOK, Fresh
  <2>6. Fresh(r)' /\ Ended(r)'
    BY <2>2, <2>5 DEF Fresh, Ended
  <2>7. Ordered(r)'
    BY <2>2, <2>5, OrderedKeep
  <2>. QED BY <2>3, <2>4, <2>5, <2>6, <2>7, StreamInv
<1>. QED BY <1>1, <1>2

LEMMA PumpEndsInv ==
  ASSUME IInv, NEW r \in Requests, PumpEnds(r)
  PROVE  IInv'
<1>. TypeOK /\ Fresh(r) /\ Ended(r) /\ Ordered(r)
  BY DEF IInv
<1>1. /\ pump' = [pump EXCEPT ![r] = "gone"]
      /\ held' = [held EXCEPT ![r] = 0]
      /\ pump[r] \in {"reading", "holding"}
      /\ r \in cancelled \/ forwarder[r] = "gone"
  BY DEF PumpEnds
<1>2. UNCHANGED <<closed, uncancelled, calls, log, down, inbox, cancelled, subCancelled, opened, seen,
                  final, active, queue, topic, at, forwarder>>
  BY DEF PumpEnds, bus, redis, context, client
<1>3. TypeOK'
  BY <1>1, <1>2 DEF TypeOK
<1>4. StreamStep(r) /\ pump'[r] = "gone"
  BY <1>1, <1>2 DEF StreamStep, Apart, TypeOK
<1>5. Fresh(r)'
  BY <1>1, <1>2, <1>4 DEF Fresh, TypeOK
<1>6. Ended(r)'
  BY <1>1, <1>2 DEF Ended, Ending
<1>7. Ordered(r)'
  BY <1>2, <1>4, OrderedKeep
<1>8. at'[r] = at[r]
  BY <1>2
<1>. QED BY <1>3, <1>4, <1>5, <1>6, <1>7, <1>8, StreamInv

\* The first and the other elements of a queue.
LEMMA Elements ==
  ASSUME NEW q \in Seq(Nat), q # <<>>
  PROVE  /\ Tail(q) \in Seq(Nat) /\ Len(q) \in Nat \ {0} /\ Len(Tail(q)) = Len(q) - 1
         /\ Head(q) = q[1] /\ q[1] \in Nat
         /\ \A i \in 1 .. Len(Tail(q)) : Tail(q)[i] = q[i + 1] /\ i + 1 \in 1 .. Len(q)
OBVIOUS

LEMMA PumpReadInv ==
  ASSUME IInv, NEW r \in Requests, PumpRead(r)
  PROVE  IInv'
<1>. TypeOK /\ Fresh(r) /\ Ended(r) /\ Ordered(r)
  BY DEF IInv
<1>1. /\ pump[r] = "reading" /\ queue[r] # <<>>
      /\ held' = [held EXCEPT ![r] = Head(queue[r])]
      /\ queue' = [queue EXCEPT ![r] = Tail(queue[r])]
      /\ pump' = [pump EXCEPT ![r] = "holding"]
  BY DEF PumpRead
<1>2. UNCHANGED <<closed, uncancelled, calls, log, down, inbox, cancelled, subCancelled, opened, seen,
                  final, active, topic, at, forwarder>>
  BY DEF PumpRead, bus, redis, context, client
<1>3. queue[r] \in Seq(Nat)
  BY DEF TypeOK
<1>. DEFINE q == queue[r]
<1>4. /\ Tail(q) \in Seq(Nat) /\ Len(q) \in Nat \ {0} /\ Len(Tail(q)) = Len(q) - 1
      /\ Head(q) = q[1] /\ q[1] \in Nat
      /\ \A i \in 1 .. Len(Tail(q)) : Tail(q)[i] = q[i + 1] /\ i + 1 \in 1 .. Len(q)
  BY <1>1, <1>3, Elements
<1>5. TypeOK'
  BY <1>1, <1>2, <1>4 DEF TypeOK
<1>6. StreamStep(r) /\ pump'[r] = "holding" /\ held'[r] = q[1] /\ queue'[r] = Tail(q) /\ at'[r] = at[r]
  BY <1>1, <1>2, <1>4, ZenonT(60) DEF StreamStep, Apart, TypeOK
<1>7. Fresh(r)'
  BY <1>1, <1>2 DEF Fresh
<1>8. Ended(r)'
  BY <1>2, <1>6 DEF Ended, Ending
<1>9. Ordered(r)'
  <2>. Promise!Last(r)' = Promise!Last(r) /\ log' = log /\ inbox' = inbox /\ topic' = topic
    BY <1>2 DEF Promise!Last
  <2>1. \A i \in 1 .. Len(q) :
           /\ Mine(r, q[i]) /\ Promise!Last(r) < q[i]
           /\ \A j \in 1 .. Len(q) : i < j => q[i] < q[j]
           /\ \A j \in 1 .. Len(inbox[r]) : q[i] < inbox[r][j]
    BY DEF Ordered
  <2>2. \A k : Mine(r, k)' <=> Mine(r, k)
    BY DEF Mine
  <2>3. \A i \in 1 .. Len(inbox[r]) :
           /\ Mine(r, inbox[r][i]) /\ Promise!Last(r) < inbox[r][i]
           /\ \A j \in 1 .. Len(inbox[r]) : i < j => inbox[r][i] < inbox[r][j]
    BY DEF Ordered
  <2>4. /\ Mine(r, q[1]) /\ Promise!Last(r) < q[1]
        /\ \A j \in 1 .. Len(Tail(q)) : q[1] < Tail(q)[j]
        /\ \A j \in 1 .. Len(inbox[r]) : q[1] < inbox[r][j]
    BY <1>4, <2>1
  <2>5. \A i \in 1 .. Len(Tail(q)) :
           /\ Mine(r, Tail(q)[i]) /\ Promise!Last(r) < Tail(q)[i]
           /\ \A j \in 1 .. Len(Tail(q)) : i < j => Tail(q)[i] < Tail(q)[j]
           /\ \A j \in 1 .. Len(inbox[r]) : Tail(q)[i] < inbox[r][j]
    BY <1>4, <2>1
  <2>6. Promise!Last(r) \in 0 .. Len(log)
    BY DEF Ordered
  <2>. QED BY <1>6, <2>2, <2>3, <2>4, <2>5, <2>6 DEF Ordered
<1>. QED BY <1>5, <1>6, <1>7, <1>8, <1>9, StreamInv

LEMMA HandOverInv ==
  ASSUME IInv, NEW r \in Requests, HandOver(r)
  PROVE  /\ IInv'
         /\ held[r] \in Promise!Last(r) + 1 .. Len(log) /\ log[held[r]] = topic[r]
<1>. TypeOK /\ Fresh(r) /\ Ended(r) /\ Ordered(r)
  BY DEF IInv
<1>1. /\ at[r] = "streaming" /\ pump[r] = "holding"
      /\ seen' = [seen EXCEPT ![r] = Append(seen[r], held[r])]
      /\ pump' = [pump EXCEPT ![r] = "reading"]
      /\ held' = [held EXCEPT ![r] = 0]
  BY DEF HandOver
<1>2. UNCHANGED <<closed, uncancelled, calls, log, down, inbox, cancelled, subCancelled, opened,
                  final, active, topic, at, forwarder, queue>>
  BY DEF HandOver, bus, redis, context
<1>. DEFINE k == held[r]
<1>3. seen[r] \in Seq(Nat) /\ k \in Nat /\ Len(log) \in Nat
  BY LogLength DEF TypeOK
<1>4. Append(seen[r], k) \in Seq(Nat) /\ Len(Append(seen[r], k)) = Len(seen[r]) + 1
      /\ Append(seen[r], k) # <<>> /\ Append(seen[r], k)[Len(seen[r]) + 1] = k
  BY <1>3
<1>5. TypeOK'
  BY <1>1, <1>2, <1>4 DEF TypeOK
<1>6. StreamStep(r) /\ pump'[r] = "reading" /\ seen'[r] = Append(seen[r], k) /\ at'[r] = at[r]
  BY <1>1, <1>2 DEF StreamStep, Apart, TypeOK
<1>7. Fresh(r)'
  BY <1>1, <1>2 DEF Fresh
<1>8. Ended(r)'
  BY <1>2, <1>6 DEF Ended, Ending
<1>9. /\ Mine(r, k) /\ Promise!Last(r) < k
      /\ \A j \in 1 .. Len(queue[r]) : k < queue[r][j]
      /\ \A j \in 1 .. Len(inbox[r]) : k < inbox[r][j]
      /\ Promise!Last(r) \in 0 .. Len(log)
  BY <1>1 DEF Ordered
<1>10. Ordered(r)'
  <2>1. Promise!Last(r)' = k
    BY <1>4, <1>6 DEF Promise!Last
  <2>2. \A n : Mine(r, n)' <=> Mine(r, n)
    BY <1>2 DEF Mine
  <2>3. k \in 0 .. Len(log)
    BY <1>3, <1>9 DEF Mine
  <2>. QED BY <1>2, <1>6, <1>9, <2>1, <2>2, <2>3 DEF Ordered
<1>11. k \in Promise!Last(r) + 1 .. Len(log) /\ log[k] = topic[r]
  BY <1>3, <1>9 DEF Mine
<1>. QED BY <1>5, <1>6, <1>7, <1>8, <1>10, <1>11, StreamInv

LEMMA ForwardInv ==
  ASSUME IInv, NEW r \in Requests, Forward(r)
  PROVE  IInv'
<1>. TypeOK /\ Fresh(r) /\ Ended(r) /\ Ordered(r)
  BY DEF IInv
<1>. DEFINE q == queue[r]
            c == inbox[r]
<1>1. /\ forwarder[r] = "on" /\ c # <<>>
      /\ inbox' = [inbox EXCEPT ![r] = Tail(c)]
      /\ \/ queue' = [queue EXCEPT ![r] = Append(q, Head(c))] /\ forwarder' = forwarder
         \/ queue' = queue /\ forwarder' = forwarder
         \/ StreamOver(r) /\ forwarder' = [forwarder EXCEPT ![r] = "stopped"] /\ queue' = queue
  BY DEF Forward
<1>2. UNCHANGED <<closed, uncancelled, calls, log, down, cancelled, subCancelled, opened, seen,
                  final, active, topic, at, pump, held>>
  BY DEF Forward, bus, context, client
<1>3. q \in Seq(Nat) /\ c \in Seq(Nat)
  BY DEF TypeOK
<1>4. /\ Tail(c) \in Seq(Nat) /\ Len(c) \in Nat \ {0} /\ Len(Tail(c)) = Len(c) - 1
      /\ Head(c) = c[1] /\ c[1] \in Nat
      /\ \A i \in 1 .. Len(Tail(c)) : Tail(c)[i] = c[i + 1] /\ i + 1 \in 1 .. Len(c)
  BY <1>1, <1>3, Elements
<1>5. /\ Append(q, c[1]) \in Seq(Nat) /\ Len(Append(q, c[1])) = Len(q) + 1 /\ Len(q) \in Nat
      /\ \A i \in 1 .. Len(q) : Append(q, c[1])[i] = q[i]
      /\ Append(q, c[1])[Len(q) + 1] = c[1]
  BY <1>3, <1>4
<1>6. TypeOK'
  <2>1. inbox' \in [Requests -> Seq(Nat)]
    BY <1>1, <1>4 DEF TypeOK
  <2>4. queue \in [Requests -> Seq(Nat)]
    BY DEF TypeOK
  <2>5. queue' = queue \/ queue' = [queue EXCEPT ![r] = Append(q, c[1])]
    BY <1>1, <1>4
  <2>2. queue' \in [Requests -> Seq(Nat)]
    BY <1>5, <2>4, <2>5
  <2>6. forwarder \in [Requests -> {"off", "on", "stopped", "gone"}]
    BY DEF TypeOK
  <2>7. forwarder' = forwarder \/ forwarder' = [forwarder EXCEPT ![r] = "stopped"]
    BY <1>1
  <2>3. forwarder' \in [Requests -> {"off", "on", "stopped", "gone"}]
    BY <2>6, <2>7
  <2>. QED BY <1>2, <2>1, <2>2, <2>3, ZenonT(60) DEF TypeOK
<1>7. /\ StreamStep(r) /\ at'[r] = at[r] /\ inbox'[r] = Tail(c)
      /\ queue'[r] \in {q, Append(q, c[1])}
  <2>1. inbox'[r] = Tail(c) /\ \A s \in Requests \ {r} : inbox'[s] = inbox[s]
    BY <1>1 DEF TypeOK
  <2>4. queue \in [Requests -> Seq(Nat)]
    BY DEF TypeOK
  <2>5. queue' = queue \/ queue' = [queue EXCEPT ![r] = Append(q, c[1])]
    BY <1>1, <1>4
  <2>2. queue'[r] \in {q, Append(q, c[1])} /\ \A s \in Requests \ {r} : queue'[s] = queue[s]
    BY <2>4, <2>5
  <2>3. \A s \in Requests \ {r} : forwarder'[s] = forwarder[s]
    BY <1>1 DEF TypeOK
  <2>. QED BY <1>2, <2>1, <2>2, <2>3 DEF StreamStep, Apart
<1>8. Fresh(r)'
  BY <1>1, <1>2 DEF Fresh
<1>9. Ended(r)'
  BY <1>1, <1>2 DEF Ended, Ending, StreamOver, TypeOK
<1>10. Ordered(r)'
  <2>. Promise!Last(r)' = Promise!Last(r) /\ log' = log /\ topic' = topic /\ pump' = pump /\ held' = held
    BY <1>2 DEF Promise!Last
  <2>1. \A k : Mine(r, k)' <=> Mine(r, k)
    BY DEF Mine
  <2>2. \A i \in 1 .. Len(c) :
           /\ Mine(r, c[i]) /\ Promise!Last(r) < c[i]
           /\ \A j \in 1 .. Len(c) : i < j => c[i] < c[j]
    BY DEF Ordered
  <2>3. \A i \in 1 .. Len(q) :
           /\ Mine(r, q[i]) /\ Promise!Last(r) < q[i]
           /\ \A j \in 1 .. Len(q) : i < j => q[i] < q[j]
           /\ \A j \in 1 .. Len(c) : q[i] < c[j]
    BY DEF Ordered
  <2>4. pump[r] = "holding" =>
          /\ Mine(r, held[r]) /\ Promise!Last(r) < held[r]
          /\ \A j \in 1 .. Len(q) : held[r] < q[j]
          /\ \A j \in 1 .. Len(c) : held[r] < c[j]
    BY DEF Ordered
  <2>5. \A i \in 1 .. Len(Tail(c)) :
           /\ Mine(r, Tail(c)[i]) /\ Promise!Last(r) < Tail(c)[i] /\ c[1] < Tail(c)[i]
           /\ \A j \in 1 .. Len(Tail(c)) : i < j => Tail(c)[i] < Tail(c)[j]
    <3>1. 1 \in 1 .. Len(c)
      BY <1>4
    <3>2. ASSUME NEW i \in 1 .. Len(Tail(c)) PROVE 1 < i + 1 /\ c[1] < c[i + 1]
      <4>1. 1 < i + 1 /\ i + 1 \in 1 .. Len(c)
        BY <1>4
      <4>. QED BY <2>2, <3>1, <4>1
    <3>3. ASSUME NEW i \in 1 .. Len(Tail(c)), NEW j \in 1 .. Len(Tail(c)), i < j
          PROVE  c[i + 1] < c[j + 1]
      <4>1. i + 1 \in 1 .. Len(c) /\ j + 1 \in 1 .. Len(c) /\ i + 1 < j + 1
        BY <1>4, <3>3
      <4>. QED BY <2>2, <4>1
    <3>4. \A i \in 1 .. Len(Tail(c)) : Mine(r, c[i + 1]) /\ Promise!Last(r) < c[i + 1]
      BY <1>4, <2>2
    <3>. QED BY <1>4, <3>2, <3>3, <3>4
  <2>6. \A i \in 1 .. Len(queue'[r]) :
           /\ Mine(r, queue'[r][i]) /\ Promise!Last(r) < queue'[r][i]
           /\ \A j \in 1 .. Len(queue'[r]) : i < j => queue'[r][i] < queue'[r][j]
           /\ \A j \in 1 .. Len(Tail(c)) : queue'[r][i] < Tail(c)[j]
    <3>1. CASE queue'[r] = q
      BY <1>4, <2>3, <3>1
    <3>2. CASE queue'[r] = Append(q, c[1])
      <4>1. \A i \in 1 .. Len(q) + 1 : i \in 1 .. Len(q) \/ i = Len(q) + 1
        BY <1>5
      <4>2. 1 \in 1 .. Len(c) /\ Mine(r, c[1]) /\ Promise!Last(r) < c[1]
        BY <1>4, <2>2
      <4>3. \A i \in 1 .. Len(q) : q[i] < c[1]
        BY <2>3, <4>2
      <4>. QED BY <1>4, <1>5, <2>3, <2>5, <3>2, <4>1, <4>2, <4>3
    <3>. QED BY <1>7, <3>1, <3>2
  <2>7. pump[r] = "holding" =>
          /\ \A j \in 1 .. Len(queue'[r]) : held[r] < queue'[r][j]
          /\ \A j \in 1 .. Len(Tail(c)) : held[r] < Tail(c)[j]
    <3>1. \A j \in 1 .. Len(q) + 1 : j \in 1 .. Len(q) \/ j = Len(q) + 1
      BY <1>5
    <3>2. 1 \in 1 .. Len(c)
      BY <1>4
    <3>3. pump[r] = "holding" => \A j \in 1 .. Len(Append(q, c[1])) : held[r] < Append(q, c[1])[j]
      BY <1>5, <2>4, <3>1, <3>2
    <3>4. pump[r] = "holding" => \A j \in 1 .. Len(Tail(c)) : held[r] < Tail(c)[j]
      BY <1>4, <2>4
    <3>. QED BY <1>7, <2>4, <3>3, <3>4
  <2>8. Promise!Last(r) \in 0 .. Len(log)
    BY DEF Ordered
  <2>. QED BY <1>7, <2>1, <2>4, <2>5, <2>6, <2>7, <2>8 DEF Ordered
<1>. QED BY <1>6, <1>7, <1>8, <1>9, <1>10, StreamInv

LEMMA ForwardStopsInv ==
  ASSUME IInv, NEW r \in Requests, ForwardStops(r)
  PROVE  IInv'
<1>. TypeOK /\ Fresh(r) /\ Ended(r) /\ Ordered(r)
  BY DEF IInv
<1>1. /\ forwarder[r] = "on" /\ forwarder' = [forwarder EXCEPT ![r] = "stopped"]
      /\ StreamOver(r) \/ down
  BY DEF ForwardStops
<1>2. UNCHANGED <<closed, uncancelled, calls, log, down, cancelled, subCancelled, opened, seen,
                  final, active, topic, at, pump, held, queue, inbox>>
  BY DEF ForwardStops, bus, redis, context, client
<1>3. TypeOK' /\ StreamStep(r) /\ at'[r] = at[r]
  BY <1>1, <1>2 DEF TypeOK, StreamStep, Apart
<1>4. Fresh(r)' /\ Ended(r)'
  BY <1>1, <1>2 DEF Fresh, Ended, Ending, StreamOver, TypeOK
<1>5. Ordered(r)'
  BY <1>2, OrderedKeep
<1>. QED BY <1>3, <1>4, <1>5, StreamInv

LEMMA CleanupInv ==
  ASSUME IInv, NEW r \in Requests, Cleanup(r)
  PROVE  IInv'
<1>. TypeOK /\ Fresh(r) /\ Ended(r) /\ Ordered(r)
  BY DEF IInv
<1>1. /\ forwarder[r] = "stopped" /\ forwarder' = [forwarder EXCEPT ![r] = "gone"]
      /\ inbox' = [inbox EXCEPT ![r] = <<>>]
  BY DEF Cleanup
<1>2. UNCHANGED <<closed, uncancelled, calls, log, down, cancelled, subCancelled, opened, seen,
                  final, active, topic, at, pump, held, queue>>
  BY DEF Cleanup, context, client
<1>3. TypeOK' /\ inbox'[r] = <<>>
  <2>3. inbox \in [Requests -> Seq(Nat)]
    BY DEF TypeOK
  <2>4. <<>> \in Seq(Nat)
    BY EmptySeq
  <2>1. inbox' \in [Requests -> Seq(Nat)] /\ inbox'[r] = <<>>
    BY <1>1, <2>3, <2>4
  <2>2. forwarder' \in [Requests -> {"off", "on", "stopped", "gone"}]
    BY <1>1 DEF TypeOK
  <2>. QED BY <1>2, <2>1, <2>2 DEF TypeOK
<1>6. StreamStep(r) /\ at'[r] = at[r]
  BY <1>1, <1>2 DEF TypeOK, StreamStep, Apart
<1>4. Fresh(r)' /\ Ended(r)'
  BY <1>1, <1>2 DEF Fresh, Ended, Ending, TypeOK
<1>5. Ordered(r)'
  <2>1. Len(inbox'[r]) = 0
    BY <1>3
  <2>2. Promise!Last(r)' = Promise!Last(r) /\ log' = log /\ topic' = topic /\ pump' = pump
        /\ held' = held /\ queue' = queue
    BY <1>2 DEF Promise!Last
  <2>3. \A k : Mine(r, k)' <=> Mine(r, k)
    BY <2>2 DEF Mine
  <2>. QED BY <2>1, <2>2, <2>3 DEF Ordered
<1>. QED BY <1>3, <1>4, <1>5, <1>6, StreamInv

-----------------------------------------------------------------------------
(* The publishers, the bus and what happens outside *)

LEMMA PublishSendInv ==
  ASSUME IInv, NEW p \in Publishers, PublishSend(p)
  PROVE  IInv'
<1>. TypeOK /\ CounterExact /\ \A s \in Requests : Fresh(s) /\ Ended(s) /\ Ordered(s)
  BY DEF IInv
<1>. DEFINE n == Len(log) + 1
<1>1. /\ calls[p] # "" /\ calls' = [calls EXCEPT ![p] = ""]
      /\ UNCHANGED <<closed, subs, uncancelled, down, at, forwarder, queue, pump, held, cancelled,
                     subCancelled, opened, seen, final, topic, active>>
  BY DEF PublishSend, request, context, client
<1>2. calls[p] \in Topics /\ Len(log) \in Nat
  BY <1>1, LogLength DEF TypeOK
<1>3. CounterExact'
  BY <1>1, ServedSame
<1>4. CASE down
  <2>1. log' = log /\ inbox' = inbox
    BY <1>4 DEF PublishSend
  <2>2. TypeOK'
    BY <1>1, <2>1 DEF TypeOK
  <2>3. ASSUME NEW s \in Requests PROVE (Fresh(s) /\ Ended(s) /\ Ordered(s))'
    BY <1>1, <2>1, <2>2, ApartKeep DEF Apart, Ended, TypeOK
  <2>. QED BY <1>3, <2>2, <2>3 DEF IInv
<1>5. CASE ~down
  <2>1. PICK R \in SUBSET {r \in Connected : topic[r] = calls[p]} :
           inbox' = [r \in Requests |-> IF r \in R THEN Append(inbox[r], n) ELSE inbox[r]]
    BY <1>5 DEF PublishSend
  <2>2. log' = Append(log, calls[p])
    BY <1>5 DEF PublishSend
  <2>3. log \in Seq(Topics)
    BY DEF TypeOK
  <2>4. /\ log' \in Seq(Topics) /\ Len(log') = n /\ log'[n] = calls[p]
        /\ \A k \in 1 .. Len(log) : log'[k] = log[k]
    BY <1>2, <2>2, <2>3
  <2>5. inbox' \in [Requests -> Seq(Nat)]
    <3>1. ASSUME NEW r \in Requests PROVE Append(inbox[r], n) \in Seq(Nat) /\ inbox[r] \in Seq(Nat)
      <4>1. inbox[r] \in Seq(Nat)
        BY DEF TypeOK
      <4>. QED BY <1>2, <4>1
    <3>. QED BY <2>1, <3>1
  <2>6. TypeOK'
    BY <1>1, <2>4, <2>5 DEF TypeOK
  <2>7. ASSUME NEW s \in Requests PROVE (Fresh(s) /\ Ended(s) /\ Ordered(s))'
    <3>. DEFINE c == inbox[s]
                Taken(k) == k \in 1 .. n /\ log'[k] = topic[s]
    <3>1. Fresh(s)'
      <4>1. s \in R => at[s] = "dialled" \/ forwarder[s] \in {"on", "stopped"}
        BY DEF Connected
      <4>2. at[s] \in {"arriving", "over", "counted", "checked"} => inbox'[s] = c
        BY <2>1, <4>1 DEF Fresh
      <4>. QED BY <1>1, <4>2 DEF Fresh
    <3>2. Ended(s)'
      BY <1>1 DEF Ended, Ending
    <3>3. Ordered(s)'
      <4>1. c \in Seq(Nat)
        BY DEF TypeOK
      <4>2. /\ inbox'[s] = c \/ (inbox'[s] = Append(c, n) /\ topic[s] = calls[p])
            /\ Len(Append(c, n)) = Len(c) + 1 /\ Len(c) \in Nat
            /\ \A i \in 1 .. Len(c) : Append(c, n)[i] = c[i]
            /\ Append(c, n)[Len(c) + 1] = n
        BY <1>2, <2>1, <4>1
      <4>3. ASSUME NEW k, Mine(s, k) PROVE Taken(k) /\ k < n
        <5>1. k \in 1 .. Len(log) /\ log[k] = topic[s]
          BY <4>3 DEF Mine
        <5>2. k \in 1 .. n /\ k < n
          BY <1>2, <5>1
        <5>3. log'[k] = log[k]
          BY <2>4, <5>1
        <5>. QED BY <5>1, <5>2, <5>3
      <4>4. topic[s] = calls[p] => Taken(n)
        <5>1. n \in 1 .. n
          BY <1>2
        <5>. QED BY <2>4, <5>1
      <4>5. Promise!Last(s)' = Promise!Last(s) /\ Promise!Last(s) \in 0 .. Len(log)
        BY <1>1 DEF Promise!Last, Ordered
      <4>6. \A i \in 1 .. Len(c) :
               /\ Taken(c[i]) /\ c[i] < n /\ Promise!Last(s) < c[i]
               /\ \A j \in 1 .. Len(c) : i < j => c[i] < c[j]
        BY <4>3 DEF Ordered
      <4>7. \A i \in 1 .. Len(c) + 1 : i \in 1 .. Len(c) \/ i = Len(c) + 1
        BY <4>2
      <4>8. \A i \in 1 .. Len(inbox'[s]) :
               /\ Taken(inbox'[s][i]) /\ Promise!Last(s) < inbox'[s][i]
               /\ \A j \in 1 .. Len(inbox'[s]) : i < j => inbox'[s][i] < inbox'[s][j]
        <5>1. CASE inbox'[s] = c
          BY <4>6, <5>1
        <5>2. CASE inbox'[s] = Append(c, n) /\ topic[s] = calls[p]
          BY <1>2, <4>2, <4>4, <4>5, <4>6, <4>7, <5>2
        <5>. QED BY <4>2, <5>1, <5>2
      <4>9. \A i \in 1 .. Len(queue[s]) :
               /\ Taken(queue[s][i]) /\ queue[s][i] < n /\ Promise!Last(s) < queue[s][i]
               /\ \A j \in 1 .. Len(queue[s]) : i < j => queue[s][i] < queue[s][j]
               /\ \A j \in 1 .. Len(c) : queue[s][i] < c[j]
        BY <4>3 DEF Ordered
      <4>10. \A i \in 1 .. Len(queue[s]) : \A j \in 1 .. Len(inbox'[s]) : queue[s][i] < inbox'[s][j]
        BY <4>2, <4>7, <4>9
      <4>11. pump[s] = "holding" =>
               /\ Taken(held[s]) /\ Promise!Last(s) < held[s]
               /\ \A j \in 1 .. Len(queue[s]) : held[s] < queue[s][j]
               /\ \A j \in 1 .. Len(inbox'[s]) : held[s] < inbox'[s][j]
        <5>1. pump[s] = "holding" =>
               /\ Taken(held[s]) /\ held[s] < n /\ Promise!Last(s) < held[s]
               /\ \A j \in 1 .. Len(queue[s]) : held[s] < queue[s][j]
               /\ \A j \in 1 .. Len(c) : held[s] < c[j]
          BY <4>3 DEF Ordered
        <5>. QED BY <4>2, <4>7, <5>1
      <4>12. Promise!Last(s) \in 0 .. Len(log')
        BY <1>2, <2>4, <4>5
      <4>. QED BY <1>1, <4>5, <4>8, <4>9, <4>10, <4>11, <4>12, <2>4, ZenonT(60) DEF Ordered, Mine
    <3>. QED BY <3>1, <3>2, <3>3
  <2>. QED BY <1>3, <2>6, <2>7 DEF IInv
<1>. QED BY <1>4, <1>5

\* A step that moves nothing and ends only what is over for good.
LEMMA OutsideStep ==
  ASSUME IInv,
         UNCHANGED <<log, inbox, at, forwarder, queue, pump, held, opened, seen, final, topic, active>>,
         calls' \in [Publishers -> Topics \cup {""}],
         closed' \in BOOLEAN, closed => closed', down' \in BOOLEAN, down => down',
         cancelled \subseteq cancelled', cancelled' \subseteq Requests,
         \A s \in Requests : s \in subCancelled' \cup uncancelled' => closed'
  PROVE  IInv'
<1>. TypeOK /\ CounterExact /\ \A s \in Requests : Fresh(s) /\ Ended(s) /\ Ordered(s)
  BY DEF IInv
<1>1. TypeOK'
  BY DEF TypeOK
<1>2. CounterExact'
  BY ServedSame
<1>3. ASSUME NEW s \in Requests PROVE (Fresh(s) /\ Ended(s) /\ Ordered(s))'
  <2>1. Apart(s)
    BY DEF Apart
  <2>. QED BY <2>1, ApartKeep
<1>. QED BY <1>1, <1>2, <1>3 DEF IInv

LEMMA OutsideInv ==
  ASSUME IInv,
         \/ \E p \in Publishers, t \in Topics : PublishCheck(p, t)
         \/ \E r \in Requests : CloseCancel(r) \/ ClientLeaves(r)
         \/ Close \/ RedisDown \/ UNCHANGED vars
  PROVE  IInv'
<1> USE DEF bus, redis, request, context, client
<1>1. /\ closed \in BOOLEAN /\ down \in BOOLEAN /\ cancelled \subseteq Requests
      /\ calls \in [Publishers -> Topics \cup {""}]
      /\ \A s \in Requests : s \in subCancelled \cup uncancelled => closed
  BY DEF IInv, TypeOK, Ended
<1>2. ASSUME NEW p \in Publishers, NEW t \in Topics, PublishCheck(p, t) PROVE IInv'
  <2>1. calls' \in [Publishers -> Topics \cup {""}]
    BY <1>1, <1>2 DEF PublishCheck
  <2>. QED BY <1>1, <1>2, <2>1, OutsideStep DEF PublishCheck
<1>3. ASSUME NEW r \in Requests, CloseCancel(r) PROVE IInv'
  BY <1>1, <1>3, OutsideStep DEF CloseCancel
<1>4. ASSUME NEW r \in Requests, ClientLeaves(r) PROVE IInv'
  BY <1>1, <1>4, OutsideStep DEF ClientLeaves
<1>5. CASE Close
  BY <1>1, <1>5, OutsideStep DEF Close
<1>6. CASE RedisDown
  BY <1>1, <1>6, OutsideStep DEF RedisDown
<1>7. CASE UNCHANGED vars
  BY <1>1, <1>7, OutsideStep DEF vars
<1>. QED BY <1>2, <1>3, <1>4, <1>5, <1>6, <1>7

-----------------------------------------------------------------------------
(* The invariant *)

LEMMA InitInv == Init => IInv
<1>. SUFFICES ASSUME Init PROVE IInv
  OBVIOUS
<1>0. /\ closed = FALSE /\ down = FALSE /\ log = <<>> /\ cancelled = {} /\ active = 0
     /\ uncancelled = {} /\ subCancelled = {}
     /\ calls = [p \in Publishers |-> ""] /\ topic \in [Requests -> Topics]
     /\ at = [r \in Requests |-> "arriving"] /\ forwarder = [r \in Requests |-> "off"]
     /\ pump = [r \in Requests |-> "off"] /\ final = [r \in Requests |-> "new"]
     /\ held = [r \in Requests |-> 0] /\ opened = [r \in Requests |-> 0]
     /\ queue = [r \in Requests |-> <<>>] /\ inbox = [r \in Requests |-> <<>>]
     /\ seen = [r \in Requests |-> <<>>]
  BY DEF Init
<1>1. TypeOK
  <2>1. <<>> \in Seq(Nat)
    BY EmptySeq
  <2>2. <<>> \in Seq(Topics)
    BY EmptySeq
  <2>3. queue \in [Requests -> Seq(Nat)] /\ inbox \in [Requests -> Seq(Nat)]
        /\ seen \in [Requests -> Seq(Nat)]
    BY <1>0, <2>1
  <2>. QED BY <1>0, <2>2, <2>3 DEF TypeOK
<1>2. CounterExact
  <2>1. Counted = {} /\ Admitted = {} /\ active = 0
    BY <1>0 DEF Counted, Admitted
  <2>2. Cardinality({}) = 0
    BY FS_EmptySet
  <2>3. MaxActive \in Nat
    BY RedisStreamAssumption
  <2>. QED BY <2>1, <2>2, <2>3 DEF CounterExact
<1>3. ASSUME NEW r \in Requests PROVE Fresh(r) /\ Ended(r) /\ Ordered(r)
  <2>1. Fresh(r)
    BY <1>0 DEF Fresh
  <2>2. Ended(r)
    BY <1>0 DEF Ended
  <2>3. Len(inbox[r]) = 0 /\ Len(queue[r]) = 0 /\ Len(log) = 0
    BY <1>0, EmptySeq
  <2>6. pump[r] # "holding"
    BY <1>0
  <2>4. Promise!Last(r) = 0
    BY <1>0 DEF Promise!Last
  <2>5. Ordered(r)
    BY <2>3, <2>4, <2>6 DEF Ordered
  <2>. QED BY <2>1, <2>2, <2>5
<1>. QED BY <1>1, <1>2, <1>3 DEF IInv

LEMMA NextInv == IInv /\ [Next]_vars => IInv'
<1>. SUFFICES ASSUME IInv, [Next]_vars PROVE IInv'
  OBVIOUS
<1>1. ASSUME NEW p \in Publishers, PublishSend(p) PROVE IInv'
  BY <1>1, PublishSendInv
<1>2. ASSUME NEW p \in Publishers, NEW t \in Topics, PublishCheck(p, t) PROVE IInv'
  BY <1>2, OutsideInv
<1>3. ASSUME NEW r \in Requests, Handler(r) PROVE IInv'
  BY <1>3, CountInv, ReturnInv, SubscribeCheckInv, DialInv, RegisterInv, HandOverInv DEF Handler
<1>4. ASSUME NEW r \in Requests, PumpStep(r) \/ Forwarding(r) PROVE IInv'
  BY <1>4, PumpReadInv, PumpEndsInv, ForwardInv, ForwardStopsInv, CleanupInv DEF PumpStep, Forwarding
<1>5. ASSUME NEW r \in Requests, CloseCancel(r) \/ ClientLeaves(r) PROVE IInv'
  BY <1>5, OutsideInv
<1>6. CASE Close \/ RedisDown \/ UNCHANGED vars
  BY <1>6, OutsideInv
<1>. QED BY <1>1, <1>2, <1>3, <1>4, <1>5, <1>6 DEF Next, Idle

\* The invariant that all results here follow from.
LEMMA Invariance == Spec => []IInv
BY InitInv, NextInv, PTL DEF Spec

\* Whatever the number of requests and the limit, the counter of active streams
\* is the number of handlers between its increment and its decrement, and the
\* limit is never passed (sse.go:70).
THEOREM ExactCounter == Spec => []CounterExact
<1>1. IInv => CounterExact
  BY DEF IInv
<1>. QED BY <1>1, Invariance, PTL

-----------------------------------------------------------------------------
(* The contract of a subscription *)

\* A handler that returns with an error has sent no event.
LEMMA ErrorStep ==
  ASSUME IInv, NEW r \in Requests, Leave(r, "error"),
         at[r] \in {"over", "counted", "checked", "dialled"},
         UNCHANGED <<closed, down, log, topic, opened, seen>>
  PROVE  Promise!Error(r)
<1>1. final[r] \in {"new", "open"} /\ seen[r] = <<>>
  BY DEF IInv, Fresh
<1>2. Ending' \in {Ending, Ending \cup {r}}
  BY DEF Ending, Leave
<1>3. final' = [final EXCEPT ![r] = "error"]
  BY DEF Leave
<1>. QED BY <1>1, <1>2, <1>3 DEF Promise!Error, Promise!Answer

LEMMA HandlerRefines ==
  ASSUME IInv, NEW r \in Requests, Handler(r)
  PROVE  [Promise!Next]_Promise!vars
<1>. Fresh(r) /\ Ended(r) /\ TypeOK
  BY DEF IInv
<1>1. CASE Count(r)
  BY <1>1 DEF Count, bus, redis, context, client, Ending, Promise!vars
<1>2. CASE Refuse(r) \/ Reject(r)
  <2>1. Promise!Error(r)
    BY <1>2, ErrorStep DEF Refuse, Reject, bus, redis
  <2>. QED BY <2>1 DEF Promise!Next
<1>3. CASE SubscribeCheck(r)
  <2>1. CASE closed
    <3>1. Promise!Error(r)
      BY <1>3, <2>1, ErrorStep DEF SubscribeCheck, bus, redis
    <3>. QED BY <3>1 DEF Promise!Next
  <2>2. CASE ~closed
    BY <1>3, <2>2 DEF SubscribeCheck, bus, redis, context, client, Ending, Promise!vars
  <2>. QED BY <2>1, <2>2
<1>4. CASE Dial(r)
  <2>1. CASE Leave(r, "error") /\ UNCHANGED <<opened, seen>>
    <3>1. Promise!Error(r)
      BY <1>4, <2>1, ErrorStep DEF Dial, bus, redis
    <3>. QED BY <3>1 DEF Promise!Next
  <2>2. CASE /\ opened' = [opened EXCEPT ![r] = Len(log)]
             /\ final' = [final EXCEPT ![r] = "open"]
             /\ UNCHANGED <<context, seen>>
    <3>1. final[r] = "new" /\ UNCHANGED <<log, topic, seen, Ending>>
      BY <1>4, <2>2 DEF Dial, Fresh, bus, redis, context, Ending
    <3>2. Promise!Open(r)
      BY <2>2, <3>1 DEF Promise!Open
    <3>. QED BY <3>2 DEF Promise!Next
  <2>. QED BY <1>4, <2>1, <2>2 DEF Dial
<1>5. CASE Register(r)
  <2>1. CASE closed
    <3>1. Promise!Error(r)
      BY <1>5, <2>1, ErrorStep DEF Register, redis
    <3>. QED BY <3>1 DEF Promise!Next
  <2>2. CASE ~closed
    BY <1>5, <2>2 DEF Register, redis, context, client, Ending, Promise!vars
  <2>. QED BY <2>1, <2>2
<1>6. CASE ServeEnds(r)
  <2>1. /\ at[r] = "streaming" /\ UNCHANGED <<closed, down, log, topic, opened, seen>>
        /\ cancelled' = cancelled \cup {r}
        /\ \/ r \in cancelled /\ final' = [final EXCEPT ![r] = final[r]]
           \/ pump[r] = "gone" /\ final' = [final EXCEPT ![r] = "complete"]
    BY <1>6 DEF ServeEnds, Leave, bus, redis
  <2>2. CASE r \in cancelled /\ final' = [final EXCEPT ![r] = final[r]]
    <3>1. final' = final
      BY <2>2 DEF TypeOK
    <3>2. cancelled' = cancelled
      BY <2>1, <2>2
    <3>. QED BY <2>1, <3>1, <3>2 DEF Ending, Promise!vars
  <2>3. CASE pump[r] = "gone" /\ final' = [final EXCEPT ![r] = "complete"]
    <3>1. final[r] = "open" /\ r \in Ending
      BY <2>1, <2>3 DEF Fresh, Ended
    <3>2. Ending' \in {Ending, Ending \cup {r}}
      BY <2>1 DEF Ending
    <3>3. Promise!Complete(r)
      BY <2>1, <2>3, <3>1, <3>2 DEF Promise!Complete, Promise!Answer
    <3>. QED BY <3>3 DEF Promise!Next
  <2>. QED BY <2>1, <2>2, <2>3
<1>7. CASE HandOver(r)
  <2>1. /\ at[r] = "streaming" /\ seen' = [seen EXCEPT ![r] = Append(seen[r], held[r])]
        /\ UNCHANGED <<log, topic, opened, final, closed, down, cancelled>>
    BY <1>7 DEF HandOver, bus, redis, context
  <2>2. held[r] \in Promise!Last(r) + 1 .. Len(log) /\ log[held[r]] = topic[r] /\ final[r] = "open"
    BY <1>7, <2>1, HandOverInv DEF Fresh
  <2>3. Promise!Event(r)
    BY <2>1, <2>2 DEF Promise!Event, Ending
  <2>. QED BY <2>3 DEF Promise!Next
<1>. QED BY <1>1, <1>2, <1>3, <1>4, <1>5, <1>6, <1>7 DEF Handler

\* A client that leaves, a bus that is closed and a Redis that is gone.
LEMMA StopRefines ==
  ASSUME IInv, NEW R \in SUBSET Requests, Ending' = Ending \cup R,
         UNCHANGED <<log, topic, opened, seen, final>>
  PROVE  Promise!Next
BY DEF Promise!Next, Promise!Stop

\* Every step of the three components is one of the contract, or changes
\* nothing that the contract speaks of.
LEMMA NextRefines == IInv /\ [Next]_vars => [Promise!Next]_Promise!vars
<1>. SUFFICES ASSUME IInv, [Next]_vars PROVE [Promise!Next]_Promise!vars
  OBVIOUS
<1>0. Ending \subseteq Requests
  BY DEF IInv, TypeOK, Ending
<1>1. ASSUME NEW p \in Publishers, PublishSend(p) PROVE [Promise!Next]_Promise!vars
  <2>1. UNCHANGED <<topic, opened, seen, final, closed, down, cancelled>> /\ calls[p] # ""
    BY <1>1 DEF PublishSend, context, client
  <2>2. CASE down
    BY <1>1, <2>1, <2>2 DEF PublishSend, Ending, Promise!vars
  <2>3. CASE ~down
    <3>1. log' = Append(log, calls[p]) /\ calls[p] \in Topics
      BY <1>1, <2>1, <2>3 DEF PublishSend, IInv, TypeOK
    <3>2. Promise!Publish(calls[p])
      BY <2>1, <3>1 DEF Promise!Publish, Ending
    <3>. QED BY <3>1, <3>2 DEF Promise!Next
  <2>. QED BY <2>2, <2>3
<1>2. ASSUME NEW p \in Publishers, NEW t \in Topics, PublishCheck(p, t)
      PROVE  [Promise!Next]_Promise!vars
  BY <1>2 DEF PublishCheck, redis, context, client, Ending, Promise!vars
<1>3. ASSUME NEW r \in Requests, Handler(r) PROVE [Promise!Next]_Promise!vars
  BY <1>3, HandlerRefines
<1>4. ASSUME NEW r \in Requests, PumpStep(r) PROVE [Promise!Next]_Promise!vars
  BY <1>4 DEF PumpStep, PumpRead, PumpEnds, bus, redis, context, client, Ending, Promise!vars
<1>5. ASSUME NEW r \in Requests, Forwarding(r) PROVE [Promise!Next]_Promise!vars
  BY <1>5 DEF Forwarding, Forward, ForwardStops, Cleanup, bus, redis, context, client, Ending,
              Promise!vars
<1>6. ASSUME NEW r \in Requests, CloseCancel(r) PROVE [Promise!Next]_Promise!vars
  BY <1>6 DEF CloseCancel, redis, client, Ending, Promise!vars
<1>7. ASSUME NEW r \in Requests, ClientLeaves(r) PROVE [Promise!Next]_Promise!vars
  <2>1. Ending' = Ending \cup {r} /\ UNCHANGED <<log, topic, opened, seen, final>>
    BY <1>7 DEF ClientLeaves, bus, redis, client, Ending
  <2>. QED BY <2>1, StopRefines
<1>8. CASE Close \/ RedisDown
  <2>1. Ending' = Requests /\ UNCHANGED <<log, topic, opened, seen, final>>
    BY <1>8 DEF Close, RedisDown, redis, client, Ending
  <2>. QED BY <1>0, <2>1, StopRefines
<1>9. CASE UNCHANGED vars
  BY <1>9 DEF vars, bus, redis, context, client, Ending, Promise!vars
<1>. QED BY <1>1, <1>2, <1>3, <1>4, <1>5, <1>6, <1>7, <1>8, <1>9 DEF Next, Idle

\* For any number of streams, any buffer and any interleaving of publishers,
\* Close, Redis' end and clients that leave: the events of a client are those of
\* its topic, in the broker's order, none twice, none from before its
\* subscription and none after its end; and a stream completes only when its
\* request or its bus is over (redis.go:151, executor.go:322, sse.go:121).
THEOREM KeepsPromise == Spec => PromiseSpec
<1>1. Init => Promise!Init
  BY DEF Init, Promise!Init, Ending
<1>2. IInv /\ [Next]_vars => [Promise!Next]_Promise!vars
  BY NextRefines
<1>. QED BY <1>1, <1>2, Invariance, PTL DEF Spec, PromiseSpec, Promise!Spec

-----------------------------------------------------------------------------
(* What the contract means for one client *)

\* What r was sent so far: messages of its topic that the broker took after r was
\* opened, in the order in which the broker took them.
Told(r) ==
    /\ opened[r] <= Len(log)
    /\ \A i \in 1 .. Len(seen[r]) :
          /\ Mine(r, seen[r][i]) /\ opened[r] < seen[r][i]
          /\ \A j \in 1 .. Len(seen[r]) : i < j => seen[r][i] < seen[r][j]
    /\ final[r] = "new" => seen[r] = <<>>

LEMMA ToldTypes ==
  ASSUME TypeOK, NEW r \in Requests
  PROVE  /\ seen \in [Requests -> Seq(Nat)] /\ seen[r] \in Seq(Nat) /\ Len(seen[r]) \in Nat
         /\ log \in Seq(Topics) /\ Len(log) \in Nat /\ opened[r] \in Nat
<1>1. seen \in [Requests -> Seq(Nat)] /\ log \in Seq(Topics) /\ opened \in [Requests -> Nat]
  BY DEF TypeOK
<1>2. seen[r] \in Seq(Nat) /\ opened[r] \in Nat
  BY <1>1
<1>. QED BY <1>1, <1>2

\* The place of the last message is the highest.
LEMMA LastIsHighest ==
  ASSUME TypeOK, NEW r \in Requests, Told(r)
  PROVE  /\ Promise!Last(r) \in Nat /\ opened[r] <= Promise!Last(r)
         /\ \A i \in 1 .. Len(seen[r]) : seen[r][i] <= Promise!Last(r)
<1>1. seen[r] \in Seq(Nat) /\ opened[r] \in Nat /\ Len(seen[r]) \in Nat
  BY ToldTypes
<1>2. CASE seen[r] = <<>>
  <2>1. Promise!Last(r) = opened[r]
    BY <1>2 DEF Promise!Last
  <2>2. Len(seen[r]) = 0
    BY <1>2
  <2>. QED BY <1>1, <2>1, <2>2
<1>3. CASE seen[r] # <<>>
  <2>1. Promise!Last(r) = seen[r][Len(seen[r])]
    BY <1>3 DEF Promise!Last
  <2>2. Len(seen[r]) \in 1 .. Len(seen[r])
    BY <1>1, <1>3, EmptySeq
  <2>3. \A i \in 1 .. Len(seen[r]) : seen[r][i] \in Nat
    BY <1>1, ElementOfSeq
  <2>4. \A i \in 1 .. Len(seen[r]) : i = Len(seen[r]) \/ i < Len(seen[r])
    BY <1>1
  <2>5. opened[r] < seen[r][Len(seen[r])]
    BY <2>2 DEF Told
  <2>6. \A i \in 1 .. Len(seen[r]) : i < Len(seen[r]) => seen[r][i] < seen[r][Len(seen[r])]
    BY <2>2 DEF Told
  <2>7. opened[r] <= seen[r][Len(seen[r])]
    BY <1>1, <2>2, <2>3, <2>5
  <2>8. ASSUME NEW i \in 1 .. Len(seen[r]) PROVE seen[r][i] <= seen[r][Len(seen[r])]
    BY <2>2, <2>3, <2>4, <2>6
  <2>. QED BY <2>1, <2>2, <2>3, <2>7, <2>8
<1>. QED BY <1>2, <1>3

LEMMA PublishTold ==
  ASSUME TypeOK, NEW r \in Requests, Told(r), NEW t \in Topics, Promise!Publish(t)
  PROVE  Told(r)'
<1>1. log \in Seq(Topics) /\ Len(log) \in Nat /\ opened[r] \in Nat /\ opened[r] <= Len(log)
  BY ToldTypes DEF Told
<1>2. log' = Append(log, t) /\ UNCHANGED <<topic, opened, seen, final>>
  BY DEF Promise!Publish
<1>3. Len(log') = Len(log) + 1 /\ \A k \in 1 .. Len(log) : log'[k] = log[k]
  BY <1>1, <1>2, AppendProperties
<1>4. \A k : Mine(r, k) => Mine(r, k)'
  BY <1>1, <1>2, <1>3 DEF Mine
<1>5. opened[r] <= Len(log) + 1
  BY <1>1
<1>. QED BY <1>2, <1>3, <1>4, <1>5 DEF Told

LEMMA EventTold ==
  ASSUME TypeOK, NEW r \in Requests, Told(r), Promise!Event(r)
  PROVE  Told(r)'
<1>1. /\ seen \in [Requests -> Seq(Nat)] /\ seen[r] \in Seq(Nat) /\ Len(seen[r]) \in Nat
      /\ log \in Seq(Topics) /\ Len(log) \in Nat /\ opened[r] \in Nat
  BY ToldTypes
<1>2. /\ final[r] = "open"
      /\ UNCHANGED <<log, topic, opened, final>>
  BY DEF Promise!Event
<1>3. PICK k \in Promise!Last(r) + 1 .. Len(log) :
         log[k] = topic[r] /\ seen' = [seen EXCEPT ![r] = Append(@, k)]
  BY DEF Promise!Event
<1>4. seen'[r] = Append(seen[r], k)
  BY <1>1, <1>3
<1>5. /\ Promise!Last(r) \in Nat /\ opened[r] <= Promise!Last(r)
      /\ \A i \in 1 .. Len(seen[r]) : seen[r][i] <= Promise!Last(r)
  BY LastIsHighest
<1>6. k \in Nat /\ k \in 1 .. Len(log) /\ Promise!Last(r) < k
  BY <1>1, <1>3, <1>5
<1>7. /\ Len(seen'[r]) = Len(seen[r]) + 1 /\ seen'[r][Len(seen[r]) + 1] = k
      /\ \A i \in 1 .. Len(seen[r]) : seen'[r][i] = seen[r][i]
  BY <1>1, <1>4, <1>6, AppendProperties
<1>8. \A i \in 1 .. Len(seen[r]) : seen[r][i] \in Nat
  BY <1>1, ElementOfSeq
<1>9. \A i \in 1 .. Len(seen[r]) : seen[r][i] < k
  BY <1>5, <1>6, <1>8
<1>10. opened[r] < k
  BY <1>1, <1>5, <1>6
<1>11. Mine(r, k)' /\ \A n : Mine(r, n) => Mine(r, n)'
  BY <1>2, <1>3, <1>6 DEF Mine
<1>12. \A i \in 1 .. Len(seen[r]) + 1 :
          i \in 1 .. Len(seen[r]) \/ (i = Len(seen[r]) + 1 /\ i \notin 1 .. Len(seen[r]))
  BY <1>1
<1>13. \A i \in 1 .. Len(seen[r]) :
          /\ Mine(r, seen[r][i]) /\ opened[r] < seen[r][i]
          /\ \A j \in 1 .. Len(seen[r]) : i < j => seen[r][i] < seen[r][j]
  BY DEF Told
<1>14. \A j \in 1 .. Len(seen[r]) + 1 : ~(Len(seen[r]) + 1 < j)
  BY <1>1
<1>15. ASSUME NEW i \in 1 .. Len(seen[r]) + 1
       PROVE  /\ seen'[r][i] \in 1 .. Len(log') /\ log'[seen'[r][i]] = topic'[r]
              /\ opened[r] < seen'[r][i]
              /\ \A j \in 1 .. Len(seen[r]) + 1 : i < j => seen'[r][i] < seen'[r][j]
  <2>1. CASE i = Len(seen[r]) + 1
    <3>1. /\ seen'[r][i] \in 1 .. Len(log') /\ log'[seen'[r][i]] = topic'[r]
          /\ opened[r] < seen'[r][i]
      BY <1>7, <1>10, <1>11, <2>1, Zenon DEF Mine
    <3>2. \A j \in 1 .. Len(seen[r]) + 1 : ~(i < j)
      BY <1>14, <2>1, Zenon
    <3>. QED BY <3>1, <3>2, Zenon
  <2>2. CASE i \in 1 .. Len(seen[r])
    <3>1. /\ seen'[r][i] \in 1 .. Len(log') /\ log'[seen'[r][i]] = topic'[r]
          /\ opened[r] < seen'[r][i]
      BY <1>7, <1>11, <1>13, <2>2, Zenon DEF Mine
    <3>2. ASSUME NEW j \in 1 .. Len(seen[r]) + 1, i < j PROVE seen'[r][i] < seen'[r][j]
      <4>1. CASE j \in 1 .. Len(seen[r])
        BY <1>7, <1>13, <2>2, <3>2, <4>1, Zenon
      <4>2. CASE j = Len(seen[r]) + 1
        BY <1>7, <1>9, <2>2, <4>2, Zenon
      <4>. QED BY <1>12, <4>1, <4>2
    <3>. QED BY <3>1, <3>2
  <2>. QED BY <1>12, <2>1, <2>2
<1>16. opened'[r] <= Len(log') /\ final'[r] # "new"
  BY <1>2 DEF Told
<1>. QED BY <1>2, <1>7, <1>15, <1>16, Zenon DEF Told, Mine

\* A step that is about another request.
LEMMA ToldSame ==
  ASSUME NEW r \in Requests, Told(r), UNCHANGED <<log, topic>>, opened'[r] = opened[r],
         seen'[r] = seen[r], final'[r] = "new" => final[r] = "new"
  PROVE  Told(r)'
<1>1. \A k : Mine(r, k) => k \in 1 .. Len(log') /\ log'[k] = topic'[r]
  BY DEF Mine
<1>2. opened'[r] <= Len(log')
  BY DEF Told
<1>3. \A i \in 1 .. Len(seen'[r]) :
         /\ Mine(r, seen[r][i]) /\ opened[r] < seen[r][i]
         /\ \A j \in 1 .. Len(seen'[r]) : i < j => seen[r][i] < seen[r][j]
  BY DEF Told
<1>4. \A i \in 1 .. Len(seen'[r]) :
         /\ seen'[r][i] \in 1 .. Len(log') /\ log'[seen'[r][i]] = topic'[r]
         /\ opened'[r] < seen'[r][i]
         /\ \A j \in 1 .. Len(seen'[r]) : i < j => seen'[r][i] < seen'[r][j]
  BY <1>1, <1>3
<1>5. final'[r] = "new" => seen'[r] = <<>>
  BY DEF Told
<1>. QED BY <1>2, <1>4, <1>5 DEF Told, Mine

LEMMA ToldStep ==
  ASSUME TypeOK, NEW r \in Requests, Told(r), [Promise!Next]_Promise!vars
  PROVE  Told(r)'
<1>1. ASSUME UNCHANGED <<log, topic, opened, seen, final>> PROVE Told(r)'
  BY <1>1, ToldSame
<1>2. ASSUME NEW q \in Requests, Promise!Open(q) PROVE Told(r)'
  <2>1. /\ opened \in [Requests -> Nat] /\ final \in [Requests -> {"new", "open", "error", "complete"}]
        /\ Len(log) \in Nat
    BY ToldTypes DEF TypeOK
  <2>2. /\ final[q] = "new" /\ final' = [final EXCEPT ![q] = "open"]
        /\ opened' = [opened EXCEPT ![q] = Len(log)] /\ UNCHANGED <<log, topic, seen>>
    BY <1>2 DEF Promise!Open
  <2>3. CASE q = r
    <3>1. seen[r] = <<>> /\ opened'[r] = Len(log) /\ final'[r] = "open"
      BY <2>1, <2>2, <2>3 DEF Told
    <3>2. Len(log) <= Len(log) /\ Len(seen[r]) = 0
      BY <2>1, <3>1
    <3>3. 1 .. Len(seen[r]) = {}
      BY <3>2
    <3>4. opened'[r] <= Len(log') /\ 1 .. Len(seen'[r]) = {} /\ seen'[r] = <<>>
      BY <2>2, <3>1, <3>2, <3>3
    <3>. QED BY <3>4 DEF Told
  <2>4. CASE q # r
    <3>1. opened'[r] = opened[r] /\ final'[r] = final[r]
      BY <2>1, <2>2, <2>4
    <3>. QED BY <2>2, <3>1, ToldSame
  <2>. QED BY <2>3, <2>4
<1>3. ASSUME NEW q \in Requests, Promise!Event(q) PROVE Told(r)'
  <2>1. CASE q = r
    BY <1>3, <2>1, EventTold
  <2>2. CASE q # r
    <3>1. PICK k : seen' = [seen EXCEPT ![q] = Append(@, k)]
      BY <1>3 DEF Promise!Event
    <3>2. seen'[r] = seen[r]
      BY <2>2, <3>1, ToldTypes
    <3>. QED BY <1>3, <3>2, ToldSame DEF Promise!Event
  <2>. QED BY <2>1, <2>2
<1>4. ASSUME NEW q \in Requests, Promise!Error(q) \/ Promise!Complete(q) PROVE Told(r)'
  <2>1. PICK answer \in {"error", "complete"} :
           final' = [final EXCEPT ![q] = answer] /\ UNCHANGED <<log, topic, opened, seen>>
    BY <1>4 DEF Promise!Error, Promise!Complete, Promise!Answer
  <2>2. final'[r] = "new" => final[r] = "new"
    <3>1. final \in [Requests -> {"new", "open", "error", "complete"}]
      BY DEF TypeOK
    <3>. QED BY <2>1, <3>1
  <2>. QED BY <2>1, <2>2, ToldSame
<1>5. ASSUME NEW t \in Topics, Promise!Publish(t) PROVE Told(r)'
  BY <1>5, PublishTold
<1>6. ASSUME UNCHANGED Promise!vars PROVE Told(r)'
  BY <1>1, <1>6 DEF Promise!vars
<1>7. ASSUME Promise!Stop PROVE Told(r)'
  BY <1>1, <1>7 DEF Promise!Stop
<1>. QED BY <1>2, <1>3, <1>4, <1>5, <1>6, <1>7 DEF Promise!Next

LEMMA NothingLeftToSay ==
  ASSUME TypeOK, NEW r \in Requests, final[r] \in {"error", "complete"}, [Promise!Next]_Promise!vars
  PROVE  final'[r] = final[r] /\ seen'[r] = seen[r]
<1>1. final \in [Requests -> {"new", "open", "error", "complete"}] /\ seen \in [Requests -> Seq(Nat)]
  BY DEF TypeOK
<1>2. ASSUME NEW q \in Requests, Promise!Open(q) \/ Promise!Event(q) \/ Promise!Error(q) \/ Promise!Complete(q)
      PROVE  final'[r] = final[r] /\ seen'[r] = seen[r]
  <2>1. final[q] \in {"new", "open"}
    BY <1>2 DEF Promise!Open, Promise!Event, Promise!Error, Promise!Complete
  <2>2. \/ UNCHANGED final
        \/ \E answer : final' = [final EXCEPT ![q] = answer]
    BY <1>2 DEF Promise!Open, Promise!Event, Promise!Error, Promise!Complete, Promise!Answer
  <2>3. \/ UNCHANGED seen
        \/ \E k : seen' = [seen EXCEPT ![q] = Append(@, k)]
    BY <1>2 DEF Promise!Open, Promise!Event, Promise!Error, Promise!Complete, Promise!Answer
  <2>. QED BY <1>1, <2>1, <2>2, <2>3
<1>. QED BY <1>2 DEF Promise!Next, Promise!vars, Promise!Publish, Promise!Stop

\* For any number of streams, any buffer and any loss: what a client has been sent
\* are messages of its topic, each later in the broker's order than the one
\* before it, and none of them older than its subscription (redis.go:151,
\* executor.go:322, sse.go:121).
THEOREM EventsInOrder == Spec => [](\A r \in Requests : Told(r))
<1>1. Init => \A r \in Requests : Told(r)
  <2>. SUFFICES ASSUME Init, NEW r \in Requests PROVE Told(r)
    OBVIOUS
  <2>1. seen[r] = <<>> /\ opened[r] = 0 /\ log = <<>>
    BY DEF Init
  <2>2. Len(seen[r]) = 0 /\ Len(log) = 0
    BY <2>1
  <2>3. 1 .. Len(seen[r]) = {}
    BY <2>2
  <2>4. opened[r] <= Len(log)
    BY <2>1, <2>2
  <2>. QED BY <2>1, <2>3, <2>4 DEF Told
<1>2. IInv /\ (\A r \in Requests : Told(r)) /\ [Next]_vars => (\A r \in Requests : Told(r))'
  BY NextRefines, ToldStep DEF IInv
<1>. QED BY <1>1, <1>2, Invariance, PTL DEF Spec

\* A stream that was answered or completed stays silent, whatever its two
\* goroutines still hold (sse.go:121).
THEOREM SilentAfterEnd ==
  Spec => [][\A r \in Requests : final[r] \in {"error", "complete"} =>
                final'[r] = final[r] /\ seen'[r] = seen[r]]_vars
<1>1. IInv /\ [Next]_vars => \A r \in Requests : final[r] \in {"error", "complete"} =>
                                final'[r] = final[r] /\ seen'[r] = seen[r]
  BY NextRefines, NothingLeftToSay DEF IInv
<1>. QED BY <1>1, Invariance, PTL DEF Spec
=============================================================================
