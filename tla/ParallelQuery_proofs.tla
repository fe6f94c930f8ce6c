------------------------ MODULE ParallelQuery_proofs ------------------------
(***************************************************************************)
(* What ParallelQuery checks on two fields, for any number of fields,      *)
(* workers, keys and nested calls.                                         *)
(***************************************************************************)
EXTENDS ParallelQuery, FiniteSetTheorems, TLAPS

\* The caller is a worker; there is at least one.
LEMMA WorkerFacts == Workers \subseteq Nat /\ Caller \in Workers
BY ParallelQueryAssumption DEF Workers, Caller

\* A plan is a sequence of one call or more.
LEMMA PlanFacts ==
  ASSUME NEW p \in Plans
  PROVE  p \in Seq(Keys) /\ Len(p) \in Nat \ {0} /\ DOMAIN p = 1..Len(p)
<1>1. PICK n \in 1..MaxSteps : p \in [1..n -> Keys]
  BY DEF Plans
<1>2. n \in Nat \ {0}
  BY <1>1, ParallelQueryAssumption
<1>3. p \in Seq(Keys)
  BY <1>1, <1>2
<1>4. DOMAIN p = 1..n /\ DOMAIN p = 1..Len(p) /\ Len(p) \in Nat
  BY <1>1, <1>3
<1>5. Len(p) = n
  BY <1>2, <1>4
<1>. QED BY <1>2, <1>3, <1>4, <1>5

\* A worker at work is at a call of its plan.
LEMMA KeyFacts ==
  ASSUME TypeOK, Claims, NEW w \in Workers, Working(w)
  PROVE  /\ Key(w) \in Keys
         /\ field[w] \in Fields
         /\ step[w] \in 1..Len(plan[field[w]])
         /\ Len(plan[field[w]]) \in Nat
<1>1. field[w] \in Fields /\ step[w] \in DOMAIN plan[field[w]]
  BY DEF Claims
<1>2. plan[field[w]] \in Plans
  BY <1>1 DEF TypeOK
<1>3. plan[field[w]] \in Seq(Keys) /\ DOMAIN plan[field[w]] = 1..Len(plan[field[w]])
      /\ Len(plan[field[w]]) \in Nat
  BY <1>2, PlanFacts
<1>. QED BY <1>1, <1>3 DEF Key

\* After a call a worker is at the next one, or has filled the slot.
LEMMA ProceedSplit ==
  ASSUME NEW w \in Workers, NEW outcome \in Outcomes, Proceed(w, outcome)
  PROVE  NextCall(w) \/ \E r \in Outcomes : FieldDone(w, r)
BY DEF Proceed, Outcomes

-----------------------------------------------------------------------------
(* Claims: what a step does to workers and slots                           *)

\* A worker at work goes on to another point of the same call.
Stays(w) ==
  /\ Working(w)
  /\ \E at \in {"lookup", "resolver", "publish", "wait"} : pc' = [pc EXCEPT ![w] = at]
  /\ UNCHANGED <<next, field, step, results>>

WorkStep(w) ==
  \/ Claim(w)
  \/ Stays(w)
  \/ Working(w) /\ NextCall(w)
  \/ Working(w) /\ \E r \in Outcomes : FieldDone(w, r)

\* Every step of a worker is one of these, and leaves plan and done alone.
LEMMA WorkSteps ==
  ASSUME IInv, NEW w \in Workers, Worker(w) \/ ResolverReturns(w)
  PROVE  WorkStep(w) /\ UNCHANGED <<plan, done>>
<1>1. CASE Claim(w)
  BY <1>1 DEF Claim, WorkStep
<1>2. CASE Check(w)
  <2>1. Working(w) /\ UNCHANGED <<plan, done>>
    BY <1>2 DEF Check, Working
  <2>2. CASE Proceed(w, "error")
    BY <2>1, <2>2, ProceedSplit DEF WorkStep, Outcomes
  <2>3. CASE Goto(w, "lookup") /\ UNCHANGED <<next, field, step, results>>
    BY <2>1, <2>3 DEF Goto, Stays, WorkStep
  <2>. QED BY <1>2, <2>2, <2>3 DEF Check
<1>3. CASE Panics(w)
  BY <1>3 DEF Panics, Working, WorkStep, Outcomes
<1>4. CASE Lookup(w)
  BY <1>4 DEF Lookup, Call, Goto, Working, Stays, WorkStep
<1>5. CASE Publish(w)
  <2>1. Working(w) /\ UNCHANGED <<plan, done>>
    BY <1>5 DEF Publish, Working
  <2>2. entry[Key(w)] \in Outcomes
    BY <1>5 DEF IInv, Entries, HolderOK, Publish
  <2>. QED BY <1>5, <2>1, <2>2, ProceedSplit DEF Publish, WorkStep
<1>6. CASE Wait(w)
  <2>1. Working(w) /\ UNCHANGED <<plan, done>>
    BY <1>6 DEF Wait, Working
  <2>2. entry[Key(w)] \in Outcomes
    <3>1. Key(w) \in Cached /\ ready[Key(w)]
      BY <1>6 DEF IInv, Entries, HolderOK, Wait
    <3>. QED BY <3>1 DEF IInv, Entries, EntryOK
  <2>. QED BY <1>6, <2>1, <2>2, ProceedSplit DEF Wait, WorkStep
<1>7. CASE WaitCancelled(w)
  <2>1. Working(w) /\ UNCHANGED <<plan, done>>
    BY <1>7 DEF WaitCancelled, Working
  <2>. QED BY <1>7, <2>1, ProceedSplit DEF WaitCancelled, WorkStep, Outcomes
<1>8. CASE ResolverReturns(w)
  <2>1. Working(w) /\ UNCHANGED <<plan, done>>
    BY <1>8 DEF ResolverReturns, Working
  <2>2. PICK outcome \in Outcomes :
          \/ Goto(w, "publish") /\ UNCHANGED <<next, field, step, results>>
          \/ Proceed(w, outcome)
    BY <1>8 DEF ResolverReturns
  <2>3. CASE Goto(w, "publish") /\ UNCHANGED <<next, field, step, results>>
    BY <2>1, <2>3 DEF Goto, Stays, WorkStep
  <2>4. CASE Proceed(w, outcome)
    BY <2>1, <2>4, ProceedSplit DEF WorkStep
  <2>. QED BY <2>2, <2>3, <2>4
<1>. QED BY <1>1, <1>2, <1>3, <1>4, <1>5, <1>6, <1>7, <1>8 DEF Worker

\* The types of what a work step changes.
WorkType ==
  /\ next \in Nat \ {0}
  /\ pc \in [Workers -> {"claim", "check", "lookup", "resolver", "publish", "wait", "exit"}]
  /\ field \in [Workers -> Nat]
  /\ step \in [Workers -> Nat]
  /\ results \in [Fields -> Outcomes \cup {"none"}]

LEMMA WorkTyped ==
  ASSUME IInv, NEW w \in Workers, WorkStep(w)
  PROVE  WorkType'
<1>. USE DEF IInv, TypeOK, WorkType
<1>1. CASE Claim(w)
  <2>1. next' \in Nat \ {0}
    BY <1>1 DEF Claim
  <2>2. CASE next \in Fields
    <3>1. next \in Nat
      OBVIOUS
    <3>. QED BY <1>1, <2>1, <2>2, <3>1 DEF Claim, Goto
  <2>3. CASE next \notin Fields
    BY <1>1, <2>1, <2>3 DEF Claim, Goto
  <2>. QED BY <2>2, <2>3
<1>2. CASE Stays(w)
  BY <1>2 DEF Stays
<1>3. CASE NextCall(w)
  BY <1>3 DEF NextCall, Goto
<1>4. CASE \E r \in Outcomes : FieldDone(w, r)
  BY <1>4, ZenonT(60) DEF FieldDone, Goto
<1>. QED BY <1>1, <1>2, <1>3, <1>4, SMTT(30) DEF WorkStep

\* A claimed field stays in the hands of one worker until it is finished.
LEMMA WorkClaims ==
  ASSUME IInv, NEW w \in Workers, WorkStep(w), UNCHANGED <<plan, done>>
  PROVE  Claims'
<1>. USE DEF IInv, TypeOK
<1>1. CASE Claim(w) /\ next \in Fields
  <2>1. /\ next' = next + 1 /\ field' = [field EXCEPT ![w] = next]
        /\ step' = [step EXCEPT ![w] = 1] /\ pc' = [pc EXCEPT ![w] = "check"]
        /\ results' = results /\ pc[w] = "claim"
    BY <1>1 DEF Claim, Goto
  <2>2. 1 \in DOMAIN plan[next]
    <3>1. plan[next] \in Plans
      BY <1>1
    <3>. QED BY <3>1, PlanFacts
  <2>3. next \in Fields /\ NumFields \in Nat /\ results[next] = "none"
    BY <1>1, ParallelQueryAssumption DEF Claims, Fields
  <2>4. \A v \in Workers : Working(v) => v # w /\ field[v] # next
    BY <2>1 DEF Claims, Working, Fields
  <2>5. /\ \A v \in Workers \ {w} : Working(v)' = Working(v) /\ field'[v] = field[v]
                                    /\ step'[v] = step[v] /\ pc'[v] = pc[v]
        /\ field'[w] = next /\ step'[w] = 1 /\ pc'[w] = "check" /\ Working(w)'
    BY <1>1, <2>1 DEF Working
  <2>6. Claims!1'
    BY <1>1, <2>1, <2>2, <2>3, <2>5 DEF Claims, Fields
  <2>7. Claims!2'
    BY <2>1, <2>4, <2>5 DEF Claims
  <2>8. Claims!3'
    BY <2>1, <2>3 DEF Claims, Fields
  <2>9. Claims!4'
    <3>1. ASSUME NEW f \in Fields, results[f] = "none"
          PROVE  f >= next' \/ \E v \in Workers : Working(v)' /\ field'[v] = f
      <4>1. CASE f = next
        BY <2>5, <4>1
      <4>2. CASE f # next /\ f >= next
        BY <2>1, <4>2, ParallelQueryAssumption DEF Fields
      <4>3. CASE ~(f >= next)
        <5>1. PICK v \in Workers : Working(v) /\ field[v] = f
          BY <3>1, <4>3 DEF Claims
        <5>. QED BY <2>4, <2>5, <5>1
      <4>. QED BY <4>1, <4>2, <4>3
    <3>. QED BY <2>1, <3>1 DEF Claims
  <2>10. Claims!5'
    BY <2>1, <2>3, <2>5 DEF Claims
  <2>11. Claims!6'
    BY <2>1 DEF Claims
  <2>. QED BY <2>6, <2>7, <2>8, <2>9, <2>10, <2>11 DEF Claims
<1>2. CASE Claim(w) /\ next \notin Fields
  <2>1. next > NumFields
    BY <1>2, ParallelQueryAssumption DEF Fields
  <2>2. /\ next' = next + 1 /\ UNCHANGED <<field, step, results>>
        /\ pc' = [pc EXCEPT ![w] = "exit"] /\ pc[w] = "claim"
    BY <1>2 DEF Claim, Goto
  <2>3. \A v \in Workers : Working(v)' = Working(v)
    BY <2>2 DEF Working
  <2>4. NumFields \in Nat /\ \A f \in Fields : f \in Nat /\ f < next /\ f < next'
    BY <2>1, <2>2, ParallelQueryAssumption DEF Fields
  <2>5. Claims!1' /\ Claims!2' /\ Claims!3' /\ Claims!4'
    BY <2>2, <2>3, <2>4 DEF Claims
  <2>6. Claims!5' /\ Claims!6'
    BY <2>1, <2>2, <2>4 DEF Claims
  <2>. QED BY <2>5, <2>6 DEF Claims
<1>3. CASE Stays(w)
  BY <1>3 DEF Stays, Claims, Working
<1>4. CASE Working(w) /\ NextCall(w)
  <2>1. step[w] + 1 \in DOMAIN plan[field[w]]
    <3>1. plan[field[w]] \in Plans /\ step[w] \in DOMAIN plan[field[w]]
      BY <1>4 DEF Claims
    <3>. QED BY <1>4, <3>1, PlanFacts DEF NextCall
  <2>. QED BY <1>4, <2>1 DEF NextCall, Goto, Claims, Working
<1>5. CASE Working(w) /\ \E r \in Outcomes : FieldDone(w, r)
  BY <1>5 DEF FieldDone, Goto, Claims, Working, Outcomes
<1>. QED BY <1>1, <1>2, <1>3, <1>4, <1>5 DEF WorkStep

-----------------------------------------------------------------------------
(* Entries: what a step does to the cache                                  *)

\* The calls of the other workers stay where they are.
LEMMA OthersKeys ==
  ASSUME IInv, NEW w \in Workers, WorkStep(w), plan' = plan, NEW v \in Workers, v # w
  PROVE  pc'[v] = pc[v] /\ Key(v)' = Key(v)
<1>. USE DEF IInv, TypeOK
<1>1. pc'[v] = pc[v] /\ field'[v] = field[v] /\ step'[v] = step[v]
  <2>1. CASE Claim(w)
    BY <2>1 DEF Claim, Goto
  <2>2. CASE Stays(w)
    BY <2>2 DEF Stays
  <2>3. CASE NextCall(w)
    BY <2>3 DEF NextCall, Goto
  <2>4. CASE \E r \in Outcomes : FieldDone(w, r)
    BY <2>4 DEF FieldDone, Goto
  <2>. QED BY <2>1, <2>2, <2>3, <2>4 DEF WorkStep
<1>. QED BY <1>1 DEF Key

\* With another point of the same call, the key stays.
LEMMA OwnKey ==
  ASSUME IInv, NEW w \in Workers, NEW at, Goto(w, at), UNCHANGED <<plan, field, step>>
  PROVE  pc'[w] = at /\ Key(w)' = Key(w)
BY DEF IInv, TypeOK, Goto, Key

\* After a call nothing is held.
LEMMA ProceedLeaves ==
  ASSUME IInv, NEW w \in Workers, NEW outcome, Proceed(w, outcome)
  PROVE  pc'[w] \in {"check", "claim"}
BY DEF IInv, TypeOK, Proceed, NextCall, FieldDone, Goto

\* What is taken out of an entry is added to what has been.
LEMMA TakeFacts ==
  ASSUME IInv, NEW w \in Workers, Take(w), Key(w) \in Keys
  PROVE  /\ seen'[Key(w)] = seen[Key(w)] \cup {entry[Key(w)]}
         /\ \A k \in Keys : k # Key(w) => seen'[k] = seen[k]
         /\ seen' \in [Keys -> SUBSET (Outcomes \cup {"absent", "unset"})]
BY DEF IInv, TypeOK, Take

\* Steps that leave the cache alone and end up holding nothing.
LEMMA QuietStep ==
  ASSUME IInv, NEW w \in Workers, WorkStep(w), plan' = plan,
         UNCHANGED <<cacheVars, calls, seen>>,
         pc'[w] \notin {"resolver", "publish", "wait"}
  PROVE  Entries' /\ CalledOnce'
<1>1. \A k \in Cached : EntryOK(k)'
  BY DEF IInv, Entries, EntryOK, cacheVars
<1>2. \A v \in Workers : v # w => pc'[v] = pc[v] /\ Key(v)' = Key(v)
  BY OthersKeys
<1>3. \A v \in Workers : HolderOK(v)'
  BY <1>2 DEF IInv, Entries, HolderOK, Owns, cacheVars
<1>4. \A u, v \in Workers : \A k \in Cached : Owns(u, k)' /\ Owns(v, k)' => u = v
  BY <1>2 DEF IInv, Entries, Owns
<1>. QED BY <1>1, <1>3, <1>4 DEF IInv, Entries, CalledOnce, cacheVars

\* The first to come owns the entry; the others find it there.
LEMMA LookupEntries ==
  ASSUME IInv, NEW w \in Workers, Lookup(w), WorkStep(w)
  PROVE  Entries' /\ CalledOnce'
<1>. USE DEF IInv, TypeOK
<1>1. /\ pc[w] = "lookup" /\ Working(w) /\ plan' = plan /\ ready' = ready /\ seen' = seen
      /\ UNCHANGED <<plan, field, step>>
  BY DEF Lookup, Working
<1>2. Key(w) \in Keys
  BY <1>1, KeyFacts
<1>3. \A v \in Workers : v # w => pc'[v] = pc[v] /\ Key(v)' = Key(v)
  BY <1>1, OthersKeys
<1>4. \A k \in Cached : k \in Keys
  BY ParallelQueryAssumption
<1>5. CASE Key(w) \notin Cached /\ Call(w) /\ UNCHANGED entry
  <2>1. pc'[w] = "resolver" /\ Key(w)' = Key(w)
    BY <1>1, <1>5, OwnKey DEF Call
  <2>2. \A k \in Cached : calls'[k] = calls[k]
    BY <1>4, <1>5 DEF Call
  <2>3. \A v \in Workers : HolderOK(v)'
    BY <1>1, <1>3, <1>5, <2>1 DEF Entries, HolderOK, Owns
  <2>4. \A u, v \in Workers : \A k \in Cached : Owns(u, k)' /\ Owns(v, k)' => u = v
    BY <1>3, <1>5, <2>1 DEF Entries, Owns
  <2>5. \A k \in Cached : EntryOK(k)'
    BY <1>1, <1>5, <2>2 DEF Entries, EntryOK
  <2>. QED BY <1>1, <2>2, <2>3, <2>4, <2>5 DEF Entries, CalledOnce
<1>6. CASE /\ Key(w) \in Cached /\ entry[Key(w)] = "absent" /\ Call(w)
           /\ entry' = [entry EXCEPT ![Key(w)] = "unset"]
  <2>1. pc'[w] = "resolver" /\ Key(w)' = Key(w)
    BY <1>1, <1>6, OwnKey DEF Call
  <2>2. /\ calls[Key(w)] = 0 /\ ~ready[Key(w)] /\ seen[Key(w)] = {}
    BY <1>2, <1>6 DEF Entries, EntryOK, Outcomes
  <2>3. /\ calls'[Key(w)] = 1 /\ entry'[Key(w)] = "unset"
        /\ \A k \in Keys : k # Key(w) => calls'[k] = calls[k] /\ entry'[k] = entry[k]
    BY <1>2, <1>6, <2>2 DEF Call
  <2>4. \A v \in Workers : ~Owns(v, Key(w))
    BY <1>6 DEF Entries, HolderOK
  <2>5. \A v \in Workers : HolderOK(v)'
    <3>1. HolderOK(w)'
      BY <1>1, <2>1, <2>2, <2>3 DEF HolderOK, Owns
    <3>2. ASSUME NEW v \in Workers, v # w PROVE HolderOK(v)'
      <4>1. pc'[v] = pc[v] /\ Key(v)' = Key(v) /\ HolderOK(v)
        BY <1>3, <3>2 DEF Entries
      <4>2. pc[v] \in {"publish", "wait"} => Key(v) # Key(w) /\ Key(v) \in Keys
        BY <1>4, <1>6, <4>1 DEF HolderOK, Outcomes
      <4>. QED BY <1>1, <1>4, <2>3, <4>1, <4>2 DEF HolderOK, Owns
    <3>. QED BY <3>1, <3>2
  <2>6. \A u, v \in Workers : \A k \in Cached : Owns(u, k)' /\ Owns(v, k)' => u = v
    BY <1>3, <2>1, <2>4 DEF Entries, Owns
  <2>7. \A k \in Cached : EntryOK(k)'
    BY <1>1, <1>4, <2>2, <2>3 DEF Entries, EntryOK
  <2>. QED BY <1>1, <1>4, <2>3, <2>5, <2>6, <2>7 DEF Entries, CalledOnce
<1>7. CASE /\ Key(w) \in Cached /\ entry[Key(w)] # "absent" /\ Goto(w, "wait")
           /\ UNCHANGED <<entry, calls, late>>
  <2>1. pc'[w] = "wait" /\ Key(w)' = Key(w)
    BY <1>1, <1>7, OwnKey
  <2>2. \A v \in Workers : HolderOK(v)'
    BY <1>1, <1>3, <1>7, <2>1 DEF Entries, HolderOK, Owns
  <2>3. \A u, v \in Workers : \A k \in Cached : Owns(u, k)' /\ Owns(v, k)' => u = v
    BY <1>3, <2>1 DEF Entries, Owns
  <2>4. \A k \in Cached : EntryOK(k)'
    BY <1>1, <1>7 DEF Entries, EntryOK
  <2>. QED BY <1>1, <1>7, <2>2, <2>3, <2>4 DEF Entries, CalledOnce
<1>. QED BY <1>5, <1>6, <1>7 DEF Lookup

\* The owner fills its entry in, before it is ready.
LEMMA ReturnEntries ==
  ASSUME IInv, NEW w \in Workers, ResolverReturns(w), WorkStep(w)
  PROVE  Entries' /\ CalledOnce'
<1>. USE DEF IInv, TypeOK
<1>1. /\ pc[w] = "resolver" /\ Working(w) /\ plan' = plan
      /\ UNCHANGED <<ready, calls, seen>>
  BY DEF ResolverReturns, Working, history
<1>2. Key(w) \in Keys
  BY <1>1, KeyFacts
<1>3. \A v \in Workers : v # w => pc'[v] = pc[v] /\ Key(v)' = Key(v)
  BY <1>1, OthersKeys
<1>4. PICK outcome \in Outcomes :
        IF Key(w) \in Cached
          THEN /\ entry' = [entry EXCEPT ![Key(w)] = outcome]
               /\ Goto(w, "publish")
               /\ UNCHANGED <<next, field, step, results>>
          ELSE Proceed(w, outcome) /\ UNCHANGED entry
  BY DEF ResolverReturns
<1>5. CASE Key(w) \notin Cached
  <2>1. pc'[w] \notin {"resolver", "publish", "wait"}
    BY <1>4, <1>5, ProceedLeaves
  <2>. QED BY <1>1, <1>4, <1>5, <2>1, QuietStep DEF cacheVars
<1>6. CASE Key(w) \in Cached
  <2>1. pc'[w] = "publish" /\ Key(w)' = Key(w)
    BY <1>1, <1>4, <1>6, OwnKey
  <2>2. /\ entry'[Key(w)] = outcome /\ outcome # "absent"
        /\ \A k \in Keys : k # Key(w) => entry'[k] = entry[k]
    BY <1>2, <1>4, <1>6 DEF Outcomes
  <2>3. Owns(w, Key(w)) /\ ~ready[Key(w)] /\ seen[Key(w)] = {}
    BY <1>1, <1>6 DEF Entries, HolderOK, EntryOK, Owns
  <2>4. \A k \in Cached : EntryOK(k)'
    BY <1>1, <2>2, <2>3, ParallelQueryAssumption DEF Entries, EntryOK
  <2>5. \A v \in Workers : HolderOK(v)'
    <3>1. HolderOK(w)'
      BY <1>1, <1>4, <1>6, <2>1, <2>2, <2>3 DEF HolderOK, Owns
    <3>2. ASSUME NEW v \in Workers, v # w PROVE HolderOK(v)'
      BY <1>1, <1>3, <1>4, <2>2, <3>2, ParallelQueryAssumption DEF Entries, HolderOK, Owns
    <3>. QED BY <3>1, <3>2
  <2>6. \A u, v \in Workers : \A k \in Cached : Owns(u, k)' /\ Owns(v, k)' => u = v
    BY <1>1, <1>3, <2>1 DEF Entries, Owns
  <2>. QED BY <1>1, <2>4, <2>5, <2>6 DEF Entries, CalledOnce
<1>. QED BY <1>5, <1>6

\* The owner makes its entry ready, and takes it.
LEMMA PublishEntries ==
  ASSUME IInv, NEW w \in Workers, Publish(w), WorkStep(w)
  PROVE  Entries' /\ CalledOnce'
<1>. USE DEF IInv, TypeOK
<1>1. /\ pc[w] = "publish" /\ Working(w) /\ plan' = plan /\ UNCHANGED <<entry, calls>>
      /\ Take(w) /\ ready' = [ready EXCEPT ![Key(w)] = TRUE] /\ Proceed(w, entry[Key(w)])
  BY DEF Publish, Working
<1>2. Key(w) \in Keys
  BY <1>1, KeyFacts
<1>3. \A v \in Workers : v # w => pc'[v] = pc[v] /\ Key(v)' = Key(v)
  BY <1>1, OthersKeys
<1>4. pc'[w] \in {"check", "claim"}
  BY <1>1, ProceedLeaves
<1>5. /\ Key(w) \in Cached /\ entry[Key(w)] \in Outcomes /\ Owns(w, Key(w))
  BY <1>1 DEF Entries, HolderOK, Owns
<1>6. \A v \in Workers : v # w => ~Owns(v, Key(w))
  BY <1>5 DEF Entries
<1>7. /\ ready'[Key(w)] /\ seen'[Key(w)] \subseteq {entry[Key(w)]}
      /\ \A k \in Keys : k # Key(w) => ready'[k] = ready[k] /\ seen'[k] = seen[k]
  BY <1>1, <1>2, <1>5, TakeFacts DEF Entries, EntryOK
<1>8. \A k \in Cached : EntryOK(k)'
  BY <1>1, <1>5, <1>7, ParallelQueryAssumption DEF Entries, EntryOK, Outcomes
<1>9. \A k \in Keys \ Cached : seen'[k] = {}
  BY <1>5, <1>7 DEF Entries
<1>10. \A v \in Workers : HolderOK(v)'
  <2>1. HolderOK(w)'
    BY <1>4 DEF HolderOK, Owns
  <2>2. ASSUME NEW v \in Workers, v # w PROVE HolderOK(v)'
    BY <1>1, <1>3, <1>6, <1>7, <2>2, ParallelQueryAssumption DEF Entries, HolderOK, Owns
  <2>. QED BY <2>1, <2>2
<1>11. \A u, v \in Workers : \A k \in Cached : Owns(u, k)' /\ Owns(v, k)' => u = v
  BY <1>3, <1>4 DEF Entries, Owns
<1>. QED BY <1>1, <1>8, <1>9, <1>10, <1>11 DEF Entries, CalledOnce

\* Others take an entry when it is ready.
LEMMA WaitEntries ==
  ASSUME IInv, NEW w \in Workers, Wait(w), WorkStep(w)
  PROVE  Entries' /\ CalledOnce'
<1>. USE DEF IInv, TypeOK
<1>1. /\ pc[w] = "wait" /\ Working(w) /\ plan' = plan /\ UNCHANGED <<entry, ready, calls>>
      /\ Take(w) /\ ready[Key(w)] /\ Proceed(w, entry[Key(w)])
  BY DEF Wait, Working, cacheVars
<1>2. Key(w) \in Keys /\ Key(w) \in Cached
  BY <1>1, KeyFacts DEF Entries, HolderOK
<1>3. \A v \in Workers : v # w => pc'[v] = pc[v] /\ Key(v)' = Key(v)
  BY <1>1, OthersKeys
<1>4. pc'[w] \in {"check", "claim"}
  BY <1>1, ProceedLeaves
<1>5. /\ seen'[Key(w)] \subseteq {entry[Key(w)]}
      /\ \A k \in Keys : k # Key(w) => seen'[k] = seen[k]
  BY <1>1, <1>2, TakeFacts DEF Entries, EntryOK
<1>6. \A k \in Cached : EntryOK(k)'
  BY <1>1, <1>5, ParallelQueryAssumption DEF Entries, EntryOK
<1>7. \A k \in Keys \ Cached : seen'[k] = {}
  BY <1>2, <1>5 DEF Entries
<1>8. \A v \in Workers : HolderOK(v)'
  BY <1>1, <1>3, <1>4 DEF Entries, HolderOK, Owns
<1>9. \A u, v \in Workers : \A k \in Cached : Owns(u, k)' /\ Owns(v, k)' => u = v
  BY <1>3, <1>4 DEF Entries, Owns
<1>. QED BY <1>1, <1>6, <1>7, <1>8, <1>9 DEF Entries, CalledOnce

\* All steps of a worker.
LEMMA WorkEntries ==
  ASSUME IInv, NEW w \in Workers, Worker(w) \/ ResolverReturns(w)
  PROVE  Entries' /\ CalledOnce'
<1>. USE DEF IInv, TypeOK
<1>1. WorkStep(w) /\ plan' = plan
  BY WorkSteps
<1>2. CASE Claim(w)
  <2>1. pc'[w] \notin {"resolver", "publish", "wait"} /\ UNCHANGED <<cacheVars, calls, seen>>
    BY <1>2 DEF Claim, Goto, history
  <2>. QED BY <1>1, <2>1, QuietStep
<1>3. CASE Check(w)
  <2>1. UNCHANGED <<cacheVars, calls, seen>>
    BY <1>3 DEF Check, history
  <2>2. pc'[w] \notin {"resolver", "publish", "wait"}
    <3>1. CASE Goto(w, "lookup")
      BY <3>1 DEF Goto
    <3>2. CASE Proceed(w, "error")
      BY <3>2, ProceedLeaves
    <3>. QED BY <1>3, <3>1, <3>2 DEF Check
  <2>. QED BY <1>1, <2>1, <2>2, QuietStep
<1>4. CASE Panics(w)
  <2>1. pc'[w] \notin {"resolver", "publish", "wait"} /\ UNCHANGED <<cacheVars, calls, seen>>
    BY <1>4 DEF Panics, FieldDone, Goto, history
  <2>. QED BY <1>1, <2>1, QuietStep
<1>5. CASE WaitCancelled(w)
  <2>1. pc'[w] \notin {"resolver", "publish", "wait"} /\ UNCHANGED <<cacheVars, calls, seen>>
    BY <1>5, ProceedLeaves DEF WaitCancelled, history
  <2>. QED BY <1>1, <2>1, QuietStep
<1>. QED BY <1>1, <1>2, <1>3, <1>4, <1>5, LookupEntries, ReturnEntries, PublishEntries,
            WaitEntries DEF Worker

\* An owner lets go of its entry only by making it ready.
LEMMA WorkOwned ==
  ASSUME IInv, NEW w \in Workers, Worker(w) \/ ResolverReturns(w)
  PROVE  Owned'
<1>. USE DEF IInv, TypeOK
<1>1. WorkStep(w) /\ plan' = plan
  BY WorkSteps
<1>2. \A v \in Workers : v # w => pc'[v] = pc[v] /\ Key(v)' = Key(v)
  BY <1>1, OthersKeys
<1>3. \A k \in Cached : k \in Keys
  BY ParallelQueryAssumption
<1>4. SUFFICES ASSUME NEW k \in Cached, entry'[k] # "absent", ~ready'[k]
               PROVE  \E v \in Workers : Owns(v, k)'
  BY DEF Owned
<1>5. ASSUME entry[k] # "absent", ~ready[k], ~Owns(w, k)
      PROVE  \E v \in Workers : Owns(v, k)'
  <2>1. PICK v \in Workers : Owns(v, k)
    BY <1>5 DEF Owned
  <2>. QED BY <1>2, <1>5, <2>1 DEF Owns
<1>6. CASE Claim(w) \/ Check(w) \/ Panics(w) \/ Wait(w) \/ WaitCancelled(w)
  <2>1. ~Owns(w, k) /\ UNCHANGED cacheVars
    BY <1>6 DEF Claim, Check, Panics, Wait, WaitCancelled, Owns
  <2>. QED BY <1>4, <1>5, <2>1 DEF cacheVars
<1>7. CASE Lookup(w)
  <2>1. /\ pc[w] = "lookup" /\ Working(w) /\ ready' = ready /\ ~Owns(w, k)
        /\ UNCHANGED <<plan, field, step>>
    BY <1>7 DEF Lookup, Working, Owns
  <2>2. Key(w) \in Keys
    BY <2>1, KeyFacts
  <2>3. CASE Key(w) = k /\ entry[k] = "absent"
    <3>1. pc'[w] = "resolver" /\ Key(w)' = Key(w)
      BY <1>7, <2>1, <2>3, OwnKey DEF Lookup, Call
    <3>. QED BY <2>3, <3>1 DEF Owns
  <2>4. CASE ~(Key(w) = k /\ entry[k] = "absent")
    <3>1. entry[k] # "absent"
      BY <1>3, <1>4, <1>7, <2>2, <2>4 DEF Lookup
    <3>. QED BY <1>4, <1>5, <2>1, <3>1
  <2>. QED BY <2>3, <2>4
<1>8. CASE ResolverReturns(w)
  <2>1. /\ pc[w] = "resolver" /\ Working(w) /\ ready' = ready
        /\ plan' = plan
    BY <1>8 DEF ResolverReturns, Working
  <2>2. Key(w) \in Keys
    BY <2>1, KeyFacts
  <2>3. CASE Key(w) = k
    <3>1. Goto(w, "publish") /\ UNCHANGED <<plan, field, step>>
      BY <1>8, <2>3 DEF ResolverReturns
    <3>2. pc'[w] = "publish" /\ Key(w)' = Key(w)
      BY <3>1, OwnKey
    <3>. QED BY <2>3, <3>2 DEF Owns
  <2>4. CASE Key(w) # k
    <3>1. entry'[k] = entry[k] /\ ~Owns(w, k)
      BY <1>3, <1>8, <2>2, <2>4 DEF ResolverReturns, Owns
    <3>. QED BY <1>4, <1>5, <2>1, <3>1
  <2>. QED BY <2>3, <2>4
<1>9. CASE Publish(w)
  <2>1. pc[w] = "publish" /\ Working(w) /\ entry' = entry /\ ready' = [ready EXCEPT ![Key(w)] = TRUE]
    BY <1>9 DEF Publish, Working
  <2>2. Key(w) \in Keys
    BY <2>1, KeyFacts
  <2>3. Key(w) # k /\ ready'[k] = ready[k] /\ ~Owns(w, k)
    BY <1>3, <1>4, <2>1, <2>2 DEF Owns
  <2>. QED BY <1>4, <1>5, <2>1, <2>3
<1>. QED BY <1>6, <1>7, <1>8, <1>9 DEF Worker

-----------------------------------------------------------------------------
(* Late calls, and the rest of the types                                   *)

\* Only Lookup begins a call, and it is not reached with the context done.
LEMMA WorkLate ==
  ASSUME IInv, NEW w \in Workers, Worker(w) \/ ResolverReturns(w)
  PROVE  LateSoFar' /\ OneLateCall' /\ late' \in [Workers -> Nat]
<1>. USE DEF IInv, TypeOK
<1>1. WorkStep(w) /\ plan' = plan
  BY WorkSteps
<1>2. \A v \in Workers : v # w => pc'[v] = pc[v]
  BY <1>1, OthersKeys
<1>3. ctxDone' = ctxDone
  BY DEF Worker, Claim, Check, Panics, Lookup, Publish, Wait, WaitCancelled, ResolverReturns
<1>4. CASE Lookup(w)
  <2>1. late[w] = 0 /\ pc'[w] # "lookup"
    BY <1>4 DEF Lookup, LateSoFar, Call, Goto
  <2>2. CASE late' = late
    BY <1>2, <1>3, <2>1, <2>2 DEF LateSoFar, OneLateCall
  <2>3. CASE late' = [late EXCEPT ![w] = IF ctxDone THEN @ + 1 ELSE @]
    BY <1>2, <1>3, <2>1, <2>3 DEF LateSoFar, OneLateCall
  <2>. QED BY <1>4, <2>2, <2>3 DEF Lookup, Call
<1>5. CASE ~Lookup(w)
  <2>1. late' = late
    BY <1>5 DEF Worker, Claim, Check, Panics, Publish, Wait, WaitCancelled, ResolverReturns,
                history
  <2>2. pc'[w] = "lookup" => ~ctxDone
    <3>1. CASE Check(w)
      BY <3>1, ProceedLeaves DEF Check
    <3>2. CASE Claim(w)
      BY <3>2 DEF Claim, Goto
    <3>3. CASE Panics(w)
      BY <3>3 DEF Panics, FieldDone, Goto
    <3>4. CASE Publish(w) \/ Wait(w) \/ WaitCancelled(w)
      BY <3>4, ProceedLeaves DEF Publish, Wait, WaitCancelled
    <3>5. CASE ResolverReturns(w)
      BY <3>5, ProceedLeaves DEF ResolverReturns, Goto
    <3>. QED BY <1>5, <3>1, <3>2, <3>3, <3>4, <3>5 DEF Worker
  <2>. QED BY <1>2, <1>3, <2>1, <2>2 DEF LateSoFar, OneLateCall
<1>. QED BY <1>4, <1>5

LEMMA WorkTypeOK ==
  ASSUME IInv, NEW w \in Workers, Worker(w) \/ ResolverReturns(w)
  PROVE  TypeOK'
<1>1. WorkStep(w) /\ plan' = plan /\ done' = done
  BY WorkSteps
<1>2. WorkType'
  BY <1>1, WorkTyped
<1>3. late' \in [Workers -> Nat]
  BY WorkLate
<1>4. /\ ctxDone' \in BOOLEAN /\ entry' \in [Keys -> Outcomes \cup {"absent", "unset"}]
      /\ ready' \in [Keys -> BOOLEAN] /\ calls' \in [Keys -> Nat]
      /\ seen' \in [Keys -> SUBSET (Outcomes \cup {"absent", "unset"})]
  <2>. USE DEF IInv, TypeOK, cacheVars, history
  <2>1. CASE Claim(w) \/ Check(w) \/ Panics(w) \/ WaitCancelled(w)
    BY <2>1 DEF Claim, Check, Panics, WaitCancelled
  <2>2. CASE Lookup(w)
    BY <2>2 DEF Lookup, Call
  <2>3. CASE ResolverReturns(w)
    BY <2>3, SMTT(30) DEF ResolverReturns
  <2>4. CASE Publish(w)
    BY <2>4, ZenonT(60) DEF Publish, Take
  <2>5. CASE Wait(w)
    BY <2>5, ZenonT(60) DEF Wait, Take
  <2>. QED BY <2>1, <2>2, <2>3, <2>4, <2>5 DEF Worker
<1>. QED BY <1>1, <1>2, <1>3, <1>4 DEF TypeOK, WorkType, IInv

-----------------------------------------------------------------------------
(* The invariant                                                           *)

LEMMA InitInv == Init => IInv
<1>. SUFFICES ASSUME Init PROVE IInv
  OBVIOUS
<1>. USE DEF Init
<1>1. TypeOK
  <2>1. seen \in [Keys -> SUBSET (Outcomes \cup {"absent", "unset"})]
    OBVIOUS
  <2>2. /\ pc \in [Workers -> {"claim", "check", "lookup", "resolver", "publish", "wait", "exit"}]
        /\ field \in [Workers -> Nat] /\ step \in [Workers -> Nat] /\ late \in [Workers -> Nat]
    OBVIOUS
  <2>3. /\ results \in [Fields -> Outcomes \cup {"none"}]
        /\ entry \in [Keys -> Outcomes \cup {"absent", "unset"}]
        /\ ready \in [Keys -> BOOLEAN] /\ calls \in [Keys -> Nat]
    OBVIOUS
  <2>4. plan \in [Fields -> Plans]
    OBVIOUS
  <2>5. next \in Nat \ {0}
    OBVIOUS
  <2>6. ctxDone \in BOOLEAN /\ done \in BOOLEAN
    OBVIOUS
  <2>. QED BY ONLY <2>1, <2>2, <2>3, <2>4, <2>5, <2>6 DEF TypeOK
<1>2. Claims
  <2>1. \A f \in Fields : f >= next /\ results[f] = "none"
    BY ParallelQueryAssumption DEF Fields
  <2>2. \A w \in Workers : pc[w] = "claim" /\ ~Working(w)
    BY DEF Working
  <2>. QED BY <2>1, <2>2 DEF Claims
<1>3. Entries
  BY ParallelQueryAssumption DEF Entries, EntryOK, HolderOK, Owns
<1>4. CalledOnce /\ Owned /\ LateSoFar /\ OneLateCall
  BY ParallelQueryAssumption DEF CalledOnce, Owned, LateSoFar, OneLateCall
<1>. QED BY <1>1, <1>2, <1>3, <1>4 DEF IInv

LEMMA NextInv == IInv /\ [Next]_vars => IInv'
<1>. SUFFICES ASSUME IInv, [Next]_vars PROVE IInv'
  OBVIOUS
<1>1. CASE UNCHANGED vars
  BY <1>1 DEF vars, workVars, cacheVars, history, IInv, TypeOK, Claims, Working, Entries,
              EntryOK, HolderOK, Owns, Key, CalledOnce, Owned, LateSoFar, OneLateCall
<1>2. CASE CancelContext
  BY <1>2 DEF CancelContext, workVars, cacheVars, history, IInv, TypeOK, Claims, Working,
              Entries, EntryOK, HolderOK, Owns, Key, CalledOnce, Owned, LateSoFar, OneLateCall
<1>3. CASE Assemble
  BY <1>3 DEF Assemble, workVars, cacheVars, history, IInv, TypeOK, Claims, Working,
              Entries, EntryOK, HolderOK, Owns, Key, CalledOnce, Owned, LateSoFar, OneLateCall
<1>4. ASSUME NEW w \in Workers, Worker(w) \/ ResolverReturns(w) PROVE IInv'
  BY <1>4, WorkSteps, WorkClaims, WorkEntries, WorkOwned, WorkLate, WorkTypeOK DEF IInv
<1>. QED BY <1>1, <1>2, <1>3, <1>4 DEF Next

\* Claimed fields and cache entries that are not ready are each in one worker's
\* hands, whatever the fields ask for (executeParallelQuery, resolverResultCache).
THEOREM Invariance == Spec => []IInv
BY InitInv, NextInv, PTL DEF Spec

\* The response is assembled from filled slots, after the last worker has gone.
THEOREM JoinedTheorem == Spec => []Joined
<1>1. IInv => Joined
  <2>. SUFFICES ASSUME IInv, done PROVE Joined
    BY DEF Joined
  <2>1. \A w \in Workers : pc[w] = "exit" /\ ~Working(w)
    BY DEF IInv, Claims, Working
  <2>2. next > NumFields /\ next \in Nat
    BY <2>1, WorkerFacts DEF IInv, TypeOK, Claims
  <2>3. ASSUME NEW f \in Fields PROVE results[f] # "none"
    <3>1. ~(f >= next)
      BY <2>2, ParallelQueryAssumption DEF Fields
    <3>. QED BY <2>1, <3>1 DEF IInv, Claims
  <2>. QED BY <2>1, <2>3 DEF Joined
<1>. QED BY <1>1, Invariance, PTL

\* One resolver call for each key that can be remembered, and everyone who takes
\* the entry gets the result of that call.
THEOREM SharedResultTheorem == Spec => []SharedResult
<1>1. IInv => SharedResult
  <2>1. ASSUME IInv, NEW k \in Keys
        PROVE  seen[k] \subseteq Outcomes /\ Cardinality(seen[k]) <= 1
    <3>1. seen[k] = {} \/ (seen[k] = {entry[k]} /\ entry[k] \in Outcomes)
      BY <2>1 DEF IInv, Entries, EntryOK
    <3>2. Cardinality({}) = 0 /\ Cardinality({entry[k]}) = 1
      BY FS_EmptySet, FS_Singleton
    <3>. QED BY <3>1, <3>2
  <2>. QED BY <2>1 DEF IInv, CalledOnce, SharedResult
<1>. QED BY <1>1, Invariance, PTL

\* No worker waits for one that waits: whatever keys the fields ask for, in
\* whatever order, and whatever is cancelled meanwhile (query_concurrency.go:98).
THEOREM NoCircleOfWaiters == Spec => []WaitsForWork
<1>1. IInv => WaitsForWork
  <2>. SUFFICES ASSUME IInv, NEW w \in Workers, pc[w] = "wait", ~ready[Key(w)]
                PROVE  \E v \in Workers \ {w} : Owns(v, Key(w))
    BY DEF WaitsForWork
  <2>1. Key(w) \in Cached /\ entry[Key(w)] # "absent"
    BY DEF IInv, Entries, HolderOK
  <2>2. PICK v \in Workers : Owns(v, Key(w))
    BY <2>1 DEF IInv, Owned
  <2>3. v # w
    BY <2>2 DEF Owns
  <2>. QED BY <2>2, <2>3
<1>. QED BY <1>1, Invariance, PTL

\* After the cancellation, one more resolver call for each worker at the most.
THEOREM OneLateCallTheorem == Spec => []OneLateCall
<1>1. IInv => OneLateCall
  BY DEF IInv
<1>. QED BY <1>1, Invariance, PTL

\* No slot is written a second time.
THEOREM SlotsOnceTheorem == Spec => SlotsOnce
<1>. DEFINE Once == \A f \in Fields : results[f] # "none" => results'[f] = results[f]
<1>1. IInv /\ [Next]_vars => [Once]_vars
  <2>. SUFFICES ASSUME IInv, Next, NEW f \in Fields, results[f] # "none"
                PROVE  results'[f] = results[f]
    BY DEF vars, workVars
  <2>1. CASE CancelContext \/ Assemble
    BY <2>1 DEF CancelContext, Assemble, workVars
  <2>2. ASSUME NEW w \in Workers, Worker(w) \/ ResolverReturns(w)
        PROVE  results'[f] = results[f]
    <3>1. WorkStep(w)
      BY <2>2, WorkSteps
    <3>2. Working(w) => results[field[w]] = "none"
      BY DEF IInv, Claims
    <3>. QED BY <3>1, <3>2 DEF WorkStep, Claim, Stays, NextCall, FieldDone, IInv, TypeOK
  <2>. QED BY <2>1, <2>2 DEF Next
<1>. QED BY <1>1, Invariance, PTL DEF Spec, SlotsOnce
=============================================================================
