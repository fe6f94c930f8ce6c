--------------------------- MODULE Loader_proofs ---------------------------
(***************************************************************************)
(* For any loaders, keys, batch size and callers: no Load touches a queue  *)
(* that a dispatch walks, an adapter sees a key at most once, what a       *)
(* lookup has been resolved with never changes, and a dispatch leaves no   *)
(* lookup unresolved.                                                      *)
(***************************************************************************)
EXTENDS Loader, FiniteSetTheorems, SequenceTheorems, TLAPS

InBatch == {"adapter", "reenter", "answer", "store"}

LEMMA Constants ==
  /\ NumLoaders \in Nat /\ MaxBatch \in Nat /\ MaxBatch > 0
  /\ Loaders \subseteq Nat /\ \A l \in Loaders : 1 <= l /\ l <= NumLoaders
  /\ Nobody \notin Dispatchers
  /\ Idle \notin Loaders \X Keys
  /\ Absent # Unready /\ Absent # Failed /\ Unready # Failed
  /\ Absent \notin Values /\ Unready \notin Values
<1>1. Absent # Unready /\ Absent # Failed /\ Unready # Failed
  <2>1. ASSUME Absent = Unready \/ Absent = Failed \/ Unready = Failed PROVE FALSE
    <3>1. PICK a, b : {Absent, Unready, Failed} = {a, b}
      BY <2>1
    <3>2. Cardinality({a, b}) <= 2
      <4>1. IsFiniteSet({a}) /\ Cardinality({a}) = 1
        BY FS_Singleton
      <4>2. {a, b} = {a} \cup {b}
        OBVIOUS
      <4>3. Cardinality({a} \cup {b}) = IF b \in {a} THEN Cardinality({a}) ELSE Cardinality({a}) + 1
        BY <4>1, FS_AddElement
      <4>. QED BY <4>1, <4>2, <4>3
    <3>. QED BY <3>1, <3>2, LoaderAssumption
  <2>. QED BY <2>1
<1>2. Absent \notin Keys /\ Unready \notin Keys
  BY LoaderAssumption
<1>. QED BY <1>1, <1>2, LoaderAssumption DEF Loaders, Values

-----------------------------------------------------------------------------
(* The dispatch that walks the queues                                      *)

\* How far the walk of d has come in queue l.
MarkOf(d, l) ==
  IF l # at THEN 0
  ELSE IF pc[d] = "store" THEN start + stored
  ELSE IF start < Len(keys[l]) THEN start ELSE Len(keys[l])

\* What Queued says of one queue and one mark.
UpTo(l, m) ==
  /\ \A i, j \in DOMAIN keys[l] : keys[l][i] = keys[l][j] => i = j
  /\ \A i \in DOMAIN keys[l] : i > m => entries[l][keys[l][i]] = Unready
  /\ \A i \in DOMAIN keys[l] : ~(i > m) => entries[l][keys[l][i]] \in Values
  /\ \A k \in Keys : entries[l][k] = Unready =>
       \E i \in DOMAIN keys[l] : keys[l][i] = k /\ i > m

LEMMA QueuedUpTo ==
  /\ Queued <=> \A l \in Loaders : UpTo(l, Mark(l))
  /\ Queued' <=> \A l \in Loaders : UpTo(l, Mark(l))'
BY DEF Queued, UpTo

LEMMA Resting ==
  /\ ~active => \A l : Mark(l) = 0
  /\ ~active' => \A l : Mark(l)' = 0
BY DEF Mark

\* There is one dispatch at a time, and its mark is the mark.
LEMMA Alone ==
  ASSUME TypeOK, LockHeld, NEW d \in Dispatchers, pc[d] # "idle"
  PROVE  /\ \A e \in Dispatchers : e # d => pc[e] = "idle"
         /\ active <=> Walking(d)
<1>1. \A e \in Dispatchers : e # d => pc[e] = "idle"
  BY DEF LockHeld
<1>. QED BY <1>1 DEF LockHeld, Walking

LEMMA WalkMark ==
  ASSUME TypeOK, LockHeld, NEW d \in Dispatchers, Walking(d)
  PROVE  \A l \in Loaders : Mark(l) = MarkOf(d, l)
<1>1. active /\ \A e \in Dispatchers : e # d => pc[e] = "idle"
  BY Alone DEF Walking
<1>2. (\E e \in Dispatchers : pc[e] = "store") <=> pc[d] = "store"
  BY <1>1
<1>. QED BY <1>1, <1>2 DEF Mark, MarkOf

\* A step from one point of the walk to another.
LEMMA WalkStep ==
  ASSUME IInv, NEW d \in Dispatchers, NEW to, Walking(d), 
         Goto(d, to) \/ (UNCHANGED pc /\ to = pc[d]),
         to \in {"batch"} \cup InBatch, UNCHANGED <<holder, active>>
  PROVE  /\ active
         /\ pc'[d] = to
         /\ \A e \in Dispatchers : e # d => pc[e] = "idle" /\ pc'[e] = "idle"
         /\ LockHeld' /\ OneWalker'
         /\ \A l \in Loaders : Mark(l) = MarkOf(d, l) /\ Mark(l)' = MarkOf(d, l)'
<1>1. active /\ \A e \in Dispatchers : e # d => pc[e] = "idle"
  BY Alone DEF IInv, Walking
<1>2. pc'[d] = to /\ \A e \in Dispatchers : e # d => pc'[e] = "idle"
  BY <1>1 DEF IInv, TypeOK, Goto
<1>3. LockHeld' /\ OneWalker'
  BY <1>1, <1>2 DEF IInv, LockHeld, OneWalker, Walking, InBatch
<1>4. (\E e \in Dispatchers : pc'[e] = "store") <=> pc'[d] = "store"
  BY <1>2
<1>5. \A l \in Loaders : Mark(l) = MarkOf(d, l)
  BY WalkMark DEF IInv
<1>6. \A l \in Loaders : Mark(l)' = MarkOf(d, l)'
  BY <1>1, <1>4 DEF Mark, MarkOf
<1>. QED BY <1>1, <1>2, <1>3, <1>5, <1>6

\* The batch in hand, as indices of the queue.
LEMMA BatchIs ==
  ASSUME TypeOK, at <= NumLoaders, start < Len(keys[at])
  PROVE  /\ at \in Loaders /\ keys[at] \in Seq(Keys) /\ Len(keys[at]) \in Nat
         /\ BatchEnd \in Nat /\ start < BatchEnd /\ BatchEnd <= Len(keys[at])
         /\ Batch \in Seq(Keys)
         /\ Len(Batch) = BatchEnd - start
         /\ Len(Batch) \in Nat /\ DOMAIN Batch = 1..Len(Batch)
         /\ \A i \in 1..Len(Batch) : /\ Batch[i] = keys[at][start + i] /\ Batch[i] \in Keys
                                     /\ start + i \in DOMAIN keys[at]
<1>1. at \in Loaders /\ keys[at] \in Seq(Keys) /\ Len(keys[at]) \in Nat /\ start \in Nat
  BY Constants DEF TypeOK, Loaders
<1>2. BatchEnd \in Nat /\ start < BatchEnd /\ BatchEnd <= Len(keys[at])
  BY <1>1, Constants DEF BatchEnd
<1> HIDE DEF BatchEnd
<1>3. \A i \in (start + 1)..BatchEnd : keys[at][i] \in Keys
  BY <1>1, <1>2
<1>4. /\ SubSeq(keys[at], start + 1, BatchEnd) \in Seq(Keys)
      /\ Len(SubSeq(keys[at], start + 1, BatchEnd)) = BatchEnd - start
      /\ \A i \in 1..(BatchEnd - start) :
           SubSeq(keys[at], start + 1, BatchEnd)[i] = keys[at][start + i]
  <2>1. \A i \in 1..(BatchEnd - start) :
           SubSeq(keys[at], start + 1, BatchEnd)[i] = keys[at][start + 1 + i - 1]
    BY <1>1, <1>2, <1>3, SubSeqProperties
  <2>2. /\ SubSeq(keys[at], start + 1, BatchEnd) \in Seq(Keys)
        /\ Len(SubSeq(keys[at], start + 1, BatchEnd)) = BatchEnd - start
    BY <1>1, <1>2, <1>3, SubSeqProperties
  <2>3. \A i \in 1..(BatchEnd - start) : start + 1 + i - 1 = start + i
    BY <1>1, <1>2
  <2>. QED BY <2>1, <2>2, <2>3
<1>5. \A i \in 1..(BatchEnd - start) : start + i \in DOMAIN keys[at]
  BY <1>1, <1>2
<1>6. BatchEnd - start \in Nat
  BY <1>1, <1>2
<1>. QED BY <1>1, <1>2, <1>4, <1>5, <1>6 DEF Batch

-----------------------------------------------------------------------------
(* What follows from the rest of the invariant                             *)

\* Every queue behind the loop is empty, so at its end nothing is unready.
LEMMA Resolves ==
  /\ TypeOK /\ Queued /\ InHand => DispatchResolves
  /\ TypeOK' /\ Queued' /\ InHand' => DispatchResolves'
<1>1. TypeOK /\ Queued /\ InHand => DispatchResolves
  BY Constants DEF TypeOK, Queued, InHand, DispatchResolves
<1>2. TypeOK' /\ Queued' /\ InHand' => DispatchResolves'
  BY Constants DEF TypeOK, Queued, InHand, DispatchResolves
<1>. QED BY <1>1, <1>2

LEMMA InitInv == Init => IInv
<1> SUFFICES ASSUME Init PROVE IInv
  OBVIOUS
<1>1. TypeOK
  <2>1. <<>> \in Seq(Keys) /\ <<>> \in Seq(Values)
    OBVIOUS
  <2>2. at \in 1..(NumLoaders + 1)
    BY Constants DEF Init
  <2>3. /\ entries \in [Loaders -> [Keys -> Values \cup {Absent, Unready}]]
        /\ keys \in [Loaders -> Seq(Keys)] /\ asked \in [Loaders -> [Keys -> Nat]]
    BY <2>1 DEF Init
  <2>. QED BY <2>1, <2>2, <2>3 DEF Init, TypeOK
<1>2. LockHeld /\ OneWalker
  BY Constants DEF Init, LockHeld, OneWalker, Walking
<1>3. Queued
  BY Constants DEF Init, Queued
<1>4. InHand /\ AskedSoFar /\ AskedOnce /\ DispatchResolves
  BY DEF Init, InHand, AskedSoFar, AskedOnce, DispatchResolves
<1>. QED BY <1>1, <1>2, <1>3, <1>4 DEF IInv

-----------------------------------------------------------------------------
(* Steps outside the walk                                                  *)

\* Steps that leave the queues alone while nobody walks them, or with the walk
\* where it is.
LEMMA QuietInv ==
  ASSUME IInv, TypeOK', LockHeld', UNCHANGED <<entries, keys, asked>>,
         \/ UNCHANGED <<active, at, start, results, stored>>
            /\ \A d \in Dispatchers : pc'[d] = pc[d] \/ (~Walking(d) /\ ~Walking(d)')
         \/ ~active /\ ~active'
  PROVE  IInv'
<1>1. CASE ~active /\ ~active'
  <2>1. \A d \in Dispatchers : ~Walking(d) /\ ~Walking(d)'
    BY <1>1 DEF IInv, LockHeld
  <2>2. Queued'
    <3> SUFFICES ASSUME NEW l \in Loaders PROVE UpTo(l, Mark(l))'
      BY QueuedUpTo
    <3>1. UpTo(l, 0)
      BY <1>1, QueuedUpTo, Resting DEF IInv
    <3>2. Mark(l)' = 0
      BY <1>1, Resting
    <3>. QED BY <3>1, <3>2 DEF UpTo
  <2>3. InHand' /\ AskedSoFar'
    BY <1>1, <2>1 DEF IInv, InHand, AskedSoFar, Walking
  <2>. QED BY <2>1, <2>2, <2>3, Resolves DEF IInv, OneWalker, AskedOnce
<1>2. CASE /\ UNCHANGED <<active, at, start, results, stored>>
           /\ \A d \in Dispatchers : pc'[d] = pc[d] \/ (~Walking(d) /\ ~Walking(d)')
  <2>1. \A d \in Dispatchers : \A p \in {"batch"} \cup InBatch : pc'[d] = p <=> pc[d] = p
    BY <1>2 DEF Walking, InBatch
  <2>2. Queued'
    BY <1>2, <2>1 DEF IInv, Queued, Mark, InBatch
  <2>3. InHand' /\ AskedSoFar'
    BY <1>2, <2>1 DEF IInv, InHand, AskedSoFar, InBatch, Batch, BatchEnd
  <2>4. OneWalker' /\ AskedOnce'
    BY <2>1 DEF IInv, OneWalker, Walking, AskedOnce, InBatch
  <2>. QED BY <2>2, <2>3, <2>4, Resolves DEF IInv
<1>. QED BY <1>1, <1>2

LEMMA CallerInv ==
  ASSUME IInv,
         \/ CancelContext
         \/ \E g \in Loadings : LoadRefused(g) \/ \E l \in Loaders, k \in Keys : LoadBegin(g, l, k)
  PROVE  IInv'
<1>1. UNCHANGED <<entries, keys, active, holder, dispatchVars, asked>>
  BY DEF CancelContext, LoadRefused, LoadBegin
<1>2. TypeOK'
  <2>1. load' \in [Loadings -> (Loaders \X Keys) \cup {Idle}] /\ ctxDone' \in BOOLEAN
    <3>1. CASE CancelContext
      BY <3>1 DEF IInv, TypeOK, CancelContext
    <3>2. ASSUME NEW g \in Loadings, LoadRefused(g)
          PROVE  load' \in [Loadings -> (Loaders \X Keys) \cup {Idle}] /\ ctxDone' \in BOOLEAN
      BY <3>2 DEF IInv, TypeOK, LoadRefused, LoadReturns
    <3>3. ASSUME NEW g \in Loadings, NEW l \in Loaders, NEW k \in Keys, LoadBegin(g, l, k)
          PROVE  load' \in [Loadings -> (Loaders \X Keys) \cup {Idle}] /\ ctxDone' \in BOOLEAN
      BY <3>3 DEF IInv, TypeOK, LoadBegin
    <3>. QED BY <3>1, <3>2, <3>3
  <2>. QED BY <1>1, <2>1 DEF IInv, TypeOK, dispatchVars
<1>3. LockHeld'
  BY <1>1 DEF IInv, LockHeld, Walking, dispatchVars
<1>. QED BY <1>1, <1>2, <1>3, QuietInv DEF dispatchVars

\* A lookup is queued only while nobody walks the queues, and only if it has no entry.
LEMMA LoadQueueInv ==
  ASSUME IInv, NEW g \in Loadings, LoadQueue(g)
  PROVE  IInv'
<1> DEFINE l == load[g][1]
           k == load[g][2]
<1>1. /\ l \in Loaders /\ k \in Keys /\ ~active /\ ~active'
      /\ UNCHANGED <<ctxDone, active, holder, dispatchVars, asked>>
      /\ IF entries[l][k] = Absent THEN Enqueue(l, k) ELSE UNCHANGED <<entries, keys>>
  BY DEF IInv, TypeOK, LoadQueue
<1>2. load' \in [Loadings -> (Loaders \X Keys) \cup {Idle}]
  BY DEF IInv, TypeOK, LoadQueue, LoadReturns
<1>3. LockHeld'
  BY <1>1 DEF IInv, LockHeld, Walking, dispatchVars
<1>4. CASE UNCHANGED <<entries, keys>>
  <2>1. TypeOK'
    BY <1>1, <1>2, <1>4 DEF IInv, TypeOK, dispatchVars
  <2>. QED BY <1>1, <1>3, <1>4, <2>1, QuietInv
<1>5. CASE entries[l][k] = Absent /\ Enqueue(l, k)
  <2> HIDE DEF l, k
  <2>1. keys[l] \in Seq(Keys)
    BY <1>1 DEF IInv, TypeOK
  <2>2. TypeOK'
    <3>1. Append(keys[l], k) \in Seq(Keys)
      BY <1>1, <2>1
    <3>2. entries' \in [Loaders -> [Keys -> Values \cup {Absent, Unready}]]
      BY <1>1, <1>5 DEF IInv, TypeOK, Enqueue
    <3>3. keys' \in [Loaders -> Seq(Keys)]
      BY <1>1, <1>5, <3>1 DEF IInv, TypeOK, Enqueue
    <3>. QED BY <1>1, <1>2, <3>2, <3>3 DEF IInv, TypeOK, dispatchVars
  <2>3. /\ entries'[l][k] = Unready
        /\ \A m \in Loaders, j \in Keys : m # l \/ j # k => entries'[m][j] = entries[m][j]
        /\ \A m \in Loaders : m # l => keys'[m] = keys[m]
        /\ keys'[l] = Append(keys[l], k)
    BY <1>1, <1>5 DEF IInv, TypeOK, Enqueue
  <2>4. Queued'
    <3> SUFFICES ASSUME NEW m \in Loaders PROVE UpTo(m, Mark(m))'
      BY QueuedUpTo
    <3>1. UpTo(m, 0) /\ Mark(m)' = 0
      BY <1>1, QueuedUpTo, Resting DEF IInv
    <3>2. CASE m # l
      <4>1. keys'[m] = keys[m] /\ entries'[m] = entries[m]
        BY <2>3, <3>2, <1>5 DEF IInv, TypeOK, Enqueue
      <4>. QED BY <3>1, <4>1 DEF UpTo
    <3>3. CASE m = l
      <4> DEFINE n == Len(keys[l])
      <4>1. /\ n \in Nat /\ DOMAIN keys[l] = 1..n /\ DOMAIN keys'[l] = 1..(n + 1)
            /\ keys'[l][n + 1] = k
            /\ \A i \in 1..n : keys'[l][i] = keys[l][i] /\ keys[l][i] \in Keys
        BY <1>1, <2>1, <2>3
      <4> HIDE DEF n
      <4>2. \A i \in 1..n : entries[l][keys[l][i]] = Unready /\ keys[l][i] # k
        BY <1>5, <3>1, <3>3, <4>1, Constants DEF UpTo
      <4>3. \A i, j \in 1..(n + 1) : keys'[l][i] = keys'[l][j] => i = j
        <5>1. \A i, j \in 1..n : keys[l][i] = keys[l][j] => i = j
          BY <3>1, <3>3, <4>1 DEF UpTo
        <5>2. \A i \in 1..(n + 1) : i \in 1..n \/ i = n + 1
          BY <4>1
        <5>3. SUFFICES ASSUME NEW i \in 1..(n + 1), NEW j \in 1..(n + 1),
                              keys'[l][i] = keys'[l][j]
                       PROVE  i = j
          OBVIOUS
        <5>4. CASE i \in 1..n /\ j \in 1..n
          BY <4>1, <5>1, <5>3, <5>4
        <5>5. CASE i = n + 1 \/ j = n + 1
          BY <4>1, <4>2, <5>2, <5>3, <5>5, SMTT(30)
        <5>. QED BY <5>2, <5>4, <5>5
      <4>4. \A i \in 1..(n + 1) : i > 0 /\ entries'[l][keys'[l][i]] = Unready
        BY <1>1, <2>3, <4>1, <4>2
      <4>5. ASSUME NEW j \in Keys, entries'[l][j] = Unready
            PROVE  \E i \in 1..(n + 1) : keys'[l][i] = j /\ i > 0
        <5>1. CASE j = k
          BY <4>1, <5>1
        <5>2. CASE j # k
          BY <1>1, <2>3, <3>1, <3>3, <4>1, <4>5, <5>2 DEF UpTo
        <5>. QED BY <5>1, <5>2
      <4>. QED BY <3>1, <3>3, <4>1, <4>3, <4>4, <4>5, SMTT(30) DEF UpTo
    <3>. QED BY <3>2, <3>3
  <2>5. \A d \in Dispatchers : pc'[d] = pc[d] /\ ~Walking(d)
    BY <1>1 DEF IInv, LockHeld, dispatchVars
  <2>6. InHand' /\ OneWalker' /\ AskedOnce'
    BY <1>1, <2>5 DEF IInv, InHand, OneWalker, AskedOnce, Walking
  <2>7. AskedSoFar'
    <3>1. \A m \in Loaders, j \in Keys : asked[m][j] > 0 => entries[m][j] \in Values
      BY <2>5 DEF IInv, AskedSoFar, Walking
    <3>. QED BY <1>1, <1>5, <2>3, <3>1, Constants DEF AskedSoFar
  <2>. QED BY <1>3, <2>2, <2>4, <2>6, <2>7, Resolves DEF IInv
<1>. QED BY <1>1, <1>4, <1>5

-----------------------------------------------------------------------------
(* The ends of a dispatch                                                  *)

LEMMA BeginInv ==
  ASSUME IInv, NEW d \in Dispatchers, DispatchBegin(d) \/ DispatchReturns(d)
  PROVE  IInv'
<1>1. /\ UNCHANGED <<ctxDone, entries, keys, active, load, at, start, results, stored, asked>>
      /\ pc[d] \in {"idle", "unlock"} /\ pc'[d] \in {"idle", "activate"}
      /\ \A e \in Dispatchers : e # d => pc'[e] = pc[e]
  BY DEF IInv, TypeOK, DispatchBegin, DispatchReturns, Goto
<1>2. TypeOK'
  BY DEF IInv, TypeOK, DispatchBegin, DispatchReturns, Goto
<1>3. LockHeld'
  <2>1. \A e \in Dispatchers : pc'[e] # "idle" <=> holder' = e
    BY <1>1, Constants DEF IInv, TypeOK, LockHeld, DispatchBegin, DispatchReturns, Goto
  <2>. QED BY <1>1, <2>1 DEF IInv, LockHeld, Walking
<1>. QED BY <1>1, <1>2, <1>3, QuietInv DEF Walking

LEMMA ActivateInv ==
  ASSUME IInv, NEW d \in Dispatchers, Activate(d)
  PROVE  IInv'
<1>1. /\ UNCHANGED <<ctxDone, entries, keys, holder, load, results, stored, asked>>
      /\ ~active /\ active' = TRUE /\ at' = 1 /\ start' = 0
      /\ pc[d] = "activate" /\ pc'[d] = "batch"
      /\ \A e \in Dispatchers : e # d => pc[e] = "idle" /\ pc'[e] = "idle"
  BY Alone DEF IInv, TypeOK, Activate, Goto, Walking
<1>2. TypeOK'
  <2>1. 1 \in 1..(NumLoaders + 1)
    BY Constants
  <2>2. pc' \in [Dispatchers -> {"idle", "activate", "batch", "adapter", "reenter",
                                 "answer", "store", "unlock"}]
    BY DEF IInv, TypeOK, Activate, Goto
  <2>. QED BY <1>1, <2>1, <2>2 DEF IInv, TypeOK
<1>3. LockHeld' /\ OneWalker'
  BY <1>1 DEF IInv, LockHeld, OneWalker, Walking
<1>4. Queued'
  <2> SUFFICES ASSUME NEW l \in Loaders PROVE UpTo(l, Mark(l))'
    BY QueuedUpTo
  <2>1. UpTo(l, 0)
    BY <1>1, QueuedUpTo, Resting DEF IInv
  <2>2. keys[l] \in Seq(Keys)
    BY DEF IInv, TypeOK
  <2>3. Mark(l)' = 0
    <3>1. ~\E e \in Dispatchers : pc'[e] = "store"
      BY <1>1
    <3>. QED BY <1>1, <2>2, <3>1 DEF Mark
  <2>. QED BY <1>1, <2>1, <2>3 DEF UpTo
<1>5. InHand' /\ AskedOnce'
  BY <1>1, Constants DEF IInv, InHand, AskedOnce
<1>6. AskedSoFar'
  <2>1. \A e \in Dispatchers : pc[e] \in {"idle", "activate"}
    BY <1>1
  <2>. QED BY <1>1, <2>1 DEF IInv, AskedSoFar
<1>. QED BY <1>2, <1>3, <1>4, <1>5, <1>6, Resolves DEF IInv

\* What was asked for is resolved by then.
LEMMA DeactivateInv ==
  ASSUME IInv, NEW d \in Dispatchers, Deactivate(d)
  PROVE  IInv'
<1>1. /\ UNCHANGED <<ctxDone, entries, keys, holder, load, at, start, results, stored, asked>>
      /\ active /\ active' = FALSE /\ at > NumLoaders
      /\ pc[d] = "batch" /\ pc'[d] = "unlock"
      /\ \A e \in Dispatchers : e # d => pc[e] = "idle" /\ pc'[e] = "idle"
  BY Alone DEF IInv, TypeOK, Deactivate, Goto, Walking
<1>2. TypeOK'
  BY DEF IInv, TypeOK, Deactivate, Goto
<1>3. LockHeld' /\ OneWalker'
  BY <1>1 DEF IInv, LockHeld, OneWalker, Walking
<1>4. Queued'
  <2> SUFFICES ASSUME NEW l \in Loaders PROVE UpTo(l, Mark(l))'
    BY QueuedUpTo
  <2>1. l # at
    BY <1>1, Constants DEF IInv, TypeOK
  <2>2. Mark(l) = 0 /\ Mark(l)' = 0
    BY <1>1, <2>1 DEF Mark
  <2>. QED BY <1>1, <2>2, QueuedUpTo DEF IInv, UpTo
<1>5. InHand' /\ AskedOnce'
  BY <1>1 DEF IInv, InHand, AskedOnce
<1>6. AskedSoFar'
  <2>1. \A e \in Dispatchers : pc[e] \in {"idle", "batch"}
    BY <1>1
  <2>. QED BY <1>1, <2>1 DEF IInv, AskedSoFar
<1>. QED BY <1>2, <1>3, <1>4, <1>5, <1>6, Resolves DEF IInv

-----------------------------------------------------------------------------
(* The walk                                                                *)

\* Steps of the walk that resolve nothing and leave the mark where it is.
LEMMA WalkInv ==
  ASSUME IInv, TypeOK', NEW d \in Dispatchers, NEW to \in {"batch"} \cup InBatch,
         Walking(d), Goto(d, to),
         UNCHANGED <<holder, active, entries, keys, at, start>>,
         to # "batch" => at <= NumLoaders /\ start < Len(keys[at]),
         pc[d] # "store",
         to = "store" =>
           /\ stored' = 0
           /\ Len(results') = Len(Batch)
           /\ \A i \in DOMAIN results' : results'[i] \in {Batch[i], Failed},
         AskedSoFar', AskedOnce'
  PROVE  IInv'
<1>1. /\ active /\ pc'[d] = to
      /\ \A e \in Dispatchers : e # d => pc[e] = "idle" /\ pc'[e] = "idle"
      /\ LockHeld' /\ OneWalker'
      /\ \A l \in Loaders : Mark(l) = MarkOf(d, l) /\ Mark(l)' = MarkOf(d, l)'
  BY WalkStep
<1>2. \A l \in Loaders : Mark(l)' = Mark(l)
  BY <1>1, Constants DEF IInv, TypeOK, MarkOf, InBatch
<1>3. Queued'
  <2> SUFFICES ASSUME NEW l \in Loaders PROVE UpTo(l, Mark(l))'
    BY QueuedUpTo
  <2>1. UpTo(l, Mark(l)) /\ Mark(l)' = Mark(l)
    BY <1>2, QueuedUpTo DEF IInv
  <2>. QED BY <2>1 DEF UpTo
<1>4. InHand'
  <2>1. Batch' = Batch
    BY DEF Batch, BatchEnd
  <2>2. active' => \A l \in Loaders : l < at' => keys'[l] = <<>>
    BY DEF IInv, InHand
  <2>3. \A e \in Dispatchers : pc'[e] \in InBatch => at' <= NumLoaders /\ start' < Len(keys'[at'])
    BY <1>1 DEF InBatch
  <2>4. ASSUME to = "store"
        PROVE  /\ Len(results') = Len(Batch') /\ stored' <= Len(results')
               /\ \A i \in DOMAIN results' : results'[i] \in {Batch'[i], Failed}
    BY <2>1, <2>4 DEF IInv, TypeOK
  <2>5. \A e \in Dispatchers : pc'[e] = "store" => to = "store"
    BY <1>1
  <2>. QED BY <2>2, <2>3, <2>4, <2>5 DEF InHand, InBatch
<1>. QED BY <1>1, <1>3, <1>4, Resolves DEF IInv

LEMMA GotoType ==
  ASSUME TypeOK, NEW d \in Dispatchers, NEW to \in {"batch"} \cup InBatch, Goto(d, to)
  PROVE  pc' \in [Dispatchers -> {"idle", "activate", "batch", "adapter", "reenter",
                                  "answer", "store", "unlock"}]
BY DEF TypeOK, Goto, InBatch

\* A batch that fails before its adapter is called, or that the adapter answers.
LEMMA BatchResultsInv ==
  ASSUME IInv, NEW d \in Dispatchers, BatchCancelled(d) \/ AdapterReturns(d)
  PROVE  IInv'
<1>1. /\ UNCHANGED <<ctxDone, entries, keys, active, holder, load, at, start, asked>>
      /\ pc[d] \in {"batch", "adapter", "answer"}
      /\ Goto(d, "store") /\ stored' = 0
      /\ pc[d] = "batch" => at <= NumLoaders /\ start < Len(keys[at])
  BY DEF BatchCancelled, AdapterReturns
<1>2. Walking(d) /\ at <= NumLoaders /\ start < Len(keys[at])
  BY <1>1 DEF IInv, InHand, Walking
<1>3. \E bad \in SUBSET (1..Len(Batch)) :
         results' = [i \in 1..Len(Batch) |-> IF i \in bad THEN Failed ELSE Batch[i]]
  <2>1. ASSUME results' = [i \in 1..Len(Batch) |-> Failed] PROVE <1>3!:
    <3>1. results' = [i \in 1..Len(Batch) |-> IF i \in 1..Len(Batch) THEN Failed ELSE Batch[i]]
      BY <2>1
    <3>. QED BY <3>1
  <2>. QED BY <2>1 DEF BatchCancelled, AdapterReturns
<1>4. /\ results' \in Seq(Values) /\ Len(results') = Len(Batch)
      /\ \A i \in DOMAIN results' : results'[i] \in {Batch[i], Failed}
  <2>1. Len(Batch) \in Nat /\ \A i \in 1..Len(Batch) : Batch[i] \in Values
    BY <1>2, BatchIs DEF IInv, Values
  <2> HIDE DEF Batch
  <2>2. PICK bad : results' = [i \in 1..Len(Batch) |-> IF i \in bad THEN Failed ELSE Batch[i]]
    BY <1>3
  <2>3. results' \in [1..Len(Batch) -> Values]
    BY <2>1, <2>2 DEF Values
  <2>4. results' \in Seq(Values) /\ Len(results') = Len(Batch)
    BY <2>1, <2>3
  <2>. QED BY <2>2, <2>4
<1>5. TypeOK'
  <2>1. pc' \in [Dispatchers -> {"idle", "activate", "batch", "adapter", "reenter",
                                 "answer", "store", "unlock"}]
    BY <1>1, GotoType DEF IInv, InBatch
  <2>. QED BY <1>1, <1>4, <2>1 DEF IInv, TypeOK
<1>6. AskedOnce'
  BY <1>1 DEF IInv, AskedOnce
<1>7. AskedSoFar'
  <2>1. pc'[d] = "store" /\ \A e \in Dispatchers : e # d => pc[e] = "idle"
    BY <1>1, <1>2, Alone DEF IInv, TypeOK, Goto, Walking
  <2>2. Batch' = Batch
    BY <1>1 DEF Batch, BatchEnd
  <2>. QED BY <1>1, <2>1, <2>2 DEF IInv, AskedSoFar
<1>. QED BY <1>1, <1>2, <1>4, <1>5, <1>6, <1>7, WalkInv DEF InBatch

\* The adapter is running, and calls Dispatch.
LEMMA AdapterInv ==
  ASSUME IInv, NEW d \in Dispatchers, AdapterDispatches(d) \/ ReenterRefused(d)
  PROVE  IInv'
<1>1. PICK to \in {"reenter", "answer"} :
        /\ UNCHANGED <<ctxDone, entries, keys, active, holder, load, at, start, results, stored, asked>>
        /\ pc[d] \in {"adapter", "reenter"}
        /\ Goto(d, to)
  BY DEF AdapterDispatches, ReenterRefused
<1>2. Walking(d) /\ at <= NumLoaders /\ start < Len(keys[at])
  BY <1>1 DEF IInv, InHand, Walking
<1>3. TypeOK'
  <2>1. pc' \in [Dispatchers -> {"idle", "activate", "batch", "adapter", "reenter",
                                 "answer", "store", "unlock"}]
    BY <1>1, GotoType DEF IInv, InBatch
  <2>. QED BY <1>1, <2>1 DEF IInv, TypeOK
<1>4. AskedSoFar' /\ AskedOnce'
  <2>1. pc'[d] = to /\ \A e \in Dispatchers : e # d => pc[e] = "idle"
    BY <1>1, <1>2, Alone DEF IInv, TypeOK, Goto, Walking
  <2>2. Batch' = Batch
    BY <1>1 DEF Batch, BatchEnd
  <2>. QED BY <1>1, <2>1, <2>2 DEF IInv, AskedSoFar, AskedOnce
<1>. QED BY <1>1, <1>2, <1>3, <1>4, WalkInv DEF InBatch

\* The keys of the batch are unready and in it once, so none was asked for before.
LEMMA BatchCalledInv ==
  ASSUME IInv, NEW d \in Dispatchers, BatchCalled(d)
  PROVE  IInv'
<1> DEFINE places(k) == {i \in DOMAIN Batch : Batch[i] = k}
<1>1. /\ UNCHANGED <<ctxDone, entries, keys, active, holder, load, at, start, results, stored>>
      /\ pc[d] = "batch" /\ Goto(d, "adapter")
      /\ at <= NumLoaders /\ start < Len(keys[at])
      /\ asked' = [asked EXCEPT ![at] = [k \in Keys |-> @[k] + Cardinality(places(k))]]
  BY DEF BatchCalled
<1>2. /\ Walking(d) /\ pc'[d] = "adapter"
      /\ \A e \in Dispatchers : e # d => pc[e] = "idle"
  BY <1>1, Alone DEF IInv, TypeOK, Goto, Walking
<1>3. /\ at \in Loaders /\ Len(Batch) \in Nat /\ DOMAIN Batch = 1..Len(Batch)
      /\ \A i \in 1..Len(Batch) : /\ Batch[i] = keys[at][start + i] /\ Batch[i] \in Keys
                                  /\ start + i \in DOMAIN keys[at]
      /\ start \in Nat
  BY <1>1, BatchIs DEF IInv, TypeOK
<1>4. UpTo(at, start)
  <2>1. Mark(at) = start
    BY <1>1, <1>2, <1>3, WalkMark DEF IInv, MarkOf
  <2>. QED BY <1>3, <2>1, QueuedUpTo DEF IInv
<1>5. Batch' = Batch
  BY <1>1 DEF Batch, BatchEnd
<1> HIDE DEF Batch
<1>6. \A i \in 1..Len(Batch) : entries[at][Batch[i]] = Unready /\ asked[at][Batch[i]] = 0
  <2> SUFFICES ASSUME NEW i \in 1..Len(Batch)
               PROVE  entries[at][Batch[i]] = Unready /\ asked[at][Batch[i]] = 0
    OBVIOUS
  <2>1. entries[at][Batch[i]] = Unready
    <3>1. start + i > start
      BY <1>3
    <3>. QED BY <1>3, <1>4, <3>1 DEF UpTo
  <2>2. entries[at][Batch[i]] \notin Values /\ asked[at][Batch[i]] \in Nat
    BY <1>3, <2>1, Constants DEF IInv, TypeOK
  <2>3. \A e \in Dispatchers : pc[e] \notin InBatch
    BY <1>1, <1>2 DEF InBatch
  <2>4. ~(asked[at][Batch[i]] > 0)
    BY <1>3, <2>2, <2>3 DEF IInv, AskedSoFar, InBatch
  <2>. QED BY <2>1, <2>2, <2>4
<1>7. \A k \in Keys : /\ Cardinality(places(k)) \in {0, 1}
                      /\ Cardinality(places(k)) = 1 => \E i \in 1..Len(Batch) : Batch[i] = k
  <2> SUFFICES ASSUME NEW k \in Keys
               PROVE  /\ Cardinality(places(k)) \in {0, 1}
                      /\ Cardinality(places(k)) = 1 => \E i \in 1..Len(Batch) : Batch[i] = k
    OBVIOUS
  <2>1. CASE places(k) = {}
    <3>1. Cardinality({}) = 0
      BY FS_EmptySet
    <3>. QED BY <2>1, <3>1
  <2>2. CASE places(k) # {}
    <3>1. PICK i \in 1..Len(Batch) : Batch[i] = k
      BY <1>3, <2>2
    <3>2. \A j \in 1..Len(Batch) : Batch[j] = k => j = i
      <4>1. SUFFICES ASSUME NEW j \in 1..Len(Batch), Batch[j] = k PROVE j = i
        OBVIOUS
      <4>2. start + j = start + i
        BY <1>3, <1>4, <3>1, <4>1 DEF UpTo
      <4>. QED BY <1>3, <4>2
    <3>3. places(k) = {i}
      BY <1>3, <3>1, <3>2
    <3>. QED BY <3>1, <3>3, FS_Singleton
  <2>. QED BY <2>1, <2>2
<1>8. \A l \in Loaders, k \in Keys :
        asked'[l][k] = IF l = at THEN asked[l][k] + Cardinality(places(k)) ELSE asked[l][k]
  BY <1>1, <1>3 DEF IInv, TypeOK
<1> HIDE DEF places
<1>9. TypeOK'
  <2>1. pc' \in [Dispatchers -> {"idle", "activate", "batch", "adapter", "reenter",
                                 "answer", "store", "unlock"}]
    BY <1>1, GotoType DEF IInv, InBatch
  <2>2. \A k \in Keys : asked[at][k] + Cardinality(places(k)) \in Nat
    <3>1. \A k \in Keys : asked[at][k] \in Nat
      BY <1>3 DEF IInv, TypeOK
    <3>2. \A k \in Keys : Cardinality(places(k)) \in Nat
      BY <1>7
    <3>. QED BY <3>1, <3>2
  <2>3. asked' \in [Loaders -> [Keys -> Nat]]
    BY <1>1, <1>3, <2>2 DEF IInv, TypeOK
  <2>. QED BY <1>1, <2>1, <2>3 DEF IInv, TypeOK
<1>10. AskedOnce'
  <2> SUFFICES ASSUME NEW l \in Loaders, NEW k \in Keys PROVE asked'[l][k] <= 1
    BY DEF AskedOnce
  <2>1. asked[l][k] \in Nat /\ asked[l][k] <= 1
    BY DEF IInv, TypeOK, AskedOnce
  <2>2. CASE l = at /\ Cardinality(places(k)) = 1
    BY <1>6, <1>7, <1>8, <2>1, <2>2
  <2>3. CASE ~(l = at /\ Cardinality(places(k)) = 1)
    BY <1>7, <1>8, <2>1, <2>3
  <2>. QED BY <2>2, <2>3
<1>11. AskedSoFar'
  <2> SUFFICES ASSUME NEW l \in Loaders, NEW k \in Keys, asked'[l][k] > 0
               PROVE  \/ entries'[l][k] \in Values
                      \/ /\ l = at'
                         /\ \E e \in Dispatchers : pc'[e] \in InBatch
                         /\ \E i \in DOMAIN Batch' : Batch'[i] = k
    BY DEF AskedSoFar, InBatch
  <2>1. CASE l = at /\ Cardinality(places(k)) = 1
    BY <1>1, <1>2, <1>3, <1>5, <1>7, <2>1 DEF InBatch
  <2>2. CASE ~(l = at /\ Cardinality(places(k)) = 1)
    <3>1. asked[l][k] > 0
      BY <1>7, <1>8, <2>2 DEF IInv, TypeOK
    <3>2. \A e \in Dispatchers : pc[e] \notin InBatch
      BY <1>1, <1>2 DEF InBatch
    <3>. QED BY <1>1, <3>1, <3>2 DEF IInv, AskedSoFar, InBatch
  <2>. QED BY <2>1, <2>2
<1>. QED BY <1>1, <1>2, <1>9, <1>10, <1>11, WalkInv DEF InBatch

\* One result is stored: the mark moves on over the key it belongs to.
LEMMA StoreInv ==
  ASSUME IInv, NEW d \in Dispatchers, Store(d)
  PROVE  IInv'
<1> DEFINE n == start + stored + 1
           key == keys[at][n]
           value == results[stored + 1]
<1>1. /\ UNCHANGED <<ctxDone, keys, active, holder, load, pc, at, start, results, asked>>
      /\ pc[d] = "store" /\ stored < Len(results) /\ stored' = stored + 1
      /\ entries' = [entries EXCEPT ![at][key] = value]
  BY DEF Store
<1>2. /\ at <= NumLoaders /\ start < Len(keys[at]) /\ Len(results) = Len(Batch)
      /\ \A i \in DOMAIN results : results[i] \in {Batch[i], Failed}
  BY <1>1 DEF IInv, InHand
<1>3. /\ at \in Loaders /\ stored \in Nat /\ start \in Nat /\ Len(results) \in Nat
      /\ stored + 1 \in 1..Len(Batch) /\ stored + 1 \in DOMAIN results
      /\ key = Batch[stored + 1] /\ key \in Keys /\ n \in DOMAIN keys[at]
  <2>1. stored \in Nat /\ start \in Nat /\ results \in Seq(Values)
    BY DEF IInv, TypeOK
  <2>2. stored + 1 \in 1..Len(Batch) /\ stored + 1 \in DOMAIN results
    BY <1>1, <1>2, <2>1
  <2>3. start + (stored + 1) = n
    BY <2>1
  <2> HIDE DEF Batch, n
  <2>. QED BY <1>2, <2>1, <2>2, <2>3, BatchIs DEF IInv
<1>4. value \in Values /\ value \in {key, Failed}
  BY <1>2, <1>3 DEF Values
<1>5. /\ entries'[at][key] = value
      /\ \A l \in Loaders, k \in Keys : l # at \/ k # key => entries'[l][k] = entries[l][k]
  BY <1>1, <1>3 DEF IInv, TypeOK
<1>6. Walking(d)
  BY <1>1 DEF Walking
<1>7. /\ active /\ LockHeld' /\ OneWalker'
      /\ \A e \in Dispatchers : e # d => pc[e] = "idle" /\ pc'[e] = "idle"
      /\ \A l \in Loaders : Mark(l) = MarkOf(d, l) /\ Mark(l)' = MarkOf(d, l)'
  BY <1>1, <1>6, WalkStep DEF InBatch
<1>8. Mark(at) = n - 1 /\ \A l \in Loaders : Mark(l)' = IF l = at THEN n ELSE 0
  <2>1. Mark(at) = n - 1
    BY <1>1, <1>3, <1>7 DEF MarkOf
  <2>2. \A l \in Loaders : l = at => Mark(l)' = n
    BY <1>1, <1>3, <1>7 DEF MarkOf
  <2>3. \A l \in Loaders : l # at => Mark(l)' = 0
    BY <1>1, <1>7 DEF MarkOf
  <2>. QED BY <2>1, <2>2, <2>3
<1>9. TypeOK'
  <2>1. entries' \in [Loaders -> [Keys -> Values \cup {Absent, Unready}]]
    BY <1>1, <1>3, <1>4 DEF IInv, TypeOK
  <2>2. stored' \in Nat
    BY <1>1, <1>3
  <2>. QED BY <1>1, <2>1, <2>2 DEF IInv, TypeOK
<1>10. Queued'
  <2> SUFFICES ASSUME NEW l \in Loaders PROVE UpTo(l, Mark(l))'
    BY QueuedUpTo
  <2>1. CASE l # at
    <3>1. UpTo(l, 0) /\ Mark(l)' = 0
      BY <1>7, <1>8, <2>1, QueuedUpTo DEF IInv, MarkOf
    <3>2. entries'[l] = entries[l] /\ keys' = keys
      BY <1>1, <2>1 DEF IInv, TypeOK
    <3>. QED BY <3>1, <3>2 DEF UpTo
  <2>2. CASE l = at
    <3>1. UpTo(at, n - 1) /\ Mark(l)' = n
      BY <1>3, <1>8, <2>2, QueuedUpTo DEF IInv
    <3>2. /\ keys[at] \in Seq(Keys) /\ \A i \in DOMAIN keys[at] : i \in Nat /\ keys[at][i] \in Keys
          /\ n \in Nat
      <4>1. at \in Loaders /\ keys \in [Loaders -> Seq(Keys)]
        BY <1>3 DEF IInv, TypeOK
      <4>2. n \in Nat
        BY <1>3 DEF IInv, TypeOK
      <4> HIDE DEF n
      <4>3. keys[at] \in Seq(Keys)
        BY <4>1
      <4>4. \A i \in DOMAIN keys[at] : i \in Nat /\ keys[at][i] \in Keys
        BY <4>3
      <4>. QED BY <4>2, <4>3, <4>4
    <3> HIDE DEF n, value
    <3>3. \A i \in DOMAIN keys[at] : keys[at][i] = key => i = n
      BY <1>3, <3>1 DEF UpTo
    <3> HIDE DEF key
    <3>4. \A i \in DOMAIN keys[at] : i > n => entries'[at][keys[at][i]] = Unready
      <4>1. SUFFICES ASSUME NEW i \in DOMAIN keys[at], i > n
                     PROVE  entries'[at][keys[at][i]] = Unready
        OBVIOUS
      <4>2. i > n - 1 /\ keys[at][i] # key
        BY <3>2, <3>3, <4>1
      <4>. QED BY <1>3, <1>5, <3>1, <3>2, <4>2 DEF UpTo
    <3>5. \A i \in DOMAIN keys[at] : ~(i > n) => entries'[at][keys[at][i]] \in Values
      <4>1. SUFFICES ASSUME NEW i \in DOMAIN keys[at], ~(i > n)
                     PROVE  entries'[at][keys[at][i]] \in Values
        OBVIOUS
      <4>2. CASE keys[at][i] = key
        BY <1>4, <1>5, <4>2
      <4>3. CASE keys[at][i] # key
        <5>1. i # n
          BY <4>3 DEF key
        <5>2. ~(i > n - 1)
          BY <3>2, <4>1, <5>1
        <5>. QED BY <1>3, <1>5, <3>1, <3>2, <4>3, <5>2, SMTT(30) DEF UpTo
      <4>. QED BY <4>2, <4>3
    <3>6. ASSUME NEW k \in Keys, entries'[at][k] = Unready
          PROVE  \E i \in DOMAIN keys[at] : keys[at][i] = k /\ i > n
      <4>1. k # key
        BY <1>4, <1>5, <3>6, Constants
      <4>2. entries[at][k] = Unready
        BY <1>3, <1>5, <3>6, <4>1
      <4>3. PICK i \in DOMAIN keys[at] : keys[at][i] = k /\ i > n - 1
        BY <3>1, <4>2 DEF UpTo
      <4>4. i # n
        BY <4>1, <4>3 DEF key
      <4>. QED BY <3>2, <4>3, <4>4
    <3>. QED BY <1>1, <2>2, <3>1, <3>4, <3>5, <3>6 DEF UpTo
  <2>. QED BY <2>1, <2>2
<1>11. Batch' = Batch
  BY <1>1 DEF Batch, BatchEnd
<1> HIDE DEF Batch
<1>12. InHand'
  BY <1>1, <1>2, <1>3, <1>7, <1>11 DEF IInv, InHand
<1>13. AskedSoFar' /\ AskedOnce'
  <2>1. AskedOnce'
    BY <1>1 DEF IInv, AskedOnce
  <2>2. ASSUME NEW l \in Loaders, NEW k \in Keys, entries[l][k] \in Values
        PROVE  entries'[l][k] \in Values
    BY <1>4, <1>5, <2>2
  <2>. QED BY <1>1, <1>11, <2>1, <2>2 DEF IInv, AskedSoFar
<1>. QED BY <1>7, <1>9, <1>10, <1>12, <1>13, Resolves DEF IInv

\* The whole batch is stored: the mark is at its end, where the next one starts.
LEMMA StoreDoneInv ==
  ASSUME IInv, NEW d \in Dispatchers, StoreDone(d)
  PROVE  IInv'
<1>1. /\ UNCHANGED <<ctxDone, entries, keys, active, holder, load, at, results, stored, asked>>
      /\ pc[d] = "store" /\ stored = Len(results) /\ Goto(d, "batch")
      /\ start' = start + MaxBatch
  BY DEF StoreDone
<1>2. /\ at <= NumLoaders /\ start < Len(keys[at]) /\ Len(results) = Len(Batch)
  BY <1>1 DEF IInv, InHand
<1>3. Walking(d)
  BY <1>1 DEF Walking
<1>4. /\ active /\ pc'[d] = "batch"
      /\ \A e \in Dispatchers : e # d => pc[e] = "idle" /\ pc'[e] = "idle"
      /\ LockHeld' /\ OneWalker'
      /\ \A l \in Loaders : Mark(l) = MarkOf(d, l) /\ Mark(l)' = MarkOf(d, l)'
  BY <1>1, <1>3, WalkStep
<1>5. /\ at \in Loaders /\ Len(keys[at]) \in Nat /\ Len(Batch) = BatchEnd - start
      /\ BatchEnd \in Nat /\ start \in Nat /\ stored \in Nat
      /\ \A i \in 1..Len(Batch) : /\ Batch[i] = keys[at][start + i] /\ Batch[i] \in Keys
                                  /\ start + i \in DOMAIN keys[at]
      /\ Len(Batch) \in Nat /\ DOMAIN Batch = 1..Len(Batch)
  BY <1>2, BatchIs DEF IInv, TypeOK
<1>6. \A l \in Loaders : Mark(l)' = Mark(l)
  <2>1. start + stored = BatchEnd
    BY <1>1, <1>2, <1>5
  <2>. QED BY <1>1, <1>4, <2>1 DEF MarkOf, BatchEnd
<1>7. TypeOK'
  <2>1. pc' \in [Dispatchers -> {"idle", "activate", "batch", "adapter", "reenter",
                                 "answer", "store", "unlock"}]
    BY <1>1, GotoType DEF IInv
  <2>2. start' \in Nat
    BY <1>1, <1>5, Constants
  <2>. QED BY <1>1, <2>1, <2>2 DEF IInv, TypeOK
<1>8. Queued'
  <2> SUFFICES ASSUME NEW l \in Loaders PROVE UpTo(l, Mark(l))'
    BY QueuedUpTo
  <2>. QED BY <1>1, <1>6, QueuedUpTo DEF IInv, UpTo
<1>9. InHand'
  BY <1>1, <1>4 DEF IInv, InHand
<1>10. \A k \in Keys : (\E i \in DOMAIN Batch : Batch[i] = k) => entries[at][k] \in Values
  <2> SUFFICES ASSUME NEW i \in 1..Len(Batch) PROVE entries[at][Batch[i]] \in Values
    BY <1>5
  <2>1. Mark(at) = start + Len(Batch)
    BY <1>1, <1>2, <1>4, <1>5 DEF MarkOf
  <2>2. ~(start + i > start + Len(Batch))
    BY <1>5
  <2>3. UpTo(at, start + Len(Batch))
    BY <1>5, <2>1, QueuedUpTo DEF IInv
  <2>. QED BY <1>5, <2>2, <2>3 DEF UpTo
<1>11. AskedSoFar' /\ AskedOnce'
  <2>1. AskedOnce'
    BY <1>1 DEF IInv, AskedOnce
  <2>2. \A l \in Loaders, k \in Keys : asked[l][k] > 0 => entries[l][k] \in Values
    BY <1>10 DEF IInv, AskedSoFar
  <2>. QED BY <1>1, <2>1, <2>2 DEF AskedSoFar
<1>. QED BY <1>4, <1>7, <1>8, <1>9, <1>11, Resolves DEF IInv

\* The queue is emptied: its keys are all behind the mark.
LEMMA QueueDoneInv ==
  ASSUME IInv, NEW d \in Dispatchers, QueueDone(d)
  PROVE  IInv'
<1>1. /\ UNCHANGED <<ctxDone, entries, active, holder, load, pc, results, stored, asked>>
      /\ pc[d] = "batch" /\ at <= NumLoaders /\ ~(start < Len(keys[at]))
      /\ keys' = [keys EXCEPT ![at] = <<>>] /\ at' = at + 1 /\ start' = 0
  <2>1. at \in Loaders /\ start \in Nat /\ keys[at] \in Seq(Keys)
    BY Constants DEF IInv, TypeOK, QueueDone, Loaders
  <2>. QED BY <2>1 DEF QueueDone
<1>2. Walking(d)
  BY <1>1 DEF Walking
<1>3. /\ active
      /\ \A e \in Dispatchers : e # d => pc[e] = "idle" /\ pc'[e] = "idle"
      /\ LockHeld' /\ OneWalker'
      /\ \A l \in Loaders : Mark(l) = MarkOf(d, l) /\ Mark(l)' = MarkOf(d, l)'
  BY <1>1, <1>2, WalkStep
<1>4. /\ at \in Loaders /\ at \in Nat /\ keys'[at] = <<>> /\ <<>> \in Seq(Keys)
      /\ \A l \in Loaders : l # at => keys'[l] = keys[l]
      /\ \A l \in Loaders : keys[l] \in Seq(Keys) /\ l \in Nat
  BY <1>1, Constants DEF IInv, TypeOK, Loaders
<1>5. TypeOK'
  <2>1. at' \in 1..(NumLoaders + 1)
    BY <1>1, Constants DEF IInv, TypeOK
  <2>2. keys' \in [Loaders -> Seq(Keys)]
    BY <1>1, <1>4 DEF IInv, TypeOK
  <2>. QED BY <1>1, <2>1, <2>2 DEF IInv, TypeOK
<1>6. Queued'
  <2> SUFFICES ASSUME NEW l \in Loaders PROVE UpTo(l, Mark(l))'
    BY QueuedUpTo
  <2>1. CASE l = at
    <3>1. UpTo(l, Len(keys[l]))
      BY <1>1, <1>3, <2>1, QueuedUpTo DEF IInv, MarkOf
    <3>2. \A k \in Keys : entries[l][k] # Unready
      BY <1>4, <3>1 DEF UpTo
    <3>. QED BY <1>1, <1>4, <2>1, <3>2 DEF UpTo
  <2>2. CASE l # at
    <3>1. Mark(l) = 0
      BY <1>3, <2>2 DEF MarkOf
    <3>2. Mark(l)' = 0
      BY <1>1, <1>3, <1>4, <2>2 DEF MarkOf
    <3>3. UpTo(l, 0)
      BY <3>1, QueuedUpTo DEF IInv
    <3>. QED BY <1>1, <1>4, <2>2, <3>2, <3>3 DEF UpTo
  <2>. QED BY <2>1, <2>2
<1>7. InHand'
  <2>1. \A l \in Loaders : l < at' => keys'[l] = <<>>
    BY <1>1, <1>3, <1>4 DEF IInv, InHand
  <2>2. \A e \in Dispatchers : pc'[e] \in {"idle", "batch"}
    BY <1>1, <1>3
  <2>. QED BY <2>1, <2>2 DEF InHand
<1>8. AskedSoFar' /\ AskedOnce'
  <2>1. \A e \in Dispatchers : pc[e] \in {"idle", "batch"}
    BY <1>1, <1>3
  <2>. QED BY <1>1, <2>1 DEF IInv, AskedSoFar, AskedOnce
<1>. QED BY <1>3, <1>5, <1>6, <1>7, <1>8, Resolves DEF IInv

-----------------------------------------------------------------------------
LEMMA NextInv == IInv /\ [Next]_vars => IInv'
<1> SUFFICES ASSUME IInv, [Next]_vars PROVE IInv'
  OBVIOUS
<1>1. CASE UNCHANGED vars
  <2>1. TypeOK' /\ LockHeld'
    BY <1>1 DEF IInv, TypeOK, LockHeld, Walking, vars, dispatchVars
  <2>. QED BY <1>1, <2>1, QuietInv DEF vars, dispatchVars
<1>2. CASE CancelContext
  BY <1>2, CallerInv
<1>3. ASSUME NEW g \in Loadings, Loading(g) PROVE IInv'
  BY <1>3, CallerInv, LoadQueueInv DEF Loading
<1>4. ASSUME NEW d \in Dispatchers, DispatchBegin(d) \/ AdapterDispatches(d) \/ Running(d)
      PROVE  IInv'
  BY <1>4, BeginInv, ActivateInv, DeactivateInv, BatchResultsInv, AdapterInv, BatchCalledInv,
     StoreInv, StoreDoneInv, QueueDoneInv DEF Running
<1>. QED BY <1>1, <1>2, <1>3, <1>4 DEF Next

\* The inductive invariant holds in every reachable state.
THEOREM Invariance == Spec => []IInv
BY InitInv, NextInv, PTL DEF Spec

\* No adapter is given a key twice in a scope.
THEOREM AdapterAskedOnce == Spec => []AskedOnce
<1>1. IInv => AskedOnce
  BY DEF IInv
<1>. QED BY <1>1, Invariance, PTL

\* A dispatch that has come to its end leaves no lookup unresolved.
THEOREM NothingUnresolved == Spec => []DispatchResolves
<1>1. IInv => DispatchResolves
  BY DEF IInv
<1>. QED BY <1>1, Invariance, PTL

\* Queues grow only while no dispatch walks them.
THEOREM NoLoadDuringWalk == Spec => NoQueueRace
<1> DEFINE A == (\E l \in Loaders : Len(keys'[l]) > Len(keys[l])) =>
                  \A d \in Dispatchers : ~Walking(d)
<1>1. IInv /\ [Next]_vars => [A]_vars
  <2> SUFFICES ASSUME IInv, Next, NEW l \in Loaders, Len(keys'[l]) > Len(keys[l]),
                      NEW d \in Dispatchers, Walking(d)
               PROVE  FALSE
    OBVIOUS
  <2>1. active /\ keys[l] \in Seq(Keys) /\ Len(keys[l]) \in Nat
    BY DEF IInv, TypeOK, LockHeld
  <2>2. keys' # keys
    BY <2>1
  <2>3. CASE \E g \in Loadings : LoadQueue(g)
    BY <2>1, <2>3 DEF LoadQueue
  <2>4. CASE \E e \in Dispatchers : QueueDone(e)
    <3>1. keys' = [keys EXCEPT ![at] = <<>>]
      BY <2>4 DEF QueueDone
    <3>2. keys'[l] = keys[l] \/ keys'[l] = <<>>
      BY <3>1 DEF IInv, TypeOK
    <3>. QED BY <2>1, <3>2
  <2>5. CASE ~(\E g \in Loadings : LoadQueue(g)) /\ ~(\E e \in Dispatchers : QueueDone(e))
    <3>1. CASE CancelContext
      BY <2>2, <3>1 DEF CancelContext
    <3>2. CASE \E g \in Loadings : Loading(g)
      BY <2>2, <2>5, <3>2 DEF Loading, LoadBegin, LoadRefused
    <3>3. ASSUME NEW e \in Dispatchers, DispatchBegin(e) \/ AdapterDispatches(e) \/ Running(e)
          PROVE  FALSE
      BY <2>2, <2>5, <3>3 DEF DispatchBegin, AdapterDispatches, Running, Activate,
           BatchCancelled, BatchCalled, ReenterRefused, AdapterReturns, Store, StoreDone,
           Deactivate, DispatchReturns
    <3>. QED BY <3>1, <3>2, <3>3 DEF Next
  <2>. QED BY <2>3, <2>4, <2>5
<1>. QED BY <1>1, Invariance, PTL DEF Spec, NoQueueRace

\* A lookup goes from absent to unready to its own key's value or an error, and
\* stays there.
THEOREM ResultsStay == Spec => Memoised
<1> DEFINE A == \A l \in Loaders, k \in Keys :
                  \/ entries'[l][k] = entries[l][k]
                  \/ entries[l][k] = Absent /\ entries'[l][k] = Unready
                  \/ entries[l][k] = Unready /\ entries'[l][k] \in {k, Failed}
<1>1. IInv /\ [Next]_vars => [A]_vars
  <2> SUFFICES ASSUME IInv, Next, NEW l \in Loaders, NEW k \in Keys
               PROVE  \/ entries'[l][k] = entries[l][k]
                      \/ entries[l][k] = Absent /\ entries'[l][k] = Unready
                      \/ entries[l][k] = Unready /\ entries'[l][k] \in {k, Failed}
    OBVIOUS
  <2>1. ASSUME NEW g \in Loadings, LoadQueue(g)
        PROVE  \/ entries'[l][k] = entries[l][k]
               \/ entries[l][k] = Absent /\ entries'[l][k] = Unready
    <3> DEFINE m == load[g][1]
               j == load[g][2]
    <3>1. m \in Loaders /\ j \in Keys
      BY <2>1 DEF IInv, TypeOK, LoadQueue
    <3>2. CASE entries[m][j] = Absent
      <4>1. entries' = [entries EXCEPT ![m][j] = Unready]
        BY <2>1, <3>2 DEF LoadQueue, Enqueue
      <4> HIDE DEF m, j
      <4>2. entries'[l][k] = IF l = m /\ k = j THEN Unready ELSE entries[l][k]
        BY <3>1, <4>1 DEF IInv, TypeOK
      <4>. QED BY <3>2, <4>2
    <3>3. CASE entries[m][j] # Absent
      BY <2>1, <3>3 DEF LoadQueue
    <3>. QED BY <3>2, <3>3
  <2>2. ASSUME NEW d \in Dispatchers, Store(d)
        PROVE  \/ entries'[l][k] = entries[l][k]
               \/ entries[l][k] = Unready /\ entries'[l][k] \in {k, Failed}
    <3> DEFINE n == start + stored + 1
    <3>1. /\ pc[d] = "store" /\ stored < Len(results)
          /\ entries' = [entries EXCEPT ![at][keys[at][n]] = results[stored + 1]]
      BY <2>2 DEF Store
    <3>2. /\ at <= NumLoaders /\ start < Len(keys[at]) /\ Len(results) = Len(Batch)
          /\ \A i \in DOMAIN results : results[i] \in {Batch[i], Failed}
      BY <3>1 DEF IInv, InHand
    <3>3. /\ at \in Loaders /\ stored \in Nat /\ start \in Nat
          /\ stored + 1 \in 1..Len(Batch) /\ stored + 1 \in DOMAIN results
          /\ keys[at][n] = Batch[stored + 1] /\ keys[at][n] \in Keys /\ n \in DOMAIN keys[at]
      <4>1. stored \in Nat /\ start \in Nat /\ results \in Seq(Values)
        BY DEF IInv, TypeOK
      <4>2. stored + 1 \in 1..Len(Batch) /\ stored + 1 \in DOMAIN results
        BY <3>1, <3>2, <4>1
      <4>3. start + (stored + 1) = n
        BY <4>1
      <4> HIDE DEF Batch, n
      <4>. QED BY <3>2, <4>1, <4>2, <4>3, BatchIs DEF IInv
    <3>4. entries[at][keys[at][n]] = Unready
      <4>1. Mark(at) = n - 1
        <5>1. Mark(at) = start + stored
          BY <3>1, <3>3, WalkMark DEF IInv, MarkOf, Walking
        <5>. QED BY <3>3, <5>1
      <4>2. UpTo(at, n - 1)
        BY <3>3, <4>1, QueuedUpTo DEF IInv
      <4>3. n > n - 1
        BY <3>3
      <4>. QED BY <3>3, <4>2, <4>3 DEF UpTo
    <3>5. results[stored + 1] \in {keys[at][n], Failed}
      BY <3>2, <3>3
    <3> HIDE DEF n
    <3>6. CASE l = at /\ k = keys[at][n]
      BY <3>1, <3>3, <3>4, <3>5, <3>6 DEF IInv, TypeOK
    <3>7. CASE ~(l = at /\ k = keys[at][n])
      BY <3>1, <3>3, <3>7 DEF IInv, TypeOK
    <3>. QED BY <3>6, <3>7
  <2>3. CASE ~(\E g \in Loadings : LoadQueue(g)) /\ ~(\E e \in Dispatchers : Store(e))
    <3>1. CASE CancelContext
      BY <3>1 DEF CancelContext
    <3>2. CASE \E g \in Loadings : Loading(g)
      BY <2>3, <3>2 DEF Loading, LoadBegin, LoadRefused
    <3>3. ASSUME NEW e \in Dispatchers, DispatchBegin(e) \/ AdapterDispatches(e) \/ Running(e)
          PROVE  entries' = entries
      BY <2>3, <3>3 DEF DispatchBegin, AdapterDispatches, Running, Activate,
         BatchCancelled, BatchCalled, ReenterRefused, AdapterReturns, QueueDone, StoreDone,
         Deactivate, DispatchReturns
    <3>. QED BY <3>1, <3>2, <3>3 DEF Next
  <2>. QED BY <2>1, <2>2, <2>3
<1>. QED BY <1>1, Invariance, PTL DEF Spec, Memoised

=============================================================================
