-------------------------- MODULE WSSession_proofs --------------------------
(***************************************************************************)
(* For any ids, limits and timeouts, and any number of operations, reads   *)
(* and events: a running operation can be cancelled, the limit bounds what *)
(* runs uncancelled, an operation's messages have the order the protocol   *)
(* gives them, and only its last words come after its cancellation.        *)
(***************************************************************************)
EXTENDS WSSession, FiniteSetTheorems, SequenceTheorems, TLAPS

LEMMA Constants ==
  /\ MaxOps \in Nat /\ MaxReads \in Nat /\ MaxEvents \in Nat /\ MaxSubscriptions \in Nat
  /\ InitTimeout \in BOOLEAN /\ IdleTimeout \in BOOLEAN
  /\ WriteTimeout \in BOOLEAN /\ PingInterval \in BOOLEAN
  /\ NoOp \notin Ops /\ NoOp \notin Ids
  /\ Ops \subseteq Nat
BY WSSessionAssumption DEF Ops

LEMMA InitInv == Init => IInv
<1> SUFFICES ASSUME Init PROVE IInv
  OBVIOUS
<1>1. TypeOK
  <2>1. <<>> \in Seq(Frames)
    OBVIOUS
  <2>2. deadline \in {"none", "init", "idle"} /\ pinger \in {"wait", "send", "off"}
    BY DEF Init
  <2>3. out \in [Ops -> Seq(Frames)] /\ stale \in [Ops -> Nat]
    BY <2>1 DEF Init
  <2>4. pc \in [Ops -> WorkerPCs] /\ ctxDone \in [Ops -> BOOLEAN] /\ nops \in 0..MaxOps
    BY Constants DEF Init, WorkerPCs
  <2>5. /\ subs \in [Ids -> Ops \cup {NoOp}] /\ doomed \in SUBSET Ops
        /\ id \in [Ops -> Ids \cup {NoOp}]
    BY DEF Init
  <2>. QED BY <2>2, <2>3, <2>4, <2>5 DEF Init, TypeOK, ReaderPCs
<1>2. Numbering /\ Handover /\ Cancellable
  BY Constants DEF Init, Numbering, Handover, Cancellable, Live, Running, Ops
<1>3. FramesSoFar /\ OperationFrames /\ StaleSoFar /\ LastWords /\ AckPending /\ AckFirst
  BY DEF Init, FramesSoFar, OperationFrames, StaleSoFar, LastWords, AckPending, AckFirst, Started
<1>4. WithinLimit
  <2>1. Tracked \cup doomed = {}
    BY Constants DEF Init, Tracked
  <2>2. Cardinality({}) = 0
    BY FS_EmptySet
  <2>. QED BY <2>1, <2>2, Constants DEF WithinLimit
<1>. QED BY <1>1, <1>2, <1>3, <1>4 DEF IInv

\* The sets of operations that are counted are finite.
LEMMA OpsFinite == \A S : S \subseteq Ops => IsFiniteSet(S) /\ Cardinality(S) \in Nat
<1>1. IsFiniteSet(Ops)
  BY FS_Interval, Constants DEF Ops
<1>. QED BY <1>1, FS_Subset, FS_CardinalityType

LEMMA TrackedOps == TypeOK => Tracked \cup doomed \subseteq Ops
BY DEF TypeOK, Tracked

\* A smaller set of operations keeps within the limit.
LEMMA LimitKept ==
  ASSUME IInv, TypeOK', (Tracked \cup doomed)' \subseteq Tracked \cup doomed
  PROVE  WithinLimit'
<1> DEFINE old == Tracked \cup doomed
           new == (Tracked \cup doomed)'
<1>1. old \subseteq Ops
  BY TrackedOps DEF IInv
<1>2. new \subseteq old
  OBVIOUS
<1>3. Cardinality(new) <= Cardinality(old)
  BY <1>1, <1>2, OpsFinite, FS_Subset
<1>4. Cardinality(new) \in Nat /\ Cardinality(old) \in Nat
  BY <1>1, <1>2, OpsFinite
<1> HIDE DEF old, new
<1>5. MaxSubscriptions > 0 => Cardinality(old) <= MaxSubscriptions
  BY DEF IInv, WithinLimit, old
<1>6. MaxSubscriptions > 0 => Cardinality(new) <= MaxSubscriptions
  BY <1>3, <1>4, <1>5, Constants
<1>. QED BY <1>6 DEF WithinLimit, new

-----------------------------------------------------------------------------
\* Steps of the peer, the pinger and the reader that touch no operation.
LEMMA QuietInv ==
  ASSUME IInv, TypeOK', AckPending', UNCHANGED <<acked, mapVars, opVars, outVars>>,
         doomed # {} => reader' \in {"cancel", "cancelall"}
  PROVE  IInv'
<1> USE DEF mapVars, opVars, outVars
<1>1. Numbering' /\ Handover' /\ Cancellable' /\ AckFirst'
  BY DEF IInv, Numbering, Handover, Cancellable, Live, Running, AckFirst, Started
<1>2. FramesSoFar' /\ OperationFrames' /\ StaleSoFar' /\ LastWords'
  BY DEF IInv, FramesSoFar, OperationFrames, StaleSoFar, LastWords
<1>3. WithinLimit'
  BY DEF IInv, WithinLimit, Tracked
<1>. QED BY <1>1, <1>2, <1>3 DEF IInv

LEMMA EnvironmentInv ==
  ASSUME IInv, Peer \/ Pinger
  PROVE  IInv'
<1> USE DEF readVars, wireVars
<1>1. UNCHANGED <<acked, reader, readVars, mapVars, opVars, outVars>>
  BY DEF Peer, Pinger, PingTick, PingSend, PingStop
<1>2. TypeOK'
  <2>1. CASE Peer
    BY <2>1 DEF IInv, TypeOK, Peer, mapVars, opVars, outVars
  <2>2. CASE Pinger
    BY <2>2, ZenonT(60) DEF IInv, TypeOK, Pinger, PingTick, PingSend, PingStop, Written, Refused,
                mapVars, opVars, outVars
  <2>. QED BY <2>1, <2>2
<1>3. AckPending' /\ (doomed # {} => reader' \in {"cancel", "cancelall"})
  BY <1>1 DEF IInv, AckPending, Handover
<1>. QED BY <1>1, <1>2, <1>3, QuietInv

\* Messages and errors that start and end no operation.
LEMMA ReadInv ==
  ASSUME IInv,
         \/ ReadIgnored \/ ReadFatal \/ ReadInit \/ ReadPong \/ ReadPing
         \/ ReadSubscribeRefused \/ ReadSubscribeError
  PROVE  IInv'
<1> USE DEF Read, readVars, wireVars, Refresh
<1>1. /\ UNCHANGED <<net, wireVars, acked, pinger, mapVars, opVars, outVars>>
      /\ reader = "read"
      /\ reads' = reads + 1
      /\ reader' \in {"read", "pong", "reply", "close", "closekeep", "onconnect"}
      /\ deadline' \in {deadline, "idle", "none"}
      /\ \/ inited' = inited
         \/ inited' = TRUE /\ reader' \in {"close", "onconnect"}
  <2>1. CASE ReadIgnored \/ ReadFatal \/ ReadPing \/ ReadSubscribeError
    BY <2>1 DEF ReadIgnored, ReadFatal, ReadPing, ReadSubscribeError
  <2>2. CASE ReadInit \/ ReadSubscribeRefused
    <3>1. CASE inited
      BY <2>2, <3>1 DEF ReadInit, ReadSubscribeRefused
    <3>2. CASE ~inited
      BY <2>2, <3>2 DEF ReadInit, ReadSubscribeRefused
    <3>. QED BY <3>1, <3>2
  <2>3. CASE ReadPong
    BY <2>3 DEF ReadPong
  <2>. QED BY <2>1, <2>2, <2>3
<1>2. TypeOK'
  <2>1. inited' \in BOOLEAN
    BY <1>1 DEF IInv, TypeOK
  <2>2. reader' \in ReaderPCs /\ reads' \in Nat /\ deadline' \in {"none", "init", "idle"}
    BY <1>1 DEF IInv, TypeOK, ReaderPCs
  <2>. QED BY <1>1, <2>1, <2>2 DEF IInv, TypeOK, mapVars, opVars, outVars
<1>3. AckPending'
  BY <1>1 DEF IInv, AckPending
<1>4. doomed = {}
  BY <1>1 DEF IInv, Handover
<1>. QED BY <1>1, <1>2, <1>3, <1>4, QuietInv

LEMMA ReaderInv ==
  ASSUME IInv,
         \/ ReadFails \/ ReadTimesOut \/ OnConnect \/ SendReply \/ SendPong
         \/ SendClose \/ MarkClosed
  PROVE  IInv'
<1> USE DEF readVars, wireVars, Refresh, Written, Refused, CloseFrame
<1>1. /\ UNCHANGED <<acked, mapVars, opVars, outVars, net, reads, pinger>>
      /\ inited' = inited
      /\ deadline' \in {deadline, "idle", "none"}
  BY DEF ReadFails, ReadTimesOut, OnConnect, SendReply, SendPong, SendClose, MarkClosed
<1>6. closed' \in BOOLEAN /\ closeSent' \in BOOLEAN /\ late' \in BOOLEAN
  BY DEF IInv, TypeOK, ReadFails, ReadTimesOut, OnConnect, SendReply, SendPong, SendClose,
         MarkClosed
<1>2. /\ reader \notin {"cancel", "cancelall"}
      /\ \/ reader = "read" /\ reader' = "return"
         \/ reader = "read" /\ reader' = "close"
         \/ reader = "onconnect" /\ reader' \in {"ack", "close"}
         \/ reader \in {"reply", "pong", "closekeep", "markkeep"}
            /\ reader' \in {"read", "return", "markkeep"}
         \/ reader = "close" /\ reader' = "mark"
         \/ reader = "mark" /\ reader' = "return"
  BY DEF ReadFails, ReadTimesOut, OnConnect, SendReply, SendPong, SendClose, MarkClosed
<1>3. TypeOK'
  BY <1>1, <1>2, <1>6 DEF IInv, TypeOK, ReaderPCs, mapVars, opVars, outVars
<1>4. AckPending'
  BY <1>1, <1>2 DEF IInv, AckPending
<1>5. doomed = {}
  BY <1>2 DEF IInv, Handover
<1>. QED BY <1>1, <1>3, <1>4, <1>5, QuietInv

\* The acknowledgement, or its failure.
LEMMA SendAckInv ==
  ASSUME IInv, SendAck
  PROVE  IInv'
<1> USE DEF readVars, wireVars, mapVars, opVars, outVars
<1>1. TypeOK'
  BY ZenonT(60) DEF IInv, TypeOK, SendAck, Written, Refused, Refresh, ReaderPCs
<1>2. doomed = {} /\ doomed' = {}
  BY DEF IInv, Handover, SendAck
<1>3. Numbering' /\ Handover' /\ Cancellable'
  BY <1>2 DEF IInv, Numbering, Handover, Cancellable, Live, Running, SendAck
<1>4. FramesSoFar' /\ OperationFrames' /\ StaleSoFar' /\ LastWords'
  BY DEF IInv, FramesSoFar, OperationFrames, StaleSoFar, LastWords, SendAck
<1>5. AckPending' /\ AckFirst'
  BY DEF IInv, AckPending, AckFirst, Started, SendAck
<1>6. WithinLimit'
  BY DEF IInv, WithinLimit, Tracked, SendAck
<1>. QED BY <1>1, <1>3, <1>4, <1>5, <1>6 DEF IInv

-----------------------------------------------------------------------------
\* A new operation: it is nobody's yet, has written nothing, and takes the place
\* the limit has left.
LEMMA SubscribeInv ==
  ASSUME IInv, NEW i \in Ids, ReadSubscribe(i)
  PROVE  IInv'
<1> DEFINE o == nops + 1
<1> USE DEF readVars, wireVars
<1>1. /\ o \in Ops /\ pc[o] = "none" /\ subs[i] = NoOp /\ nops \in Nat
      /\ \A j \in Ids : subs[j] # o
  <2>1. nops \in 0..MaxOps /\ nops < MaxOps
    BY DEF IInv, TypeOK, ReadSubscribe
  <2>2. o \in Ops
    BY <2>1, Constants DEF Ops
  <2>3. pc[o] = "none"
    BY <2>1, <2>2 DEF IInv, Numbering
  <2>. QED BY <2>1, <2>2, <2>3, Constants DEF IInv, Cancellable, Running, ReadSubscribe
<1>2. /\ nops' = o /\ id' = [id EXCEPT ![o] = i] /\ pc' = [pc EXCEPT ![o] = "kind"]
      /\ subs' = [subs EXCEPT ![i] = o]
      /\ UNCHANGED <<net, wireVars, acked, pinger, outVars, inited, doomed, ctxDone>>
      /\ inited /\ ~AtLimit /\ reader = "read" /\ reader' = "read" /\ reads' = reads + 1
      /\ deadline' \in {deadline, "idle", "none"}
  BY DEF ReadSubscribe, Read, Refresh
<1> HIDE DEF o
<1>3. TypeOK'
  <2>1. nops' \in 0..MaxOps
    BY <1>1, <1>2, Constants DEF Ops
  <2>2. /\ id' \in [Ops -> Ids \cup {NoOp}] /\ pc' \in [Ops -> WorkerPCs]
        /\ subs' \in [Ids -> Ops \cup {NoOp}]
    BY <1>1, <1>2 DEF IInv, TypeOK, WorkerPCs
  <2>. QED BY <1>2, <2>1, <2>2 DEF IInv, TypeOK, ReaderPCs, outVars
<1>4. doomed = {} /\ acked
  BY <1>2 DEF IInv, Handover, AckPending
<1>5. Numbering'
  <2> SUFFICES ASSUME NEW q \in Ops PROVE /\ pc'[q] = "none" <=> q > nops'
                                          /\ q <= nops' => id'[q] \in Ids
    BY DEF Numbering
  <2>1. q \in Nat /\ (pc[q] = "none" <=> q > nops) /\ (q <= nops => id[q] \in Ids)
    BY Constants DEF IInv, Numbering
  <2>2. CASE q = o
    BY <1>1, <1>2, <2>2 DEF IInv, TypeOK, o
  <2>3. CASE q # o
    BY <1>1, <1>2, <2>1, <2>3 DEF IInv, TypeOK, o
  <2>. QED BY <2>2, <2>3
<1>6. Handover' /\ AckPending' /\ AckFirst'
  BY <1>2, <1>4 DEF IInv, TypeOK, Handover, AckPending, AckFirst
<1>7. Cancellable'
  BY <1>1, <1>2, <1>4, Constants DEF IInv, TypeOK, Cancellable, Live, Running
<1>8. FramesSoFar' /\ OperationFrames' /\ StaleSoFar' /\ LastWords'
  BY <1>1, <1>2 DEF IInv, TypeOK, FramesSoFar, OperationFrames, StaleSoFar, LastWords, outVars
<1>9. WithinLimit'
  <2>1. (Tracked \cup doomed)' = Tracked \cup {o} /\ o \notin Tracked
    BY <1>1, <1>2, <1>4, Constants DEF IInv, TypeOK, Tracked
  <2>2. IsFiniteSet(Tracked) /\ Cardinality(Tracked) \in Nat
    BY TrackedOps, OpsFinite DEF IInv
  <2>3. Cardinality(Tracked \cup {o}) = Cardinality(Tracked) + 1
    BY <2>1, <2>2, FS_AddElement
  <2>. QED BY <1>2, <2>1, <2>2, <2>3, Constants, SMTT(30) DEF WithinLimit, AtLimit
<1>. QED BY <1>3, <1>5, <1>6, <1>7, <1>8, <1>9 DEF IInv

\* Steps that take operations off the map or cancel them, the reader's alone:
\* what is off the map is doomed or cancelled.
LEMMA CancelInv ==
  ASSUME IInv, TypeOK', AckPending', UNCHANGED <<acked, nops, id, pc, outVars>>,
         doomed' # {} => reader' \in {"cancel", "cancelall"},
         (Tracked \cup doomed)' \subseteq Tracked \cup doomed,
         \A i \in Ids : subs'[i] \in {subs[i], NoOp},
         \A o \in Ops : /\ ctxDone[o] => ctxDone'[o]
                        /\ ~ctxDone'[o] /\ (o \in doomed \/ (id[o] \in Ids /\ subs[id[o]] = o)) =>
                             o \in doomed' \/ subs'[id[o]] = o
  PROVE  IInv'
<1>1. Numbering' /\ AckFirst' /\ FramesSoFar' /\ OperationFrames' /\ LastWords'
  BY DEF IInv, Numbering, AckFirst, Started, FramesSoFar, OperationFrames, LastWords, outVars
<1>2. Handover' /\ StaleSoFar'
  BY DEF IInv, Handover, StaleSoFar, outVars
<1>3. Cancellable'
  <2>1. \A o \in Ops : Running(o) => id[o] \in Ids
    BY Constants DEF IInv, TypeOK, Numbering, Running
  <2>2. ASSUME NEW o \in Ops, Live(o)' PROVE subs'[id'[o]] = o \/ o \in doomed'
    <3>1. ~ctxDone'[o] /\ ~ctxDone[o] /\ Running(o) /\ id'[o] = id[o]
      BY <2>2 DEF Live, Running
    <3>2. o \in doomed \/ (id[o] \in Ids /\ subs[id[o]] = o)
      BY <2>1, <3>1 DEF IInv, Cancellable, Live
    <3>3. o \in doomed' \/ subs'[id[o]] = o
      BY <3>1, <3>2
    <3>. QED BY <3>1, <3>3
  <2>3. ASSUME NEW i \in Ids, subs'[i] # NoOp PROVE id'[subs'[i]] = i /\ Running(subs[i])'
    <3>1. subs'[i] = subs[i] /\ id' = id /\ pc' = pc
      BY <2>3
    <3>. QED BY <2>3, <3>1 DEF IInv, Cancellable, Running
  <2>. QED BY <2>2, <2>3 DEF Cancellable, Running
<1>4. WithinLimit'
  BY LimitKept
<1>. QED BY <1>1, <1>2, <1>3, <1>4 DEF IInv

LEMMA CompleteInv ==
  ASSUME IInv, NEW i \in Ids, ReadComplete(i)
  PROVE  IInv'
<1> USE DEF readVars, wireVars
<1>1. /\ reader = "read" /\ reads' = reads + 1 /\ deadline' \in {deadline, "idle", "none"}
      /\ reader' = IF subs[i] = NoOp THEN "read" ELSE "cancel"
      /\ doomed' = {subs[i]} \ {NoOp} /\ subs' = [subs EXCEPT ![i] = NoOp]
      /\ UNCHANGED <<net, wireVars, acked, pinger, outVars, inited, opVars>>
  BY DEF ReadComplete, Read, Refresh
<1>2. doomed = {}
  BY <1>1 DEF IInv, Handover
<1>3. TypeOK'
  BY <1>1 DEF IInv, TypeOK, ReaderPCs, outVars, opVars
<1>4. AckPending' /\ (doomed' # {} => reader' \in {"cancel", "cancelall"})
  BY <1>1 DEF IInv, AckPending
<1>6. \A j \in Ids : subs'[j] \in {subs[j], NoOp}
  BY <1>1 DEF IInv, TypeOK
<1>5. (Tracked \cup doomed)' \subseteq Tracked \cup doomed
  BY <1>1, <1>2, <1>6, Constants DEF IInv, TypeOK, Tracked
<1>7. \A o \in Ops : o \in doomed \/ (id[o] \in Ids /\ subs[id[o]] = o) =>
        o \in doomed' \/ subs'[id[o]] = o
  BY <1>1, <1>2, Constants DEF IInv, TypeOK
<1>. QED BY <1>1, <1>3, <1>4, <1>5, <1>6, <1>7, CancelInv DEF opVars

LEMMA ReaderCancelInv ==
  ASSUME IInv, CancelCompleted \/ UnmapAll \/ CancelNext \/ Unwind
  PROVE  IInv'
<1> USE DEF readVars, wireVars
<1>1. CASE CancelCompleted
  <2>1. TypeOK'
    BY <1>1 DEF IInv, TypeOK, CancelCompleted, Refresh, ReaderPCs, outVars
  <2>2. AckPending' /\ doomed' = {} /\ subs' = subs
    BY <1>1 DEF IInv, AckPending, CancelCompleted
  <2>3. (Tracked \cup doomed)' \subseteq Tracked \cup doomed
    BY <1>1 DEF CancelCompleted, Tracked
  <2>4. \A o \in Ops : ctxDone'[o] <=> ctxDone[o] \/ o \in doomed
    BY <1>1 DEF CancelCompleted
  <2>. QED BY <1>1, <2>1, <2>2, <2>3, <2>4, CancelInv DEF CancelCompleted
<1>2. CASE UnmapAll
  <2>1. TypeOK'
    BY <1>2, TrackedOps DEF IInv, TypeOK, UnmapAll, ReaderPCs, opVars, outVars
  <2>2. AckPending' /\ reader' = "cancelall" /\ doomed = {} /\ doomed' = Tracked
    BY <1>2 DEF IInv, AckPending, Handover, UnmapAll
  <2>3. \A j \in Ids : subs'[j] = NoOp
    BY <1>2 DEF UnmapAll
  <2>4. (Tracked \cup doomed)' \subseteq Tracked \cup doomed
    BY <2>2, <2>3, Constants DEF Tracked
  <2>5. \A o \in Ops : (id[o] \in Ids /\ subs[id[o]] = o) => o \in doomed'
    BY <2>2 DEF Tracked
  <2>. QED BY <1>2, <2>1, <2>2, <2>3, <2>4, <2>5, CancelInv DEF UnmapAll, opVars
<1>3. CASE CancelNext
  <2>1. PICK d \in doomed : doomed' = doomed \ {d} /\ ctxDone' = [ctxDone EXCEPT ![d] = TRUE]
    BY <1>3 DEF CancelNext
  <2>2. TypeOK'
    BY <1>3, <2>1 DEF IInv, TypeOK, CancelNext, ReaderPCs, outVars
  <2>3. AckPending' /\ reader' = "cancelall" /\ subs' = subs
    BY <1>3 DEF IInv, AckPending, CancelNext
  <2>4. (Tracked \cup doomed)' \subseteq Tracked \cup doomed
    BY <2>1, <2>3 DEF Tracked
  <2>5. \A o \in Ops : /\ ctxDone[o] => ctxDone'[o]
                       /\ ~ctxDone'[o] /\ o \in doomed => o \in doomed'
    BY <2>1 DEF IInv, TypeOK
  <2>. QED BY <1>3, <2>2, <2>3, <2>4, <2>5, CancelInv DEF CancelNext
<1>4. CASE Unwind
  <2>1. TypeOK'
    BY <1>4 DEF IInv, TypeOK, Unwind, ReaderPCs, mapVars, opVars, outVars
  <2>2. AckPending' /\ doomed = {}
    BY <1>4 DEF IInv, AckPending, Unwind
  <2>. QED BY <1>4, <2>1, <2>2, QuietInv DEF Unwind
<1>. QED BY <1>1, <1>2, <1>3, <1>4

-----------------------------------------------------------------------------
\* What the invariant says of one operation's messages.
Output(o) ==
  /\ pc[o] \in {"none", "kind", "execute", "subscribe", "senderror", "sendnext"} => out[o] = <<>>
  /\ pc[o] \in {"stream", "sendevent", "sendcomplete"} => \A k \in DOMAIN out[o] : out[o][k] = "next"
  /\ \A k \in DOMAIN out[o] : /\ out[o][k] # "next" => k = Len(out[o])
                              /\ out[o][k] = "error" => k = 1
  /\ ~ctxDone[o] => stale[o] = 0
  /\ pc[o] \in {"none", "kind", "execute", "subscribe", "senderror", "sendnext", "sendevent"} =>
       stale[o] = 0
  /\ pc[o] = "stream" => stale[o] <= 1
  /\ pc[o] = "sendcomplete" => stale[o] = 0 \/ (stale[o] = 1 /\ out[o] = <<"next">>)
  /\ stale[o] <= 2
  /\ stale[o] = 2 => out[o] = <<"next", "complete">>

LEMMA OutputAll ==
  /\ FramesSoFar /\ OperationFrames /\ StaleSoFar /\ LastWords <=> \A o \in Ops : Output(o)
  /\ FramesSoFar' /\ OperationFrames' /\ StaleSoFar' /\ LastWords' <=> \A o \in Ops : Output(o)'
BY DEF FramesSoFar, OperationFrames, StaleSoFar, LastWords, Output

\* A step of a worker that keeps running leaves the reader's tables alone; what
\* has to be shown of it is what it writes.
LEMMA WorkerStep ==
  ASSUME IInv, TypeOK', NEW o \in Ops, NEW to, Running(o),
         UNCHANGED <<acked, reader, inited, mapVars, nops, id>>,
         pc' = [pc EXCEPT ![o] = to], to \notin {"none", "done"},
         to = "remove" => ctxDone'[o],
         ctxDone' = ctxDone \/ ctxDone' = [ctxDone EXCEPT ![o] = TRUE],
         pc[o] = "remove" => to = "remove",
         \A q \in Ops \ {o} : out'[q] = out[q] /\ stale'[q] = stale[q],
         Output(o)'
  PROVE  IInv'
<1> USE DEF mapVars
<1>1. \A q \in Ops \ {o} : pc'[q] = pc[q] /\ ctxDone'[q] = ctxDone[q]
  BY DEF IInv, TypeOK
<1>2. pc'[o] = to /\ (ctxDone[o] => ctxDone'[o])
  BY DEF IInv, TypeOK
<1>3. Numbering' /\ AckPending' /\ AckFirst'
  BY <1>1, <1>2 DEF IInv, Numbering, AckPending, AckFirst, Started, Running
<1>4. Handover'
  BY <1>1, <1>2 DEF IInv, Handover
<1>5. Cancellable'
  <2>1. \A q \in Ops : Running(q)' <=> Running(q)
    BY <1>1, <1>2 DEF Running
  <2>2. \A q \in Ops : Live(q)' => Live(q)
    BY <1>1, <1>2, <2>1 DEF Live
  <2>3. ASSUME NEW q \in Ops, Live(q)' PROVE subs'[id'[q]] = q \/ q \in doomed'
    BY <2>2, <2>3 DEF IInv, Cancellable
  <2>4. ASSUME NEW i \in Ids, subs'[i] # NoOp PROVE id'[subs'[i]] = i /\ Running(subs[i])'
    <3>1. subs[i] \in Ops /\ subs' = subs /\ id[subs[i]] = i /\ Running(subs[i])
      BY <2>4 DEF IInv, TypeOK, Cancellable
    <3>. QED BY <2>1, <3>1 DEF Running
  <2>. QED BY <2>3, <2>4 DEF Cancellable, Running
<1>6. \A q \in Ops : Output(q)'
  <2> SUFFICES ASSUME NEW q \in Ops \ {o} PROVE Output(q)'
    OBVIOUS
  <2>1. Output(q)
    BY OutputAll DEF IInv
  <2>. QED BY <1>1, <2>1 DEF Output
<1>7. WithinLimit'
  BY DEF IInv, WithinLimit, Tracked
<1>. QED BY <1>3, <1>4, <1>5, <1>6, <1>7, OutputAll DEF IInv

LEMMA MoveInv ==
  ASSUME IInv, NEW o \in Ops,
         Cancelled(o) \/ Kind(o) \/ Execute(o) \/ Subscribe(o) \/ StreamEvent(o) \/ StreamEnds(o)
  PROVE  IInv'
<1> USE DEF Move
<1>1. PICK to \in {"end", "senderror", "subscribe", "execute", "sendnext", "stream",
                   "sendevent", "sendcomplete"} :
        /\ pc' = [pc EXCEPT ![o] = to]
        /\ \/ to = "end"
           \/ pc[o] = "kind" /\ to \in {"senderror", "subscribe", "execute"}
           \/ pc[o] = "execute" /\ to = "sendnext"
           \/ pc[o] = "subscribe" /\ to \in {"senderror", "stream"}
           \/ pc[o] = "stream" /\ ~ctxDone[o] /\ to \in {"sendevent", "sendcomplete"}
  BY DEF Cancelled, Kind, Execute, Subscribe, StreamEvent, StreamEnds
<1>2. /\ UNCHANGED <<net, wireVars, acked, reader, readVars, pinger, mapVars, nops, id,
                     ctxDone, outVars>>
      /\ pc[o] \in {"kind", "execute", "subscribe", "stream"}
  BY DEF Cancelled, Kind, Execute, Subscribe, StreamEvent, StreamEnds
<1>3. TypeOK'
  <2>1. pc' \in [Ops -> WorkerPCs]
    BY <1>1 DEF IInv, TypeOK, WorkerPCs
  <2>. QED BY <1>2, <2>1 DEF IInv, TypeOK, wireVars, readVars, mapVars, outVars
<1>4. Output(o)'
  <2>1. Output(o)
    BY OutputAll DEF IInv
  <2>2. pc'[o] = to
    BY <1>1 DEF IInv, TypeOK
  <2>3. out[o] = <<>> => \A k \in DOMAIN out[o] : out[o][k] = "next"
    OBVIOUS
  <2>4. UNCHANGED <<out, stale, ctxDone>>
    BY <1>2 DEF outVars
  <2>. QED BY <1>1, <1>2, <2>1, <2>2, <2>3, <2>4 DEF Output
<1>. QED
  BY <1>1, <1>2, <1>3, <1>4, WorkerStep DEF Running, readVars, outVars

\* A message is appended: those before it stay where they were.
LEMMA Appended ==
  ASSUME NEW s \in Seq(Frames), NEW f \in Frames
  PROVE  /\ Append(s, f) \in Seq(Frames)
         /\ Len(Append(s, f)) = Len(s) + 1
         /\ DOMAIN Append(s, f) = 1..(Len(s) + 1)
         /\ DOMAIN s = 1..Len(s) /\ Len(s) \in Nat
         /\ Append(s, f)[Len(s) + 1] = f
         /\ \A k \in 1..Len(s) : Append(s, f)[k] = s[k]
         /\ s = <<>> => Append(s, f) = <<f>>
         /\ s = <<"next">> => Append(s, f) = <<"next", f>>
<1>1. Append(s, f) \in Seq(Frames) /\ Len(Append(s, f)) = Len(s) + 1 /\ Len(s) \in Nat
  OBVIOUS
<1>2. DOMAIN Append(s, f) = 1..(Len(s) + 1) /\ DOMAIN s = 1..Len(s)
  OBVIOUS
<1>3. Append(s, f)[Len(s) + 1] = f /\ \A k \in 1..Len(s) : Append(s, f)[k] = s[k]
  OBVIOUS
<1>4. s = <<>> => Append(s, f) = <<f>>
  OBVIOUS
<1>5. s = <<"next">> => Append(s, f) = <<"next", f>>
  <2> DEFINE t == Append(<<"next">>, f)
             u == <<"next", f>>
  <2>1. <<"next">> \in Seq(Frames) /\ Len(<<"next">>) = 1 /\ <<"next">>[1] = "next"
    BY DEF Frames
  <2>2. t \in Seq(Frames) /\ Len(t) = 2 /\ t[1] = "next" /\ t[2] = f
    BY <2>1
  <2>3. u \in Seq(Frames) /\ Len(u) = 2 /\ u[1] = "next" /\ u[2] = f
    BY DEF Frames
  <2> HIDE DEF t, u
  <2>4. \A k \in 1..2 : t[k] = u[k]
    BY <2>2, <2>3
  <2>5. t = u
    BY <2>2, <2>3, <2>4, SeqEqual
  <2>. QED BY <2>5 DEF t, u
<1>. QED BY <1>1, <1>2, <1>3, <1>4, <1>5

LEMMA SendInv ==
  ASSUME IInv, NEW o \in Ops,
         SendError(o) \/ SendNext(o) \/ SendEvent(o) \/ SendComplete(o)
  PROVE  IInv'
<1>1. PICK from \in {"senderror", "sendnext", "sendevent", "sendcomplete"},
           frame \in Frames, to \in {"end", "sendcomplete", "stream"} :
        /\ \/ Frame(o, from, frame, to)
           \/ from # "sendevent" /\ NoFrame(o, from, to)
           \/ from = "sendevent" /\ NoFrame(o, from, "end")
        /\ \/ from = "senderror" /\ frame = "error" /\ to = "end"
           \/ from = "sendnext" /\ frame = "next" /\ to = "sendcomplete"
           \/ from = "sendevent" /\ frame = "next" /\ to = "stream"
           \/ from = "sendcomplete" /\ frame = "complete" /\ to = "end"
  BY DEF SendError, SendNext, SendEvent, SendComplete, Frames
<1>2. pc[o] = from
  BY <1>1 DEF Frame, NoFrame
<1>3. Output(o) /\ out[o] \in Seq(Frames) /\ stale[o] \in Nat
  BY OutputAll DEF IInv, TypeOK
<1>4. CASE Frame(o, from, frame, to)
  <2>1. /\ pc' = [pc EXCEPT ![o] = to] /\ out' = [out EXCEPT ![o] = Append(@, frame)]
        /\ stale' = [stale EXCEPT ![o] = IF ctxDone[o] THEN @ + 1 ELSE @]
        /\ UNCHANGED <<net, acked, reader, readVars, pinger, mapVars, nops, id, ctxDone>>
    BY <1>4 DEF Frame
  <2>2. TypeOK'
    <3>1. pc' \in [Ops -> WorkerPCs]
      BY <2>1 DEF IInv, TypeOK, WorkerPCs
    <3>2. out' \in [Ops -> Seq(Frames)]
      BY <1>3, <2>1, Appended DEF IInv, TypeOK
    <3>3. stale' \in [Ops -> Nat]
      BY <1>3, <2>1 DEF IInv, TypeOK
    <3>4. closed' \in BOOLEAN /\ closeSent' \in BOOLEAN /\ late' \in BOOLEAN
      BY <1>4 DEF IInv, TypeOK, Frame, Written
    <3>. QED BY <2>1, <3>1, <3>2, <3>3, <3>4 DEF IInv, TypeOK, readVars, mapVars
  <2>3. /\ pc'[o] = to /\ out'[o] = Append(out[o], frame)
        /\ stale'[o] = IF ctxDone[o] THEN stale[o] + 1 ELSE stale[o]
    BY <2>1 DEF IInv, TypeOK
  <2>4. Output(o)'
    <3>1. CASE from = "senderror"
      BY <1>1, <1>2, <1>3, <2>1, <2>3, <3>1, Appended DEF Output
    <3>2. CASE from = "sendnext"
      BY <1>1, <1>2, <1>3, <2>1, <2>3, <3>2, Appended DEF Output
    <3>3. CASE from = "sendevent"
      BY <1>1, <1>2, <1>3, <2>1, <2>3, <3>3, Appended DEF Output
    <3>4. CASE from = "sendcomplete"
      <4>1. frame = "complete" /\ pc'[o] = "end" /\ ctxDone' = ctxDone
        BY <1>1, <2>1, <2>3, <3>4
      <4>2. \A k \in DOMAIN out'[o] : /\ out'[o][k] # "next" => k = Len(out'[o])
                                      /\ out'[o][k] = "error" => k = 1
        BY <1>2, <1>3, <2>3, <3>4, <4>1, Appended DEF Output
      <4>3. ~ctxDone[o] => stale[o] = 0 /\ stale'[o] = 0
        BY <1>2, <1>3, <2>3, <3>4 DEF Output
      <4>4. ctxDone[o] => \/ stale[o] = 0 /\ stale'[o] = 1
                          \/ stale'[o] = 2 /\ out[o] = <<"next">>
        BY <1>2, <1>3, <2>3, <3>4 DEF Output
      <4>5. stale'[o] <= 2 /\ (stale'[o] = 2 => out'[o] = <<"next", "complete">>)
        <5>1. out[o] = <<"next">> => Append(out[o], "complete") = <<"next", "complete">>
          BY <1>3, Appended DEF Frames
        <5>2. stale'[o] = 2 => out[o] = <<"next">>
          BY <4>3, <4>4
        <5>3. stale'[o] <= 2
          BY <4>3, <4>4
        <5>. QED BY <1>1, <2>3, <3>4, <5>1, <5>2, <5>3
      <4>. QED BY <4>1, <4>2, <4>3, <4>5 DEF Output
    <3>. QED BY <3>1, <3>2, <3>3, <3>4
  <2>. QED
    BY <1>1, <1>2, <2>1, <2>2, <2>4, WorkerStep DEF IInv, TypeOK, Running, readVars
<1>5. ASSUME NEW at \in {"end", "sendcomplete"}, NoFrame(o, from, at),
             at = "sendcomplete" => from = "sendnext"
      PROVE  IInv'
  <2>1. /\ pc' = [pc EXCEPT ![o] = at]
        /\ UNCHANGED <<net, acked, reader, readVars, pinger, mapVars, nops, id, ctxDone, outVars>>
    BY <1>5 DEF NoFrame
  <2>2. TypeOK'
    <3>1. pc' \in [Ops -> WorkerPCs]
      BY <1>5, <2>1 DEF IInv, TypeOK, WorkerPCs
    <3>2. closed' \in BOOLEAN /\ closeSent' \in BOOLEAN /\ late' \in BOOLEAN
      BY <1>5 DEF IInv, TypeOK, NoFrame, Refused, wireVars
    <3>. QED BY <2>1, <3>1, <3>2 DEF IInv, TypeOK, readVars, mapVars, outVars
  <2>3. Output(o)'
    BY <1>2, <1>3, <1>5, <2>1 DEF IInv, TypeOK, Output, outVars
  <2>. QED
    BY <1>1, <1>2, <1>5, <2>1, <2>2, <2>3, WorkerStep DEF Running, readVars, outVars
<1>6. Frame(o, from, frame, to) \/ NoFrame(o, from, "end")
      \/ (from = "sendnext" /\ NoFrame(o, from, "sendcomplete"))
  BY <1>1
<1>. QED BY <1>4, <1>5, <1>6

\* The deferred calls of the worker.
LEMMA FinishInv ==
  ASSUME IInv, NEW o \in Ops, CancelOwn(o) \/ RemoveSubscription(o)
  PROVE  IInv'
<1> USE DEF readVars, wireVars, mapVars, outVars
<1>1. CASE CancelOwn(o)
  <2>1. TypeOK'
    BY <1>1 DEF IInv, TypeOK, CancelOwn, WorkerPCs
  <2>2. Output(o)'
    <3>1. Output(o)
      BY OutputAll DEF IInv
    <3>. QED BY <1>1, <3>1 DEF IInv, TypeOK, Output, CancelOwn
  <2>3. ctxDone'[o]
    BY <1>1 DEF IInv, TypeOK, CancelOwn
  <2>4. /\ UNCHANGED <<acked, reader, inited, subs, doomed, nops, id, out, stale>>
        /\ pc[o] = "end" /\ pc' = [pc EXCEPT ![o] = "remove"]
        /\ ctxDone' = [ctxDone EXCEPT ![o] = TRUE]
    BY <1>1 DEF CancelOwn
  <2>5. Running(o)
    BY <2>4 DEF Running
  <2>6. ASSUME NEW to, to = "remove" PROVE IInv'
    <3>1. pc' = [pc EXCEPT ![o] = to] /\ to \notin {"none", "done"} /\ pc[o] # "remove"
      BY <2>4, <2>6
    <3>2. UNCHANGED <<acked, reader, inited, mapVars, nops, id>>
      BY <2>4
    <3>3. \A q \in Ops \ {o} : out'[q] = out[q] /\ stale'[q] = stale[q]
      BY <2>4
    <3> HIDE DEF readVars, wireVars, mapVars, outVars
    <3>. QED BY <2>1, <2>2, <2>3, <2>4, <2>5, <3>1, <3>2, <3>3, WorkerStep
  <2>. QED BY <2>6
<1>2. CASE RemoveSubscription(o)
  <2>1. /\ pc[o] = "remove" /\ pc' = [pc EXCEPT ![o] = "done"] /\ ctxDone[o]
        /\ \A i \in Ids : subs'[i] = IF i = id[o] /\ subs[i] = o THEN NoOp ELSE subs[i]
        /\ UNCHANGED <<acked, reader, inited, doomed, nops, id, ctxDone, out, stale>>
    BY <1>2 DEF IInv, Handover, RemoveSubscription
  <2>2. TypeOK'
    BY <1>2 DEF IInv, TypeOK, RemoveSubscription, WorkerPCs
  <2>3. \A q \in Ops \ {o} : pc'[q] = pc[q]
    BY <2>1 DEF IInv, TypeOK
  <2>4. pc'[o] = "done"
    BY <2>1 DEF IInv, TypeOK
  <2>5. Numbering' /\ AckPending' /\ AckFirst' /\ Handover'
    BY <2>1, <2>3, <2>4 DEF IInv, Numbering, AckPending, AckFirst, Started, Handover
  <2>6. \A q \in Ops : Output(q)'
    <3> SUFFICES ASSUME NEW q \in Ops PROVE Output(q)'
      OBVIOUS
    <3>1. Output(q)
      BY OutputAll DEF IInv
    <3>. QED BY <2>1, <2>3, <2>4, <3>1 DEF Output
  <2>7. Cancellable'
    <3>1. ASSUME NEW q \in Ops, Live(q)' PROVE subs'[id'[q]] = q \/ q \in doomed'
      <4>1. q # o /\ Live(q)
        BY <2>1, <2>3, <2>4, <3>1 DEF Live, Running
      <4>2. id[q] \in Ids
        BY <4>1, Constants DEF IInv, TypeOK, Numbering, Live, Running
      <4>. QED BY <2>1, <4>1, <4>2 DEF IInv, Cancellable
    <3>2. ASSUME NEW i \in Ids, subs'[i] # NoOp PROVE id'[subs'[i]] = i /\ Running(subs[i])'
      <4>1. subs'[i] = subs[i] /\ subs[i] \in Ops /\ ~(i = id[o] /\ subs[i] = o)
        BY <2>1, <3>2 DEF IInv, TypeOK
      <4>2. id[subs[i]] = i /\ Running(subs[i])
        BY <3>2, <4>1 DEF IInv, Cancellable
      <4>. QED BY <2>1, <2>3, <4>1, <4>2 DEF Running
    <3>. QED BY <3>1, <3>2 DEF Cancellable, Running
  <2>8. WithinLimit'
    <3>1. (Tracked \cup doomed)' \subseteq Tracked \cup doomed
      BY <2>1, Constants DEF Tracked
    <3>. QED BY <2>2, <3>1, LimitKept
  <2>. QED BY <2>2, <2>5, <2>6, <2>7, <2>8, OutputAll DEF IInv
<1>. QED BY <1>1, <1>2

-----------------------------------------------------------------------------
LEMMA NextInv == IInv /\ [Next]_vars => IInv'
<1> SUFFICES ASSUME IInv, [Next]_vars PROVE IInv'
  OBVIOUS
<1>1. CASE UNCHANGED vars
  <2>1. TypeOK' /\ AckPending'
    BY <1>1 DEF IInv, TypeOK, AckPending, vars, wireVars, readVars, mapVars, opVars, outVars
  <2>2. doomed # {} => reader' \in {"cancel", "cancelall"}
    BY <1>1 DEF IInv, Handover, vars
  <2>. QED BY <1>1, <2>1, <2>2, QuietInv DEF vars
<1>2. CASE Peer \/ Pinger
  BY <1>2, EnvironmentInv
<1>3. CASE Input
  BY <1>3, ReadInv, SubscribeInv, CompleteInv DEF Input
<1>4. CASE Reader
  BY <1>4, ReaderInv, SendAckInv, ReaderCancelInv DEF Reader
<1>5. CASE \E o \in Ops : Worker(o) \/ Executor(o)
  BY <1>5, MoveInv, SendInv, FinishInv DEF Worker, Executor
<1>. QED BY <1>1, <1>2, <1>3, <1>4, <1>5 DEF Next

\* The inductive invariant holds in every reachable state.
THEOREM Invariance == Spec => []IInv
BY InitInv, NextInv, PTL DEF Spec

\* Every operation that runs and is not cancelled can be, and no id is held by one
\* that has gone.
THEOREM EveryOperationCancellable == Spec => []Cancellable
<1>1. IInv => Cancellable
  BY DEF IInv
<1>. QED BY <1>1, Invariance, PTL

\* Messages of an operation are events and at most one ending; an error stands
\* alone.
THEOREM FramesInOrder == Spec => []OperationFrames
<1>1. IInv => OperationFrames
  BY DEF IInv
<1>. QED BY <1>1, Invariance, PTL

\* After its cancellation an operation writes only what it was about to write:
\* nothing or one message, or a query's result and its complete.
THEOREM LastWordsHold == Spec => []LastWords
<1>1. IInv => LastWords
  BY DEF IInv
<1>. QED BY <1>1, Invariance, PTL

\* Who wrote the close frame has still to set the flag, or has set it.
LEMMA SealedKept == Sealed /\ [Next]_vars => Sealed'
<1> SUFFICES ASSUME Sealed, [Next]_vars PROVE Sealed'
  OBVIOUS
<1> USE DEF Sealed, wireVars
<1>1. CASE UNCHANGED vars
  BY <1>1 DEF vars
<1>2. CASE Peer \/ Pinger
  BY <1>2 DEF Peer, Pinger, PingTick, PingSend, PingStop, Written, Refused
<1>3. CASE Input
  <2>1. reader = "read" /\ UNCHANGED wireVars
    BY <1>3 DEF Input, Read, ReadIgnored, ReadFatal, ReadInit, ReadPong, ReadPing,
                ReadSubscribeRefused, ReadSubscribeError, ReadSubscribe, ReadComplete
  <2>. QED BY <2>1
<1>4. CASE Reader
  <2>1. CASE SendClose
    BY <2>1 DEF SendClose, CloseFrame, Refused
  <2>2. CASE MarkClosed
    BY <2>2 DEF MarkClosed
  <2>3. CASE SendAck \/ SendReply \/ SendPong
    BY <2>3 DEF SendAck, SendReply, SendPong, Written, Refused
  <2>4. CASE Unwind
    BY <2>4 DEF Unwind
  <2>5. CASE \/ ReadFails \/ ReadTimesOut \/ OnConnect
             \/ CancelCompleted \/ UnmapAll \/ CancelNext
    BY <2>5 DEF ReadFails, ReadTimesOut, OnConnect, CancelCompleted, UnmapAll, CancelNext
  <2>. QED BY <1>4, <2>1, <2>2, <2>3, <2>4, <2>5 DEF Reader
<1>5. CASE \E o \in Ops : Worker(o) \/ Executor(o)
  <2> PICK o \in Ops : Worker(o) \/ Executor(o)
    BY <1>5
  <2>1. reader' = reader /\ closeSent' = closeSent
    BY DEF Worker, Executor, Move, Frame, NoFrame, Written, Refused, Cancelled, SendError, SendNext,
           SendEvent, SendComplete, CancelOwn, RemoveSubscription, Kind, Execute, Subscribe,
           StreamEvent, StreamEnds
  <2>2. closed => closed'
    BY DEF Worker, Executor, Move, Frame, NoFrame, Written, Refused, Cancelled, SendError, SendNext,
           SendEvent, SendComplete, CancelOwn, RemoveSubscription, Kind, Execute, Subscribe,
           StreamEvent, StreamEnds
  <2>. QED BY <2>1, <2>2
<1>. QED BY <1>1, <1>2, <1>3, <1>4, <1>5 DEF Next

THEOREM SealedAlways == Spec => []Sealed
<1>1. Init => Sealed
  BY DEF Init, Sealed
<1>. QED BY <1>1, SealedKept, PTL DEF Spec

\* No operation before the acknowledgement, and no writing once SendClose has
\* returned.
THEOREM WireOrderHolds == Spec => []WireOrder
<1>1. IInv => AckFirst
  BY DEF IInv
<1>2. AckFirst /\ Sealed => WireOrder
  BY DEF WireOrder
<1>. QED BY <1>1, <1>2, Invariance, SealedAlways, PTL

\* A data frame follows the close frame only if it is written between that frame
\* and the flag that SendClose sets next.
THEOREM LateOnlyUnmarkedHolds == Spec => LateOnlyUnmarked
<1>1. ASSUME TypeOK, Sealed, Next, late' # late PROVE reader \in {"mark", "markkeep"}
  <2>1. Written
    <3>1. CASE Peer \/ Pinger
      BY <1>1, <3>1 DEF Peer, Pinger, PingTick, PingSend, PingStop, Refused, wireVars
    <3>2. CASE Input
      BY <1>1, <3>2 DEF Input, Read, ReadIgnored, ReadFatal, ReadInit, ReadPong, ReadPing,
                ReadSubscribeRefused, ReadSubscribeError, ReadSubscribe, ReadComplete, wireVars
    <3>3. CASE Reader
      BY <1>1, <3>3 DEF Reader, ReadFails, ReadTimesOut, OnConnect, SendAck, SendReply, SendPong,
                SendClose, CloseFrame, MarkClosed, CancelCompleted, UnmapAll, CancelNext, Unwind,
                Refused, wireVars
    <3>4. CASE \E o \in Ops : Worker(o) \/ Executor(o)
      BY <1>1, <3>4 DEF Worker, Executor, Move, Frame, NoFrame, Refused, Cancelled, SendError,
           SendNext, SendEvent, SendComplete, CancelOwn, RemoveSubscription, Kind, Execute,
           Subscribe, StreamEvent, StreamEnds, wireVars
    <3>. QED BY <1>1, <3>1, <3>2, <3>3, <3>4 DEF Next
  <2>2. ~closed /\ late' = (late \/ closeSent)
    BY <2>1 DEF Written
  <2>3. closeSent
    <3>1. late \in BOOLEAN /\ closeSent \in BOOLEAN
      BY <1>1 DEF TypeOK
    <3>2. ASSUME closeSent = FALSE PROVE late' = late
      BY <2>2, <3>1, <3>2
    <3>. QED BY <1>1, <3>1, <3>2
  <2>. QED BY <1>1, <2>2, <2>3 DEF Sealed
<1>2. TypeOK /\ Sealed /\ [Next]_vars => [late' # late => reader \in {"mark", "markkeep"}]_vars
  BY <1>1 DEF vars
<1>3. IInv => TypeOK
  BY DEF IInv
<1>. QED BY <1>2, <1>3, Invariance, SealedAlways, PTL DEF Spec, LateOnlyUnmarked

\* The limit bounds the operations that run uncancelled: each is in the map or in
\* the reader's hands, and those are within the limit.
THEOREM LimitHolds == Spec => []ActiveBound
<1>1. IInv => ActiveBound
  <2> SUFFICES ASSUME IInv, MaxSubscriptions > 0
               PROVE  Cardinality({o \in Ops : Live(o)}) <= MaxSubscriptions
    BY DEF ActiveBound
  <2> DEFINE live == {o \in Ops : Live(o)}
             held == Tracked \cup doomed
  <2>1. live \subseteq held
    <3> SUFFICES ASSUME NEW o \in Ops, Live(o) PROVE o \in Tracked \cup doomed
      OBVIOUS
    <3>1. id[o] \in Ids
      BY Constants DEF IInv, TypeOK, Numbering, Live, Running
    <3>. QED BY <3>1 DEF IInv, Cancellable, Tracked
  <2>2. IsFiniteSet(held) /\ Cardinality(held) \in Nat
    BY TrackedOps, OpsFinite DEF IInv
  <2>3. Cardinality(live) <= Cardinality(held) /\ Cardinality(live) \in Nat
    BY <2>1, <2>2, FS_Subset, FS_CardinalityType
  <2>4. Cardinality(held) <= MaxSubscriptions
    BY DEF IInv, WithinLimit
  <2> HIDE DEF live, held
  <2>5. Cardinality(live) <= MaxSubscriptions
    BY <2>2, <2>3, <2>4, Constants
  <2>. QED BY <2>5 DEF live
<1>. QED BY <1>1, Invariance, PTL

=============================================================================
