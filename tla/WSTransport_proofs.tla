------------------------- MODULE WSTransport_proofs -------------------------
(***************************************************************************)
(* For any number of connections and of overlapping calls of Shutdown, and *)
(* any limit: the limit holds, the wait group is never raised while some   *)
(* Shutdown may be waiting for it, and a Shutdown that returns nil leaves  *)
(* every connection it met down and none being served.                     *)
(***************************************************************************)
EXTENDS WSTransport, FiniteSetTheorems, TLAPS

\* The map is finite, so that adding and removing a connection counts.
LEMMA ActiveCount ==
  ASSUME TypeOK
  PROVE  /\ IsFiniteSet(active)
         /\ Cardinality(active) \in Nat
         /\ Cardinality(active) = 0 <=> active = {}
         /\ \A c \in Conns \ active : Cardinality(active \cup {c}) = Cardinality(active) + 1
         /\ \A c \in active : Cardinality(active \ {c}) = Cardinality(active) - 1
<1>1. IsFiniteSet(active)
  BY WSTransportAssumption, FS_Subset DEF TypeOK
<1>. QED
  BY <1>1, FS_CardinalityType, FS_EmptySet, FS_AddElement, FS_RemoveElement

LEMMA InitInv == Init => IInv
<1> SUFFICES ASSUME Init PROVE IInv
  OBVIOUS
<1>1. TypeOK
  BY WSTransportAssumption DEF Init, TypeOK, Writers
<1>2. Cardinality(active) = 0
  BY FS_EmptySet DEF Init
<1>3. Counted /\ Stopping /\ Bounded
  BY <1>2, WSTransportAssumption DEF Init, Counted, Stopping, Bounded, Serving, Began
<1>. QED BY <1>1, <1>3 DEF IInv

\* Registration: the one step that raises the count.
LEMMA RegisterInv ==
  ASSUME IInv, NEW c \in Conns, Register(c)
  PROVE  IInv'
<1> USE DEF IInv
<1>1. c \in Conns \ active
  BY DEF Counted, Register
<1>2. TypeOK'
  <2>1. serve' \in [Conns -> {"upgrade", "register", "sendclose", "mark", "run",
                              "unregister", "close", "done"}]
    BY DEF TypeOK, Register, ServeGoto
  <2>. QED BY <2>1 DEF TypeOK, Register, wire, stopVars
<1>3. Counted'
  <2>1. wg' = Cardinality(active')
    BY <1>1, ActiveCount DEF Counted, Register
  <2>2. serve'[c] \in {"run", "sendclose"} /\ \A b \in Conns \ {c} : serve'[b] = serve[b]
    BY DEF TypeOK, Register, ServeGoto
  <2>. QED BY <2>1, <2>2 DEF Counted, Serving, Register, TypeOK
<1>4. Stopping'
  BY DEF Stopping, Began, Register, MayRegister, wire, stopVars, TypeOK
<1>5. Bounded'
  BY <1>1, ActiveCount, WSTransportAssumption DEF Bounded, Register, MayRegister
<1>. QED BY <1>2, <1>3, <1>4, <1>5

LEMMA UnregisterInv ==
  ASSUME IInv, NEW c \in Conns, Unregister(c)
  PROVE  IInv'
<1> USE DEF IInv
<1>1. c \in active
  BY DEF Counted, Serving, Unregister
<1>2. Cardinality(active') = Cardinality(active) - 1 /\ wg' = wg - 1 /\ wg # 0
  BY <1>1, ActiveCount DEF Unregister, Counted
<1>3. TypeOK'
  BY <1>1, <1>2 DEF TypeOK, Unregister, ServeGoto, wire, stopVars
<1>4. Counted'
  BY <1>2 DEF TypeOK, Counted, Serving, Unregister, ServeGoto
<1>5. Stopping'
  BY <1>2 DEF Stopping, Began, Unregister, wire, stopVars
<1>6. Bounded'
  BY <1>2, ActiveCount, WSTransportAssumption DEF Bounded, Unregister
<1>. QED BY <1>3, <1>4, <1>5, <1>6

\* The other steps of a connection change the program counter of Serve and the
\* wire, and a connection that is down stays down.
LEMMA ConnectionInv ==
  ASSUME IInv, NEW c \in Conns,
         \/ Peer(c) \/ Upgrade(c) \/ RegisterRefused(c) \/ ServeSendClose(c) \/ ServeMark(c)
         \/ ServeClose(c) \/ SessionWrites(c) \/ SessionMarks(c) \/ SessionEnds(c)
  PROVE  IInv'
<1> USE DEF IInv
<1>1. UNCHANGED <<admission, stopVars>> /\ \A b \in Conns : net[b] = "down" => net'[b] = "down"
  BY DEF TypeOK, Peer, Upgrade, RegisterRefused, ServeSendClose, ServeMark, ServeClose,
         SessionWrites, SessionMarks, SessionEnds, Lock, Unlock, FoundClosed, Mark, Close, wire
<1>2. TypeOK'
  <2>1. serve' \in [Conns -> {"upgrade", "register", "sendclose", "mark", "run",
                              "unregister", "close", "done"}]
    BY DEF TypeOK, Peer, Upgrade, RegisterRefused, ServeSendClose, ServeMark, ServeClose,
           SessionWrites, SessionMarks, SessionEnds, ServeGoto
  <2>2. net' \in [Conns -> {"up", "stalled", "down"}]
    BY SMTT(30) DEF TypeOK, Peer, Upgrade, RegisterRefused, ServeSendClose, ServeMark, ServeClose,
       SessionWrites, SessionMarks, SessionEnds, Lock, Unlock, FoundClosed, Mark, Close, wire
  <2>3. closed' \in [Conns -> BOOLEAN]
    BY ZenonT(60) DEF TypeOK, Peer, Upgrade, RegisterRefused, ServeSendClose, ServeMark, ServeClose,
       SessionWrites, SessionMarks, SessionEnds, Lock, Unlock, FoundClosed, Mark, Close, wire
  <2>4. writer' \in [Conns -> Writers \cup {Nobody}]
    BY SMTT(30) DEF TypeOK, Peer, Upgrade, RegisterRefused, ServeSendClose, ServeMark, ServeClose,
       SessionWrites, SessionMarks, SessionEnds, Lock, Unlock, FoundClosed, Mark, Close, wire,
       Writers
  <2>. QED BY <1>1, <2>1, <2>2, <2>3, <2>4 DEF TypeOK, admission, stopVars
<1>3. Counted'
  <2>1. \/ serve' = serve
        \/ /\ c \notin active
           /\ \A b \in Conns \ {c} : serve'[b] = serve[b]
           /\ serve'[c] \notin {"run", "unregister"}
        \/ /\ c \in active
           /\ \A b \in Conns \ {c} : serve'[b] = serve[b]
           /\ serve'[c] \in {"mark", "unregister"}
    BY DEF TypeOK, Counted, Serving, Peer, Upgrade, RegisterRefused, ServeSendClose, ServeMark,
           ServeClose, SessionWrites, SessionMarks, SessionEnds, ServeGoto
  <2>. QED BY <1>1, <2>1 DEF Counted, Serving, admission, TypeOK
<1>4. Stopping'
  BY <1>1 DEF Stopping, Began, admission, stopVars, TypeOK
<1>5. Bounded'
  BY <1>1 DEF Bounded, admission
<1>. QED BY <1>2, <1>3, <1>4, <1>5

LEMMA ShutdownInv ==
  ASSUME IInv, NEW s \in Stoppers, Shutdown(s) \/ CancelContext(s)
  PROVE  IInv'
<1> USE DEF IInv
<1>1. CASE ShutdownBegin(s)
  <2>1. TypeOK'
    BY <1>1 DEF TypeOK, ShutdownBegin, StopGoto, wire
  <2>2. Counted' /\ Bounded'
    BY <1>1 DEF Counted, Bounded, Serving, ShutdownBegin
  <2>3. Stopping'
    BY <1>1 DEF TypeOK, Stopping, Began, ShutdownBegin, StopGoto, wire
  <2>. QED BY <2>1, <2>2, <2>3
<1>2. CASE ShutdownNext(s)
  <2>1. Counted' /\ Bounded'
    BY <1>2 DEF Counted, Bounded, Serving, ShutdownNext, admission
  <2>2. CASE \E c \in conns[s] : /\ conns' = [conns EXCEPT ![s] = @ \ {c}]
                                 /\ cur' = [cur EXCEPT ![s] = c]
                                 /\ StopGoto(s, "sendclose")
    <3>1. PICK c \in conns[s] : /\ conns' = [conns EXCEPT ![s] = @ \ {c}]
                                /\ cur' = [cur EXCEPT ![s] = c]
                                /\ StopGoto(s, "sendclose")
      BY <2>2
    <3>2. c \in Conns
      BY <3>1 DEF TypeOK
    <3>3. TypeOK'
      BY <1>2, <3>1, <3>2 DEF TypeOK, ShutdownNext, StopGoto, admission, wire
    <3>4. Stopping'
      BY <1>2, <3>1, <3>2 DEF TypeOK, Stopping, Began, ShutdownNext, StopGoto, admission, wire
    <3>. QED BY <2>1, <3>3, <3>4
  <2>3. CASE conns[s] = {} /\ StopGoto(s, "wait") /\ UNCHANGED <<conns, cur>>
    <3>1. TypeOK'
      BY <1>2, <2>3 DEF TypeOK, ShutdownNext, StopGoto, admission, wire
    <3>2. Stopping'
      BY <1>2, <2>3 DEF TypeOK, Stopping, Began, ShutdownNext, StopGoto, admission, wire
    <3>. QED BY <2>1, <3>1, <3>2
  <2>. QED BY <1>2, <2>2, <2>3 DEF ShutdownNext
<1>3. CASE ShutdownSendClose(s) \/ ShutdownMark(s) \/ ShutdownClose(s)
  <2>1. cur[s] \in Conns
    BY <1>3 DEF Stopping, ShutdownSendClose, ShutdownMark, ShutdownClose
  <2>2. Counted' /\ Bounded'
    BY <1>3 DEF Counted, Bounded, Serving, ShutdownSendClose, ShutdownMark, ShutdownClose,
                admission
  <2>3. TypeOK'
    <3>1. CASE ShutdownSendClose(s)
      BY <3>1, <2>1, ZenonT(60) DEF TypeOK, ShutdownSendClose, StopGoto, Lock, Unlock, FoundClosed,
                        admission, wire, Writers
    <3>2. CASE ShutdownMark(s)
      BY <3>2, <2>1 DEF TypeOK, ShutdownMark, StopGoto, Mark, admission
    <3>3. CASE ShutdownClose(s)
      BY <3>3, <2>1 DEF TypeOK, ShutdownClose, StopGoto, Close, admission
    <3>. QED BY <1>3, <3>1, <3>2, <3>3
  <2>4. Stopping'
    <3>1. CASE ShutdownSendClose(s)
      BY <3>1, <2>1 DEF TypeOK, Stopping, Began, ShutdownSendClose, StopGoto, Lock, Unlock,
                        FoundClosed, admission, wire
    <3>2. CASE ShutdownMark(s)
      BY <3>2, <2>1 DEF TypeOK, Stopping, Began, ShutdownMark, StopGoto, Mark, admission
    <3>3. CASE ShutdownClose(s)
      BY <3>3, <2>1 DEF TypeOK, Stopping, Began, ShutdownClose, StopGoto, Close, admission
    <3>. QED BY <1>3, <3>1, <3>2, <3>3
  <2>. QED BY <2>2, <2>3, <2>4
<1>4. CASE ShutdownReturn(s) \/ CancelContext(s)
  <2>1. TypeOK'
    BY <1>4 DEF TypeOK, ShutdownReturn, CancelContext, StopGoto, admission, wire
  <2>2. Counted' /\ Bounded'
    BY <1>4 DEF Counted, Bounded, Serving, ShutdownReturn, CancelContext, admission
  <2>3. Stopping'
    BY <1>4 DEF TypeOK, Stopping, Began, ShutdownReturn, CancelContext, StopGoto, admission, wire
  <2>. QED BY <2>1, <2>2, <2>3
<1>. QED BY <1>1, <1>2, <1>3, <1>4 DEF Shutdown

LEMMA NextInv == IInv /\ [Next]_vars => IInv'
<1> SUFFICES ASSUME IInv, [Next]_vars PROVE IInv'
  OBVIOUS
<1>1. CASE UNCHANGED vars
  BY <1>1 DEF IInv, TypeOK, Counted, Stopping, Bounded, Serving, Began, vars, admission, wire,
              stopVars
<1>2. CASE Next
  BY <1>2, RegisterInv, UnregisterInv, ConnectionInv, ShutdownInv DEF Next, Serve
<1>. QED BY <1>1, <1>2

\* The inductive invariant holds in every reachable state.
THEOREM Invariance == Spec => []IInv
BY InitInv, NextInv, PTL DEF Spec

\* MaxConnections bounds the sessions being served: they are in the map, and the
\* map respects the limit.
THEOREM LimitHolds == Spec => []ConnectionLimit
<1>1. IInv => ConnectionLimit
  <2> SUFFICES ASSUME IInv, MaxConnections > 0
               PROVE  Cardinality({c \in Conns : Serving(c)}) <= MaxConnections
    BY DEF ConnectionLimit
  <2> DEFINE served == {c \in Conns : Serving(c)}
  <2>1. served \subseteq active
    BY DEF IInv, Counted
  <2>2. IsFiniteSet(active) /\ Cardinality(active) \in Nat
    BY ActiveCount DEF IInv
  <2>3. IsFiniteSet(served) /\ Cardinality(served) <= Cardinality(active)
    BY <2>1, <2>2, FS_Subset
  <2>4. Cardinality(served) \in Nat
    BY <2>3, FS_CardinalityType
  <2>. QED BY <2>2, <2>3, <2>4, WSTransportAssumption DEF IInv, Bounded
<1>. QED BY <1>1, Invariance, PTL

\* A Shutdown that returns nil has closed what it met, and nothing is served then
\* or later: the count is zero, and stays zero while the transport drains.
THEOREM ShutdownDrains == Spec => []DrainedOnNil
<1>1. IInv => DrainedOnNil
  <2> SUFFICES ASSUME IInv, NEW s \in Stoppers, stopper[s] = "nil"
               PROVE  /\ \A c \in met[s] : net[c] = "down"
                      /\ \A c \in Conns : ~Serving(c)
    BY DEF DrainedOnNil
  <2>1. active = {}
    BY ActiveCount DEF IInv, Stopping, Counted
  <2>. QED BY <2>1 DEF IInv, Stopping, Counted
<1>. QED BY <1>1, Invariance, PTL

\* wg.Add is not called once a Shutdown has begun.
THEOREM WaitGroupUse == Spec => NoAddDuringWait
<1>1. IInv /\ [Next]_vars => [wg' > wg => \A s \in Stoppers : ~Began(s)]_vars
  <2> SUFFICES ASSUME IInv, Next, wg' > wg PROVE \A s \in Stoppers : ~Began(s)
    OBVIOUS
  <2>1. CASE \E c \in Conns : Register(c)
    BY <2>1 DEF IInv, Stopping, Register, MayRegister
  <2>2. CASE \E c \in Conns : Unregister(c)
    BY <2>2 DEF IInv, TypeOK, Unregister
  <2>3. CASE UNCHANGED wg
    BY <2>3 DEF IInv, TypeOK
  <2>. QED
    BY <2>1, <2>2, <2>3
    DEF Next, Serve, Shutdown, Peer, Upgrade, RegisterRefused, ServeSendClose, ServeMark,
        ServeClose, SessionWrites, SessionMarks, SessionEnds, CancelContext, ShutdownBegin,
        ShutdownNext, ShutdownSendClose, ShutdownMark, ShutdownClose, ShutdownReturn, admission
<1>. QED BY <1>1, Invariance, PTL DEF Spec, NoAddDuringWait

=============================================================================
