---------------------------- MODULE WSTransport ----------------------------
(***************************************************************************)
(* The WebSocket transport around the sessions of WSSession: admission of  *)
(* connections (register, unregister), the deferred calls of Serve, and    *)
(* Shutdown, which closes every connection it finds and waits for the      *)
(* wait group.                                                             *)
(*                                                                         *)
(* Here a session is what Shutdown meets: it may end by itself, it ends    *)
(* when its connection is gone, and its goroutines write frames.  A write  *)
(* is two steps, because one that blocks on a peer that does not read      *)
(* keeps writeMu.                                                          *)
(***************************************************************************)
EXTENDS Integers, FiniteSets

CONSTANTS
  Conns,           \* connections the server may accept
  Stoppers,        \* goroutines that call Shutdown, once each
  MaxConnections,  \* Config.MaxConnections, 0 for no limit
  WriteTimeout,    \* Config.WriteTimeout > 0
  Session,         \* the goroutines of a session, as holder of writeMu
  Nobody           \* no holder of writeMu, no connection in hand

Writers == Stoppers \cup {Session}

ASSUME WSTransportAssumption ==
  /\ MaxConnections \in Nat
  /\ WriteTimeout \in BOOLEAN
  /\ IsFiniteSet(Conns)
  /\ Nobody \notin Writers \cup Conns
  /\ Session \notin Stoppers

VARIABLES
  active,     \* WebSocketTransport.active
  draining,   \* WebSocketTransport.draining
  wg,         \* counter of WebSocketTransport.wg
  serve,      \* serve[c]: program counter of Serve
  net,        \* net[c]: "up", "stalled" (the peer does not read) or "down"
  closed,     \* closed[c]: Conn.closed
  writer,     \* writer[c]: holder of Conn.writeMu
  stopper,    \* stopper[s]: program counter of Shutdown
  conns,      \* conns[s]: connections Shutdown has still to close
  cur,        \* cur[s]: the one it is closing
  ctxDone,    \* ctxDone[s]: the context of Shutdown is done
  met         \* history: met[s] is the snapshot Shutdown took

admission == <<active, draining, wg>>
wire == <<net, closed, writer>>
stopVars == <<stopper, conns, cur, ctxDone, met>>
vars == <<admission, serve, wire, stopVars>>

TypeOK ==
  /\ active \in SUBSET Conns
  /\ draining \in BOOLEAN
  /\ wg \in Nat
  /\ serve \in [Conns -> {"upgrade", "register", "sendclose", "mark", "run",
                          "unregister", "close", "done"}]
  /\ net \in [Conns -> {"up", "stalled", "down"}]
  /\ closed \in [Conns -> BOOLEAN]
  /\ writer \in [Conns -> Writers \cup {Nobody}]
  /\ stopper \in [Stoppers -> {"begin", "next", "sendclose", "mark", "close",
                               "wait", "nil", "ctxerr"}]
  /\ conns \in [Stoppers -> SUBSET Conns]
  /\ cur \in [Stoppers -> Conns \cup {Nobody}]
  /\ ctxDone \in [Stoppers -> BOOLEAN]
  /\ met \in [Stoppers -> SUBSET Conns]

Init ==
  /\ active = {}
  /\ draining = FALSE
  /\ wg = 0
  /\ serve = [c \in Conns |-> "upgrade"]
  /\ net = [c \in Conns |-> "up"]
  /\ closed = [c \in Conns |-> FALSE]
  /\ writer = [c \in Conns |-> Nobody]
  /\ stopper = [s \in Stoppers |-> "begin"]
  /\ conns = [s \in Stoppers |-> {}]
  /\ cur = [s \in Stoppers |-> Nobody]
  /\ ctxDone = [s \in Stoppers |-> FALSE]
  /\ met = [s \in Stoppers |-> {}]

-----------------------------------------------------------------------------
(* Conn: writes, by any goroutine                                          *)

\* writeFrame takes writeMu and finds the connection open.
Lock(w, c) ==
  /\ writer[c] = Nobody
  /\ ~closed[c]
  /\ writer' = [writer EXCEPT ![c] = w]
  /\ UNCHANGED <<net, closed>>

\* Mutant: no write deadline is set.
UnlockNoDeadline(w, c) ==
  /\ writer[c] = w
  /\ \/ net[c] = "up" /\ UNCHANGED closed
     \/ net[c] = "down" /\ closed' = [closed EXCEPT ![c] = TRUE]
  /\ writer' = [writer EXCEPT ![c] = Nobody]
  /\ UNCHANGED net

\* The write ends, well or, on a dead connection or past its deadline, badly.
Unlock(w, c) ==
  /\ writer[c] = w
  /\ \/ net[c] = "up" /\ UNCHANGED closed
     \/ /\ net[c] = "down" \/ (net[c] = "stalled" /\ WriteTimeout)
        /\ closed' = [closed EXCEPT ![c] = TRUE]
  /\ writer' = [writer EXCEPT ![c] = Nobody]
  /\ UNCHANGED net

\* writeFrame finds it closed.
FoundClosed(c) ==
  /\ writer[c] = Nobody
  /\ closed[c]
  /\ UNCHANGED wire

Mark(c) ==
  /\ closed' = [closed EXCEPT ![c] = TRUE]
  /\ UNCHANGED <<net, writer>>

\* Conn.Close takes no writeMu.
Close(c) ==
  /\ closed' = [closed EXCEPT ![c] = TRUE]
  /\ net' = [net EXCEPT ![c] = "down"]
  /\ UNCHANGED writer

Peer(c) ==
  /\ serve[c] # "upgrade"
  /\ \/ net[c] = "up" /\ \E n \in {"stalled", "down"} : net' = [net EXCEPT ![c] = n]
     \/ net[c] = "stalled" /\ \E n \in {"up", "down"} : net' = [net EXCEPT ![c] = n]
  /\ UNCHANGED <<admission, serve, closed, writer, stopVars>>

-----------------------------------------------------------------------------
(* Serve                                                                   *)

ServeGoto(c, at) == serve' = [serve EXCEPT ![c] = at]

Upgrade(c) ==
  /\ serve[c] = "upgrade"
  /\ ServeGoto(c, "register")
  /\ UNCHANGED <<admission, wire, stopVars>>

\* Mutant: draining is set by Shutdown and never looked at.
MayRegisterDraining ==
  MaxConnections > 0 => Cardinality(active) < MaxConnections

\* Mutant: the limit is one connection too generous.
MayRegisterOneMore ==
  /\ ~draining
  /\ MaxConnections > 0 => Cardinality(active) <= MaxConnections

MayRegister ==
  /\ ~draining
  /\ MaxConnections > 0 => Cardinality(active) < MaxConnections

\* A registered connection without the subprotocol is closed at once (1003).
Register(c) ==
  /\ serve[c] = "register"
  /\ MayRegister
  /\ active' = active \cup {c}
  /\ wg' = wg + 1
  /\ ServeGoto(c, "run") \/ ServeGoto(c, "sendclose")
  /\ UNCHANGED <<draining, wire, stopVars>>

\* One that is not is closed with 1013.
RegisterRefused(c) ==
  /\ serve[c] = "register"
  /\ ~MayRegister
  /\ ServeGoto(c, "sendclose")
  /\ UNCHANGED <<admission, wire, stopVars>>

\* SendClose by Serve itself, before there is a session: the first use of
\* writeMu, unless Shutdown got there first.
ServeSendClose(c) ==
  /\ serve[c] = "sendclose"
  /\ \/ Lock(Session, c) /\ UNCHANGED serve
     \/ Unlock(Session, c) /\ ServeGoto(c, "mark")
     \/ FoundClosed(c) /\ ServeGoto(c, "mark")
  /\ UNCHANGED <<admission, stopVars>>

ServeMark(c) ==
  /\ serve[c] = "mark"
  /\ Mark(c)
  /\ ServeGoto(c, IF c \in active THEN "unregister" ELSE "close")
  /\ UNCHANGED <<admission, stopVars>>

\* A frame of the session, from the reader or from an operation that has not
\* ended with it.
SessionWrites(c) ==
  /\ \/ serve[c] \in {"run", "unregister", "close"} /\ Lock(Session, c)
     \/ serve[c] \in {"run", "unregister", "close", "done"} /\ Unlock(Session, c)
  /\ UNCHANGED <<admission, serve, stopVars>>

\* The session closes its connection with a close frame of its own.
SessionMarks(c) ==
  /\ serve[c] = "run"
  /\ Mark(c)
  /\ UNCHANGED <<admission, serve, stopVars>>

\* dispatcher.run returns: it may at any time.
SessionEnds(c) ==
  /\ serve[c] = "run"
  /\ ServeGoto(c, "unregister")
  /\ UNCHANGED <<admission, wire, stopVars>>

Unregister(c) ==
  /\ serve[c] = "unregister"
  /\ active' = active \ {c}
  /\ wg' = IF c \in active THEN wg - 1 ELSE wg
  /\ ServeGoto(c, "close")
  /\ UNCHANGED <<draining, wire, stopVars>>

ServeClose(c) ==
  /\ serve[c] = "close"
  /\ Close(c)
  /\ ServeGoto(c, "done")
  /\ UNCHANGED <<admission, stopVars>>

-----------------------------------------------------------------------------
(* Shutdown                                                                *)

StopGoto(s, at) == stopper' = [stopper EXCEPT ![s] = at]

CancelContext(s) ==
  /\ ~ctxDone[s]
  /\ ctxDone' = [ctxDone EXCEPT ![s] = TRUE]
  /\ UNCHANGED <<admission, serve, wire, stopper, conns, cur, met>>

ShutdownBegin(s) ==
  /\ stopper[s] = "begin"
  /\ draining' = TRUE
  /\ conns' = [conns EXCEPT ![s] = active]
  /\ met' = [met EXCEPT ![s] = active]
  /\ StopGoto(s, "next")
  /\ UNCHANGED <<active, wg, serve, wire, cur, ctxDone>>

\* The range loop over conns, and its end.
ShutdownNext(s) ==
  /\ stopper[s] = "next"
  /\ \/ \E c \in conns[s] :
          /\ conns' = [conns EXCEPT ![s] = @ \ {c}]
          /\ cur' = [cur EXCEPT ![s] = c]
          /\ StopGoto(s, "sendclose")
     \/ /\ conns[s] = {}
        /\ StopGoto(s, "wait")
        /\ UNCHANGED <<conns, cur>>
  /\ UNCHANGED <<admission, serve, wire, ctxDone, met>>

\* SendClose: the frame, then markClosed; then Close.
ShutdownSendClose(s) ==
  /\ stopper[s] = "sendclose"
  /\ \/ Lock(s, cur[s]) /\ UNCHANGED stopper
     \/ Unlock(s, cur[s]) /\ StopGoto(s, "mark")
     \/ FoundClosed(cur[s]) /\ StopGoto(s, "mark")
  /\ UNCHANGED <<admission, serve, conns, cur, ctxDone, met>>

ShutdownMark(s) ==
  /\ stopper[s] = "mark"
  /\ Mark(cur[s])
  /\ StopGoto(s, "close")
  /\ UNCHANGED <<admission, serve, conns, cur, ctxDone, met>>

\* Mutant: the close frame is left to do its work on the peer.
ShutdownCloseSkipped(s) ==
  /\ stopper[s] = "close"
  /\ StopGoto(s, "next")
  /\ UNCHANGED <<admission, serve, wire, conns, cur, ctxDone, met>>

ShutdownClose(s) ==
  /\ stopper[s] = "close"
  /\ Close(cur[s])
  /\ cur' = [cur EXCEPT ![s] = Nobody]
  /\ StopGoto(s, "next")
  /\ UNCHANGED <<admission, serve, conns, ctxDone, met>>

\* wg.Wait, in a goroutine of its own, or the context, whichever select takes.
ShutdownReturn(s) ==
  /\ stopper[s] = "wait"
  /\ \/ wg = 0 /\ StopGoto(s, "nil")
     \/ ctxDone[s] /\ StopGoto(s, "ctxerr")
  /\ UNCHANGED <<admission, serve, wire, conns, cur, ctxDone, met>>

-----------------------------------------------------------------------------
(* The transport                                                           *)

\* What Serve and the session's writers do by themselves.
Serve(c) ==
  \/ Register(c) \/ RegisterRefused(c) \/ ServeSendClose(c) \/ ServeMark(c)
  \/ Unregister(c) \/ ServeClose(c)

Shutdown(s) ==
  \/ ShutdownBegin(s) \/ ShutdownNext(s) \/ ShutdownSendClose(s)
  \/ ShutdownMark(s) \/ ShutdownClose(s) \/ ShutdownReturn(s)

Next ==
  \/ \E c \in Conns :
       \/ Peer(c) \/ Upgrade(c) \/ Serve(c)
       \/ SessionWrites(c) \/ SessionMarks(c) \/ SessionEnds(c)
  \/ \E s \in Stoppers : CancelContext(s) \/ Shutdown(s)

Spec == Init /\ [][Next]_vars

\* Goroutines run; a write ends if the peer keeps reading, with whatever pauses;
\* and a session whose connection is gone ends (WSSession, DisconnectEndsAll).
\* A sync.Mutex is handed to whoever has waited for a millisecond, so Shutdown
\* gets writeMu if it keeps being released; its other steps stay enabled until
\* they are taken.
FairSpec ==
  /\ Spec
  /\ \A c \in Conns :
       /\ SF_vars(Serve(c))
       /\ SF_vars(Unlock(Session, c) /\ UNCHANGED <<admission, serve, stopVars>>)
       /\ WF_vars(SessionEnds(c) /\ net[c] = "down")
  /\ \A s \in Stoppers : SF_vars(Shutdown(s))

-----------------------------------------------------------------------------
(* Properties                                                              *)

Serving(c) == serve[c] \in {"run", "unregister"}
Began(s) == stopper[s] # "begin"
Returned(s) == stopper[s] \in {"nil", "ctxerr"}

\* The wait group counts the map, and the map holds every session, each from its
\* registration to unregister and no longer.
Counted ==
  /\ wg = Cardinality(active)
  /\ \A c \in Conns : Serving(c) => c \in active
  /\ \A c \in active : serve[c] \in {"run", "unregister", "sendclose", "mark"}

\* Where a call of Shutdown is with the connections it met.
Stopping ==
  \A s \in Stoppers :
    /\ Began(s) => draining
    /\ stopper[s] \in {"sendclose", "mark", "close"} => cur[s] \in Conns
    /\ stopper[s] \in {"begin", "wait", "nil", "ctxerr"} => conns[s] = {}
    /\ stopper[s] = "nil" => wg = 0
    /\ \A c \in met[s] \ conns[s] :
         \/ net[c] = "down"
         \/ stopper[s] \in {"sendclose", "mark", "close"} /\ c = cur[s]

\* The map respects the limit.
Bounded == MaxConnections > 0 => Cardinality(active) <= MaxConnections

\* The inductive invariant behind ConnectionLimit, NoAddDuringWait, DrainedOnNil.
IInv == TypeOK /\ Counted /\ Stopping /\ Bounded

\* MaxConnections bounds the sessions being served, whatever the order in which
\* connections come, end and are refused (websocket_transport.go:140).
ConnectionLimit ==
  MaxConnections > 0 => Cardinality({c \in Conns : Serving(c)}) <= MaxConnections

\* wg.Add never runs once some Shutdown may be in wg.Wait, which sync.WaitGroup
\* forbids when the counter is zero (websocket_transport.go:137, 147).
NoAddDuringWait ==
  [][wg' > wg => \A s \in Stoppers : ~Began(s)]_vars

\* Shutdown returns nil only when every connection it met is down and nothing is
\* served; and nothing is served afterwards.
DrainedOnNil ==
  \A s \in Stoppers : stopper[s] = "nil" =>
    /\ \A c \in met[s] : net[c] = "down"
    /\ \A c \in Conns : ~Serving(c)

\* With a write timeout Shutdown returns, although peers stall, sessions keep
\* writing and the context is never done.
ShutdownReturns == \A s \in Stoppers : Began(s) ~> Returned(s)

\* websocket_transport.go:160 of Shutdown: the call blocks until all connections
\* finish or ctx is cancelled.
ShutdownHeedsContext == \A s \in Stoppers : (Began(s) /\ ctxDone[s]) ~> Returned(s)

=============================================================================
