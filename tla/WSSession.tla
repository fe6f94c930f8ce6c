----------------------------- MODULE WSSession -----------------------------
(***************************************************************************)
(* One graphql-transport-ws session: the dispatcher of package websocket   *)
(* on one connection, and the write side of Conn that it shares with the   *)
(* operations it starts.                                                   *)
(*                                                                         *)
(* Three kinds of goroutine run here.  The reader is dispatcher.run: it    *)
(* reads a message, handles it to the end, and reads the next.  Every      *)
(* accepted subscribe message starts a worker, which executes a query or   *)
(* forwards a stream and then removes itself.  The pinger is serverPings.  *)
(* They meet in the subscriptions map (d.mu) and on the wire (writeMu and  *)
(* the closed flag).  The client sends anything at any time; the executor  *)
(* answers, fails, streams and ends as it likes.                           *)
(*                                                                         *)
(* A frame is written in one step: writeMu is held for it, and a write     *)
(* that blocks is a step that is not enabled.                              *)
(***************************************************************************)
EXTENDS Naturals, Sequences, FiniteSets

CONSTANTS
  Ids,               \* operation ids the client uses
  MaxOps,            \* bound: operations started
  MaxReads,          \* bound: messages read
  MaxEvents,         \* bound: events of one stream
  MaxSubscriptions,  \* Config.MaxSubscriptions, 0 for no limit
  InitTimeout,       \* Config.connectionInitTimeout() > 0
  IdleTimeout,       \* Config.ReadIdleTimeout > 0
  WriteTimeout,      \* Config.WriteTimeout > 0
  PingInterval,      \* Config.PingInterval > 0
  NoOp               \* no operation

Ops == 1..MaxOps

ASSUME WSSessionAssumption ==
  /\ {MaxOps, MaxReads, MaxEvents, MaxSubscriptions} \subseteq Nat
  /\ {InitTimeout, IdleTimeout, WriteTimeout, PingInterval} \subseteq BOOLEAN
  /\ NoOp \notin Ops \cup Ids

VARIABLES
  net,        \* the TCP connection: "up", "stalled" (peer not reading), "down"
  closed,     \* Conn.closed
  closeSent,  \* history: a close frame is on the wire
  late,       \* history: so is a later data frame
  acked,      \* history: connection_ack is on the wire
  reader,     \* program counter of run
  reads,      \* messages read so far
  inited,     \* dispatcher.connInited
  deadline,   \* read deadline of the connection: "none", "init" or "idle"
  doomed,     \* operations off the map whose cancel the reader has still to call
  pinger,     \* program counter of serverPings
  subs,       \* dispatcher.subscriptions: the operation of each id
  nops,       \* operations started so far
  id,         \* id[o]: the id o was started under
  pc,         \* pc[o]: program counter of o's worker
  ctxDone,    \* ctxDone[o]: subCtx is done
  out,        \* history: out[o] is what o wrote to the wire
  stale       \* history: stale[o] frames of o were written after ctxDone[o]

wireVars == <<closed, closeSent, late>>
readVars == <<reads, inited, deadline>>
mapVars == <<subs, doomed>>
opVars == <<nops, id, pc, ctxDone>>
outVars == <<out, stale>>
vars == <<net, wireVars, acked, reader, readVars, pinger, mapVars, opVars, outVars>>

ReaderPCs == {"read", "onconnect", "ack", "reply", "pong", "close", "mark",
              "closekeep", "markkeep", "cancel", "return", "cancelall", "done"}

\* After run has returned: the deferred calls of run and of Serve.
Returned == reader \in {"cancelall", "done"}

WorkerPCs == {"none", "kind", "execute", "subscribe", "stream", "senderror",
              "sendnext", "sendcomplete", "sendevent", "end", "remove", "done"}

Frames == {"next", "error", "complete"}

TypeOK ==
  /\ net \in {"up", "stalled", "down"}
  /\ closed \in BOOLEAN /\ closeSent \in BOOLEAN /\ late \in BOOLEAN
  /\ acked \in BOOLEAN /\ inited \in BOOLEAN
  /\ reader \in ReaderPCs
  /\ reads \in Nat
  /\ deadline \in {"none", "init", "idle"}
  /\ pinger \in {"wait", "send", "off"}
  /\ subs \in [Ids -> Ops \cup {NoOp}]
  /\ doomed \in SUBSET Ops
  /\ nops \in 0..MaxOps
  /\ id \in [Ops -> Ids \cup {NoOp}]
  /\ pc \in [Ops -> WorkerPCs]
  /\ ctxDone \in [Ops -> BOOLEAN]
  /\ out \in [Ops -> Seq(Frames)]
  /\ stale \in [Ops -> Nat]

\* run has set the first read deadline and started the pinger.
Init ==
  /\ net = "up"
  /\ closed = FALSE /\ closeSent = FALSE /\ late = FALSE
  /\ acked = FALSE
  /\ reader = "read"
  /\ reads = 0
  /\ inited = FALSE
  /\ deadline = IF InitTimeout THEN "init" ELSE "none"
  /\ doomed = {}
  /\ pinger = IF PingInterval THEN "wait" ELSE "off"
  /\ subs = [i \in Ids |-> NoOp]
  /\ nops = 0
  /\ id = [o \in Ops |-> NoOp]
  /\ pc = [o \in Ops |-> "none"]
  /\ ctxDone = [o \in Ops |-> FALSE]
  /\ out = [o \in Ops |-> <<>>]
  /\ stale = [o \in Ops |-> 0]

-----------------------------------------------------------------------------
(* Conn: the write side                                                    *)

\* writeFrame of a data frame succeeds.
Written ==
  /\ ~closed
  /\ net = "up"
  /\ late' = (late \/ closeSent)
  /\ UNCHANGED <<closed, closeSent>>

\* writeFrame fails: the flag is set, the connection is gone, or the write
\* deadline expires on a peer that does not read.  Either way it ends up set.
Refused ==
  /\ closed \/ net = "down" \/ (net = "stalled" /\ WriteTimeout)
  /\ closed' = TRUE
  /\ UNCHANGED <<closeSent, late>>

\* The first half of SendClose: writeFrame of the close frame, error ignored.
CloseFrame ==
  \/ /\ ~closed
     /\ net = "up"
     /\ closeSent' = TRUE
     /\ UNCHANGED <<closed, late>>
  \/ Refused

\* The peer stops reading, reads on, or is found to be gone.
Peer ==
  /\ \/ net = "up" /\ net' \in {"stalled", "down"}
     \/ net = "stalled" /\ net' \in {"up", "down"}
  /\ UNCHANGED <<wireVars, acked, reader, readVars, pinger, mapVars, opVars, outVars>>

-----------------------------------------------------------------------------
(* serverPings                                                             *)

PingTick ==
  /\ pinger = "wait"
  /\ pinger' = "send"
  /\ UNCHANGED <<net, wireVars, acked, reader, readVars, mapVars, opVars, outVars>>

PingSend ==
  /\ pinger = "send"
  /\ \/ Written /\ pinger' = "wait"
     \/ Refused /\ pinger' = "off"
  /\ UNCHANGED <<net, acked, reader, readVars, mapVars, opVars, outVars>>

\* run has closed the stop channel.
PingStop ==
  /\ pinger = "wait"
  /\ Returned
  /\ pinger' = "off"
  /\ UNCHANGED <<net, wireVars, acked, reader, readVars, mapVars, opVars, outVars>>

-----------------------------------------------------------------------------
(* dispatcher.run: the reader                                              *)

\* Mutant: any message replaces the initial deadline.
RefreshAlways ==
  deadline' = IF IdleTimeout THEN "idle" ELSE "none"

\* refreshReadDeadline
Refresh ==
  deadline' = IF ~inited THEN deadline
              ELSE IF IdleTimeout THEN "idle" ELSE "none"

\* The reader takes a message, perhaps one that was buffered before the peer
\* was gone, and goes on at the given point.
Read(at) ==
  /\ reader = "read"
  /\ reads < MaxReads
  /\ reads' = reads + 1
  /\ reader' = at
  /\ UNCHANGED <<net, wireVars, acked, pinger, outVars>>

\* A binary message is skipped, before any deadline moves.  A protocol-level
\* ping is answered inside ReadMessage.
ReadIgnored ==
  /\ Read("read") \/ Read("pong")
  /\ UNCHANGED <<inited, deadline, mapVars, opVars>>

\* A close frame or a framing error (inside ReadMessage), text that is no
\* message, an unknown type, a malformed control payload.
ReadFatal ==
  /\ Read("close")
  /\ UNCHANGED <<inited, deadline, mapVars, opVars>>

ReadInit ==
  /\ Read(IF inited THEN "close" ELSE "onconnect")
  /\ inited' = TRUE
  /\ UNCHANGED <<deadline, mapVars, opVars>>

\* An application-level pong, or ping, which is answered first.
ReadPong ==
  /\ Read("read")
  /\ Refresh
  /\ UNCHANGED <<inited, mapVars, opVars>>

ReadPing ==
  /\ Read("reply")
  /\ UNCHANGED <<inited, deadline, mapVars, opVars>>

ReadFails ==
  /\ reader = "read"
  /\ net = "down"
  /\ reader' = "return"
  /\ UNCHANGED <<net, wireVars, acked, readVars, pinger, mapVars, opVars, outVars>>

\* The read deadline expires: before initialisation, with a close frame (4408).
ReadTimesOut ==
  /\ reader = "read"
  /\ deadline # "none"
  /\ reader' = IF inited THEN "return" ELSE "close"
  /\ UNCHANGED <<net, wireVars, acked, readVars, pinger, mapVars, opVars, outVars>>

\* OnConnect lets the client in or rejects it (4403).
OnConnect ==
  /\ reader = "onconnect"
  /\ reader' \in {"ack", "close"}
  /\ UNCHANGED <<net, wireVars, acked, readVars, pinger, mapVars, opVars, outVars>>

\* Mutant: the session goes on without the acknowledgement.
SendAckIgnoringError ==
  /\ reader = "ack"
  /\ \/ Written /\ acked' = TRUE
     \/ Refused /\ UNCHANGED acked
  /\ Refresh
  /\ reader' = "read"
  /\ UNCHANGED <<net, reads, inited, pinger, mapVars, opVars, outVars>>

\* An error, of the write or of encoding OnConnect's payload, ends the session.
SendAck ==
  /\ reader = "ack"
  /\ \/ Written /\ acked' = TRUE /\ Refresh /\ reader' = "read"
     \/ /\ Refused \/ UNCHANGED wireVars
        /\ reader' = "return"
        /\ UNCHANGED <<acked, deadline>>
  /\ UNCHANGED <<net, reads, inited, pinger, mapVars, opVars, outVars>>

\* A message of the reader itself, its write error ignored.
SendReply ==
  /\ reader = "reply"
  /\ Written \/ Refused
  /\ Refresh
  /\ reader' = "read"
  /\ UNCHANGED <<net, acked, reads, inited, pinger, mapVars, opVars, outVars>>

\* The pong of ReadMessage: its write error ends the session.
SendPong ==
  /\ reader = "pong"
  /\ \/ Written /\ reader' = "read"
     \/ Refused /\ reader' = "return"
  /\ UNCHANGED <<net, acked, readVars, pinger, mapVars, opVars, outVars>>

\* SendClose, from a caller that returns or from one that reads on: the frame,
\* and then markClosed in a step of its own.
SendClose ==
  /\ reader \in {"close", "closekeep"}
  /\ CloseFrame
  /\ reader' = IF reader = "close" THEN "mark" ELSE "markkeep"
  /\ UNCHANGED <<net, acked, readVars, pinger, mapVars, opVars, outVars>>

MarkClosed ==
  /\ \/ reader = "mark" /\ reader' = "return" /\ UNCHANGED deadline
     \/ reader = "markkeep" /\ reader' = "read" /\ Refresh
  /\ closed' = TRUE
  /\ UNCHANGED <<net, closeSent, late, acked, reads, inited, pinger, mapVars, opVars, outVars>>

-----------------------------------------------------------------------------
(* subscribe, complete and cancelAll                                       *)

Tracked == {o \in Ops : \E i \in Ids : subs[i] = o}

\* Mutant: the limit is noticed one subscription late.
AtLimitLate == MaxSubscriptions > 0 /\ Cardinality(Tracked) > MaxSubscriptions

AtLimit == MaxSubscriptions > 0 /\ Cardinality(Tracked) >= MaxSubscriptions

\* Before initialisation: 4401.  No id, or no query in the payload: 4400; and a
\* known id: 4409; after either of which run reads on.
ReadSubscribeRefused ==
  /\ Read(IF inited THEN "closekeep" ELSE "close")
  /\ UNCHANGED <<inited, deadline, mapVars, opVars>>

\* A blank query or, for a new id, one subscription too many: an error message.
ReadSubscribeError ==
  /\ inited
  /\ Read("reply")
  /\ UNCHANGED <<inited, deadline, mapVars, opVars>>

\* startSubscription enters the operation and starts its worker.
ReadSubscribe(i) ==
  LET o == nops + 1 IN
  /\ inited
  /\ nops < MaxOps
  /\ subs[i] = NoOp
  /\ ~AtLimit
  /\ Read("read")
  /\ Refresh
  /\ nops' = o
  /\ id' = [id EXCEPT ![o] = i]
  /\ pc' = [pc EXCEPT ![o] = "kind"]
  /\ subs' = [subs EXCEPT ![i] = o]
  /\ UNCHANGED <<inited, doomed, ctxDone>>

\* cancelSubscription: off the map under the lock, cancelled after it.
ReadComplete(i) ==
  /\ IF subs[i] = NoOp THEN Read("read") /\ Refresh
                       ELSE Read("cancel") /\ UNCHANGED deadline
  /\ doomed' = {subs[i]} \ {NoOp}
  /\ subs' = [subs EXCEPT ![i] = NoOp]
  /\ UNCHANGED <<inited, opVars>>

CancelCompleted ==
  /\ reader = "cancel"
  /\ ctxDone' = [o \in Ops |-> ctxDone[o] \/ o \in doomed]
  /\ doomed' = {}
  /\ Refresh
  /\ reader' = "read"
  /\ UNCHANGED <<net, wireVars, acked, reads, inited, pinger, subs, nops, id, pc, outVars>>

\* Mutant: the map is dropped and nothing in it cancelled.
UnmapAllForgetful ==
  /\ reader = "return"
  /\ doomed' = {}
  /\ subs' = [i \in Ids |-> NoOp]
  /\ reader' = "cancelall"
  /\ UNCHANGED <<net, wireVars, acked, readVars, pinger, opVars, outVars>>

\* cancelAll swaps the map under the lock, then calls the cancels in turn.
UnmapAll ==
  /\ reader = "return"
  /\ doomed' = Tracked
  /\ subs' = [i \in Ids |-> NoOp]
  /\ reader' = "cancelall"
  /\ UNCHANGED <<net, wireVars, acked, readVars, pinger, opVars, outVars>>

CancelNext ==
  /\ reader = "cancelall"
  /\ \E o \in doomed :
       /\ doomed' = doomed \ {o}
       /\ ctxDone' = [ctxDone EXCEPT ![o] = TRUE]
  /\ UNCHANGED <<net, wireVars, acked, reader, readVars, pinger, subs, nops, id, pc, outVars>>

\* Serve closes the connection.
Unwind ==
  /\ reader = "cancelall"
  /\ doomed = {}
  /\ closed' = TRUE
  /\ net' = "down"
  /\ reader' = "done"
  /\ UNCHANGED <<closeSent, late, acked, readVars, pinger, mapVars, opVars, outVars>>

-----------------------------------------------------------------------------
(* The worker of one operation                                             *)

\* A step that touches only the worker's program counter.
Move(o, from, to) ==
  /\ pc[o] = from
  /\ pc' = [pc EXCEPT ![o] = to]
  /\ UNCHANGED <<net, wireVars, acked, reader, readVars, pinger, mapVars, nops, id, ctxDone, outVars>>

\* Mutant: the loop over the stream does not select on the context.
CancelledBeforeStream(o) ==
  /\ ctxDone[o]
  /\ \E from \in {"kind", "execute", "subscribe"} : Move(o, from, "end")

\* OperationKind, Execute or Subscribe has returned, or select has seen Done.
Cancelled(o) ==
  /\ ctxDone[o]
  /\ \E from \in {"kind", "execute", "subscribe", "stream"} : Move(o, from, "end")

\* OperationKind reports a bad document, a subscription, or anything else.
Kind(o) ==
  /\ ~ctxDone[o]
  /\ \E to \in {"senderror", "subscribe", "execute"} : Move(o, "kind", to)

Execute(o) ==
  /\ ~ctxDone[o]
  /\ Move(o, "execute", "sendnext")

\* Executor.Subscribe fails or returns a stream.
Subscribe(o) ==
  /\ ~ctxDone[o]
  /\ \E to \in {"senderror", "stream"} : Move(o, "subscribe", to)

\* Mutant: select prefers the stream, and the context is not looked at.
StreamEventUnchecked(o) ==
  /\ Len(out[o]) < MaxEvents
  /\ Move(o, "stream", "sendevent")

StreamEvent(o) ==
  /\ ~ctxDone[o]
  /\ Len(out[o]) < MaxEvents
  /\ Move(o, "stream", "sendevent")

StreamEnds(o) ==
  /\ ~ctxDone[o]
  /\ Move(o, "stream", "sendcomplete")

\* o writes a frame from one of its send points, and goes on.
Frame(o, from, frame, to) ==
  /\ pc[o] = from
  /\ pc' = [pc EXCEPT ![o] = to]
  /\ Written
  /\ out' = [out EXCEPT ![o] = Append(@, frame)]
  /\ stale' = [stale EXCEPT ![o] = IF ctxDone[o] THEN @ + 1 ELSE @]
  /\ UNCHANGED <<net, acked, reader, readVars, pinger, mapVars, nops, id, ctxDone>>

\* It does not: the write fails, or the result does not encode as JSON.
NoFrame(o, from, to) ==
  /\ pc[o] = from
  /\ pc' = [pc EXCEPT ![o] = to]
  /\ \/ Refused
     \/ from \in {"sendnext", "sendevent"} /\ UNCHANGED wireVars
  /\ UNCHANGED <<net, acked, reader, readVars, pinger, mapVars, nops, id, ctxDone, outVars>>

\* Mutant: an error message is followed by complete.
SendErrorThenComplete(o) ==
  \/ Frame(o, "senderror", "error", "sendcomplete")
  \/ NoFrame(o, "senderror", "sendcomplete")

SendError(o) ==
  Frame(o, "senderror", "error", "end") \/ NoFrame(o, "senderror", "end")

\* The result of a query: whatever became of it, complete follows.
SendNext(o) ==
  Frame(o, "sendnext", "next", "sendcomplete") \/ NoFrame(o, "sendnext", "sendcomplete")

SendEvent(o) ==
  Frame(o, "sendevent", "next", "stream") \/ NoFrame(o, "sendevent", "end")

SendComplete(o) ==
  Frame(o, "sendcomplete", "complete", "end") \/ NoFrame(o, "sendcomplete", "end")

\* The deferred calls: cancel, then removeSubscription.
CancelOwn(o) ==
  /\ pc[o] = "end"
  /\ pc' = [pc EXCEPT ![o] = "remove"]
  /\ ctxDone' = [ctxDone EXCEPT ![o] = TRUE]
  /\ UNCHANGED <<net, wireVars, acked, reader, readVars, pinger, mapVars, nops, id, outVars>>

\* Mutant: whoever holds the id is removed.
RemoveByID(o) ==
  /\ pc[o] = "remove"
  /\ pc' = [pc EXCEPT ![o] = "done"]
  /\ subs' = [subs EXCEPT ![id[o]] = NoOp]
  /\ UNCHANGED <<net, wireVars, acked, reader, readVars, pinger, doomed, nops, id, ctxDone, outVars>>

RemoveSubscription(o) ==
  /\ pc[o] = "remove"
  /\ pc' = [pc EXCEPT ![o] = "done"]
  /\ subs' = [i \in Ids |-> IF i = id[o] /\ subs[i] = o THEN NoOp ELSE subs[i]]
  /\ UNCHANGED <<net, wireVars, acked, reader, readVars, pinger, doomed, nops, id, ctxDone, outVars>>

-----------------------------------------------------------------------------
(* The session                                                             *)

Pinger == PingTick \/ PingSend \/ PingStop

Input ==
  \/ ReadIgnored \/ ReadFatal \/ ReadInit \/ ReadPong \/ ReadPing
  \/ ReadSubscribeRefused \/ ReadSubscribeError
  \/ \E i \in Ids : ReadSubscribe(i) \/ ReadComplete(i)

\* What the reader does once it has a message or an error.
Reader ==
  \/ ReadFails \/ ReadTimesOut \/ OnConnect \/ SendAck \/ SendReply \/ SendPong
  \/ SendClose \/ MarkClosed \/ CancelCompleted \/ UnmapAll \/ CancelNext \/ Unwind

\* What a worker does on its own, and what it waits for the executor to do.
Worker(o) ==
  \/ Cancelled(o) \/ SendError(o) \/ SendNext(o) \/ SendEvent(o) \/ SendComplete(o)
  \/ CancelOwn(o) \/ RemoveSubscription(o)

Executor(o) == Kind(o) \/ Execute(o) \/ Subscribe(o) \/ StreamEvent(o) \/ StreamEnds(o)

Next ==
  \/ Peer \/ Pinger \/ Input \/ Reader
  \/ \E o \in Ops : Worker(o) \/ Executor(o)

Spec == Init /\ [][Next]_vars

\* The reader and the workers do what they can do by themselves, which is every
\* step but taking a message and hearing from the executor; a context that is
\* done ends what the executor does for it.  Deadlines expire.
FairSpec ==
  /\ Spec
  /\ WF_vars(Reader)
  /\ WF_vars(Pinger)
  /\ \A o \in Ops : WF_vars(Worker(o)) /\ WF_vars(Kind(o))

-----------------------------------------------------------------------------
(* Properties                                                              *)

Started(o) == pc[o] # "none"
Running(o) == pc[o] \notin {"none", "done"}
Live(o) == Running(o) /\ ~ctxDone[o]

\* An operation that is running and not yet cancelled can be: it is in the map
\* under its own id, or in the hands of the reader.  And no id is held by an
\* operation that has gone.  The hazard is removeSubscription (dispatcher.go:343)
\* running after its id has been given to another operation.
Cancellable ==
  /\ \A o \in Ops : Live(o) => subs[id[o]] = o \/ o \in doomed
  /\ \A i \in Ids : subs[i] # NoOp => id[subs[i]] = i /\ Running(subs[i])

\* MaxSubscriptions bounds what runs and has not been cancelled, not just the
\* size of the map (dispatcher.go:242).
ActiveBound ==
  MaxSubscriptions > 0 => Cardinality({o \in Ops : Live(o)}) <= MaxSubscriptions

\* What an operation writes is events, then at most one message that ends it;
\* an error is the only message of its operation.
OperationFrames ==
  \A o \in Ops : \A k \in DOMAIN out[o] :
    /\ out[o][k] # "next" => k = Len(out[o])
    /\ out[o][k] = "error" => k = 1

\* A context check and the write it guards are two steps, so an operation can
\* write after its cancellation, but no more than the message it was about to
\* write; a query, its result and complete (dispatcher.go:277-281).
LastWords ==
  \A o \in Ops :
    /\ stale[o] <= 2
    /\ stale[o] = 2 => out[o] = <<"next", "complete">>

\* No operation starts on a connection whose acknowledgement was not written, and
\* once SendClose has returned the connection is closed for writing, though the
\* frame and the flag are two steps and either may fail (dispatcher.go:138,
\* conn.go:488).
AckFirst == (\E o \in Ops : Started(o)) => acked

Sealed == closeSent => closed \/ reader \in {"mark", "markkeep"}

WireOrder == AckFirst /\ Sealed

\* What follows a close frame on the wire was written while SendClose had the flag
\* still to set (conn.go:488-489).
LateOnlyUnmarked == [][late' # late => reader \in {"mark", "markkeep"}]_vars

\* Operations are numbered in the order they start, and started ones have an id.
Numbering ==
  \A o \in Ops :
    /\ pc[o] = "none" <=> o > nops
    /\ o <= nops => id[o] \in Ids

\* The reader holds operations off the map only on its way to cancel them, and a
\* worker on its way to the map has cancelled its own.
Handover ==
  /\ doomed # {} => reader \in {"cancel", "cancelall"}
  /\ \A o \in Ops : pc[o] \in {"remove", "done"} => ctxDone[o]

\* What has been written fits the point the worker is at.
FramesSoFar ==
  \A o \in Ops :
    /\ pc[o] \in {"none", "kind", "execute", "subscribe", "senderror", "sendnext"} => out[o] = <<>>
    /\ pc[o] \in {"stream", "sendevent", "sendcomplete"} => \A k \in DOMAIN out[o] : out[o][k] = "next"

\* Between connection_init and its acknowledgement the reader does nothing else.
AckPending ==
  inited /\ ~acked =>
    reader \in {"onconnect", "ack", "close", "mark", "return", "cancelall", "done"}

\* What has been written since the cancellation fits it too.
StaleSoFar ==
  \A o \in Ops :
    /\ ~ctxDone[o] => stale[o] = 0
    /\ pc[o] \in {"none", "kind", "execute", "subscribe", "senderror", "sendnext", "sendevent"} =>
         stale[o] = 0
    /\ pc[o] = "stream" => stale[o] <= 1
    /\ pc[o] = "sendcomplete" => stale[o] = 0 \/ (stale[o] = 1 /\ out[o] = <<"next">>)

\* The limit holds of the map together with what the reader is about to cancel.
WithinLimit ==
  MaxSubscriptions > 0 => Cardinality(Tracked \cup doomed) <= MaxSubscriptions

\* The inductive invariant: each conjunct needs others to be preserved.
IInv ==
  /\ TypeOK
  /\ Numbering
  /\ Handover
  /\ Cancellable
  /\ FramesSoFar
  /\ OperationFrames
  /\ StaleSoFar
  /\ LastWords
  /\ AckPending
  /\ AckFirst
  /\ WithinLimit

\* Before connection_init no message, answered or not, keeps the connection
\* open past the initial deadline (dispatcher.go:192-196).
InitDeadline == InitTimeout => (~inited ~> (inited \/ reader = "done"))

\* A cancelled operation's worker ends, whatever its stream does.
CancelledEnds == \A o \in Ops : (ctxDone[o] /\ Started(o)) ~> (pc[o] = "done")

\* When the peer is gone every goroutine of the session ends.
DisconnectEndsAll ==
  (net = "down") ~>
    (reader = "done" /\ pinger = "off" /\ \A o \in Ops : ~Running(o))

\* subscriptions.mdx:64: the server closing the connection because of a write
\* timeout or a protocol error cancels the context of an operation.
ServerCloseCancels ==
  \A o \in Ops : (closed /\ Running(o)) ~> ctxDone[o]

=============================================================================
