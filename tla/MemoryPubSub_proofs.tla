------------------------ MODULE MemoryPubSub_proofs ------------------------
(***************************************************************************)
(* For any number of publishers, subscribers, closers and topics and any   *)
(* buffer: the channels of pubsub/memory are never misused, and the        *)
(* implementation refines the contract of package pubsub.                  *)
(***************************************************************************)
EXTENDS MemoryPubSub, SequenceTheorems, TLAPS

LEMMA InitInv == Init => IInv
<1> SUFFICES ASSUME Init PROVE IInv
  OBVIOUS
<1>1. TypeOK
  <2>1. <<>> \in Seq(Message)
    OBVIOUS
  <2>. QED BY <2>1 DEF Init, TypeOK
<1>2. NoPanic /\ LockInv /\ MapInv /\ CloserInv
  BY MemoryPubSubAssumption
  DEF Init, NoPanic, LockInv, MapInv, CloserInv, Running, Writer
<1>. QED BY <1>1, <1>2 DEF IInv

\* The tuples that name writers are told apart by their parts.
LEMMA WriterCases ==
  /\ \A s \in Subscribers : <<"subscribe", s>> \in Writer /\ <<"watch", s>> \in Writer
  /\ \A c \in Closers : <<"close", c>> \in Writer
  /\ \A w \in Writer :
       \/ \E s \in Subscribers : w = <<"subscribe", s>> \/ w = <<"watch", s>>
       \/ \E c \in Closers : w = <<"close", c>>
  /\ Nobody \notin Writer
  /\ Nobody \notin Subscribers
BY MemoryPubSubAssumption DEF Writer

LEMMA LockBarInv ==
  ASSUME IInv, NEW w \in Writer, LockBar(w) PROVE IInv'
<1> USE DEF IInv
<1>1. TypeOK'
  BY DEF TypeOK, LockBar, subscribeVars, publishVars, closeVars, history
<1>2. WaitsForLock(w)'
  BY DEF LockBar, WaitsForLock, subscribeVars, publishVars, closeVars, history
<1>3. LockInv'
  BY <1>2, WriterCases DEF TypeOK, LockInv, LockBar, subscribeVars, publishVars, closeVars, history
<1>4. NoPanic' /\ MapInv' /\ CloserInv'
  BY DEF NoPanic, MapInv, CloserInv, Running, LockBar, subscribeVars, publishVars,
         closeVars, history
<1>. QED BY <1>1, <1>3, <1>4

LEMMA SubscribeInv ==
  ASSUME IInv, NEW s \in Subscribers,
         SubscribeInsert(s) \/ SubscribeArm(s) \/ CancelContext(s) \/ Receive(s)
  PROVE IInv'
<1> USE DEF IInv, shared, subscribeVars, publishVars, closeVars, history
<1>1. CASE SubscribeInsert(s)
  <2>1. caller[s] = "lock"
    BY <1>1, WriterCases DEF LockInv, SubscribeInsert, Locked, WaitsForLock
  <2>2. CASE closed /\ caller' = [caller EXCEPT ![s] = "refused"] /\ subs' = subs
    <3>1. TypeOK' /\ NoPanic' /\ CloserInv'
      BY <1>1, <2>1, <2>2 DEF TypeOK, NoPanic, CloserInv, Running, SubscribeInsert, Locked
    <3>2. LockInv'
      BY <1>1, <2>2, WriterCases DEF TypeOK, LockInv, SubscribeInsert, Locked
    <3>3. MapInv'
      BY <1>1, <2>1, <2>2 DEF TypeOK, MapInv, Running, SubscribeInsert, Locked
    <3>. QED BY <3>1, <3>2, <3>3
  <2>3. CASE ~closed /\ caller' = [caller EXCEPT ![s] = "arm"] /\ subs' = subs \cup {s}
    <3>1. TypeOK' /\ NoPanic' /\ CloserInv'
      BY <1>1, <2>1, <2>3 DEF TypeOK, NoPanic, CloserInv, Running, SubscribeInsert, Locked
    <3>2. LockInv'
      BY <1>1, <2>3, WriterCases DEF TypeOK, LockInv, SubscribeInsert, Locked
    <3>3. MapInv'
      BY <1>1, <2>1, <2>3 DEF TypeOK, MapInv, Running, SubscribeInsert, Locked
    <3>. QED BY <3>1, <3>2, <3>3
  <2>. QED BY <1>1, <2>2, <2>3 DEF SubscribeInsert
<1>2. CASE SubscribeArm(s)
  <2>1. TypeOK' /\ NoPanic' /\ CloserInv'
    BY <1>2 DEF TypeOK, NoPanic, CloserInv, Running, SubscribeArm
  <2>2. LockInv'
    BY <1>2, WriterCases DEF TypeOK, LockInv, SubscribeArm, WaitsForLock
  <2>3. MapInv'
    BY <1>2 DEF TypeOK, MapInv, Running, SubscribeArm
  <2>. QED BY <2>1, <2>2, <2>3
<1>3. CASE CancelContext(s)
  <2>1. TypeOK' /\ NoPanic' /\ CloserInv'
    BY <1>3 DEF TypeOK, NoPanic, CloserInv, Running, CancelContext
  <2>2. LockInv'
    BY <1>3, WriterCases DEF TypeOK, LockInv, CancelContext, WaitsForLock
  <2>3. MapInv'
    BY <1>3 DEF TypeOK, MapInv, Running, CancelContext
  <2>. QED BY <2>1, <2>2, <2>3
<1>4. CASE Receive(s)
  <2>1. ch[s] \in Seq(Message) /\ ch[s] # <<>> /\ received[s] \in Seq(Message)
    BY <1>4 DEF TypeOK, Receive
  <2>2. /\ Tail(ch[s]) \in Seq(Message)
        /\ Len(Tail(ch[s])) <= Len(ch[s])
        /\ Append(received[s], Head(ch[s])) \in Seq(Message)
    BY <2>1
  <2>3. TypeOK' /\ NoPanic' /\ CloserInv'
    BY <1>4, <2>2 DEF TypeOK, NoPanic, CloserInv, Running, Receive
  <2>4. LockInv'
    BY <1>4, WriterCases DEF TypeOK, LockInv, Receive, WaitsForLock
  <2>5. MapInv'
    BY <1>4, <2>1, <2>2, MemoryPubSubAssumption DEF TypeOK, MapInv, Running, Receive
  <2>. QED BY <2>3, <2>4, <2>5
<1>. QED BY <1>1, <1>2, <1>3, <1>4

LEMMA WatcherInv ==
  ASSUME IInv, NEW s \in Subscribers, WatcherRemove(s) \/ WatcherClose(s)
  PROVE IInv'
<1> USE DEF IInv, shared, subscribeVars, publishVars, closeVars, history
<1>1. CASE WatcherRemove(s)
  <2>1. TypeOK'
    BY <1>1, WriterCases DEF TypeOK, WatcherRemove, Locked
  <2>2. NoPanic' /\ CloserInv'
    BY <1>1 DEF TypeOK, NoPanic, CloserInv, Running, WatcherRemove, Locked
  <2>3. watcher[s] = "armed" /\ ctxDone[s]
    BY <1>1, WriterCases DEF LockInv, WatcherRemove, Locked, WaitsForLock
  <2>4. LockInv'
    BY <1>1, WriterCases DEF TypeOK, LockInv, WatcherRemove, Locked
  <2>5. MapInv'
    BY <1>1, <2>3 DEF TypeOK, MapInv, Running, WatcherRemove, Locked
  <2>. QED BY <2>1, <2>2, <2>4, <2>5
<1>2. CASE WatcherClose(s)
  <2>1. TypeOK' /\ NoPanic' /\ CloserInv'
    BY <1>2 DEF TypeOK, NoPanic, CloserInv, Running, WatcherClose, CloseChannel
  <2>2. LockInv'
    BY <1>2, WriterCases DEF TypeOK, LockInv, WatcherClose, CloseChannel, WaitsForLock
  <2>3. MapInv'
    BY <1>2 DEF TypeOK, MapInv, Running, WatcherClose, CloseChannel
  <2>. QED BY <2>1, <2>2, <2>3
<1>. QED BY <1>1, <1>2

LEMMA PublishInv ==
  ASSUME IInv, NEW p \in Publishers, PublisherNext(p)
  PROVE IInv'
<1> USE DEF IInv, shared, subscribeVars, publishVars, closeVars, history
<1>1. CASE PublishCall(p)
  <2>1. TypeOK' /\ NoPanic' /\ CloserInv' /\ MapInv'
    BY <1>1 DEF TypeOK, NoPanic, CloserInv, MapInv, Running, PublishCall
  <2>2. LockInv'
    BY <1>1, WriterCases DEF TypeOK, LockInv, PublishCall, WaitsForLock
  <2>. QED BY <2>1, <2>2
<1>2. CASE PublishRLock(p)
  <2>1. NoPanic' /\ CloserInv' /\ MapInv'
    BY <1>2 DEF NoPanic, CloserInv, MapInv, Running, PublishRLock
  <2>2. TypeOK' /\ LockInv'
    <3>1. CASE closed
      BY <1>2, <3>1, WriterCases DEF TypeOK, LockInv, PublishRLock, WaitsForLock
    <3>2. CASE ~closed
      <4>1. PICK t \in Topics :
              /\ pub' = [pub EXCEPT ![p] = "send"]
              /\ calls' = calls + 1
              /\ msg' = [msg EXCEPT ![p] = [pub |-> p, n |-> calls + 1, topic |-> t]]
              /\ todo' = [todo EXCEPT ![p] = {s \in subs : topic[s] = t}]
        BY <1>2, <3>2 DEF PublishRLock
      <4>2. [pub |-> p, n |-> calls + 1, topic |-> t] \in Message
        BY DEF TypeOK, Message
      <4>3. {s \in subs : topic[s] = t} \subseteq subs
        OBVIOUS
      <4>4. TypeOK'
        BY <1>2, <4>1, <4>2, <4>3 DEF TypeOK, PublishRLock
      <4>5. LockInv'
        BY <1>2, <3>2, <4>1, <4>2, <4>3, WriterCases
        DEF TypeOK, LockInv, PublishRLock, WaitsForLock
      <4>. QED BY <4>4, <4>5
    <3>. QED BY <3>1, <3>2
  <2>. QED BY <2>1, <2>2
<1>3. CASE PublishDone(p)
  <2>1. TypeOK' /\ NoPanic' /\ CloserInv' /\ MapInv'
    BY <1>3 DEF TypeOK, NoPanic, CloserInv, MapInv, Running, PublishDone
  <2>2. LockInv'
    BY <1>3, WriterCases DEF TypeOK, LockInv, PublishDone, WaitsForLock
  <2>. QED BY <2>1, <2>2
<1>4. ASSUME NEW s \in Subscribers, PublishSend(p, s) PROVE IInv'
  <2>1. s \in subs /\ ~chClosed[s] /\ msg[p] \in Message
    BY <1>4 DEF LockInv, MapInv, PublishSend
  <2>2. ch[s] \in Seq(Message)
    BY DEF TypeOK
  <2>3. /\ Append(ch[s], msg[p]) \in Seq(Message)
        /\ Len(Append(ch[s], msg[p])) = Len(ch[s]) + 1
    BY <2>1, <2>2
  <2>4. TypeOK' /\ NoPanic' /\ CloserInv'
    BY <1>4, <2>1, <2>3 DEF TypeOK, NoPanic, CloserInv, Running, PublishSend
  <2>5. LockInv'
    BY <1>4, WriterCases DEF TypeOK, LockInv, PublishSend, WaitsForLock
  <2>6. MapInv'
    BY <1>4, <2>2, <2>3, MemoryPubSubAssumption DEF TypeOK, MapInv, Running, PublishSend
  <2>. QED BY <2>4, <2>5, <2>6
<1>. QED BY <1>1, <1>2, <1>3, <1>4 DEF PublisherNext

LEMMA CloseInv ==
  ASSUME IInv, NEW c \in Closers, CloserNext(c)
  PROVE IInv'
<1> USE DEF IInv, shared, subscribeVars, publishVars, closeVars, history
<1>1. CASE CloseBegin(c)
  <2>1. LockInv'
    BY <1>1, WriterCases DEF TypeOK, LockInv, CloseBegin, Locked
  <2>2. CASE /\ closed
             /\ closer' = [closer EXCEPT ![c] = "done"]
             /\ UNCHANGED <<closed, subs, pending>>
    BY <1>1, <2>1, <2>2
    DEF TypeOK, NoPanic, CloserInv, MapInv, Running, CloseBegin, Locked
  <2>3. CASE /\ ~closed
             /\ closer' = [closer EXCEPT ![c] = "next"]
             /\ closed' = TRUE
             /\ pending' = [pending EXCEPT ![c] = subs]
             /\ subs' = {}
    <3>1. TypeOK' /\ NoPanic'
      BY <1>1, <2>3 DEF TypeOK, NoPanic, CloseBegin, Locked
    <3>2. CloserInv' /\ MapInv'
      BY <1>1, <2>3 DEF TypeOK, CloserInv, MapInv, Running, CloseBegin, Locked
    <3>. QED BY <2>1, <3>1, <3>2
  <2>. QED BY <1>1, <2>2, <2>3 DEF CloseBegin
<1>2. CASE CloseRemove(c)
  <2>1. TypeOK'
    BY <1>2, WriterCases DEF TypeOK, CloseRemove, Locked
  <2>2. NoPanic' /\ CloserInv' /\ MapInv'
    BY <1>2 DEF TypeOK, NoPanic, CloserInv, MapInv, Running, CloseRemove, Locked
  <2>3. LockInv'
    BY <1>2, WriterCases DEF TypeOK, LockInv, CloseRemove, Locked
  <2>. QED BY <2>1, <2>2, <2>3
<1>3. CASE CloseClose(c)
  <2>1. TypeOK' /\ NoPanic' /\ CloserInv'
    BY <1>3, WriterCases DEF TypeOK, NoPanic, CloserInv, Running, CloseClose, CloseChannel
  <2>2. LockInv'
    BY <1>3, WriterCases DEF TypeOK, LockInv, CloseClose, CloseChannel, WaitsForLock
  <2>3. MapInv'
    BY <1>3 DEF TypeOK, MapInv, CloserInv, Running, CloseClose, CloseChannel
  <2>. QED BY <2>1, <2>2, <2>3
<1>4. CASE CloseReturn(c)
  <2>1. TypeOK' /\ NoPanic' /\ CloserInv' /\ MapInv'
    BY <1>4 DEF TypeOK, NoPanic, CloserInv, MapInv, Running, CloseReturn
  <2>2. LockInv'
    BY <1>4, WriterCases DEF TypeOK, LockInv, CloseReturn, WaitsForLock
  <2>. QED BY <2>1, <2>2
<1>5. ASSUME NEW s \in Subscribers, CloseCancel(c, s) PROVE IInv'
  <2>1. TypeOK' /\ NoPanic' /\ CloserInv' /\ MapInv'
    BY <1>5 DEF TypeOK, NoPanic, CloserInv, MapInv, Running, CloseCancel
  <2>2. LockInv'
    BY <1>5, WriterCases DEF TypeOK, LockInv, CloseCancel, WaitsForLock
  <2>. QED BY <2>1, <2>2
<1>. QED BY <1>1, <1>2, <1>3, <1>4, <1>5 DEF CloserNext

LEMMA NextInv == IInv /\ [Next]_vars => IInv'
<1> SUFFICES ASSUME IInv, [Next]_vars PROVE IInv'
  OBVIOUS
<1>1. CASE Next
  BY <1>1, LockBarInv, SubscribeInv, WatcherInv, PublishInv, CloseInv
  DEF Next, SubscriberNext
<1>2. CASE UNCHANGED vars
  BY <1>2, WriterCases DEF IInv, TypeOK, NoPanic, LockInv, MapInv, CloserInv, Running, WaitsForLock, vars
<1>. QED BY <1>1, <1>2

\* In every reachable state the lock, the map and the channels are in the
\* relation IInv describes.
THEOREM Invariance == Spec => []IInv
BY InitInv, NextInv, PTL DEF Spec

\* Neither Publish nor the two goroutines that race to end a subscription can
\* crash the process on a closed channel.
THEOREM NeverPanics == Spec => []NoPanic
<1>1. IInv => NoPanic
  BY DEF IInv
<1>. QED BY <1>1, Invariance, PTL

-----------------------------------------------------------------------------
(* Order: only PublishRLock numbers messages and only PublishSend adds one *)
(* to what a stream has been given; a receive moves it along.              *)

\* What a stream has been given, after a receive and after a send.
LEMMA DeliveredStep ==
  ASSUME NEW r \in Seq(Message), NEW c \in Seq(Message)
  PROVE  /\ r \o c \in Seq(Message)
         /\ c # <<>> => Append(r, Head(c)) \o Tail(c) = r \o c
         /\ \A m \in Message : r \o Append(c, m) = Append(r \o c, m)
<1>1. r \o c \in Seq(Message)
  OBVIOUS
<1>2. ASSUME c # <<>> PROVE Append(r, Head(c)) \o Tail(c) = r \o c
  <2>1. /\ Head(c) \in Message /\ Tail(c) \in Seq(Message)
        /\ c = <<Head(c)>> \o Tail(c)
    BY <1>2
  <2>2. Append(r, Head(c)) = r \o <<Head(c)>>
    BY <2>1
  <2>. QED BY <2>1, <2>2, ConcatAssociative
<1>3. ASSUME NEW m \in Message PROVE r \o Append(c, m) = Append(r \o c, m)
  BY <1>1
<1>. QED BY <1>1, <1>2, <1>3

\* Steps that neither number a message nor add one to a stream.
LEMMA QuietOrder ==
  ASSUME IInv, Numbered, PublisherOrder, UNCHANGED calls,
         \A s \in Subscribers : Delivered(s)' = Delivered(s),
         \A p \in Publishers : todo'[p] \subseteq todo[p] /\ (todo'[p] # {} => msg'[p] = msg[p]),
         \A p \in Publishers : pub'[p] = "send" => pub[p] = "send" /\ msg'[p] = msg[p]
  PROVE  Numbered' /\ PublisherOrder'
<1>1. PublisherOrder'
  BY DEF PublisherOrder
<1>2. \A p \in Publishers : todo[p] \subseteq Subscribers
  BY DEF IInv, TypeOK
<1>3. ASSUME NEW p \in Publishers, NEW s \in todo'[p], NEW i \in 1..Len(Delivered(s)'),
             Delivered(s)'[i].pub = p
      PROVE  Delivered(s)'[i].n < msg'[p].n
  <2>1. s \in todo[p] /\ s \in Subscribers /\ msg'[p] = msg[p]
    BY <1>2, <1>3
  <2>2. Delivered(s)' = Delivered(s)
    BY <2>1
  <2>. QED BY <1>3, <2>1, <2>2 DEF Numbered
<1>. QED BY <1>1, <1>3 DEF Numbered

\* To receive moves a message from the buffer to what has been received.
LEMMA ReceiveKeeps ==
  ASSUME IInv, NEW s \in Subscribers, Receive(s), NEW t \in Subscribers
  PROVE  Delivered(t)' = Delivered(t)
<1>1. CASE t = s
  <2>1. ch[s] \in Seq(Message) /\ received[s] \in Seq(Message) /\ ch[s] # <<>>
    BY DEF IInv, TypeOK, Receive
  <2>2. received'[s] = Append(received[s], Head(ch[s])) /\ ch'[s] = Tail(ch[s])
    BY DEF IInv, TypeOK, Receive
  <2>3. Append(received[s], Head(ch[s])) \o Tail(ch[s]) = received[s] \o ch[s]
    BY <2>1, DeliveredStep
  <2>4. received'[s] \o ch'[s] = received[s] \o ch[s]
    BY <2>2, <2>3
  <2>. QED BY <1>1, <2>4 DEF Delivered
<1>2. CASE t # s
  BY <1>2 DEF IInv, TypeOK, Receive, Delivered
<1>. QED BY <1>1, <1>2

\* To send adds the message in hand to one stream, or to none.
LEMMA SendAppends ==
  ASSUME IInv, NEW p \in Publishers, NEW s \in Subscribers, PublishSend(p, s)
  PROVE  /\ \A t \in Subscribers \ {s} : Delivered(t)' = Delivered(t)
         /\ Delivered(s) \in Seq(Message)
         /\ Delivered(s)' = Delivered(s) \/ Delivered(s)' = Append(Delivered(s), msg[p])
<1>1. msg[p] \in Message
  BY DEF IInv, LockInv, PublishSend
<1>2. \A t \in Subscribers \ {s} : Delivered(t)' = Delivered(t)
  BY DEF IInv, TypeOK, PublishSend, Delivered
<1>3. received[s] \in Seq(Message) /\ ch[s] \in Seq(Message)
  BY DEF IInv, TypeOK
<1>4. Delivered(s) \in Seq(Message)
  BY <1>3, DeliveredStep DEF Delivered
<1>5. received'[s] = received[s] /\ ch'[s] \in {ch[s], Append(ch[s], msg[p])}
  BY DEF IInv, TypeOK, PublishSend
<1>6. received[s] \o Append(ch[s], msg[p]) = Append(received[s] \o ch[s], msg[p])
  BY <1>1, <1>3, DeliveredStep
<1>7. CASE ch'[s] = ch[s]
  BY <1>2, <1>4, <1>5, <1>7 DEF Delivered
<1>8. CASE ch'[s] = Append(ch[s], msg[p])
  <2>1. received'[s] \o ch'[s] = Append(received[s] \o ch[s], msg[p])
    BY <1>5, <1>6, <1>8
  <2>. QED BY <1>2, <1>4, <2>1 DEF Delivered
<1>. QED BY <1>5, <1>7, <1>8

LEMMA ReceiveOrder ==
  ASSUME IInv, Numbered, PublisherOrder, NEW s \in Subscribers, Receive(s)
  PROVE  Numbered' /\ PublisherOrder'
<1>1. \A t \in Subscribers : Delivered(t)' = Delivered(t)
  BY ReceiveKeeps
<1>2. UNCHANGED <<calls, pub, todo, msg>>
  BY DEF Receive, publishVars
<1>. QED BY <1>1, <1>2, QuietOrder

LEMMA RLockOrder ==
  ASSUME IInv, Numbered, PublisherOrder, NEW p \in Publishers, PublishRLock(p)
  PROVE  Numbered' /\ PublisherOrder'
<1>1. \A s \in Subscribers : Delivered(s)' = Delivered(s)
  BY DEF PublishRLock, shared, history, Delivered
<1>2. CASE closed
  <2>1. UNCHANGED <<calls, todo, msg>> /\ \A q \in Publishers : pub'[q] = "send" => pub[q] = "send"
    BY <1>2 DEF PublishRLock, IInv, TypeOK
  <2>. QED BY <1>1, <2>1, QuietOrder
<1>3. CASE ~closed
  <2>1. PICK t \in Topics :
          /\ pub' = [pub EXCEPT ![p] = "send"]
          /\ calls' = calls + 1
          /\ msg' = [msg EXCEPT ![p] = [pub |-> p, n |-> calls + 1, topic |-> t]]
          /\ todo' = [todo EXCEPT ![p] = {s \in subs : topic[s] = t}]
    BY <1>3 DEF PublishRLock
  <2>2. calls \in Nat /\ subs \subseteq Subscribers
    BY DEF IInv, TypeOK
  <2>3. /\ msg'[p].pub = p /\ msg'[p].n = calls + 1 /\ todo'[p] \subseteq Subscribers
        /\ \A q \in Publishers \ {p} : msg'[q] = msg[q] /\ todo'[q] = todo[q] /\ pub'[q] = pub[q]
    BY <2>1, <2>2 DEF IInv, TypeOK
  <2>4. \A s \in Subscribers : \A i \in 1..Len(Delivered(s)) :
          Delivered(s)[i].n \in Nat /\ Delivered(s)[i].n <= calls
    <3>1. SUFFICES ASSUME NEW s \in Subscribers, NEW i \in 1..Len(Delivered(s))
                   PROVE  Delivered(s)[i].n \in Nat /\ Delivered(s)[i].n <= calls
      OBVIOUS
    <3>2. Delivered(s) \in Seq(Message)
      BY DeliveredStep DEF IInv, TypeOK, Delivered
    <3>3. Delivered(s)[i] \in Message
      BY <3>2
    <3>. QED BY <3>3 DEF Numbered, Message
  <2>5. PublisherOrder'
    BY <1>1 DEF PublisherOrder
  <2>6. Numbered'
    <3>1. \A s \in Subscribers : \A i \in 1..Len(Delivered(s)') : Delivered(s)'[i].n <= calls'
      BY <1>1, <2>1, <2>2, <2>4
    <3>2. \A q \in Publishers : pub'[q] = "send" => msg'[q].pub = q /\ msg'[q].n <= calls'
      <4>1. SUFFICES ASSUME NEW q \in Publishers, pub'[q] = "send"
                     PROVE  msg'[q].pub = q /\ msg'[q].n <= calls'
        OBVIOUS
      <4>2. CASE q = p
        BY <2>1, <2>2, <2>3, <4>2
      <4>3. CASE q # p
        <5>1. msg[q] \in Message /\ msg[q].pub = q /\ msg[q].n <= calls
          BY <2>3, <4>1, <4>3 DEF IInv, LockInv, Numbered
        <5>2. msg[q].n \in Nat
          BY <5>1 DEF Message
        <5>. QED BY <2>1, <2>2, <2>3, <4>3, <5>1, <5>2
      <4>. QED BY <4>2, <4>3
    <3>3. \A q \in Publishers : \A s \in todo'[q] : \A i \in 1..Len(Delivered(s)') :
            Delivered(s)'[i].pub = q => Delivered(s)'[i].n < msg'[q].n
      <4>1. SUFFICES ASSUME NEW q \in Publishers, NEW s \in todo'[q],
                            NEW i \in 1..Len(Delivered(s)'), Delivered(s)'[i].pub = q
                     PROVE  Delivered(s)'[i].n < msg'[q].n
        OBVIOUS
      <4>2. CASE q = p
        BY <1>1, <2>2, <2>3, <2>4, <4>1, <4>2
      <4>3. CASE q # p
        <5>1. s \in todo[q] /\ s \in Subscribers
          BY <2>3, <4>1, <4>3 DEF IInv, TypeOK
        <5>. QED BY <1>1, <2>3, <4>1, <4>3, <5>1 DEF Numbered
      <4>. QED BY <4>2, <4>3
    <3>. QED BY <3>1, <3>2, <3>3 DEF Numbered
  <2>. QED BY <2>5, <2>6
<1>. QED BY <1>2, <1>3

LEMMA SendOrder ==
  ASSUME IInv, Numbered, PublisherOrder, NEW p \in Publishers, NEW s \in Subscribers,
         PublishSend(p, s)
  PROVE  Numbered' /\ PublisherOrder'
<1>1. /\ pub[p] = "send" /\ s \in todo[p] /\ msg[p] \in Message
      /\ msg[p].pub = p /\ msg[p].n \in Nat /\ msg[p].n <= calls
  BY DEF IInv, LockInv, Numbered, PublishSend, Message
<1>2. UNCHANGED <<calls, pub, msg>>
  BY DEF PublishSend
<1>3. /\ todo'[p] = todo[p] \ {s} /\ \A q \in Publishers \ {p} : todo'[q] = todo[q]
      /\ \A q \in Publishers : todo[q] \subseteq Subscribers
  BY DEF IInv, TypeOK, PublishSend
<1>4. \A t \in Subscribers \ {s} : Delivered(t)' = Delivered(t)
  BY SendAppends
<1>5. Delivered(s) \in Seq(Message)
  BY SendAppends
<1>6. Delivered(s)' = Delivered(s) \/ Delivered(s)' = Append(Delivered(s), msg[p])
  BY SendAppends
<1>7. CASE Delivered(s)' = Delivered(s)
  <2>1. \A t \in Subscribers : Delivered(t)' = Delivered(t)
    BY <1>4, <1>7
  <2>. QED BY <1>2, <1>3, <2>1, QuietOrder
<1>8. CASE Delivered(s)' = Append(Delivered(s), msg[p])
  <2>. DEFINE d == Delivered(s)
  <2>1. /\ Len(Append(d, msg[p])) = Len(d) + 1 /\ Len(d) \in Nat
        /\ Append(d, msg[p])[Len(d) + 1] = msg[p]
        /\ \A i \in 1..Len(d) : Append(d, msg[p])[i] = d[i] /\ d[i] \in Message
    BY <1>1, <1>5
  <2>2. \A i \in 1..Len(d) : d[i].n \in Nat /\ (d[i].pub = p => d[i].n < msg[p].n)
    BY <1>1, <2>1 DEF Numbered, Message
  <2>3. \A i \in 1..Len(Delivered(s)') :
          Delivered(s)'[i] = IF i = Len(d) + 1 THEN msg[p] ELSE d[i]
    BY <1>8, <2>1
  <2>4. Len(Delivered(s)') = Len(d) + 1
    BY <1>8, <2>1
  <2>5. PublisherOrder'
    <3>1. SUFFICES ASSUME NEW t \in Subscribers, NEW i \in 1..Len(Delivered(t)'),
                          NEW j \in 1..Len(Delivered(t)'),
                          i < j, Delivered(t)'[i].pub = Delivered(t)'[j].pub
                   PROVE  Delivered(t)'[i].n < Delivered(t)'[j].n
      BY DEF PublisherOrder
    <3>2. CASE t # s
      BY <1>4, <3>1, <3>2 DEF PublisherOrder
    <3>3. CASE t = s
      <4>1. i \in 1..Len(d) /\ Delivered(s)'[i] = d[i]
        BY <2>1, <2>3, <2>4, <3>1, <3>3
      <4>2. CASE j = Len(d) + 1
        BY <1>1, <2>2, <2>3, <3>1, <3>3, <4>1, <4>2
      <4>3. CASE j # Len(d) + 1
        <5>1. j \in 1..Len(d) /\ Delivered(s)'[j] = d[j]
          BY <2>1, <2>3, <2>4, <3>1, <3>3, <4>3
        <5>. QED BY <3>1, <3>3, <4>1, <5>1 DEF PublisherOrder
      <4>. QED BY <4>2, <4>3
    <3>. QED BY <3>2, <3>3
  <2>6. Numbered'
    <3>1. \A t \in Subscribers : \A i \in 1..Len(Delivered(t)') : Delivered(t)'[i].n <= calls'
      <4>1. SUFFICES ASSUME NEW t \in Subscribers, NEW i \in 1..Len(Delivered(t)')
                     PROVE  Delivered(t)'[i].n <= calls
        BY <1>2
      <4>2. CASE t # s
        BY <1>4, <4>1, <4>2 DEF Numbered
      <4>3. CASE t = s
        BY <1>1, <2>1, <2>3, <2>4, <4>1, <4>3 DEF Numbered
      <4>. QED BY <4>2, <4>3
    <3>2. \A q \in Publishers : pub'[q] = "send" => msg'[q].pub = q /\ msg'[q].n <= calls'
      BY <1>2 DEF Numbered
    <3>3. \A q \in Publishers : \A t \in todo'[q] : \A i \in 1..Len(Delivered(t)') :
            Delivered(t)'[i].pub = q => Delivered(t)'[i].n < msg'[q].n
      <4>1. SUFFICES ASSUME NEW q \in Publishers, NEW t \in todo'[q],
                            NEW i \in 1..Len(Delivered(t)'), Delivered(t)'[i].pub = q
                     PROVE  Delivered(t)'[i].n < msg[q].n
        BY <1>2
      <4>2. t \in todo[q] /\ t \in Subscribers /\ ~(q = p /\ t = s)
        BY <1>3, <4>1
      <4>3. CASE t # s
        BY <1>4, <4>1, <4>2, <4>3 DEF Numbered
      <4>4. CASE t = s
        <5>1. i # Len(d) + 1
          BY <1>1, <2>3, <2>4, <4>1, <4>2, <4>4
        <5>2. i \in 1..Len(d) /\ Delivered(s)'[i] = d[i]
          BY <2>1, <2>3, <2>4, <4>1, <4>4, <5>1
        <5>. QED BY <4>1, <4>2, <4>4, <5>2 DEF Numbered
      <4>. QED BY <4>3, <4>4
    <3>. QED BY <3>1, <3>2, <3>3 DEF Numbered
  <2>. QED BY <2>5, <2>6
<1>. QED BY <1>6, <1>7, <1>8

LEMMA OrderStep == IInv /\ Numbered /\ PublisherOrder /\ [Next]_vars => Numbered' /\ PublisherOrder'
<1> SUFFICES ASSUME IInv, Numbered, PublisherOrder, [Next]_vars PROVE Numbered' /\ PublisherOrder'
  OBVIOUS
<1> USE DEF shared, subscribeVars, publishVars, closeVars, history
<1>1. ASSUME UNCHANGED <<received, ch, calls, msg, todo>>,
             \A p \in Publishers : pub'[p] = "send" => pub[p] = "send"
      PROVE  Numbered' /\ PublisherOrder'
  BY <1>1, QuietOrder DEF Delivered
<1>2. ASSUME NEW w \in Writer, LockBar(w) PROVE Numbered' /\ PublisherOrder'
  BY <1>1, <1>2 DEF LockBar
<1>3. ASSUME NEW s \in Subscribers, SubscriberNext(s) PROVE Numbered' /\ PublisherOrder'
  <2>1. CASE Receive(s)
    BY <2>1, ReceiveOrder
  <2>2. CASE SubscribeInsert(s) \/ SubscribeArm(s) \/ CancelContext(s)
             \/ WatcherRemove(s) \/ WatcherClose(s)
    BY <1>1, <2>2 DEF SubscribeInsert, SubscribeArm, CancelContext, WatcherRemove, WatcherClose
  <2>. QED BY <1>3, <2>1, <2>2 DEF SubscriberNext
<1>4. ASSUME NEW p \in Publishers, PublisherNext(p) PROVE Numbered' /\ PublisherOrder'
  <2>1. CASE PublishCall(p)
    BY <1>1, <2>1 DEF PublishCall, IInv, TypeOK
  <2>2. CASE PublishRLock(p)
    BY <2>2, RLockOrder
  <2>3. CASE PublishDone(p)
    <3>1. /\ todo[p] = {} /\ UNCHANGED <<received, ch, calls, todo>>
          /\ \A q \in Publishers : q # p => msg'[q] = msg[q] /\ pub'[q] = pub[q]
          /\ pub'[p] # "send"
      BY <2>3 DEF PublishDone, IInv, TypeOK
    <3>. QED BY <3>1, QuietOrder DEF Delivered
  <2>4. CASE \E s \in Subscribers : PublishSend(p, s)
    BY <2>4, SendOrder
  <2>. QED BY <1>4, <2>1, <2>2, <2>3, <2>4 DEF PublisherNext
<1>5. ASSUME NEW c \in Closers, CloserNext(c) PROVE Numbered' /\ PublisherOrder'
  BY <1>1, <1>5
  DEF CloserNext, CloseBegin, CloseRemove, CloseClose, CloseReturn, CloseCancel
<1>6. CASE UNCHANGED vars
  BY <1>1, <1>6 DEF vars
<1>. QED BY <1>2, <1>3, <1>4, <1>5, <1>6 DEF Next

\* A consumer gets the messages of one publisher in the order of its Publish
\* calls and none of them twice, whatever its buffer made it skip.
THEOREM InOrder == Spec => []PublisherOrder
<1>1. Init => Numbered /\ PublisherOrder
  BY DEF Init, Numbered, PublisherOrder, Delivered
<1>. QED BY <1>1, OrderStep, Invariance, PTL DEF Spec

\* Steps that add nothing to a stream.
LEMMA QuietTopic ==
  ASSUME IInv, OwnTopic, Addressed, UNCHANGED topic,
         \A s \in Subscribers : Delivered(s)' = Delivered(s),
         \A p \in Publishers : todo'[p] \subseteq todo[p] /\ (todo'[p] # {} => msg'[p] = msg[p])
  PROVE  OwnTopic' /\ Addressed'
<1>1. OwnTopic'
  BY DEF OwnTopic
<1>2. Addressed'
  BY DEF Addressed
<1>. QED BY <1>1, <1>2

LEMMA RLockTopic ==
  ASSUME IInv, OwnTopic, Addressed, NEW p \in Publishers, PublishRLock(p)
  PROVE  OwnTopic' /\ Addressed'
<1>1. topic' = topic /\ \A s \in Subscribers : Delivered(s)' = Delivered(s)
  BY DEF PublishRLock, shared, history, Delivered
<1>2. CASE closed
  BY <1>1, <1>2, QuietTopic DEF PublishRLock
<1>3. CASE ~closed
  <2>1. PICK t \in Topics :
          /\ msg' = [msg EXCEPT ![p] = [pub |-> p, n |-> calls + 1, topic |-> t]]
          /\ todo' = [todo EXCEPT ![p] = {s \in subs : topic[s] = t}]
    BY <1>3 DEF PublishRLock
  <2>2. /\ msg'[p].topic = t /\ todo'[p] = {s \in subs : topic[s] = t}
        /\ \A q \in Publishers \ {p} : msg'[q] = msg[q] /\ todo'[q] = todo[q]
    BY <2>1 DEF IInv, TypeOK
  <2>3. Addressed'
    BY <1>1, <2>2 DEF Addressed
  <2>4. OwnTopic'
    BY <1>1 DEF OwnTopic
  <2>. QED BY <2>3, <2>4
<1>. QED BY <1>2, <1>3

LEMMA SendTopic ==
  ASSUME IInv, OwnTopic, Addressed, NEW p \in Publishers, NEW s \in Subscribers, PublishSend(p, s)
  PROVE  OwnTopic' /\ Addressed'
<1>1. /\ msg[p] \in Message /\ msg[p].topic = topic[s]
      /\ topic' = topic /\ msg' = msg
      /\ \A q \in Publishers : todo'[q] \subseteq todo[q]
  BY DEF IInv, TypeOK, LockInv, Addressed, PublishSend
<1>2. CASE Delivered(s)' = Delivered(s)
  BY <1>1, <1>2, SendAppends, QuietTopic
<1>3. CASE Delivered(s)' = Append(Delivered(s), msg[p])
  <2>1. \A i \in 1..Len(Delivered(s)') :
          Delivered(s)'[i] = msg[p] \/ (i \in 1..Len(Delivered(s)) /\ Delivered(s)'[i] = Delivered(s)[i])
    BY <1>1, <1>3, SendAppends
  <2>2. \A i \in 1..Len(Delivered(s)') : Delivered(s)'[i].topic = topic[s]
    BY <1>1, <2>1 DEF OwnTopic
  <2>3. OwnTopic'
    BY <1>1, <2>2, SendAppends DEF OwnTopic
  <2>4. Addressed'
    BY <1>1 DEF Addressed
  <2>. QED BY <2>3, <2>4
<1>. QED BY <1>2, <1>3, SendAppends

LEMMA TopicStep == IInv /\ OwnTopic /\ Addressed /\ [Next]_vars => OwnTopic' /\ Addressed'
<1> SUFFICES ASSUME IInv, OwnTopic, Addressed, [Next]_vars PROVE OwnTopic' /\ Addressed'
  OBVIOUS
<1> USE DEF shared, subscribeVars, publishVars, closeVars, history
<1>1. ASSUME UNCHANGED <<topic, received, ch, msg, todo>> PROVE OwnTopic' /\ Addressed'
  BY <1>1, QuietTopic DEF Delivered
<1>2. ASSUME NEW w \in Writer, LockBar(w) PROVE OwnTopic' /\ Addressed'
  BY <1>1, <1>2 DEF LockBar
<1>3. ASSUME NEW s \in Subscribers, SubscriberNext(s) PROVE OwnTopic' /\ Addressed'
  <2>1. CASE Receive(s)
    <3>1. \A t \in Subscribers : Delivered(t)' = Delivered(t)
      BY <2>1, ReceiveKeeps
    <3>. QED BY <2>1, <3>1, QuietTopic DEF Receive
  <2>2. CASE SubscribeInsert(s) \/ SubscribeArm(s) \/ CancelContext(s)
             \/ WatcherRemove(s) \/ WatcherClose(s)
    BY <1>1, <2>2 DEF SubscribeInsert, SubscribeArm, CancelContext, WatcherRemove, WatcherClose
  <2>. QED BY <1>3, <2>1, <2>2 DEF SubscriberNext
<1>4. ASSUME NEW p \in Publishers, PublisherNext(p) PROVE OwnTopic' /\ Addressed'
  <2>1. CASE PublishCall(p)
    BY <1>1, <2>1 DEF PublishCall
  <2>2. CASE PublishRLock(p)
    BY <2>2, RLockTopic
  <2>3. CASE PublishDone(p)
    <3>1. /\ todo[p] = {} /\ UNCHANGED <<topic, received, ch, todo>>
          /\ \A q \in Publishers : q # p => msg'[q] = msg[q]
      BY <2>3 DEF PublishDone, IInv, TypeOK
    <3>. QED BY <3>1, QuietTopic DEF Delivered
  <2>4. CASE \E s \in Subscribers : PublishSend(p, s)
    BY <2>4, SendTopic
  <2>. QED BY <1>4, <2>1, <2>2, <2>3, <2>4 DEF PublisherNext
<1>5. ASSUME NEW c \in Closers, CloserNext(c) PROVE OwnTopic' /\ Addressed'
  BY <1>1, <1>5
  DEF CloserNext, CloseBegin, CloseRemove, CloseClose, CloseReturn, CloseCancel
<1>6. CASE UNCHANGED vars
  BY <1>1, <1>6 DEF vars
<1>. QED BY <1>2, <1>3, <1>4, <1>5, <1>6 DEF Next

\* A consumer gets messages of its own topic only.
THEOREM TopicsApart == Spec => []OwnTopic
<1>1. Init => OwnTopic /\ Addressed
  BY DEF Init, OwnTopic, Addressed, Delivered
<1>. QED BY <1>1, TopicStep, Invariance, PTL DEF Spec

-----------------------------------------------------------------------------
(* Refinement: the initial states map to initial states of the contract    *)
(* and every step maps to a step it allows or to a stutter.                *)

LEMMA InitRefines == Init => Contract!Init
BY DEF Init, Contract!Init, streamOf, Running

\* Steps that touch nothing the contract can see.
LEMMA HiddenStep ==
  ASSUME UNCHANGED <<closed, ctxDone, caller, chClosed, topic, ch, calls, msg, todo>>
  PROVE  UNCHANGED Contract!vars
BY DEF Contract!vars, streamOf, Running

LEMMA SubscribeRefines ==
  ASSUME IInv, NEW s \in Subscribers, SubscriberNext(s)
  PROVE  [Contract!Next]_Contract!vars
<1> USE DEF IInv, shared, subscribeVars, publishVars, closeVars, history
<1>1. CASE SubscribeInsert(s)
  <2>1. caller[s] = "lock" /\ ~chClosed[s]
    BY <1>1, WriterCases, ZenonT(60)
    DEF LockInv, MapInv, Running, SubscribeInsert, Locked, WaitsForLock
  <2>2. CASE closed
    <3>1. streamOf' = streamOf
      BY <1>1, <2>1, <2>2 DEF SubscribeInsert, streamOf, Running, TypeOK
    <3>. QED BY <1>1, <2>2, <3>1 DEF SubscribeInsert, Contract!vars
  <2>3. CASE ~closed
    <3>1. streamOf[s] = "none" /\ streamOf' = [streamOf EXCEPT ![s] = "open"]
      BY <1>1, <2>1, <2>3 DEF SubscribeInsert, streamOf, Running, TypeOK
    <3>2. Contract!Subscribe(s)
      BY <1>1, <2>3, <3>1 DEF SubscribeInsert, Contract!Subscribe
    <3>. QED BY <3>2 DEF Contract!Next
  <2>. QED BY <2>2, <2>3
<1>2. CASE SubscribeArm(s)
  <2>1. streamOf' = streamOf
    BY <1>2 DEF SubscribeArm, streamOf, Running, TypeOK
  <2>. QED BY <1>2, <2>1 DEF SubscribeArm, Contract!vars
<1>3. CASE CancelContext(s)
  <2>1. streamOf' = streamOf
    BY <1>3 DEF CancelContext, streamOf, Running
  <2>2. Contract!Cancel(s)
    BY <1>3, <2>1 DEF CancelContext, Contract!Cancel
  <2>. QED BY <2>2 DEF Contract!Next
<1>4. CASE Receive(s)
  <2>1. streamOf' = streamOf
    BY <1>4 DEF Receive, streamOf, Running
  <2>2. Contract!Receive(s)
    BY <1>4, <2>1 DEF Receive, Contract!Receive
  <2>. QED BY <2>2 DEF Contract!Next
<1>5. CASE WatcherRemove(s)
  BY <1>5, HiddenStep DEF WatcherRemove, Locked
<1>6. CASE WatcherClose(s)
  <2>1. Running(s) /\ ctxDone[s]
    BY <1>6 DEF WatcherClose, MapInv
  <2>2. streamOf' = [streamOf EXCEPT ![s] = "ended"]
    BY <1>6 DEF WatcherClose, CloseChannel, streamOf, Running, TypeOK
  <2>3. CASE chClosed[s]
    <3>1. streamOf' = streamOf
      BY <2>2, <2>3 DEF streamOf
    <3>. QED BY <1>6, <3>1 DEF WatcherClose, Contract!vars
  <2>4. CASE ~chClosed[s]
    <3>1. streamOf[s] = "open"
      BY <2>1, <2>4 DEF streamOf
    <3>2. Contract!End(s)
      BY <1>6, <2>1, <2>2, <3>1 DEF WatcherClose, Contract!End
    <3>. QED BY <3>2 DEF Contract!Next
  <2>. QED BY <2>3, <2>4
<1>. QED BY <1>1, <1>2, <1>3, <1>4, <1>5, <1>6 DEF SubscriberNext

LEMMA PublishRefines ==
  ASSUME IInv, NEW p \in Publishers, PublisherNext(p)
  PROVE  [Contract!Next]_Contract!vars
<1> USE DEF IInv, shared, subscribeVars, publishVars, closeVars, history
<1>1. CASE PublishCall(p)
  BY <1>1, HiddenStep DEF PublishCall
<1>2. CASE PublishRLock(p)
  <2>1. streamOf' = streamOf
    BY <1>2 DEF PublishRLock, streamOf, Running
  <2>2. CASE closed
    BY <1>2, <2>2, HiddenStep DEF PublishRLock
  <2>3. CASE ~closed
    <3>1. PICK t \in Topics :
            /\ calls' = calls + 1
            /\ msg' = [msg EXCEPT ![p] = [pub |-> p, n |-> calls + 1, topic |-> t]]
            /\ todo' = [todo EXCEPT ![p] = {s \in subs : topic[s] = t}]
      BY <1>2, <2>3 DEF PublishRLock
    <3>2. {s \in subs : topic[s] = t} \in SUBSET Contract!OpenOn(t)
      BY DEF TypeOK, MapInv, Contract!OpenOn, streamOf
    <3>3. Contract!ActiveOn(t) \subseteq {s \in subs : topic[s] = t}
      BY <2>3 DEF TypeOK, MapInv, Contract!OpenOn, Contract!ActiveOn, streamOf
    <3>4. msg[p] = NoMessage
      BY <1>2 DEF LockInv, PublishRLock
    <3>5. Contract!Publish(p, t)
      BY <1>2, <2>1, <2>3, <3>1, <3>2, <3>3, <3>4 DEF PublishRLock, Contract!Publish
    <3>. QED BY <3>5 DEF Contract!Next
  <2>. QED BY <2>2, <2>3
<1>3. CASE PublishDone(p)
  <2>1. streamOf' = streamOf
    BY <1>3 DEF PublishDone, streamOf, Running
  <2>2. msg[p] # NoMessage
    BY <1>3, MemoryPubSubAssumption DEF LockInv, PublishDone
  <2>3. Contract!Return(p)
    BY <1>3, <2>1, <2>2 DEF PublishDone, Contract!Return
  <2>. QED BY <2>3 DEF Contract!Next
<1>4. ASSUME NEW s \in Subscribers, PublishSend(p, s)
      PROVE  [Contract!Next]_Contract!vars
  <2>1. streamOf' = streamOf
    BY <1>4 DEF PublishSend, streamOf, Running
  <2>2. ~closed /\ ~chClosed[s] /\ streamOf[s] = "open" /\ Len(ch[s]) <= Buffer
    BY <1>4 DEF LockInv, MapInv, PublishSend, streamOf
  <2>3. CASE Len(ch[s]) < Buffer
    <3>1. Contract!Accept(p, s)
      BY <1>4, <2>1, <2>2, <2>3 DEF PublishSend, Contract!Accept
    <3>. QED BY <3>1 DEF Contract!Next
  <2>4. CASE Len(ch[s]) = Buffer
    <3>1. ch' = ch
      BY <1>4, <2>4, MemoryPubSubAssumption DEF PublishSend, TypeOK
    <3>2. Contract!Skip(p, s)
      BY <1>4, <2>1, <2>4, <3>1 DEF PublishSend, Contract!Skip
    <3>. QED BY <3>2 DEF Contract!Next
  <2>5. Len(ch[s]) \in Nat
    BY DEF TypeOK
  <2>. QED BY <2>2, <2>3, <2>4, <2>5, MemoryPubSubAssumption
<1>. QED BY <1>1, <1>2, <1>3, <1>4 DEF PublisherNext

LEMMA CloseRefines ==
  ASSUME IInv, NEW c \in Closers, CloserNext(c)
  PROVE  [Contract!Next]_Contract!vars
<1> USE DEF IInv, shared, subscribeVars, publishVars, closeVars, history
<1>1. CASE CloseBegin(c)
  <2>1. CASE closed
    BY <1>1, <2>1, HiddenStep DEF CloseBegin, Locked
  <2>2. CASE ~closed
    <3>1. streamOf' = streamOf
      BY <1>1 DEF CloseBegin, streamOf, Running
    <3>2. Contract!Close
      BY <1>1, <2>2, <3>1 DEF CloseBegin, Contract!Close
    <3>. QED BY <3>2 DEF Contract!Next
  <2>. QED BY <2>1, <2>2
<1>2. CASE CloseRemove(c)
  BY <1>2, HiddenStep DEF CloseRemove, Locked
<1>3. CASE CloseClose(c)
  <2>1. cur[c] \in Subscribers /\ Running(cur[c]) /\ closed
    BY <1>3 DEF CloseClose, CloserInv
  <2>2. streamOf' = [streamOf EXCEPT ![cur[c]] = "ended"]
    BY <1>3, <2>1 DEF CloseClose, CloseChannel, streamOf, Running, TypeOK
  <2>3. CASE chClosed[cur[c]]
    <3>1. streamOf' = streamOf
      BY <2>1, <2>2, <2>3 DEF streamOf
    <3>. QED BY <1>3, <3>1 DEF CloseClose, Contract!vars
  <2>4. CASE ~chClosed[cur[c]]
    <3>1. streamOf[cur[c]] = "open"
      BY <2>1, <2>4 DEF streamOf
    <3>2. Contract!End(cur[c])
      BY <1>3, <2>1, <2>2, <3>1 DEF CloseClose, Contract!End
    <3>. QED BY <2>1, <3>2 DEF Contract!Next
  <2>. QED BY <2>3, <2>4
<1>4. CASE CloseReturn(c)
  BY <1>4, HiddenStep DEF CloseReturn
<1>5. ASSUME NEW s \in Subscribers, CloseCancel(c, s)
      PROVE  [Contract!Next]_Contract!vars
  <2>1. streamOf' = streamOf
    BY <1>5 DEF CloseCancel, streamOf, Running
  <2>2. Contract!Cancel(s)
    BY <1>5, <2>1 DEF CloseCancel, Contract!Cancel
  <2>. QED BY <2>2 DEF Contract!Next
<1>. QED BY <1>1, <1>2, <1>3, <1>4, <1>5 DEF CloserNext

LEMMA NextRefines == IInv /\ [Next]_vars => [Contract!Next]_Contract!vars
<1> SUFFICES ASSUME IInv, [Next]_vars PROVE [Contract!Next]_Contract!vars
  OBVIOUS
<1>1. ASSUME NEW w \in Writer, LockBar(w) PROVE [Contract!Next]_Contract!vars
  BY <1>1, HiddenStep
  DEF LockBar, subscribeVars, publishVars, closeVars, history
<1>2. CASE UNCHANGED vars
  BY <1>2, HiddenStep DEF vars
<1>. QED BY <1>1, <1>2, SubscribeRefines, PublishRefines, CloseRefines DEF Next

\* The in-process implementation keeps the contract of package pubsub: every
\* active subscriber of the topic is addressed by every Publish, loses a message
\* only when its own buffer is full, and its stream ends only on cancel or Close.
THEOREM RefinesContract == Spec => ContractSpec
BY InitRefines, NextRefines, Invariance, PTL DEF Spec, ContractSpec, Contract!Spec
=============================================================================
