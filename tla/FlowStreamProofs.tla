-------------------------- MODULE FlowStreamProofs ---------------------------
(* Proofs about FlowStream.                                                 *)
EXTENDS FlowStream, TLAPS

LEMMA EventTypes ==
  /\ NoEvent \in Event
  /\ \A m \in Message : received \in Seq(Message) /\ sub \in Subscriber => News(m) \in Event
<1>1. NoEvent \in Event
  BY DEF NoEvent, Event
<1>2. ASSUME NEW m \in Message, received \in Seq(Message), sub \in Subscriber
      PROVE  News(m) \in Event
  <2>1. Len(received) + 1 \in Nat /\ m.flows \in BOOLEAN /\ m.dropped \in Nat
    BY <1>2, FlowBounds DEF Message
  <2> QED
    BY <2>1 DEF News, Event
<1> QED
  BY <1>1, <1>2

LEMMA StreamInitially == Init => TypeOK
<1> SUFFICES ASSUME Init PROVE TypeOK
  OBVIOUS
<1>1. sub \in Subscriber
  BY EventTypes DEF Init, Subscriber
<1>2. flowsCh \in [buf : Seq(Event), closed : BOOLEAN] /\ Len(flowsCh.buf) <= ChanCap
  BY FlowBounds DEF Init
<1>3. errCh \in [full : BOOLEAN, closed : BOOLEAN] /\ handler \in Handler
  BY DEF Init, Handler
<1>4. ctxDone \in BOOLEAN /\ sessionAlive \in BOOLEAN
  BY DEF Init
<1>5. received \in Seq(Message) /\ out \in Seq(Event)
  BY DEF Init
<1> QED
  BY <1>1, <1>2, <1>3, <1>4, <1>5 DEF TypeOK

\* The subscriber goroutine.
LEMMA SubscriberTypes ==
  ASSUME TypeOK, Subscribe
  PROVE  TypeOK'
<1> USE DEF TypeOK
<1>1. UNCHANGED <<handler, out, ctxDone, sessionAlive>>
  BY DEF Subscribe, GetFlows, GetFlowsFails, SendError, Recv, RecvFails, RecvEnds, SendFlows,
         SendAbandoned, CloseFlows, CloseErr
<1>2. CASE GetFlows \/ RecvEnds
  <2>1. PICK p \in {"recv", "closeFlows"} : sub' = [sub EXCEPT !.pc = p]
    BY <1>2 DEF GetFlows, RecvEnds, SubGoto
  <2>2. sub' \in Subscriber /\ UNCHANGED <<received, flowsCh, errCh>>
    BY <1>2, <2>1 DEF GetFlows, RecvEnds, Subscriber
  <2> QED
    BY <1>1, <2>2
<1>3. CASE GetFlowsFails \/ RecvFails
  <2>1. SendError
    BY <1>3 DEF GetFlowsFails, RecvFails
  <2>2. sub' \in Subscriber
    BY <2>1 DEF SendError, Subscriber
  <2>3. errCh' \in [full : BOOLEAN, closed : BOOLEAN]
    BY <2>1 DEF SendError
  <2> QED
    BY <1>1, <2>1, <2>2, <2>3 DEF SendError
<1>4. ASSUME NEW m \in Message, Recv(m) PROVE TypeOK'
  <2> DEFINE e == News(m)
             told == e.dropped > 0 \/ e.flows
  <2>1. e \in Event /\ NoEvent \in Event
    BY EventTypes
  <2>2. PICK p \in {"send", "recv"}, v \in Event, d \in Nat :
          sub' = [sub EXCEPT !.pc = p, !.evt = v, !.lastDropped = d]
    <3>1. sub' = [sub EXCEPT !.pc = IF told THEN "send" ELSE "recv",
                             !.evt = IF told THEN e ELSE NoEvent,
                             !.lastDropped = IF e.dropped > 0 THEN e.dropped ELSE sub.lastDropped]
      BY <1>4 DEF Recv
    <3>2. e.dropped \in Nat /\ sub.lastDropped \in Nat
      BY <2>1 DEF Event, Subscriber
    <3> HIDE DEF e, told
    <3> QED
      BY <2>1, <3>1, <3>2
  <2>3. sub' \in Subscriber
    BY <2>2 DEF Subscriber
  <2>4. received' \in Seq(Message) /\ UNCHANGED <<flowsCh, errCh>>
    BY <1>4 DEF Recv
  <2> QED
    BY <1>1, <2>3, <2>4
<1>5. CASE SendFlows
  <2>1. /\ sub.evt \in Event /\ flowsCh.buf \in Seq(Event) /\ Len(flowsCh.buf) < ChanCap
        /\ flowsCh' = [flowsCh EXCEPT !.buf = Append(flowsCh.buf, sub.evt)]
    BY <1>5 DEF SendFlows, Subscriber
  <2>2. Append(flowsCh.buf, sub.evt) \in Seq(Event) /\ Len(Append(flowsCh.buf, sub.evt)) <= ChanCap
    BY <2>1, FlowBounds
  <2>3. flowsCh' \in [buf : Seq(Event), closed : BOOLEAN] /\ Len(flowsCh'.buf) <= ChanCap
    BY <2>1, <2>2
  <2>4. sub' \in Subscriber /\ UNCHANGED <<received, errCh>>
    BY <1>5, EventTypes DEF SendFlows, Subscriber
  <2> QED
    BY <1>1, <2>3, <2>4
<1>6. CASE SendAbandoned
  <2>1. sub' \in Subscriber /\ UNCHANGED <<received, flowsCh, errCh>>
    BY <1>6, EventTypes DEF SendAbandoned, Subscriber
  <2> QED
    BY <1>1, <2>1
<1>7. CASE CloseFlows
  <2>1. sub' \in Subscriber /\ UNCHANGED <<received, errCh>>
    BY <1>7 DEF CloseFlows, SubGoto, Subscriber
  <2>2. flowsCh' \in [buf : Seq(Event), closed : BOOLEAN] /\ flowsCh'.buf = flowsCh.buf
    BY <1>7 DEF CloseFlows
  <2> QED
    BY <1>1, <2>1, <2>2
<1>8. CASE CloseErr
  <2>1. sub' \in Subscriber /\ UNCHANGED <<received, flowsCh>>
    BY <1>8 DEF CloseErr, SubGoto, Subscriber
  <2>2. errCh' \in [full : BOOLEAN, closed : BOOLEAN]
    BY <1>8 DEF CloseErr
  <2> QED
    BY <1>1, <2>1, <2>2
<1> QED
  BY <1>2, <1>3, <1>4, <1>5, <1>6, <1>7, <1>8 DEF Subscribe

\* The SSE handler.
LEMMA HandlerTypes ==
  ASSUME TypeOK, StreamFlows
  PROVE  TypeOK'
<1> USE DEF TypeOK
<1>1. UNCHANGED <<received, sub, ctxDone, sessionAlive>>
  BY DEF StreamFlows, OnCtxDone, OnTick, OnFlows, OnFlowsClosed, OnErr, OnErrClosed
<1>2. CASE Return /\ UNCHANGED <<flowsCh, errCh, out>>
  <2>1. handler' \in Handler
    BY <1>2 DEF Return, Handler
  <2> QED
    BY <1>1, <1>2, <2>1
<1>3. CASE OnTick
  <2>1. Return \/ UNCHANGED handler
    BY <1>3 DEF OnTick
  <2> QED
    BY <1>1, <1>2, <1>3, <2>1 DEF OnTick
<1>4. CASE OnFlows
  <2>1. flowsCh.buf \in Seq(Event) /\ flowsCh.buf # <<>> /\ Len(flowsCh.buf) <= ChanCap
    BY <1>4 DEF OnFlows
  <2>2. /\ Head(flowsCh.buf) \in Event /\ Tail(flowsCh.buf) \in Seq(Event)
        /\ Len(Tail(flowsCh.buf)) <= ChanCap
    BY <2>1, FlowBounds
  <2>3. flowsCh' = [flowsCh EXCEPT !.buf = Tail(flowsCh.buf)] /\ out' = Append(out, Head(flowsCh.buf))
    BY <1>4 DEF OnFlows
  <2>4. flowsCh' \in [buf : Seq(Event), closed : BOOLEAN] /\ Len(flowsCh'.buf) <= ChanCap
    BY <2>2, <2>3
  <2>5. out' \in Seq(Event)
    BY <2>2, <2>3
  <2> QED
    BY <1>1, <1>4, <2>4, <2>5 DEF OnFlows
<1>5. CASE OnErr
  <2>1. handler' \in Handler
    BY <1>5 DEF OnErr, Handler
  <2>2. errCh' \in [full : BOOLEAN, closed : BOOLEAN]
    BY <1>5 DEF OnErr
  <2> QED
    BY <1>1, <1>5, <2>1, <2>2 DEF OnErr
<1>6. CASE OnErrClosed
  <2>1. handler' \in Handler
    BY <1>6 DEF OnErrClosed, Handler
  <2> QED
    BY <1>1, <1>6, <2>1 DEF OnErrClosed
<1>7. CASE OnCtxDone \/ OnFlowsClosed
  BY <1>2, <1>7 DEF OnCtxDone, OnFlowsClosed
<1> QED
  BY <1>3, <1>4, <1>5, <1>6, <1>7 DEF StreamFlows

\* The goroutines and channels of a stream stay well typed, and flowsCh within its
\* capacity (Subscribe, StreamFlows).
THEOREM StreamTypeCorrect == Spec => []TypeOK
<1>1. TypeOK /\ [Next]_vars => TypeOK'
  <2> SUFFICES ASSUME TypeOK, [Next]_vars PROVE TypeOK'
    OBVIOUS
  <2>1. CASE UNCHANGED vars
    BY <2>1 DEF vars, TypeOK
  <2>2. CASE CtxCancelled
    <3>1. ctxDone' \in BOOLEAN
      BY <2>2 DEF CtxCancelled
    <3> QED
      BY <2>2, <3>1 DEF CtxCancelled, TypeOK
  <2>3. CASE SessionEnds
    <3>1. sessionAlive' \in BOOLEAN
      BY <2>3 DEF SessionEnds
    <3> QED
      BY <2>3, <3>1 DEF SessionEnds, TypeOK
  <2>4. QED
    BY <2>1, <2>2, <2>3, SubscriberTypes, HandlerTypes DEF Next, Over
<1> QED
  BY <1>1, StreamInitially, PTL DEF Spec
-----------------------------------------------------------------------------
(***************************************************************************)
(* The relay.  Between the browser and the aggregator the events lie in      *)
(* flowsCh and in the goroutine's hands: each is the relay of the first      *)
(* message worth relaying after the one before it, and after the last one    *)
(* nothing is, unless the goroutine gave an event up because the request is  *)
(* over.                                                                     *)
(***************************************************************************)

\* The last message relayed to the browser (0), or put in flowsCh as its i-th event.
Mark(i) == IF i = 0 THEN Feed!LastId(out) ELSE flowsCh.buf[i].id

\* lastDropped is the highest count received.
DroppedInv ==
  /\ \A k \in 1..Len(received) : received[k].dropped <= sub.lastDropped
  /\ sub.lastDropped = 0 \/ \E k \in 1..Len(received) : received[k].dropped = sub.lastDropped

\* Event e relays the message that follows message k.
Follows(e, k) == Feed!FirstAfter(received, k, e.id) /\ e = Feed!EventOf(received, e.id)

\* The events in flowsCh follow those written, and the one being sent follows them.
QueueInv ==
  /\ Feed!LastId(out) \in 0..Len(received)
  /\ \A i \in 1..Len(flowsCh.buf) : Follows(flowsCh.buf[i], Mark(i - 1))
  /\ SubAt("send") => Follows(sub.evt, Mark(Len(flowsCh.buf))) /\ sub.evt.id = Len(received)

\* Nothing else is left to relay, unless the goroutine has abandoned an event.
RestInv ==
  /\ SubAt("start") \/ SubAt("recv") \/ (~SubAt("send") /\ ~ctxDone)
       => Feed!CaughtUp(received, Mark(Len(flowsCh.buf)))
  /\ flowsCh.closed => SubAt("closeErr") \/ SubAt("done")

RelayInv == DroppedInv /\ QueueInv /\ RestInv

\* Another message changes nothing about how the earlier ones are relayed.
LEMMA RelayGrows ==
  ASSUME NEW r \in Seq(Message), NEW m \in Message, NEW q, q = Append(r, m)
  PROVE  /\ \A n \in 1..Len(r) : /\ n \in Feed!Relayed(q) <=> n \in Feed!Relayed(r)
                                 /\ Feed!EventOf(q, n) = Feed!EventOf(r, n)
         /\ Feed!Relayed(q) \subseteq Feed!Relayed(r) \cup {Len(r) + 1}
<1>1. Len(q) = Len(r) + 1 /\ Len(r) \in Nat /\ \A n \in 1..Len(r) : q[n] = r[n]
  OBVIOUS
<1>2. ASSUME NEW n \in 1..Len(r) PROVE Feed!MoreDropped(q, n) <=> Feed!MoreDropped(r, n)
  <2>1. \A k \in 1..n - 1 : k \in 1..Len(r)
    BY <1>1
  <2> QED
    BY <1>1, <2>1 DEF Feed!MoreDropped
<1>3. \A n \in 1..Len(r) : Feed!EventOf(q, n) = Feed!EventOf(r, n)
  BY <1>1, <1>2 DEF Feed!EventOf
<1>4. \A n \in 1..Len(r) : n \in Feed!Relayed(q) <=> n \in Feed!Relayed(r)
  BY <1>1, <1>2 DEF Feed!Relayed
<1>5. \A n \in Feed!Relayed(q) : n \in 1..Len(r) \/ n = Len(r) + 1
  BY <1>1 DEF Feed!Relayed
<1> QED
  BY <1>3, <1>4, <1>5

\* The goroutine makes of a message the event that relays it, if it is relayed at all.
LEMMA NewsRelays ==
  ASSUME TypeOK, DroppedInv, NEW m \in Message, NEW q, q = Append(received, m), NEW n, n = Len(received) + 1
  PROVE  /\ News(m) = Feed!EventOf(q, n)
         /\ n \in Feed!Relayed(q) <=> News(m).dropped > 0 \/ News(m).flows
<1>1. received \in Seq(Message) /\ sub.lastDropped \in Nat /\ m.dropped \in Nat
  BY FlowBounds DEF TypeOK, Subscriber, Message
<1>2. /\ Len(received) \in Nat /\ Len(q) = n /\ n \in Nat /\ q[n] = m
      /\ \A k \in 1..Len(received) : q[k] = received[k] /\ received[k].dropped \in Nat
  <2>1. Len(received) \in Nat /\ Len(q) = n /\ n \in Nat /\ q[n] = m
    BY <1>1
  <2>2. \A k \in 1..Len(received) : q[k] = received[k] /\ received[k] \in Message
    BY <1>1
  <2> QED
    BY <2>1, <2>2, FlowBounds DEF Message
<1>3. Feed!MoreDropped(q, n) <=> m.dropped > sub.lastDropped
  <2>1. ASSUME m.dropped > sub.lastDropped PROVE Feed!MoreDropped(q, n)
    <3>1. ASSUME NEW k \in 0..n - 1, k # 0 PROVE m.dropped > q[k].dropped
      <4>1. k \in 1..Len(received)
        BY <1>2, <3>1
      <4> QED
        BY <1>1, <1>2, <2>1, <4>1 DEF DroppedInv
    <3> QED
      BY <1>1, <1>2, <2>1, <3>1 DEF Feed!MoreDropped
  <2>2. ASSUME Feed!MoreDropped(q, n) PROVE m.dropped > sub.lastDropped
    <3>1. 0 \in 0..n - 1 /\ m.dropped > 0
      BY <1>2, <2>2 DEF Feed!MoreDropped
    <3>2. ASSUME NEW k \in 1..Len(received) PROVE m.dropped > received[k].dropped
      <4>1. k \in 0..n - 1 /\ k # 0
        BY <1>2
      <4> QED
        BY <1>2, <2>2, <4>1 DEF Feed!MoreDropped
    <3> QED
      BY <3>1, <3>2 DEF DroppedInv
  <2> QED
    BY <2>1, <2>2
<1>4. News(m) = Feed!EventOf(q, n)
  BY <1>2, <1>3 DEF News, Feed!EventOf
<1>5. n \in Feed!Relayed(q) <=> m.flows \/ m.dropped > sub.lastDropped
  BY <1>2, <1>3 DEF Feed!Relayed
<1> QED
  BY <1>1, <1>4, <1>5 DEF News
\* The steps that neither receive a message, nor put an event in flowsCh, nor take one out.
RelayQuiet ==
  /\ UNCHANGED <<received, out, flowsCh.buf, sub.lastDropped>>
  /\ SubAt("send")' => UNCHANGED sub
  /\ SubAt("start")' \/ SubAt("recv")' => SubAt("start") \/ SubAt("recv")
  /\ ~SubAt("send")' /\ ~ctxDone' => ~SubAt("send") /\ ~ctxDone
  /\ \/ SubAt("closeErr")'
     \/ UNCHANGED flowsCh.closed /\ (SubAt("closeErr") \/ SubAt("done") => SubAt("done")' \/ UNCHANGED sub)

LEMMA RelaySteps ==
  ASSUME TypeOK, [Next]_vars
  PROVE  (\E m \in Message : Recv(m)) \/ SendFlows \/ OnFlows \/ RelayQuiet
<1>1. sub \in Subscriber /\ flowsCh \in [buf : Seq(Event), closed : BOOLEAN]
  BY DEF TypeOK
<1>2. ASSUME NEW pc \in {"recv", "closeFlows", "closeErr", "done"}, SubGoto(pc)
      PROVE  sub'.pc = pc /\ sub'.lastDropped = sub.lastDropped /\ sub'.evt = sub.evt
  BY <1>1, <1>2 DEF SubGoto, Subscriber
<1>3. CASE GetFlows \/ RecvEnds
  BY <1>2, <1>3 DEF GetFlows, RecvEnds, SubAt, RelayQuiet
<1>4. CASE GetFlowsFails \/ RecvFails
  <2>1. SendError /\ (SubAt("start") \/ SubAt("recv"))
    BY <1>4 DEF GetFlowsFails, RecvFails
  <2>2. sub'.pc = "closeFlows" /\ sub'.lastDropped = sub.lastDropped
    BY <1>1, <2>1 DEF SendError, Subscriber
  <2> QED
    BY <2>1, <2>2 DEF SendError, SubAt, RelayQuiet
<1>5. CASE SendAbandoned
  <2>1. sub'.pc = "closeFlows" /\ sub'.lastDropped = sub.lastDropped
    BY <1>1, <1>5 DEF SendAbandoned, Subscriber
  <2> QED
    BY <1>5, <2>1 DEF SendAbandoned, SubAt, RelayQuiet
<1>6. CASE CloseFlows
  <2>1. flowsCh'.buf = flowsCh.buf
    BY <1>1, <1>6 DEF CloseFlows
  <2> QED
    BY <1>2, <1>6, <2>1 DEF CloseFlows, SubAt, RelayQuiet
<1>7. CASE CloseErr
  BY <1>2, <1>7 DEF CloseErr, SubAt, RelayQuiet
<1>8. CASE OnCtxDone \/ OnTick \/ OnFlowsClosed \/ OnErr \/ OnErrClosed
           \/ CtxCancelled \/ SessionEnds \/ UNCHANGED vars
  <2>1. UNCHANGED <<received, out, flowsCh, sub>> /\ (~ctxDone' => ~ctxDone)
    BY <1>8 DEF OnCtxDone, OnTick, OnFlowsClosed, OnErr, OnErrClosed, CtxCancelled, SessionEnds, vars
  <2> QED
    BY <2>1 DEF SubAt, RelayQuiet
<1> QED
  BY <1>3, <1>4, <1>5, <1>6, <1>7, <1>8 DEF Next, Subscribe, StreamFlows, Over

LEMMA MarkRange ==
  ASSUME TypeOK, QueueInv, NEW i \in 0..Len(flowsCh.buf)
  PROVE  Mark(i) \in 0..Len(received)
<1>1. received \in Seq(Message) /\ Len(received) \in Nat /\ flowsCh.buf \in Seq(Event)
  BY DEF TypeOK
<1>2. CASE i = 0
  BY <1>2 DEF Mark, QueueInv
<1>3. CASE i # 0
  <2>1. i \in 1..Len(flowsCh.buf)
    BY <1>1, <1>3
  <2>2. flowsCh.buf[i].id \in 1..Len(received)
    BY <2>1 DEF QueueInv, Follows, Feed!FirstAfter, Feed!Relayed
  <2> QED
    BY <1>1, <1>3, <2>2 DEF Mark
<1> QED
  BY <1>2, <1>3

\* A message arrives: what was to be relayed still is, in the same order, and the new
\* message comes last.
LEMMA RecvRelays ==
  ASSUME TypeOK, RelayInv, NEW m \in Message, Recv(m)
  PROVE  RelayInv'
<1>1. PICK q, n, e : q = Append(received, m) /\ n = Len(received) + 1 /\ e = News(m)
  OBVIOUS
<1>2. /\ received \in Seq(Message) /\ sub \in Subscriber /\ flowsCh.buf \in Seq(Event)
      /\ Len(received) \in Nat /\ n \in Nat /\ Len(q) = n
      /\ Len(flowsCh.buf) \in Nat /\ received' = q /\ UNCHANGED <<flowsCh, out, ctxDone>> /\ SubAt("recv")
  BY <1>1 DEF TypeOK, Recv
<1>3. e = Feed!EventOf(q, n) /\ (n \in Feed!Relayed(q) <=> e.dropped > 0 \/ e.flows) /\ e.id = n
  BY <1>1, NewsRelays DEF RelayInv, News
<1>4. /\ \A k \in 1..Len(received) : /\ k \in Feed!Relayed(q) <=> k \in Feed!Relayed(received)
                                     /\ Feed!EventOf(q, k) = Feed!EventOf(received, k)
      /\ Feed!Relayed(q) \subseteq Feed!Relayed(received) \cup {n}
  BY <1>1, <1>2, RelayGrows
<1>5. /\ sub'.pc = IF e.dropped > 0 \/ e.flows THEN "send" ELSE "recv"
      /\ sub'.evt = IF e.dropped > 0 \/ e.flows THEN e ELSE NoEvent
      /\ sub'.lastDropped = IF e.dropped > 0 THEN e.dropped ELSE sub.lastDropped
  BY <1>1, <1>2 DEF Recv, Subscriber
<1>6. \A i : Mark(i)' = Mark(i)
  BY <1>2 DEF Mark
<1>7. \A v, k : Follows(v, k) => Feed!FirstAfter(q, k, v.id) /\ v = Feed!EventOf(q, v.id)
  <2> SUFFICES ASSUME NEW v, NEW k, Follows(v, k)
               PROVE  Feed!FirstAfter(q, k, v.id) /\ v = Feed!EventOf(q, v.id)
    OBVIOUS
  <2>1. v.id \in 1..Len(received) /\ v.id \in Feed!Relayed(received)
    BY DEF Follows, Feed!FirstAfter, Feed!Relayed
  <2>2. \A j \in Feed!Relayed(q) : j > k => v.id <= j
    <3> SUFFICES ASSUME NEW j \in Feed!Relayed(q), j > k PROVE v.id <= j
      OBVIOUS
    <3>1. CASE j \in Feed!Relayed(received)
      BY <3>1 DEF Follows, Feed!FirstAfter
    <3>2. CASE j = n
      BY <1>1, <1>2, <2>1, <3>2
    <3> QED
      BY <1>4, <3>1, <3>2
  <2> QED
    BY <1>4, <2>1, <2>2 DEF Follows, Feed!FirstAfter
<1>8. DroppedInv'
  <2>1. m.dropped \in Nat /\ sub.lastDropped \in Nat
    BY <1>2, FlowBounds DEF Message, Subscriber
  <2>2. sub'.lastDropped = IF m.dropped > sub.lastDropped THEN m.dropped ELSE sub.lastDropped
    BY <1>1, <1>5, <2>1 DEF News
  <2>3. q[n] = m /\ \A k \in 1..Len(received) : q[k] = received[k] /\ received[k].dropped \in Nat
    <3>1. \A k \in 1..Len(received) : received[k] \in Message
      BY <1>2
    <3> QED
      BY <1>1, <1>2, <3>1, FlowBounds DEF Message
  <2>4. ASSUME NEW k \in 1..n PROVE q[k].dropped <= sub'.lastDropped
    <3>1. CASE k = n
      BY <2>1, <2>2, <2>3, <3>1
    <3>2. CASE k # n
      <4>1. k \in 1..Len(received)
        BY <1>1, <1>2, <3>2
      <4> QED
        BY <2>1, <2>2, <2>3, <4>1 DEF RelayInv, DroppedInv
    <3> QED
      BY <3>1, <3>2
  <2>5. sub'.lastDropped = 0 \/ \E k \in 1..n : q[k].dropped = sub'.lastDropped
    <3>1. n \in 1..n /\ \A k \in 1..Len(received) : k \in 1..n
      BY <1>1, <1>2
    <3> QED
      BY <2>2, <2>3, <3>1 DEF RelayInv, DroppedInv
  <2> QED
    BY <1>2, <2>4, <2>5 DEF DroppedInv
<1>9. Mark(Len(flowsCh.buf)) \in 0..Len(received) /\ Feed!CaughtUp(received, Mark(Len(flowsCh.buf)))
  BY <1>2, MarkRange DEF RelayInv, RestInv
<1>10. QueueInv'
  <2>1. Feed!LastId(out)' \in 0..Len(received')
    BY <1>1, <1>2 DEF RelayInv, QueueInv
  <2>2. \A i \in 1..Len(flowsCh.buf) : Follows(flowsCh.buf[i], Mark(i - 1))'
    BY <1>2, <1>6, <1>7 DEF RelayInv, QueueInv, Follows
  <2>3. SubAt("send")' => Follows(sub.evt, Mark(Len(flowsCh.buf)))' /\ sub'.evt.id = Len(received')
    <3> SUFFICES ASSUME SubAt("send")'
                 PROVE  Follows(sub.evt, Mark(Len(flowsCh.buf)))' /\ sub'.evt.id = Len(received')
      OBVIOUS
    <3>1. sub'.evt = e /\ n \in Feed!Relayed(q)
      BY <1>3, <1>5 DEF SubAt
    <3>2. PICK k : k = Mark(Len(flowsCh.buf)) /\ k = Mark(Len(flowsCh.buf))'
      BY <1>2, <1>6
    <3>3. \A j \in Feed!Relayed(q) : j > k => n <= j
      <4> SUFFICES ASSUME NEW j \in Feed!Relayed(q), j > k, j # n PROVE FALSE
        BY <1>2
      <4>1. j \in Feed!Relayed(received) /\ j \in 1..Len(received)
        BY <1>4 DEF Feed!Relayed
      <4> QED
        BY <1>2, <1>9, <3>2, <4>1 DEF Feed!CaughtUp
    <3>4. n > k
      BY <1>1, <1>2, <1>9, <3>2
    <3>5. Feed!FirstAfter(q, k, n)
      BY <3>1, <3>3, <3>4 DEF Feed!FirstAfter
    <3> QED
      BY <1>2, <1>3, <3>1, <3>2, <3>5 DEF Follows
  <2> QED
    BY <1>2, <2>1, <2>2, <2>3 DEF QueueInv
<1>11. RestInv'
  <2>1. ~flowsCh.closed
    BY <1>2 DEF RelayInv, RestInv, SubAt
  <2>2. ASSUME ~SubAt("send")' PROVE Feed!CaughtUp(received, Mark(Len(flowsCh.buf)))'
    <3>1. n \notin Feed!Relayed(q)
      BY <1>3, <1>5, <2>2 DEF SubAt
    <3>2. Feed!Relayed(q) \subseteq Feed!Relayed(received)
      BY <1>4, <3>1
    <3> QED
      BY <1>2, <1>6, <1>9, <3>2 DEF Feed!CaughtUp
  <2> QED
    BY <1>2, <2>1, <2>2 DEF RestInv, SubAt
<1> QED
  BY <1>8, <1>10, <1>11 DEF RelayInv
LEMMA LastIdAppend ==
  ASSUME NEW s \in Seq(Event), NEW e \in Event
  PROVE  Feed!LastId(Append(s, e)) = e.id
<1>1. Append(s, e) # <<>> /\ Append(s, e)[Len(Append(s, e))] = e
  OBVIOUS
<1> QED
  BY <1>1 DEF Feed!LastId

\* The event in the goroutine's hands goes to the end of the queue.
LEMMA SendRelays ==
  ASSUME TypeOK, RelayInv, SendFlows
  PROVE  RelayInv'
<1>1. PICK b, c, e, l : /\ b = flowsCh.buf /\ c = flowsCh'.buf /\ e = sub.evt /\ l = Len(flowsCh.buf)
  OBVIOUS
<1>2. /\ b \in Seq(Event) /\ e \in Event /\ l \in Nat /\ sub \in Subscriber /\ SubAt("send")
      /\ UNCHANGED <<received, out, ctxDone>> /\ received \in Seq(Message) /\ Len(received) \in Nat
  BY <1>1 DEF TypeOK, SendFlows, Subscriber
<1>3. c = Append(b, e) /\ flowsCh'.closed = flowsCh.closed
  BY <1>1 DEF SendFlows, TypeOK
<1>4. Len(c) = l + 1 /\ c[l + 1] = e /\ \A i \in 1..l : c[i] = b[i]
  BY <1>1, <1>2, <1>3
<1>5. sub'.pc = "recv" /\ sub'.lastDropped = sub.lastDropped
  BY <1>2 DEF SendFlows, Subscriber
<1>6. /\ \A i \in 0..l : Mark(i)' = Mark(i)
      /\ Mark(l + 1)' = e.id
  <2>1. l + 1 # 0 /\ \A i \in 0..l : i # 0 => i \in 1..l
    BY <1>2
  <2> QED
    BY <1>1, <1>2, <1>4, <2>1 DEF Mark
<1>7. Follows(e, Mark(l)) /\ e.id = Len(received)
  BY <1>1, <1>2 DEF RelayInv, QueueInv
<1>8. QueueInv'
  <2>1. ASSUME NEW i \in 1..l + 1 PROVE Follows(flowsCh.buf[i], Mark(i - 1))'
    <3>1. CASE i = l + 1
      <4>1. Mark(i - 1)' = Mark(l)
        BY <1>2, <1>6, <3>1
      <4> QED
        BY <1>1, <1>2, <1>4, <1>7, <3>1, <4>1 DEF Follows
    <3>2. CASE i # l + 1
      <4>1. i \in 1..l /\ i - 1 \in 0..l
        BY <1>2, <3>2
      <4>2. Follows(flowsCh.buf[i], Mark(i - 1))
        BY <1>1, <4>1 DEF RelayInv, QueueInv
      <4>3. flowsCh'.buf[i] = flowsCh.buf[i] /\ Mark(i - 1)' = Mark(i - 1)
        BY <1>1, <1>4, <1>6, <4>1
      <4> QED
        BY <1>2, <4>2, <4>3 DEF Follows
    <3> QED
      BY <3>1, <3>2
  <2>2. ~SubAt("send")'
    BY <1>5 DEF SubAt
  <2> QED
    BY <1>1, <1>2, <1>4, <2>1, <2>2 DEF RelayInv, QueueInv
<1>9. RestInv'
  <2>1. ~flowsCh'.closed
    BY <1>2, <1>3 DEF RelayInv, RestInv, SubAt
  <2>2. Mark(Len(flowsCh.buf))' = Len(received)
    BY <1>1, <1>4, <1>6, <1>7
  <2>3. Feed!CaughtUp(received, Len(received))
    BY <1>2 DEF Feed!CaughtUp, Feed!Relayed
  <2> QED
    BY <1>2, <2>1, <2>2, <2>3 DEF RestInv
<1>10. DroppedInv'
  BY <1>2, <1>5 DEF RelayInv, DroppedInv
<1> QED
  BY <1>8, <1>9, <1>10 DEF RelayInv

\* The first event of the queue is written to the browser.
LEMMA WriteRelays ==
  ASSUME TypeOK, RelayInv, OnFlows
  PROVE  RelayInv' /\ Follows(Head(flowsCh.buf), Feed!LastId(out))
<1>1. PICK b, c, e, l : b = flowsCh.buf /\ c = flowsCh'.buf /\ e = Head(b) /\ l = Len(b)
  OBVIOUS
<1>2. /\ b \in Seq(Event) /\ b # <<>> /\ l \in Nat /\ out \in Seq(Event)
      /\ UNCHANGED <<received, sub, ctxDone>> /\ out' = Append(out, e)
      /\ c = Tail(b) /\ flowsCh'.closed = flowsCh.closed
  BY <1>1 DEF TypeOK, OnFlows
<1>3. /\ e = b[1] /\ e \in Event /\ 1 \in 1..l /\ Len(c) = l - 1
      /\ \A i \in 1..l - 1 : c[i] = b[i + 1]
  BY <1>1, <1>2
<1>4. \A i \in 0..l - 1 : Mark(i)' = Mark(i + 1)
  <2> SUFFICES ASSUME NEW i \in 0..l - 1 PROVE Mark(i)' = Mark(i + 1)
    OBVIOUS
  <2>1. i + 1 # 0 /\ Mark(i + 1) = b[i + 1].id
    BY <1>1, <1>2 DEF Mark
  <2>2. CASE i = 0
    <3>1. Mark(0)' = Feed!LastId(out')
      BY DEF Mark, Feed!LastId
    <3> QED
      BY <1>2, <1>3, <2>1, <2>2, <3>1, LastIdAppend
  <2>3. CASE i # 0
    <3>1. i \in 1..l - 1
      BY <1>2, <2>3
    <3>2. Mark(i)' = c[i].id
      BY <1>1, <2>3 DEF Mark
    <3> QED
      BY <1>3, <2>1, <3>1, <3>2
  <2> QED
    BY <2>2, <2>3
<1>5. Follows(e, Feed!LastId(out))
  <2>1. Follows(flowsCh.buf[1], Mark(1 - 1))
    BY <1>1, <1>3 DEF RelayInv, QueueInv
  <2> QED
    BY <1>1, <1>3, <2>1 DEF Mark
<1>6. Mark(Len(flowsCh.buf))' = Mark(Len(flowsCh.buf))
  <2>1. l - 1 \in 0..l - 1 /\ (l - 1) + 1 = l
    BY <1>2, <1>3
  <2>2. Mark(l - 1)' = Mark(l)
    BY <1>4, <2>1
  <2> QED
    BY <1>1, <1>3, <2>2
<1>7. QueueInv'
  <2>1. ASSUME NEW i \in 1..l - 1 PROVE Follows(flowsCh.buf[i], Mark(i - 1))'
    <3>1. i + 1 \in 1..l /\ i - 1 \in 0..l - 1 /\ (i - 1) + 1 = i /\ (i + 1) - 1 = i
      BY <1>2
    <3>2. Follows(flowsCh.buf[i + 1], Mark((i + 1) - 1))
      BY <1>1, <3>1 DEF RelayInv, QueueInv
    <3>3. flowsCh'.buf[i] = flowsCh.buf[i + 1] /\ Mark(i - 1)' = Mark((i + 1) - 1)
      BY <1>1, <1>3, <1>4, <3>1
    <3> QED
      BY <1>2, <3>2, <3>3 DEF Follows
  <2>2. Feed!LastId(out') \in 0..Len(received)
    <3>1. Feed!LastId(out') = e.id
      BY <1>2, <1>3, LastIdAppend
    <3>2. e.id \in 1..Len(received)
      BY <1>5 DEF Follows, Feed!FirstAfter, Feed!Relayed
    <3> QED
      BY <3>1, <3>2
  <2>3. SubAt("send")' => Follows(sub.evt, Mark(Len(flowsCh.buf)))' /\ sub'.evt.id = Len(received')
    BY <1>2, <1>6 DEF RelayInv, QueueInv, SubAt, Follows
  <2>4. Feed!LastId(out)' = Feed!LastId(out')
    BY DEF Feed!LastId
  <2> QED
    BY <1>1, <1>2, <1>3, <2>1, <2>2, <2>3, <2>4 DEF QueueInv
<1>8. RestInv'
  BY <1>2, <1>6 DEF RelayInv, RestInv, SubAt
<1>9. DroppedInv'
  BY <1>2 DEF RelayInv, DroppedInv
<1> QED
  BY <1>1, <1>5, <1>7, <1>8, <1>9 DEF RelayInv

LEMMA RelayStep == TypeOK /\ RelayInv /\ [Next]_vars => RelayInv'
<1> SUFFICES ASSUME TypeOK, RelayInv, [Next]_vars PROVE RelayInv'
  OBVIOUS
<1>1. CASE RelayQuiet
  <2>1. \A i : Mark(i)' = Mark(i)
    BY <1>1 DEF RelayQuiet, Mark
  <2>2. UNCHANGED <<received, out, flowsCh.buf, sub.lastDropped>>
    BY <1>1 DEF RelayQuiet
  <2>3. DroppedInv'
    BY <2>2 DEF RelayInv, DroppedInv
  <2>4. QueueInv'
    <3>1. \A v, k : Follows(v, k)' <=> Follows(v, k)
      BY <2>2 DEF Follows
    <3>2. \A i \in 1..Len(flowsCh.buf) : Follows(flowsCh.buf[i], Mark(i - 1))'
      BY <2>1, <2>2 DEF RelayInv, QueueInv, Follows
    <3>3. SubAt("send")' => Follows(sub.evt, Mark(Len(flowsCh.buf)))' /\ sub'.evt.id = Len(received')
      BY <1>1, <2>1, <2>2 DEF RelayInv, QueueInv, Follows, RelayQuiet, SubAt
    <3> QED
      BY <2>2, <3>2, <3>3 DEF RelayInv, QueueInv
  <2>5. RestInv'
    <3>1. Mark(Len(flowsCh.buf))' = Mark(Len(flowsCh.buf))
      BY <2>1, <2>2
    <3>2. SubAt("start")' \/ SubAt("recv")' \/ (~SubAt("send")' /\ ~ctxDone')
            => Feed!CaughtUp(received, Mark(Len(flowsCh.buf)))'
      BY <1>1, <2>2, <3>1 DEF RelayInv, RestInv, RelayQuiet
    <3>3. flowsCh'.closed => SubAt("closeErr")' \/ SubAt("done")'
      BY <1>1 DEF RelayInv, RestInv, RelayQuiet, SubAt
    <3> QED
      BY <3>2, <3>3 DEF RestInv
  <2> QED
    BY <2>3, <2>4, <2>5 DEF RelayInv
<1> QED
  BY <1>1, RelaySteps, RecvRelays, SendRelays, WriteRelays

LEMMA RelayInvariant == Spec => [](TypeOK /\ RelayInv)
<1>1. Init => RelayInv
  <2> SUFFICES ASSUME Init PROVE RelayInv
    OBVIOUS
  <2>1. received = <<>> /\ out = <<>> /\ flowsCh.buf = <<>> /\ ~flowsCh.closed
        /\ sub.lastDropped = 0 /\ SubAt("start")
    BY DEF Init, SubAt
  <2>2. Feed!LastId(out) = 0
    BY <2>1 DEF Feed!LastId
  <2>3. Feed!CaughtUp(received, Mark(Len(flowsCh.buf)))
    BY <2>1 DEF Feed!CaughtUp, Feed!Relayed
  <2> QED
    BY <2>1, <2>2, <2>3 DEF RelayInv, DroppedInv, QueueInv, RestInv, SubAt
<1> QED
  BY <1>1, StreamTypeCorrect, RelayStep, PTL DEF Spec

\* What the browser gets is a gapless relay, in order, of what the aggregator sent: a
\* stream, with its goroutine and its two channels, implements FlowFeed (Subscribe,
\* StreamFlows).
THEOREM StreamImplementsFeed == Spec => ImplementsFeed
<1>1. Init => Feed!Init
  BY DEF Init, Feed!Init
<1>2. ASSUME TypeOK, RelayInv, [Next]_vars
      PROVE  [Feed!Receive \/ Feed!Deliver \/ Feed!Close]_<<received, out, handler.pc = "select">>
  <2>1. handler \in Handler /\ out \in Seq(Event)
    BY <1>2 DEF TypeOK
  <2>2. ASSUME NEW m \in Message, Recv(m) PROVE Feed!Receive
    BY <2>2 DEF Recv, Feed!Receive
  <2>3. CASE OnFlows
    <3>1. PICK e, n : e = Head(flowsCh.buf) /\ n = e.id
      OBVIOUS
    <3>2. Follows(e, Feed!LastId(out))
      BY <1>2, <2>3, <3>1, WriteRelays
    <3>3. /\ n \in 1..Len(received) /\ Feed!FirstAfter(received, Feed!LastId(out), n)
          /\ e = Feed!EventOf(received, n)
      BY <3>1, <3>2 DEF Follows, Feed!FirstAfter, Feed!Relayed
    <3>4. /\ handler.pc = "select" /\ out' = Append(out, e) /\ UNCHANGED <<received, handler>>
      BY <2>3, <3>1 DEF OnFlows, Selecting
    <3> QED
      BY <3>3, <3>4 DEF Feed!Deliver
  <2>4. CASE Return /\ Selecting /\ UNCHANGED <<received, out>>
    <3>1. handler'.pc = "closed" /\ handler.pc = "select"
      BY <2>1, <2>4 DEF Return, Selecting, Handler
    <3> QED
      BY <2>4, <3>1 DEF Feed!Close
  <2>5. CASE OnErr
    <3>1. handler'.pc = "closed" /\ handler.pc = "select"
      BY <2>1, <2>5 DEF OnErr, Selecting, Handler
    <3> QED
      BY <2>5, <3>1 DEF OnErr, Feed!Close
  <2>6. CASE OnErrClosed
    <3>1. handler'.pc = handler.pc
      BY <2>1, <2>6 DEF OnErrClosed, Handler
    <3> QED
      BY <2>6, <3>1 DEF OnErrClosed
  <2>7. CASE OnTick
    BY <2>4, <2>7 DEF OnTick
  <2>8. CASE OnCtxDone \/ OnFlowsClosed
    BY <2>4, <2>8 DEF OnCtxDone, OnFlowsClosed
  <2>9. ASSUME UNCHANGED <<received, out, handler>>
        PROVE  UNCHANGED <<received, out, handler.pc = "select">>
    BY <2>9
  <2>10. CASE Subscribe
    BY <2>2, <2>9, <2>10 DEF Subscribe, GetFlows, GetFlowsFails, SendError, RecvFails, RecvEnds,
       SendFlows, SendAbandoned, CloseFlows, CloseErr
  <2>11. CASE CtxCancelled \/ SessionEnds \/ UNCHANGED vars
    BY <2>9, <2>11 DEF CtxCancelled, SessionEnds, vars
  <2> QED
    BY <1>2, <2>3, <2>5, <2>6, <2>7, <2>8, <2>10, <2>11 DEF Next, StreamFlows, Over
<1> QED
  BY <1>1, <1>2, RelayInvariant, PTL DEF Spec, ImplementsFeed, Feed!Spec

\* There is an error to report only once the goroutine sends no more.
ErrInv == errCh.full => sub.pc \in {"closeFlows", "closeErr", "done"}

LEMMA ErrorsComeLast == Spec => []ErrInv
<1>1. Init => ErrInv
  BY DEF Init, ErrInv
<1>2. TypeOK /\ ErrInv /\ [Next]_vars => ErrInv'
  <2> SUFFICES ASSUME TypeOK, ErrInv, [Next]_vars PROVE ErrInv'
    OBVIOUS
  <2>1. sub \in Subscriber /\ errCh \in [full : BOOLEAN, closed : BOOLEAN]
    BY DEF TypeOK
  <2>2. CASE GetFlowsFails \/ RecvFails \/ CloseFlows
    BY <2>1, <2>2 DEF GetFlowsFails, RecvFails, SendError, CloseFlows, SubGoto, Subscriber, ErrInv
  <2>3. CASE CloseErr
    BY <2>1, <2>3 DEF CloseErr, SubGoto, Subscriber, ErrInv
  <2>4. ASSUME UNCHANGED errCh, SubAt("start") \/ SubAt("recv") \/ SubAt("send") PROVE ErrInv'
    BY <2>4 DEF ErrInv, SubAt
  <2>5. ASSUME UNCHANGED sub, errCh'.full => errCh.full PROVE ErrInv'
    BY <2>5 DEF ErrInv
  <2>6. CASE Subscribe
    BY <2>2, <2>3, <2>4, <2>6 DEF Subscribe, GetFlows, Recv, RecvEnds, SendFlows, SendAbandoned
  <2>7. CASE OnErr \/ OnErrClosed
    BY <2>1, <2>5, <2>7 DEF OnErr, OnErrClosed
  <2> QED
    BY <2>5, <2>6, <2>7 DEF Next, StreamFlows, OnCtxDone, OnTick, OnFlows, OnFlowsClosed,
       CtxCancelled, SessionEnds, Over, vars
<1> QED
  BY <1>1, <1>2, StreamTypeCorrect, PTL DEF Spec

\* A stream that neither its client nor its session ends has delivered everything it
\* received (StreamFlows: errCh = nil, and the closed flowsCh drained), or reports an error
\* and loses nothing but the events still in flowsCh.
THEOREM StreamsEndComplete == Spec => CompleteAtEnd
<1>1. ASSUME TypeOK, RelayInv, ErrInv, [Next]_vars,
             Selecting, handler'.pc = "closed", ~ctxDone, sessionAlive
      PROVE  Feed!CaughtUp(received, Feed!LastId(IF handler'.told THEN out \o flowsCh.buf ELSE out))
  <2>1. handler \in Handler /\ handler.pc # handler'.pc
    BY <1>1 DEF TypeOK, Selecting
  <2>2. OnFlowsClosed \/ OnErr
    <3>1. ~OnErrClosed
      BY <2>1 DEF OnErrClosed, Handler
    <3>2. ~OnTick /\ ~OnCtxDone
      BY <1>1, <2>1 DEF OnTick, OnCtxDone
    <3>3. ~OnFlows /\ ~Subscribe /\ ~CtxCancelled /\ ~SessionEnds /\ ~UNCHANGED vars
      BY <2>1 DEF OnFlows, Subscribe, GetFlows, GetFlowsFails, SendError, Recv, RecvFails, RecvEnds,
         SendFlows, SendAbandoned, CloseFlows, CloseErr, CtxCancelled, SessionEnds, vars
    <3> QED
      BY <1>1, <3>1, <3>2, <3>3 DEF Next, StreamFlows, Over
  <2>3. Feed!CaughtUp(received, Mark(Len(flowsCh.buf)))
    BY <1>1, <2>2 DEF OnFlowsClosed, OnErr, ErrInv, RelayInv, RestInv, SubAt
  <2>4. Mark(Len(flowsCh.buf)) = Feed!LastId(out \o flowsCh.buf)
    <3>1. PICK b, l : b = flowsCh.buf /\ l = Len(b)
      OBVIOUS
    <3>2. b \in Seq(Event) /\ out \in Seq(Event) /\ l \in Nat
      BY <1>1, <3>1 DEF TypeOK
    <3>3. CASE b = <<>>
      <4>1. out \o b = out /\ l = 0
        BY <3>1, <3>2, <3>3
      <4> QED
        BY <3>1, <4>1 DEF Mark
    <3>4. CASE b # <<>>
      <4>1. l # 0 /\ Len(out \o b) = Len(out) + l /\ (out \o b)[Len(out) + l] = b[l]
        BY <3>1, <3>2, <3>4
      <4>2. out \o b # <<>>
        BY <3>2, <4>1
      <4> QED
        BY <3>1, <4>1, <4>2 DEF Mark, Feed!LastId
    <3> QED
      BY <3>3, <3>4
  <2>5. CASE OnErr
    <3>1. handler'.told
      BY <2>1, <2>5 DEF OnErr, Handler
    <3> QED
      BY <2>3, <2>4, <3>1
  <2>6. CASE OnFlowsClosed
    <3>1. Mark(Len(flowsCh.buf)) = Feed!LastId(out)
      BY <2>6 DEF OnFlowsClosed, Mark
    <3> QED
      BY <2>3, <2>4, <3>1
  <2> QED
    BY <2>2, <2>5, <2>6
<1>2. TypeOK /\ RelayInv /\ ErrInv /\ [Next]_vars =>
        [Selecting /\ handler'.pc = "closed" /\ ~ctxDone /\ sessionAlive
           => Feed!CaughtUp(received, Feed!LastId(IF handler'.told THEN out \o flowsCh.buf ELSE out))]_vars
  BY <1>1
<1> QED
  BY <1>2, RelayInvariant, ErrorsComeLast, PTL DEF Spec, CompleteAtEnd
=============================================================================
