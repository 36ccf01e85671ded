----------------------------- MODULE FlowStream -----------------------------
(***************************************************************************)
(* One flow stream (pkg/handlers/flowstream): the goroutine that reads the  *)
(* Flow Aggregator's gRPC stream (Subscribe), the SSE handler that writes   *)
(* to the browser (StreamFlows), and the two channels between them.         *)
(*                                                                         *)
(* The handler's select takes any case that is ready.  A message is told    *)
(* apart by its number, whether it carries flows, and the cumulative count  *)
(* of dropped flows it reports.                                             *)
(*                                                                         *)
(* An operator named Def_Slip is Def with one plausible slip in it; it is   *)
(* used only to confirm that a property would notice the slip.              *)
(***************************************************************************)
EXTENDS Naturals, Sequences

CONSTANTS
  ChanCap,       \* capacity of flowsCh
  MaxDropped,    \* bound: highest dropped count reported
  MaxMessages    \* bound: messages received

ASSUME FlowBounds == ChanCap \in Nat \ {0} /\ MaxDropped \in Nat /\ MaxMessages \in Nat

VARIABLES
  received,      \* history: the messages of the gRPC stream
  sub,           \* the subscriber goroutine
  flowsCh, errCh,
  handler,       \* the SSE handler
  out,           \* the events written to the browser
  ctxDone,       \* the request's context is cancelled
  sessionAlive   \* what KeepAlive would report

vars == <<received, sub, flowsCh, errCh, handler, out, ctxDone, sessionAlive>>

Message == [flows : BOOLEAN, dropped : 0..MaxDropped]

Event == [id : Nat, flows : BOOLEAN, dropped : Nat]

NoEvent == [id |-> 0, flows |-> FALSE, dropped |-> 0]

Init ==
  /\ received = <<>>
  /\ sub = [pc |-> "start", evt |-> NoEvent, lastDropped |-> 0, failed |-> FALSE]
  /\ flowsCh = [buf |-> <<>>, closed |-> FALSE]
  /\ errCh = [full |-> FALSE, closed |-> FALSE]
  /\ handler = [pc |-> "select", errCh |-> TRUE, told |-> FALSE]
  /\ out = <<>>
  /\ ctxDone = FALSE
  /\ sessionAlive = TRUE

-----------------------------------------------------------------------------
(* The subscriber goroutine *)

SubAt(pc) == sub.pc = pc

SubGoto(pc) == sub' = [sub EXCEPT !.pc = pc]

GetFlows ==
  /\ SubAt("start")
  /\ SubGoto("recv")
  /\ UNCHANGED <<received, flowsCh, errCh, handler, out, ctxDone, sessionAlive>>

\* An error is put in errCh, which has room for one, and the goroutine ends.
SendError ==
  /\ sub' = [sub EXCEPT !.pc = "closeFlows", !.failed = TRUE]
  /\ errCh' = [errCh EXCEPT !.full = TRUE]
  /\ UNCHANGED <<received, flowsCh, handler, out, ctxDone, sessionAlive>>

GetFlowsFails == SubAt("start") /\ SendError

\* The event made of a message
News(m) == [id |-> Len(received) + 1, flows |-> m.flows,
            dropped |-> IF m.dropped > sub.lastDropped THEN m.dropped ELSE 0]

\* Bound: MaxMessages.
Recv(m) ==
  LET evt == News(m) IN
  /\ SubAt("recv")
  /\ Len(received) < MaxMessages
  /\ received' = Append(received, m)
  /\ sub' = [sub EXCEPT !.pc = IF evt.dropped > 0 \/ evt.flows THEN "send" ELSE "recv",
                        !.evt = IF evt.dropped > 0 \/ evt.flows THEN evt ELSE NoEvent,
                        !.lastDropped = IF evt.dropped > 0 THEN evt.dropped ELSE @]
  /\ UNCHANGED <<flowsCh, errCh, handler, out, ctxDone, sessionAlive>>

RecvFails == SubAt("recv") /\ ~ctxDone /\ SendError

\* io.EOF, or any error once the context is cancelled
RecvEnds ==
  /\ SubAt("recv")
  /\ SubGoto("closeFlows")
  /\ UNCHANGED <<received, flowsCh, errCh, handler, out, ctxDone, sessionAlive>>

SendFlows_DropsWhenFull ==
  /\ SubAt("send")
  /\ flowsCh' = IF Len(flowsCh.buf) < ChanCap
                THEN [flowsCh EXCEPT !.buf = Append(@, sub.evt)] ELSE flowsCh
  /\ sub' = [sub EXCEPT !.pc = "recv", !.evt = NoEvent]
  /\ UNCHANGED <<received, errCh, handler, out, ctxDone, sessionAlive>>

SendFlows ==
  /\ SubAt("send")
  /\ Len(flowsCh.buf) < ChanCap
  /\ flowsCh' = [flowsCh EXCEPT !.buf = Append(@, sub.evt)]
  /\ sub' = [sub EXCEPT !.pc = "recv", !.evt = NoEvent]
  /\ UNCHANGED <<received, errCh, handler, out, ctxDone, sessionAlive>>

SendAbandoned_Never == FALSE /\ UNCHANGED vars

SendAbandoned ==
  /\ SubAt("send")
  /\ ctxDone
  /\ sub' = [sub EXCEPT !.pc = "closeFlows", !.evt = NoEvent]
  /\ UNCHANGED <<received, flowsCh, errCh, handler, out, ctxDone, sessionAlive>>

\* The deferred closes
CloseFlows ==
  /\ SubAt("closeFlows")
  /\ flowsCh' = [flowsCh EXCEPT !.closed = TRUE]
  /\ SubGoto("closeErr")
  /\ UNCHANGED <<received, errCh, handler, out, ctxDone, sessionAlive>>

CloseErr ==
  /\ SubAt("closeErr")
  /\ errCh' = [errCh EXCEPT !.closed = TRUE]
  /\ SubGoto("done")
  /\ UNCHANGED <<received, flowsCh, handler, out, ctxDone, sessionAlive>>

-----------------------------------------------------------------------------
(* The SSE handler: the cases of its select *)

Selecting == handler.pc = "select"

Return == handler' = [handler EXCEPT !.pc = "closed"]

OnCtxDone ==
  /\ Selecting
  /\ ctxDone
  /\ Return
  /\ UNCHANGED <<received, sub, flowsCh, errCh, out, ctxDone, sessionAlive>>

OnTick_NoCheck == Selecting /\ UNCHANGED vars

\* keepAlive.C: the stream ends with its session, or writes a comment, which
\* fails if the browser is gone.
OnTick ==
  /\ Selecting
  /\ \/ sessionAlive /\ UNCHANGED handler
     \/ ~sessionAlive /\ Return
     \/ ctxDone /\ Return
  /\ UNCHANGED <<received, sub, flowsCh, errCh, out, ctxDone, sessionAlive>>

OnFlows ==
  /\ Selecting
  /\ flowsCh.buf # <<>>
  /\ out' = Append(out, Head(flowsCh.buf))
  /\ flowsCh' = [flowsCh EXCEPT !.buf = Tail(@)]
  /\ UNCHANGED <<received, sub, errCh, handler, ctxDone, sessionAlive>>

OnFlowsClosed ==
  /\ Selecting
  /\ flowsCh.buf = <<>> /\ flowsCh.closed
  /\ Return
  /\ UNCHANGED <<received, sub, flowsCh, errCh, out, ctxDone, sessionAlive>>

OnErr ==
  /\ Selecting
  /\ handler.errCh /\ errCh.full
  /\ errCh' = [errCh EXCEPT !.full = FALSE]
  /\ handler' = [handler EXCEPT !.pc = "closed", !.told = TRUE]
  /\ UNCHANGED <<received, sub, flowsCh, out, ctxDone, sessionAlive>>

OnErrClosed_Returns ==
  /\ Selecting
  /\ handler.errCh /\ ~errCh.full /\ errCh.closed
  /\ Return
  /\ UNCHANGED <<received, sub, flowsCh, errCh, out, ctxDone, sessionAlive>>

\* errCh = nil
OnErrClosed ==
  /\ Selecting
  /\ handler.errCh /\ ~errCh.full /\ errCh.closed
  /\ handler' = [handler EXCEPT !.errCh = FALSE]
  /\ UNCHANGED <<received, sub, flowsCh, errCh, out, ctxDone, sessionAlive>>

-----------------------------------------------------------------------------
\* The browser goes away, or net/http ends the request the handler returned from.
CtxCancelled ==
  /\ ~ctxDone
  /\ ctxDone' = TRUE
  /\ UNCHANGED <<received, sub, flowsCh, errCh, handler, out, sessionAlive>>

\* Logout elsewhere, the absolute cap, a credential that cannot be renewed
SessionEnds ==
  /\ sessionAlive
  /\ sessionAlive' = FALSE
  /\ UNCHANGED <<received, sub, flowsCh, errCh, handler, out, ctxDone>>

Subscribe ==
  \/ GetFlows \/ GetFlowsFails
  \/ \E m \in Message : Recv(m)
  \/ RecvFails \/ RecvEnds
  \/ SendFlows \/ SendAbandoned
  \/ CloseFlows \/ CloseErr

StreamFlows == OnCtxDone \/ OnTick \/ OnFlows \/ OnFlowsClosed \/ OnErr \/ OnErrClosed

\* A finished stream may stutter for ever.
Over == handler.pc = "closed" /\ SubAt("done") /\ ctxDone /\ ~sessionAlive /\ UNCHANGED vars

Next == Subscribe \/ StreamFlows \/ CtxCancelled \/ SessionEnds \/ Over

Spec == Init /\ [][Next]_vars

(***************************************************************************)
(* Fairness.  Both goroutines are scheduled.  The ticker keeps firing and   *)
(* Go's select chooses at random among the ready cases, so none is passed   *)
(* over for ever.  A gRPC call whose context is cancelled returns, and      *)
(* net/http cancels the context of a request that is over.  Nothing makes   *)
(* the aggregator send, or a session end.                                   *)
(***************************************************************************)
Fairness ==
  /\ WF_vars(GetFlows)
  /\ WF_vars(ctxDone /\ RecvEnds)
  /\ WF_vars(SendFlows \/ SendAbandoned)
  /\ WF_vars(CloseFlows \/ CloseErr)
  /\ WF_vars(OnCtxDone) /\ SF_vars(OnTick) /\ SF_vars(OnFlows)
  /\ WF_vars(OnFlowsClosed \/ OnErr \/ OnErrClosed)
  /\ WF_vars(handler.pc = "closed" /\ CtxCancelled)

FairSpec == Spec /\ Fairness

-----------------------------------------------------------------------------
(* Properties *)

Subscriber ==
  [pc : {"start", "recv", "send", "closeFlows", "closeErr", "done"},
   evt : Event, lastDropped : Nat, failed : BOOLEAN]

Handler == [pc : {"select", "closed"}, errCh : BOOLEAN, told : BOOLEAN]

\* Type invariant; flowsCh never holds more than its capacity.
TypeOK ==
  /\ received \in Seq(Message)
  /\ sub \in Subscriber
  /\ flowsCh \in [buf : Seq(Event), closed : BOOLEAN] /\ Len(flowsCh.buf) <= ChanCap
  /\ errCh \in [full : BOOLEAN, closed : BOOLEAN]
  /\ handler \in Handler
  /\ out \in Seq(Event)
  /\ ctxDone \in BOOLEAN /\ sessionAlive \in BOOLEAN

Feed == INSTANCE FlowFeed WITH got <- out, open <- handler.pc = "select"

\* What the browser gets is a gapless relay of what the aggregator sent, in
\* order, through a full channel, cancellations and errors (Subscribe,
\* StreamFlows implement FlowFeed).
ImplementsFeed == Feed!Spec

\* A stream that neither its client nor its session ends has delivered everything it
\* received, the events buffered when the goroutine ended included (errCh = nil, and the
\* closed flowsCh drained); one that reports an error, which may overtake buffered
\* events, loses those in flowsCh and no other.
CompleteAtEnd ==
  [][Selecting /\ handler'.pc = "closed" /\ ~ctxDone /\ sessionAlive
       => Feed!CaughtUp(received, Feed!LastId(IF handler'.told THEN out \o flowsCh.buf ELSE out))]_vars

\* "A logged-out user must stop receiving flows" (StreamFlows): once the
\* session has ended, so does the stream, however busy it is.
LoggedOutStops == ~sessionAlive ~> handler.pc = "closed"

\* The goroutine never outlives the request for ever: not blocked on a full
\* channel nobody reads, nor on an aggregator that sends nothing.
SubscriberEnds == handler.pc = "closed" ~> SubAt("done")
=============================================================================
