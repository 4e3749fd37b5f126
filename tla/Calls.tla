------------------------------- MODULE Calls -------------------------------
(***************************************************************************)
(* The call in flight of grpctui's root model: unary calls                 *)
(* (internal/ui/call.go), streaming calls (internal/ui/stream.go), the     *)
(* response panel they draw on (internal/ui/panels/response*.go) and the   *)
(* transport stream they drive (internal/grpcclient/stream.go).            *)
(*                                                                         *)
(* bubbletea runs Update on one goroutine, and every tea.Cmd on a          *)
(* goroutine of its own whose result comes back as a message in no         *)
(* particular order.  An action here is therefore one message handled by   *)
(* Update, and "cmds" is the bag of commands whose message has not been    *)
(* handled yet.  A call, the stream it opens and their context all go by   *)
(* the sequence number the call was started with.  The far end of a stream *)
(* is kept for the call numbered callSeq only: whatever a message of an    *)
(* earlier one carries, Update drops it.                                   *)
(***************************************************************************)
EXTENDS Integers, Sequences, FiniteSets

CONSTANTS
  Methods,          \* the methods the connection offers
  Unary,            \* the unary ones among them
  ClientStreaming,  \* those the client streams into: client-streaming and bidi
  None,             \* no method
  MaxCalls,         \* bound: how often callSeq may be bumped
  MaxMsgs,          \* bound: request messages per stream
  MaxResponses,     \* bound: response messages per stream
  MaxLog,           \* bound: no ctrl+e once the stream log is this long
  MaxDiffMethods    \* maxDiffMethods: bodies kept for the diff view

ASSUME MethodsAssumption ==
  /\ None \notin Methods
  /\ Unary \subseteq Methods
  /\ ClientStreaming \subseteq Methods \ Unary

ASSUME BoundsAssumption ==
  /\ MaxCalls \in Nat \ {0} /\ MaxMsgs \in Nat \ {0}
  /\ MaxResponses \in Nat /\ MaxLog \in Nat /\ MaxDiffMethods \in Nat \ {0}

NoCall == 0                  \* the nil cancelCall, the nil stream
CallId == 1 .. MaxCalls
CallRef == 0 .. MaxCalls
Msg == 1 .. MaxMsgs          \* a request message, numbered within its stream
Close == 0                   \* the closing of the sending half

\* The commands Update hands to bubbletea.  "arg" is what a send carries.
Invoke(s) == [kind |-> "invoke", seq |-> s, arg |-> 0]
Open(s) == [kind |-> "open", seq |-> s, arg |-> 0]
Recv(s) == [kind |-> "recv", seq |-> s, arg |-> 0]
Tx(s, a) == [kind |-> "send", seq |-> s, arg |-> a]

Cmd == [kind : {"invoke", "open", "recv", "send"}, seq : CallId, arg : 0 .. MaxMsgs]

VARIABLES
  \* fields of ui.Model
  callSeq,      \* callSeq
  cancel,       \* cancelCall: the call it would cancel, or NoCall
  stream,       \* stream, or NoCall
  queue,        \* sendQueue
  sending,      \* sending
  closeAfter,   \* closeAfterQueue
  responses,    \* responses: the call whose body each method answered last
  \* the panels
  form,         \* the method the request form holds
  panel,        \* the response panel's verdict: state, method, whose answer
  log,          \* the stream log of the response panel
  \* goroutines and the transport
  cmds,         \* commands in flight, a bag
  call,         \* the method each call was made against
  released,     \* calls whose context is cancelled or whose RPC has returned
  \* the stream of the call numbered callSeq, as the transport has it
  over,         \* how the server ended it, "no" while it has not
  inbox,        \* responses on their way to its Recv
  replied,      \* responses the server has sent on it
  halfClosed,   \* sendClosed: whether its sending half is closed
  submitted,    \* messages the user has sent on it
  wire          \* messages the transport accepted, in order

ui == <<callSeq, cancel, stream, queue, sending, closeAfter>>
shown == <<form, panel, log, responses>>
server == <<over, inbox, replied>>
sent == <<halfClosed, submitted, wire>>
vars == <<ui, shown, cmds, call, released, server, sent>>

-----------------------------------------------------------------------------
(* The response panel. *)

PanelStates == {"empty", "inflight", "streaming", "ok", "failed"}

\* A line of the stream log: a message each way, the two notes a send can leave
\* (streamNote), and FinishStream's own.
LogLines == {"sent", "received", "closed", "failed", "verdict"}

\* from: the call whose outcome the panel draws; previous: the call whose body
\* the diff view compares with.
Panel(st, m, from, prev) == [state |-> st, method |-> m, from |-> from, previous |-> prev]

Active == panel.state \in {"inflight", "streaming"}

\* Clear, and SetMethod with the new method's name: a panel with nothing on it.
ClearedFor(m) == Panel("empty", m, NoCall, NoCall)

\* FinishStream: the verdict, only on a panel that is still streaming.
FinishStream(s, ok) ==
  IF panel.state # "streaming"
  THEN UNCHANGED <<panel, log>>
  ELSE /\ panel' = [panel EXCEPT !.state = IF ok THEN "ok" ELSE "failed", !.from = s]
       /\ log' = Append(log, "verdict")

Held == {m \in Methods : responses[m] # NoCall}

\* Mutated remember: one method too many before anything is evicted.
RememberOneTooMany(m, s) ==
  IF m \notin Held /\ Cardinality(Held) > MaxDiffMethods
  THEN \E evict \in Held : responses' = [responses EXCEPT ![evict] = NoCall, ![m] = s]
  ELSE responses' = [responses EXCEPT ![m] = s]

\* remember: the last body of a method, at most MaxDiffMethods of them, the
\* evicted one whichever the map yields first.
Remember(m, s) ==
  IF m \notin Held /\ Cardinality(Held) >= MaxDiffMethods
  THEN \E evict \in Held : responses' = [responses EXCEPT ![evict] = NoCall, ![m] = s]
  ELSE responses' = [responses EXCEPT ![m] = s]

-----------------------------------------------------------------------------
(* Commands and contexts. *)

Launch(bag, c) == [bag EXCEPT ![c] = @ + 1]
Land(c) == [cmds EXCEPT ![c] = @ - 1]
InFlight(c) == cmds[c] > 0

\* What abortCall and dropStream cancel between them.
Held4Release == {cancel, stream} \ {NoCall}

\* abortCall and dropStream leave the model with no call.
DropStream ==
  /\ stream' = NoCall
  /\ queue' = <<>>
  /\ sending' = FALSE
  /\ closeAfter' = FALSE

\* A number nobody has called with yet has no stream behind it, and "first"
\* messages waiting to go out on one.
Unopened(first) ==
  /\ over' = "no"
  /\ inbox' = 0
  /\ replied' = 0
  /\ halfClosed' = FALSE
  /\ submitted' = first
  /\ wire' = <<>>

\* Mutated retireCall: a selection leaves the call it was made over running.
RetireNothing == UNCHANGED <<ui, released, server, sent>>

\* retireCall: nothing at all when there is no cancelCall to call.
RetireCall ==
  IF cancel = NoCall
  THEN UNCHANGED <<ui, released, server, sent>>
  ELSE /\ callSeq < MaxCalls
       /\ callSeq' = callSeq + 1
       /\ cancel' = NoCall
       /\ released' = released \union Held4Release
       /\ DropStream
       /\ Unopened(0)

\* Mutated nextSend: the guard on a send under way is gone.
NextSendRacing(s, q, busy, cls, bag) ==
  \/ /\ s = NoCall
     /\ queue' = q /\ sending' = busy /\ closeAfter' = cls
     /\ cmds' = bag
  \/ /\ s # NoCall /\ q # <<>>
     /\ queue' = Tail(q) /\ sending' = TRUE /\ closeAfter' = cls
     /\ cmds' = Launch(bag, Tx(s, Head(q)))
  \/ /\ s # NoCall /\ q = <<>>
     /\ queue' = q /\ sending' = cls /\ closeAfter' = FALSE
     /\ cmds' = IF cls THEN Launch(bag, Tx(s, Close)) ELSE bag

\* Mutated nextSend: the queue is served from its newest end.
NextSendNewest(s, q, busy, cls, bag) ==
  \/ /\ busy \/ s = NoCall \/ (q = <<>> /\ ~cls)
     /\ queue' = q /\ sending' = busy /\ closeAfter' = cls
     /\ cmds' = bag
  \/ /\ ~busy /\ s # NoCall /\ q # <<>>
     /\ queue' = SubSeq(q, 1, Len(q) - 1) /\ sending' = TRUE /\ closeAfter' = cls
     /\ cmds' = Launch(bag, Tx(s, q[Len(q)]))
  \/ /\ ~busy /\ s # NoCall /\ q = <<>> /\ cls
     /\ queue' = q /\ sending' = TRUE /\ closeAfter' = FALSE
     /\ cmds' = Launch(bag, Tx(s, Close))

\* Mutated nextSend: the close is asked for and never issued.
NextSendNoClose(s, q, busy, cls, bag) ==
  \/ /\ busy \/ s = NoCall \/ q = <<>>
     /\ queue' = q /\ sending' = busy /\ closeAfter' = cls
     /\ cmds' = bag
  \/ /\ ~busy /\ s # NoCall /\ q # <<>>
     /\ queue' = Tail(q) /\ sending' = TRUE /\ closeAfter' = cls
     /\ cmds' = Launch(bag, Tx(s, Head(q)))

\* nextSend, on stream s with q queued and the flags busy and cls, the commands
\* "bag" already in flight: one message, or the close once the queue is empty,
\* and nothing while a send is under way.
NextSend(s, q, busy, cls, bag) ==
  \/ /\ busy \/ s = NoCall
     /\ queue' = q /\ sending' = busy /\ closeAfter' = cls
     /\ cmds' = bag
  \/ /\ ~busy /\ s # NoCall /\ q # <<>>
     /\ queue' = Tail(q) /\ sending' = TRUE /\ closeAfter' = cls
     /\ cmds' = Launch(bag, Tx(s, Head(q)))
  \/ /\ ~busy /\ s # NoCall /\ q = <<>> /\ cls
     /\ queue' = q /\ sending' = TRUE /\ closeAfter' = FALSE
     /\ cmds' = Launch(bag, Tx(s, Close))
  \/ /\ ~busy /\ s # NoCall /\ q = <<>> /\ ~cls
     /\ queue' = q /\ sending' = FALSE /\ closeAfter' = FALSE
     /\ cmds' = bag

-----------------------------------------------------------------------------
(* What the user does. *)

\* startCall, as call number n.
StartCall(m, n) ==
  /\ n \in CallId
  /\ callSeq' = n
  /\ cancel' = n
  /\ released' = released \union Held4Release
  /\ DropStream
  /\ panel' = Panel("inflight", m, NoCall, NoCall)
  /\ log' = <<>>
  /\ call' = [call EXCEPT ![n] = m]
  /\ cmds' = Launch(cmds, Invoke(n))
  /\ Unopened(0)
  /\ UNCHANGED responses

\* startStream, as call number n: the first message is queued behind the
\* opening, and the close behind it when the method takes one message only.
StartStream(m, n) ==
  /\ n \in CallId
  /\ callSeq' = n
  /\ cancel' = n
  /\ released' = released \union Held4Release
  /\ stream' = NoCall
  /\ sending' = FALSE
  /\ queue' = <<1>>
  /\ closeAfter' = (m \notin ClientStreaming)
  /\ panel' = Panel("streaming", m, NoCall, NoCall)
  /\ log' = <<>>
  /\ call' = [call EXCEPT ![n] = m]
  /\ cmds' = Launch(cmds, Open(n))
  /\ Unopened(1)
  /\ UNCHANGED responses

\* The other half of sendOnStream: one more message on the stream that is open.
QueueOnStream ==
  /\ submitted < MaxMsgs
  /\ submitted' = submitted + 1
  /\ NextSend(stream, Append(queue, submitted + 1), sending, closeAfter, cmds)
  /\ UNCHANGED <<callSeq, cancel, stream, responses, call, released, server, halfClosed, wire>>

\* MethodSelectedMsg, and a request recalled into the form or replayed from the
\* proxy without being sent: the three handlers do the same to the call.
SelectMethod(m) ==
  /\ RetireCall
  /\ form' = m
  /\ panel' = ClearedFor(m)
  /\ log' = <<>>
  /\ UNCHANGED <<responses, cmds, call>>

\* ctrl+s on a form that builds, with headers that resolve: dispatch.
Send ==
  /\ form # None
  /\ UNCHANGED form
  /\ \/ /\ form \in Unary
        /\ StartCall(form, callSeq + 1)
     \/ /\ form \notin Unary
        /\ stream = NoCall \/ form \notin ClientStreaming
        /\ StartStream(form, callSeq + 1)
     \/ /\ form \in ClientStreaming
        /\ stream # NoCall
        /\ QueueOnStream
        /\ UNCHANGED <<panel, log>>

\* ctrl+s in the browser: LoadRequestMsg with Send set.  load retires the call
\* before dispatch starts the next one, so two numbers go when one was in flight.
LoadAndSend(m) ==
  LET n == callSeq + (IF cancel = NoCall THEN 1 ELSE 2)
      kept == cancel = NoCall /\ stream # NoCall   \* what retireCall let stand
  IN /\ form' = m
     /\ \/ /\ m \in Unary
           /\ StartCall(m, n)
        \/ /\ m \notin Unary
           /\ ~kept \/ m \notin ClientStreaming
           /\ StartStream(m, n)
        \/ /\ m \in ClientStreaming
           /\ kept
           /\ QueueOnStream
           /\ panel' = ClearedFor(m)
           /\ log' = <<>>

\* ctrl+e: endSending, ignored while there is no stream.
EndSending ==
  /\ stream # NoCall
  /\ Len(log) < MaxLog
  /\ NextSend(stream, queue, sending, TRUE, cmds)
  /\ UNCHANGED <<callSeq, cancel, stream, shown, call, released, server, sent>>

\* Mutated abortCall: esc bumps the sequence number, as retireCall does.
CancelRetiring ==
  /\ Active
  /\ cancel # NoCall /\ callSeq < MaxCalls
  /\ released' = released \union {cancel}
  /\ callSeq' = callSeq + 1
  /\ cancel' = NoCall
  /\ DropStream
  /\ UNCHANGED <<shown, cmds, call, server, sent>>

\* Mutated abortCall: the cancel function is forgotten without being called.
CancelForgetting ==
  /\ Active
  /\ cancel # NoCall
  /\ cancel' = NoCall
  /\ UNCHANGED <<callSeq, stream, queue, sending, closeAfter, shown, cmds, call, released,
                 server, sent>>

\* esc while the panel is active: abortCall.
Cancel ==
  /\ Active
  /\ cancel # NoCall
  /\ released' = released \union {cancel}
  /\ cancel' = NoCall
  /\ UNCHANGED <<callSeq, stream, queue, sending, closeAfter, shown, cmds, call, server, sent>>

-----------------------------------------------------------------------------
(* What the sweep reports. *)

\* servicesDiscoveredMsg: a sweep of the services, the first one or the one that r
\* asked for, ends when it ends.  The handler empties the form and the response
\* panel and leaves the call running (it has no retireCall), so the log starts
\* again under a call that may still be writing to it.  The sweeping half of
\* finishConnect is the same step; a call its closeClient breaks then fails, as it
\* may at any time.
ServicesDiscovered ==
  /\ form' = None
  /\ panel' = ClearedFor(panel.method)
  /\ log' = <<>>
  /\ UNCHANGED <<ui, responses, cmds, call, released, server, sent>>

-----------------------------------------------------------------------------
(* What the commands report back. *)

\* Mutated finishCall: the sequence number of the answer is not looked at.
FinishAnyCall(s, ok) ==
  /\ InFlight(Invoke(s))
  /\ cmds' = Land(Invoke(s))
  /\ released' = released \union {s}
  /\ cancel' = NoCall
  /\ IF ok
     THEN /\ panel' = Panel("ok", panel.method, s, responses[call[s]])
          /\ Remember(call[s], s)
     ELSE /\ panel' = Panel("failed", panel.method, s, NoCall)
          /\ UNCHANGED responses
  /\ log' = <<>>
  /\ UNCHANGED <<callSeq, stream, queue, sending, closeAfter, form, call, server, sent>>

\* callFinishedMsg: finishCall.  The command has called its own cancel by now.
FinishCall(s, ok) ==
  /\ InFlight(Invoke(s))
  /\ cmds' = Land(Invoke(s))
  /\ released' = released \union {s}
  /\ IF s # callSeq
     THEN UNCHANGED <<cancel, panel, responses>>
     ELSE /\ cancel' = NoCall
          /\ IF ok
             THEN /\ panel' = Panel("ok", panel.method, s, responses[call[s]])
                  /\ Remember(call[s], s)
             ELSE /\ panel' = Panel("failed", panel.method, s, NoCall)
                  /\ UNCHANGED responses
  /\ log' = IF s = callSeq THEN <<>> ELSE log
  /\ UNCHANGED <<callSeq, stream, queue, sending, closeAfter, form, call, server, sent>>

\* Mutated streamOpened: the queue is started and the receives are not.
OpenedUnread(s) ==
  /\ InFlight(Open(s))
  /\ IF s # callSeq
     THEN /\ released' = released \union {s}
          /\ cmds' = Land(Open(s))
          /\ UNCHANGED <<stream, queue, sending, closeAfter>>
     ELSE /\ stream' = s
          /\ NextSend(s, queue, sending, closeAfter, Land(Open(s)))
          /\ UNCHANGED released
  /\ UNCHANGED <<callSeq, cancel, shown, call, server, sent>>

\* streamOpenedMsg with a stream: installed, or closed when it is stale.
StreamOpened(s) ==
  /\ InFlight(Open(s))
  /\ IF s # callSeq
     THEN /\ released' = released \union {s}
          /\ cmds' = Land(Open(s))
          /\ UNCHANGED <<stream, queue, sending, closeAfter>>
     ELSE /\ stream' = s
          /\ NextSend(s, queue, sending, closeAfter, Launch(Land(Open(s)), Recv(s)))
          /\ UNCHANGED released
  /\ UNCHANGED <<callSeq, cancel, shown, call, server, sent>>

\* streamOpenedMsg with an error.
StreamRefused(s) ==
  /\ InFlight(Open(s))
  /\ cmds' = Land(Open(s))
  /\ released' = released \union {s}
  /\ IF s # callSeq
     THEN UNCHANGED <<cancel, queue, closeAfter, panel, log>>
     ELSE /\ cancel' = NoCall
          /\ queue' = <<>>
          /\ closeAfter' = FALSE
          /\ FinishStream(s, FALSE)
  /\ UNCHANGED <<callSeq, stream, sending, form, responses, call, server, sent>>

\* What clientStream's Send and CloseSend may return for one command: a send on
\* a closed half is ErrSendClosed, a send on a call that is over is io.EOF, and
\* a result computed before the call ended may be reported after it.
SendOutcomes(s, a) ==
  {"failed"}
  \union (IF a = Close \/ ~halfClosed THEN {"ok"} ELSE {})
  \union (IF a # Close /\ (s \in released \/ over # "no") THEN {"eof"} ELSE {})

\* Mutated Send: the close of the sending half goes out as a message.
CarriedClose(a, outcome) ==
  /\ wire' = IF outcome = "ok" THEN Append(wire, a) ELSE wire
  /\ halfClosed' = (halfClosed \/ (outcome = "ok" /\ a = Close))

\* What one command did to the transport's half of the stream.
Carried(a, outcome) ==
  /\ wire' = IF outcome = "ok" /\ a # Close THEN Append(wire, a) ELSE wire
  /\ halfClosed' = (halfClosed \/ (outcome = "ok" /\ a = Close))

\* streamSentMsg of an earlier call: dropped, whatever came of the send.
StaleSent(s, a) ==
  /\ InFlight(Tx(s, a))
  /\ s # callSeq
  /\ cmds' = Land(Tx(s, a))
  /\ UNCHANGED <<ui, shown, call, released, server, sent>>

\* streamSentMsg of the latest call: streamSent.
StreamSent(a, outcome) ==
  /\ callSeq \in CallId
  /\ InFlight(Tx(callSeq, a))
  /\ outcome \in SendOutcomes(callSeq, a)
  /\ Carried(a, outcome)
  /\ LET landed == Land(Tx(callSeq, a)) IN
     \/ /\ outcome = "eof"
        /\ queue' = <<>> /\ sending' = FALSE /\ closeAfter' = FALSE
        /\ cmds' = landed
        /\ UNCHANGED log
     \/ /\ outcome = "failed"
        /\ log' = Append(log, "failed")
        /\ NextSend(stream, <<>>, FALSE, FALSE, landed)
     \/ /\ outcome = "ok"
        /\ log' = Append(log, IF a = Close THEN "closed" ELSE "sent")
        /\ NextSend(stream, queue, FALSE, closeAfter, landed)
  /\ UNCHANGED <<callSeq, cancel, stream, form, panel, responses, call, released, server,
                 submitted>>

\* Mutated streamReceived: a message of an earlier call reaches the log.
StaleLogged(s) ==
  /\ InFlight(Recv(s))
  /\ s # callSeq
  /\ cmds' = Land(Recv(s))
  /\ log' = Append(log, "received")
  /\ UNCHANGED <<ui, form, panel, responses, call, released, server, sent>>

\* streamRecvMsg of an earlier call: dropped, and the chain of receives ends.
StaleReceived(s) ==
  /\ InFlight(Recv(s))
  /\ s # callSeq
  /\ cmds' = Land(Recv(s))
  /\ UNCHANGED <<ui, shown, call, released, server, sent>>

\* streamRecvMsg carrying a message: streamReceived, which asks m.stream for the next.
StreamReceived ==
  /\ callSeq \in CallId
  /\ InFlight(Recv(callSeq))
  /\ inbox > 0
  /\ inbox' = inbox - 1
  /\ log' = Append(log, "received")
  /\ stream # NoCall
  /\ cmds' = Launch(Land(Recv(callSeq)), Recv(stream))
  /\ UNCHANGED <<ui, form, panel, responses, call, released, over, replied, sent>>

\* streamRecvMsg ending the stream: finishStream.  The server has finished, the
\* context is cancelled, or a message arrived that cannot be rendered.
StreamEnded(ok) ==
  /\ callSeq \in CallId
  /\ InFlight(Recv(callSeq))
  /\ \/ inbox = 0 /\ over = (IF ok THEN "ok" ELSE "failed")
     \/ ~ok /\ (callSeq \in released \/ inbox > 0)
  /\ cmds' = Land(Recv(callSeq))
  /\ FinishStream(callSeq, ok)
  /\ cancel' = NoCall
  /\ released' = released \union ({stream} \ {NoCall})
  /\ DropStream
  /\ UNCHANGED <<callSeq, form, responses, call, server, sent>>

-----------------------------------------------------------------------------
(* The server's end of an open stream. *)

Serving == stream # NoCall /\ stream \notin released /\ over = "no"

ServerReplies ==
  /\ Serving
  /\ replied < MaxResponses
  /\ replied' = replied + 1
  /\ inbox' = inbox + 1
  /\ UNCHANGED <<ui, shown, cmds, call, released, over, sent>>

ServerEnds(how) ==
  /\ Serving
  /\ over' = how
  /\ UNCHANGED <<ui, shown, cmds, call, released, inbox, replied, sent>>

-----------------------------------------------------------------------------

Init ==
  /\ callSeq = 0
  /\ cancel = NoCall
  /\ stream = NoCall
  /\ queue = <<>>
  /\ sending = FALSE
  /\ closeAfter = FALSE
  /\ responses = [m \in Methods |-> NoCall]
  /\ form = None
  /\ panel = ClearedFor(None)
  /\ log = <<>>
  /\ cmds = [c \in Cmd |-> 0]
  /\ call = [s \in CallId |-> None]
  /\ released = {}
  /\ over = "no" /\ inbox = 0 /\ replied = 0
  /\ halfClosed = FALSE /\ submitted = 0 /\ wire = <<>>

User ==
  \/ \E m \in Methods : SelectMethod(m) \/ LoadAndSend(m)
  \/ Send
  \/ EndSending
  \/ Cancel

Report ==
  \/ \E s \in CallId :
       \/ \E ok \in BOOLEAN : FinishCall(s, ok)
       \/ StreamOpened(s)
       \/ StreamRefused(s)
       \/ StaleReceived(s)
       \/ \E a \in 0 .. MaxMsgs : StaleSent(s, a)
  \/ \E a \in 0 .. MaxMsgs, outcome \in {"ok", "eof", "failed"} : StreamSent(a, outcome)
  \/ StreamReceived
  \/ \E ok \in BOOLEAN : StreamEnded(ok)

Server == ServerReplies \/ \E how \in {"ok", "failed"} : ServerEnds(how)

Next == User \/ ServicesDiscovered \/ Report \/ Server

Spec == Init /\ [][Next]_vars

\* Every command's message is handled in the end, except a send on an open
\* stream, which flow control may hold, and a receive the server owes nothing.
\* The call timeout and the cancelled context are what the code gives for it.
Progress ==
  /\ \A s \in CallId :
       /\ WF_vars(\E ok \in BOOLEAN : FinishCall(s, ok))
       /\ WF_vars(StreamOpened(s) \/ StreamRefused(s))
  /\ WF_vars(StreamReceived \/ \E ok \in BOOLEAN : StreamEnded(ok))

FairSpec == Spec /\ Progress

-----------------------------------------------------------------------------
(* Invariants. *)

\* The model, its commands and the transport keep to their shapes: every number is
\* one callSeq could give out, and only messages of the user reach the wire.
TypeOK ==
  /\ callSeq \in CallRef
  /\ cancel \in CallRef
  /\ stream \in CallRef
  /\ queue \in Seq(Msg)
  /\ sending \in BOOLEAN
  /\ closeAfter \in BOOLEAN
  /\ responses \in [Methods -> CallRef]
  /\ form \in Methods \union {None}
  /\ panel \in [state : PanelStates, method : Methods \union {None}, from : CallRef,
                previous : CallRef]
  /\ log \in Seq(LogLines)
  /\ cmds \in [Cmd -> Nat]
  /\ call \in [CallId -> Methods \union {None}]
  /\ released \in SUBSET CallId
  /\ over \in {"no", "ok", "failed"}
  /\ inbox \in Nat
  /\ replied \in Nat
  /\ halfClosed \in BOOLEAN
  /\ submitted \in 0 .. MaxMsgs
  /\ wire \in Seq(Msg)

Live(s) == s \in CallId /\ call[s] # None /\ s \notin released

\* Only one call, of either shape, is ever in flight (stream.go:46-48): whatever
\* is still running is the call the model would cancel, so nothing runs on that
\* esc, a new send or a retirement cannot end.
OneCallLive == \A s \in CallId : Live(s) => s = cancel

\* A sweep has emptied the form and the panel since the call was started.
SweptAway == form = None /\ panel.state = "empty"

\* esc is offered while the response panel is active (Response.Active), so a live
\* call has an active panel: a panel cleared under a running call is what
\* update.go:55-60 says retireCall prevents.  The handler of a finished sweep
\* (update.go:31-43) has no retireCall, and is the one exception: after it the form
\* is empty too, and nothing can be sent or loaded into it that does not retire the
\* call (Connection!LiveCallIsShown is the claim without the exception).
EscReachesLiveCall == \A s \in CallId : Live(s) => Active \/ SweptAway

\* Both: whatever the user does and however late the commands report, at most
\* one call is running; esc ends it, and is offered for it until a sweep empties
\* the form and the panel under it.
CallWithinReach == OneCallLive /\ EscReachesLiveCall

\* The two sequence numbers a late message is compared with are the ones the
\* model's own references carry: no message accepted as current can act on
\* another call's stream.
StreamIsCurrent == stream \in {NoCall, callSeq} /\ cancel \in {NoCall, callSeq}

\* The stale-answer guard of finishCall and streamReceived: what the panel draws
\* is the outcome of the latest call and never of one that was replaced.
LatestAnswer == panel.from \in {NoCall, callSeq}

\* A panel that says it is waiting is waiting for something: the message that
\* will end the spinner is still to come, so the panel cannot hang in the
\* in-flight or the watching state.
SpinnerHasACall ==
  /\ panel.state = "inflight" => callSeq # NoCall /\ InFlight(Invoke(callSeq))
  /\ panel.state = "streaming" =>
       callSeq # NoCall /\ (InFlight(Open(callSeq)) \/ InFlight(Recv(callSeq)))

\* nextSend's hand-over: as long as a stream has something queued, or a close to
\* do, a send for it is under way whose result starts the next one.  A flag left
\* behind would jam the stream with messages the user believes are going out.
QueueIsDraining ==
  stream # NoCall =>
    /\ queue # <<>> \/ closeAfter => sending
    /\ sending => \E a \in 0 .. MaxMsgs : InFlight(Tx(stream, a))

Sends(s) == {c \in Cmd : c.kind = "send" /\ c.seq = s /\ cmds[c] > 0}

\* The contract of grpcclient.Stream (stream.go:34-37): at most one sender and
\* one receiver on a stream at a time, and no receive on a nil stream.
StreamContract ==
  \A s \in CallId :
    /\ cmds[Recv(s)] <= 1
    /\ Cardinality(Sends(s)) <= 1 /\ \A c \in Sends(s) : cmds[c] = 1
    /\ s = callSeq /\ InFlight(Recv(s)) => stream = s

\* The stream is open on both ends, on screen, and none of its sends has failed.
Healthy ==
  /\ Serving
  /\ panel.state = "streaming"
  /\ \A i \in DOMAIN log : log[i] # "failed"

\* What the stream has carried, is carrying and still has to carry.
OnTheWay == {c.arg : c \in Sends(stream)} \ {Close}
InOrder ==
  wire \o (IF OnTheWay = {} THEN <<>> ELSE <<CHOOSE a \in OnTheWay : TRUE>>) \o queue

\* The order messages arrive in is part of what a client-streaming call means
\* (stream.go:119-121): until a send fails, the call is over or a sweep clears it off
\* the screen, what went out, what is going out and what is queued are every message
\* the user sent, in order; and a method the client does not stream into has its
\* sending half closed behind its one request (startStream), never before it.
NothingLost ==
  Healthy =>
    /\ InOrder = [i \in 1 .. submitted |-> i]
    /\ halfClosed /\ call[stream] \notin ClientStreaming => wire = <<1>>

Lines(k) == Cardinality({i \in DOMAIN log : log[i] = k})

\* While a stream is on screen its log tells the truth: one "sent" line for every
\* message the transport took and one "received" line for every response taken
\* off it, none of them another stream's.
LogIsTruthful ==
  panel.state = "streaming" =>
    /\ Lines("sent") = Len(wire)
    /\ Lines("received") = replied - inbox

\* The diff view compares an answer with the previous answer to the same method
\* (call.go:208-209), and keeps no more methods than maxDiffMethods.
DiffIsAgainstPrevious ==
  /\ Cardinality(Held) <= MaxDiffMethods
  /\ panel.previous # NoCall =>
       /\ panel.previous < panel.from
       /\ call[panel.previous] = call[panel.from]

\* A call owes one message at most that can end it: its answer, the opening of
\* its stream or the next receive on it.
OneOutcome ==
  callSeq # NoCall =>
    cmds[Invoke(callSeq)] + cmds[Open(callSeq)] + cmds[Recv(callSeq)] <= 1

Known(c) == c.seq <= callSeq /\ call[c.seq] # None

\* Nothing has been called, or is on its way, under a number not given out yet,
\* and whatever is on its way belongs to a call that was made.
NumbersInUse ==
  /\ \A c \in Cmd : InFlight(c) => Known(c)
  /\ \A s \in CallId : s > callSeq => call[s] = None
  /\ stream # NoCall => call[stream] # None

\* The inductive invariant behind OneCallLive and its neighbours.
CallInv ==
  /\ TypeOK
  /\ NumbersInUse
  /\ OneOutcome
  /\ StreamIsCurrent
  /\ callSeq # NoCall /\ InFlight(Recv(callSeq)) => stream = callSeq
  /\ OneCallLive
  /\ EscReachesLiveCall
  /\ LatestAnswer
  /\ SpinnerHasACall

-----------------------------------------------------------------------------
(* Liveness. *)

\* A unary call ends in a verdict or is replaced: the spinner never runs for ever.
UnaryAnswered == panel.state = "inflight" ~> panel.state # "inflight"

\* esc on a stream puts its end on screen (abortCall: "the cancellation surfaces
\* as an ordinary failed call").
EscEndsStream ==
  panel.state = "streaming" /\ cancel = NoCall ~> panel.state # "streaming" \/ cancel # NoCall

-----------------------------------------------------------------------------
(* The calls of the model implement the contract of CallContract. *)

Owed == callSeq # NoCall
        /\ (InFlight(Invoke(callSeq)) \/ InFlight(Open(callSeq)) \/ InFlight(Recv(callSeq)))

Contract == INSTANCE CallContract
  WITH issued <- callSeq, live <- {s \in CallId : Live(s)}, owed <- Owed,
       verdict <- panel.from

\* Numbers, cancellation and late messages together keep the contract: a call
\* replaced is a call ended, and one outcome per call reaches the panel.
ImplementsContract == Contract!Spec

-----------------------------------------------------------------------------
(* What the comments promise and the code does not keep. *)

\* update.go:55-60: without retiring the call its answer "is drawn under the new
\* method's name as if it belonged to it".
AnswerUnderItsMethod ==
  panel.from # NoCall => panel.method = call[panel.from]

\* response_stream.go:92: "FinishStream closes the log".
VerdictIsLast ==
  \A i \in DOMAIN log : log[i] = "verdict" => i = Len(log)

\* call.go:24-27: a call in flight is replaced, because "Swallowing the keystroke
\* instead would look like the key had stopped working": after ctrl+s the panel
\* shows a call.
SendIsNeverSwallowed == [][Send => panel'.state \in {"inflight", "streaming"}]_vars

\* model.go, sendQueue: "pressing send twice in quick succession has to queue
\* rather than race": a second message does not throw the first one away.
SecondSendQueues ==
  [][Send /\ panel.state = "streaming" /\ panel.method = form /\ form \in ClientStreaming
       /\ cancel # NoCall
     => callSeq' = callSeq]_vars
=============================================================================
