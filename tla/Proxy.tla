------------------------------- MODULE Proxy -------------------------------
(***************************************************************************)
(* The passive proxy (internal/proxy/proxy.go): every call forwarded as a  *)
(* bidirectional stream by two goroutines, the handler gRPC runs for it    *)
(* (handle, pumpResponses) and the pump it starts (pumpRequests), both     *)
(* reporting what goes past on one bounded channel.                        *)
(*                                                                         *)
(* The observed client, the server upstream and gRPC itself are the        *)
(* environment.  Messages are numbered within their call and direction, so *)
(* that a count of them says which they were.  A goroutine's steps are     *)
(* split where another goroutine can come between: a message is taken,     *)
(* reported, and passed on.                                                *)
(***************************************************************************)
EXTENDS Integers, Sequences, FiniteSets

CONSTANTS
  MaxCalls,    \* bound: calls the client makes
  MaxMsgs,     \* bound: messages it sends on each
  MaxReplies,  \* bound: messages the server answers with
  Buffer       \* defaultBuffer: events that may be waiting to be read

ASSUME ProxyAssumption ==
  /\ MaxCalls \in Nat \ {0} /\ MaxMsgs \in Nat /\ MaxReplies \in Nat
  /\ Buffer \in Nat \ {0}

Calls == 1 .. MaxCalls

VARIABLES
  \* the proxy
  calls,       \* calls: the number last given to a call
  handler,     \* where the handler of each call is
  outcome,     \* the error it returns with: "none" until it has decided, "bare" one
               \* that carries no gRPC status
  pump,        \* where the request pump is; its result, once in sendErr
  events,      \* the event channel
  dropped,     \* dropped
  counting,    \* goroutines that found the channel full and have yet to say so
  stop,        \* "no", "stopping" inside server.Stop, "stopped" once closed
  panicked,    \* an event was sent on the closed channel
  \* the observed client
  offered,     \* messages it has sent
  client,      \* its sending half: "open", "closed", or "gone" with the call
  delivered,   \* replies it has been given
  \* the call upstream
  taken,       \* messages the pump has received from the client
  carried,     \* messages it has passed on
  halfClosed,  \* whether it has closed the sending half
  replied,     \* replies the server has sent
  relayed,     \* replies the handler has received
  upstream     \* how the server ended the call, "no" while it has not

reporting == <<events, counting, panicked>>
requests == <<offered, client, taken, carried, halfClosed>>
replies == <<delivered, replied, relayed, upstream>>
vars == <<calls, handler, outcome, pump, reporting, dropped, stop, requests, replies>>

Results == {"ok", "eof", "failed"}

Event(c, kind, arg) == [call |-> c, kind |-> kind, arg |-> arg]

Handler(c) == <<c, "handler">>
Pump(c) == <<c, "pump">>

Closed == stop = "stopped"

\* Mutated Stop: the listener closes and the calls in flight go on.
CancelledByPeers(c) == client[c] = "gone" \/ handler[c] = "returned"

\* The call's context, the client's half and the server's alike: gone with the
\* client, with the handler (defer cancel), and with server.Stop.
Cancelled(c) == client[c] = "gone" \/ handler[c] = "returned" \/ stop # "no"

-----------------------------------------------------------------------------
(* The event channel. *)

\* emit: never waits.  A full channel is found full first and counted after,
\* and a closed one panics, select or no select.
Emit(who, e) ==
  \/ /\ Closed
     /\ panicked' = TRUE
     /\ UNCHANGED <<events, counting>>
  \/ /\ ~Closed /\ Len(events) < Buffer
     /\ events' = Append(events, e)
     /\ UNCHANGED <<counting, panicked>>
  \/ /\ ~Closed /\ Len(events) = Buffer
     /\ counting' = counting \union {who}
     /\ UNCHANGED <<events, panicked>>

CountDrop(who) ==
  /\ who \in counting
  /\ counting' = counting \ {who}
  /\ dropped' = dropped + 1
  /\ UNCHANGED <<calls, handler, outcome, pump, events, panicked, stop, requests, replies>>

\* The reader of Events: one event at a time.
Read ==
  /\ events # <<>>
  /\ events' = Tail(events)
  /\ UNCHANGED <<calls, handler, outcome, pump, counting, panicked, dropped, stop, requests,
                 replies>>

-----------------------------------------------------------------------------
(* The handler. *)

\* A goroutine between two steps: not the one still counting a drop.
At(c, step) == handler[c] = step /\ Handler(c) \notin counting
Goto(c, step) == handler' = [handler EXCEPT ![c] = step]

\* handle begins: the call is numbered.
Arrive ==
  LET c == calls + 1 IN
  /\ stop = "no"
  /\ c \in Calls
  /\ calls' = c
  /\ Goto(c, "starting")
  /\ UNCHANGED <<outcome, pump, reporting, dropped, stop, requests, replies>>

ReportStart(c) ==
  /\ At(c, "starting")
  /\ Emit(Handler(c), Event(c, "started", 0))
  /\ Goto(c, "opening")
  /\ UNCHANGED <<calls, outcome, pump, dropped, stop, requests, replies>>

\* NewStream, and the pump started beside the handler when it succeeds.
OpenUpstream(c) ==
  /\ At(c, "opening")
  /\ Goto(c, "receiving")
  /\ pump' = [pump EXCEPT ![c] = "receiving"]
  /\ UNCHANGED <<calls, outcome, reporting, dropped, stop, requests, replies>>

RefusedUpstream(c) ==
  /\ At(c, "opening")
  /\ Goto(c, "ending")
  /\ outcome' = [outcome EXCEPT ![c] = "failed"]
  /\ UNCHANGED <<calls, pump, reporting, dropped, stop, requests, replies>>

\* pumpResponses: a reply is received...
TakeReply(c) ==
  /\ At(c, "receiving")
  /\ relayed[c] < replied[c]
  /\ relayed' = [relayed EXCEPT ![c] = @ + 1]
  /\ Goto(c, "reporting")
  /\ UNCHANGED <<calls, outcome, pump, reporting, dropped, stop, requests, delivered, replied,
                 upstream>>

\* ...reported...
ReportReply(c) ==
  /\ At(c, "reporting")
  /\ Emit(Handler(c), Event(c, "received", relayed[c]))
  /\ Goto(c, "forwarding")
  /\ UNCHANGED <<calls, outcome, pump, dropped, stop, requests, replies>>

\* Mutated pumpResponses: a reply that could not be passed on is let go.
PassReplyAnyway(c) ==
  /\ At(c, "forwarding")
  /\ delivered' = IF Cancelled(c) THEN delivered ELSE [delivered EXCEPT ![c] = @ + 1]
  /\ Goto(c, "receiving")
  /\ UNCHANGED <<calls, outcome, pump, reporting, dropped, stop, requests, replied, relayed,
                 upstream>>

\* ...and passed on, or not: the call is over on the client's side.
PassReply(c) ==
  /\ At(c, "forwarding")
  /\ IF Cancelled(c)
     THEN /\ Goto(c, "ending")
          /\ outcome' = [outcome EXCEPT ![c] = "failed"]
          /\ UNCHANGED delivered
     ELSE /\ Goto(c, "receiving")
          /\ delivered' = [delivered EXCEPT ![c] = @ + 1]
          /\ UNCHANGED outcome
  /\ UNCHANGED <<calls, pump, reporting, dropped, stop, requests, replied, relayed, upstream>>

\* Mutated handle: a clean end does not wait for the request half.
EndUnwaited(c) ==
  /\ At(c, "receiving")
  /\ relayed[c] = replied[c] /\ upstream[c] = "ok"
  /\ Goto(c, "ending")
  /\ outcome' = [outcome EXCEPT ![c] = "ok"]
  /\ UNCHANGED <<calls, pump, reporting, dropped, stop, requests, replies>>

\* pumpResponses returns nil: the server has finished cleanly.
EndOfReplies(c) ==
  /\ At(c, "receiving")
  /\ relayed[c] = replied[c] /\ upstream[c] = "ok"
  /\ Goto(c, "waiting")
  /\ UNCHANGED <<calls, outcome, pump, reporting, dropped, stop, requests, replies>>

\* pumpResponses returns an error: the server's, or the context's.
RepliesFail(c) ==
  /\ At(c, "receiving")
  /\ (relayed[c] = replied[c] /\ upstream[c] = "failed") \/ Cancelled(c)
  /\ Goto(c, "ending")
  /\ outcome' = [outcome EXCEPT ![c] = "failed"]
  /\ UNCHANGED <<calls, pump, reporting, dropped, stop, requests, replies>>

\* pumpResponses returns SetHeader's error, before its first receive: the client has
\* given the call up and takes no header.  gRPC says so with a plain error, the one
\* error of the two pumps that has no status.
HeaderRefused(c) ==
  /\ At(c, "receiving")
  /\ relayed[c] = 0
  /\ client[c] = "gone"
  /\ Goto(c, "ending")
  /\ outcome' = [outcome EXCEPT ![c] = "bare"]
  /\ UNCHANGED <<calls, pump, reporting, dropped, stop, requests, replies>>

\* <-sendErr: the last word on a call that ended cleanly.
HearPump(c) ==
  /\ At(c, "waiting")
  /\ pump[c] \in Results /\ Pump(c) \notin counting
  /\ Goto(c, "ending")
  /\ outcome' = [outcome EXCEPT ![c] = IF pump[c] = "failed" THEN "failed" ELSE "ok"]
  /\ UNCHANGED <<calls, pump, reporting, dropped, stop, requests, replies>>

\* finish, and the handler returns.  The event says how the call ended by its status
\* (HasStatus): without one, a failure reads as a clean end.
Finish(c) ==
  /\ At(c, "ending")
  /\ Emit(Handler(c), Event(c, "ended", IF outcome[c] = "failed" THEN 1 ELSE 0))
  /\ Goto(c, "returned")
  /\ UNCHANGED <<calls, outcome, pump, dropped, stop, requests, replies>>

-----------------------------------------------------------------------------
(* The request pump.  Nothing tells it when the handler has returned but its *)
(* context.                                                                  *)

PumpAt(c, step) == pump[c] = step /\ Pump(c) \notin counting
PumpGoto(c, step) == pump' = [pump EXCEPT ![c] = step]

TakeRequest(c) ==
  /\ PumpAt(c, "receiving")
  /\ taken[c] < offered[c]
  /\ taken' = [taken EXCEPT ![c] = @ + 1]
  /\ PumpGoto(c, "reporting")
  /\ UNCHANGED <<calls, handler, outcome, reporting, dropped, stop, offered, client, carried,
                 halfClosed, replies>>

ReportRequest(c) ==
  /\ PumpAt(c, "reporting")
  /\ Emit(Pump(c), Event(c, "sent", taken[c]))
  /\ PumpGoto(c, "forwarding")
  /\ UNCHANGED <<calls, handler, outcome, dropped, stop, requests, replies>>

\* Mutated pumpRequests: nothing is passed on once the server has answered.
PassRequestEager(c) ==
  /\ PumpAt(c, "forwarding")
  /\ carried' = [carried EXCEPT ![c] = IF upstream[c] = "no" /\ replied[c] = 0 THEN @ + 1 ELSE @]
  /\ PumpGoto(c, IF upstream[c] # "no" \/ Cancelled(c) THEN "eof" ELSE "receiving")
  /\ UNCHANGED <<calls, handler, outcome, reporting, dropped, stop, offered, client, taken,
                 halfClosed, replies>>

\* client.SendMsg: io.EOF on a call that is over, whichever side ended it.
PassRequest(c) ==
  /\ PumpAt(c, "forwarding")
  /\ IF upstream[c] # "no" \/ Cancelled(c)
     THEN PumpGoto(c, "eof") /\ UNCHANGED carried
     ELSE PumpGoto(c, "receiving") /\ carried' = [carried EXCEPT ![c] = @ + 1]
  /\ UNCHANGED <<calls, handler, outcome, reporting, dropped, stop, offered, client, taken,
                 halfClosed, replies>>

\* SendMsg refusing the message itself, which fails the call with it.
RefuseRequest(c) ==
  /\ PumpAt(c, "forwarding")
  /\ PumpGoto(c, "failed")
  /\ upstream' = [upstream EXCEPT ![c] = IF @ = "no" THEN "failed" ELSE @]
  /\ UNCHANGED <<calls, handler, outcome, reporting, dropped, stop, requests, delivered, replied,
                 relayed>>

\* The client has closed its half: CloseSend, which always succeeds.
EndOfRequests(c) ==
  /\ PumpAt(c, "receiving")
  /\ taken[c] = offered[c] /\ client[c] = "closed"
  /\ halfClosed' = [halfClosed EXCEPT ![c] = TRUE]
  /\ PumpGoto(c, "ok")
  /\ UNCHANGED <<calls, handler, outcome, reporting, dropped, stop, offered, client, taken,
                 carried, replies>>

\* Mutated handle: sendErr is unbuffered, and only a waiting handler takes it.
RequestsFailUnbuffered(c) ==
  /\ PumpAt(c, "receiving")
  /\ Cancelled(c)
  /\ handler[c] = "waiting"
  /\ PumpGoto(c, "failed")
  /\ UNCHANGED <<calls, handler, outcome, reporting, dropped, stop, requests, replies>>

\* server.RecvMsg fails with the client's context.
RequestsFail(c) ==
  /\ PumpAt(c, "receiving")
  /\ Cancelled(c)
  /\ PumpGoto(c, "failed")
  /\ UNCHANGED <<calls, handler, outcome, reporting, dropped, stop, requests, replies>>

-----------------------------------------------------------------------------
(* Stop. *)

\* The program ends, or the listener dies under Serve.
StopBegins ==
  /\ stop = "no"
  /\ stop' = "stopping"
  /\ UNCHANGED <<calls, handler, outcome, pump, reporting, dropped, requests, replies>>

\* server.Stop returns once every handler has (WaitForHandlers), and the
\* channel is closed.
StopEnds ==
  /\ stop = "stopping"
  /\ \A c \in Calls : handler[c] \in {"idle", "returned"} /\ Handler(c) \notin counting
  /\ stop' = "stopped"
  /\ UNCHANGED <<calls, handler, outcome, pump, reporting, dropped, requests, replies>>

-----------------------------------------------------------------------------
(* The client and the server. *)

OnTheLine(c) == handler[c] \notin {"idle", "returned"} /\ stop = "no"

ClientSends(c) ==
  /\ OnTheLine(c) /\ client[c] = "open"
  /\ offered[c] < MaxMsgs
  /\ offered' = [offered EXCEPT ![c] = @ + 1]
  /\ UNCHANGED <<calls, handler, outcome, pump, reporting, dropped, stop, client, taken, carried,
                 halfClosed, replies>>

ClientEnds(c, how) ==
  /\ OnTheLine(c) /\ client[c] # "gone" /\ client[c] # how
  /\ client' = [client EXCEPT ![c] = how]
  /\ UNCHANGED <<calls, handler, outcome, pump, reporting, dropped, stop, offered, taken, carried,
                 halfClosed, replies>>

Upstream(c) == pump[c] # "none" /\ upstream[c] = "no" /\ ~Cancelled(c)

ServerReplies(c) ==
  /\ Upstream(c)
  /\ replied[c] < MaxReplies
  /\ replied' = [replied EXCEPT ![c] = @ + 1]
  /\ UNCHANGED <<calls, handler, outcome, pump, reporting, dropped, stop, requests, delivered,
                 relayed, upstream>>

ServerEnds(c, how) ==
  /\ Upstream(c)
  /\ upstream' = [upstream EXCEPT ![c] = how]
  /\ UNCHANGED <<calls, handler, outcome, pump, reporting, dropped, stop, requests, delivered,
                 replied, relayed>>

-----------------------------------------------------------------------------

Init ==
  /\ calls = 0
  /\ handler = [c \in Calls |-> "idle"]
  /\ outcome = [c \in Calls |-> "none"]
  /\ pump = [c \in Calls |-> "none"]
  /\ events = <<>> /\ dropped = 0 /\ counting = {}
  /\ stop = "no" /\ panicked = FALSE
  /\ offered = [c \in Calls |-> 0]
  /\ client = [c \in Calls |-> "open"]
  /\ delivered = [c \in Calls |-> 0]
  /\ taken = [c \in Calls |-> 0]
  /\ carried = [c \in Calls |-> 0]
  /\ halfClosed = [c \in Calls |-> FALSE]
  /\ replied = [c \in Calls |-> 0]
  /\ relayed = [c \in Calls |-> 0]
  /\ upstream = [c \in Calls |-> "no"]

Handle(c) ==
  \/ ReportStart(c)
  \/ OpenUpstream(c) \/ RefusedUpstream(c)
  \/ TakeReply(c) \/ ReportReply(c) \/ PassReply(c)
  \/ EndOfReplies(c) \/ RepliesFail(c) \/ HeaderRefused(c) \/ HearPump(c)
  \/ Finish(c)
  \/ CountDrop(Handler(c))

PumpRequests(c) ==
  \/ TakeRequest(c) \/ ReportRequest(c) \/ PassRequest(c) \/ RefuseRequest(c)
  \/ EndOfRequests(c) \/ RequestsFail(c)
  \/ CountDrop(Pump(c))

Ends ==
  \E c \in Calls :
    \/ ClientSends(c) \/ \E how \in {"closed", "gone"} : ClientEnds(c, how)
    \/ ServerReplies(c) \/ \E how \in {"ok", "failed"} : ServerEnds(c, how)

\* Everything but the reader of the channel.  A panic ends the process.
Forward ==
  /\ ~panicked
  /\ \/ Arrive
     \/ \E c \in Calls : Handle(c) \/ PumpRequests(c)
     \/ StopBegins \/ StopEnds
     \/ Ends

Next == Forward \/ (~panicked /\ Read)

Spec == Init /\ [][Next]_vars

\* The proxy's goroutines run; the client, the server and the reader need not.
Progress ==
  /\ \A c \in Calls :
       WF_vars(~panicked /\ Handle(c)) /\ WF_vars(~panicked /\ PumpRequests(c))
  /\ WF_vars(~panicked /\ StopEnds)

FairSpec == Spec /\ Progress

-----------------------------------------------------------------------------
(* Safety. *)

\* What the proxy passes on it has been given, in both directions and with at
\* most one message in hand: nothing is invented, reordered or sent twice.  And the
\* server is told the client has finished only when it has all the client sent.
Passive ==
  \A c \in Calls :
    /\ carried[c] <= taken[c] /\ taken[c] <= offered[c]
    /\ delivered[c] <= relayed[c] /\ relayed[c] <= replied[c]
    /\ pump[c] = "receiving" => carried[c] = taken[c]
    /\ handler[c] = "receiving" => delivered[c] = relayed[c]
    /\ halfClosed[c] => client[c] # "open" /\ carried[c] = offered[c]

\* A call the client is told ended OK is whole: the server ended it OK and the
\* client has been given every reply first.
CleanCallIsWhole ==
  \A c \in Calls :
    handler[c] = "returned" /\ outcome[c] = "ok" =>
      upstream[c] = "ok" /\ delivered[c] = replied[c]

\* handle waits for the request half of a call that ended cleanly ("whatever the
\* request half made of the call is the last word on it", proxy.go:340-342): when
\* such a call has returned its pump is done, and nothing of it follows Ended.
CleanEndIsLast ==
  \A c \in Calls :
    handler[c] = "returned" /\ outcome[c] = "ok" =>
      /\ pump[c] \in Results
      /\ \A i \in DOMAIN events :
           events[i].call = c /\ events[i].kind = "ended" =>
             \A j \in i + 1 .. Len(events) : events[j].call # c

-----------------------------------------------------------------------------
(* Liveness. *)

\* proxy.go:333-334: the result channel is buffered so that "a request pump
\* abandoned by a failing response half can send its result and exit rather than
\* leaking for the life of the process".
PumpNeverLeaks ==
  \A c \in Calls :
    handler[c] = "returned" ~> pump[c] \in Results \union {"none"} \/ panicked

-----------------------------------------------------------------------------
(* What the comments promise and the code does not keep. *)

\* proxy.go:219-221: Stop waiting for every handler "is what makes closing the
\* event channel after it safe".
ClosingIsSafe == ~panicked

\* proxy.go:142-143: "the one thing a passive proxy may never do is slow down the
\* traffic it is watching": a call the server has finished reaches its end.
EndIsForwarded ==
  \A c \in Calls : upstream[c] = "ok" ~> handler[c] = "returned" \/ panicked
=============================================================================
