----------------------------- MODULE ProxyProofs -----------------------------
(***************************************************************************)
(* Passive mode, for any number of calls, of messages, of events the       *)
(* channel holds and of rows the log keeps: what the proxy forwards it was *)
(* given, a call it ends cleanly is whole, nothing of it follows its end,  *)
(* and the log says what was forwarded, or less where something was lost.  *)
(* Every behaviour of passive mode is one of the proxy's own, so what is   *)
(* proved of the proxy (ProxyInv) holds of the two together; the log needs *)
(* an invariant of both (LogInv).                                          *)
(***************************************************************************)
EXTENDS Passive, TLAPS

Before == {"idle", "starting", "opening"}
HandlerSteps == Before \union {"receiving", "reporting", "forwarding", "waiting", "ending", "returned"}
PumpSteps == {"none", "receiving", "reporting", "forwarding"} \union Results
Events == [call : Calls, kind : {"started", "sent", "received", "ended"}, arg : Nat]

\* The proxy keeps to its shapes.
Shape ==
  /\ calls \in 0 .. MaxCalls
  /\ handler \in [Calls -> HandlerSteps]
  /\ outcome \in [Calls -> {"none", "ok", "failed", "bare"}]
  /\ pump \in [Calls -> PumpSteps]
  /\ events \in Seq(Events)
  /\ client \in [Calls -> {"open", "closed", "gone"}]
  /\ upstream \in [Calls -> {"no", "ok", "failed"}]
  /\ halfClosed \in [Calls -> BOOLEAN]
  /\ offered \in [Calls -> Nat] /\ taken \in [Calls -> Nat] /\ carried \in [Calls -> Nat]
  /\ replied \in [Calls -> Nat] /\ relayed \in [Calls -> Nat] /\ delivered \in [Calls -> Nat]

\* The request half of a call: the pump has in hand the one message it has taken and not
\* passed on, and is started with the handler.
RequestsInHand(c) ==
  /\ handler[c] \in Before => pump[c] = "none" /\ taken[c] = 0
  /\ carried[c] <= taken[c] /\ taken[c] <= offered[c]
  /\ pump[c] \in {"none", "receiving", "ok"} => carried[c] = taken[c]
  /\ pump[c] \in {"reporting", "forwarding"} => carried[c] + 1 = taken[c]
  /\ halfClosed[c] => pump[c] = "ok" /\ client[c] # "open" /\ taken[c] = offered[c]

\* The response half, in the handler's hands.
RepliesInHand(c) ==
  /\ delivered[c] <= relayed[c] /\ relayed[c] <= replied[c]
  /\ handler[c] \in Before => relayed[c] = 0
  /\ handler[c] \in Before \union {"receiving"} => delivered[c] = relayed[c]
  /\ handler[c] \in {"reporting", "forwarding"} => delivered[c] + 1 = relayed[c]

\* An outcome of OK is the server's, reached with nothing left to pass on.
CleanEnd(c) ==
  /\ c > calls => handler[c] = "idle"
  /\ outcome[c] # "none" <=> handler[c] \in {"ending", "returned"}
  /\ handler[c] = "waiting" \/ outcome[c] = "ok" =>
       upstream[c] = "ok" /\ delivered[c] = replied[c]
  /\ outcome[c] = "ok" => pump[c] \in Results

\* The end of a call is reported once, when it returns; an end reported OK is the last
\* of its call.
EndsInOrder(c) ==
  /\ handler[c] # "returned" =>
       \A i \in DOMAIN events : ~(events[i].call = c /\ events[i].kind = "ended")
  /\ handler[c] = "returned" /\ outcome[c] = "ok" =>
       \A i \in DOMAIN events :
         events[i].call = c /\ events[i].kind = "ended" =>
           \A j \in i + 1 .. Len(events) : events[j].call # c

ProxyInv ==
  /\ Shape
  /\ \A c \in Calls : RequestsInHand(c) /\ RepliesInHand(c) /\ CleanEnd(c) /\ EndsInOrder(c)

-----------------------------------------------------------------------------
(* The channel. *)

\* emit puts one event at the end of the channel, or none.
LEMMA EmitAppends ==
  ASSUME Shape, NEW who, NEW e \in Events, Emit(who, e)
  PROVE  events' \in Seq(Events) /\ (events' = events \/ events' = Append(events, e))
<1>1. events \in Seq(Events)
  BY DEF Shape
<1>2. Append(events, e) \in Seq(Events)
  BY <1>1
<1>3. events' \in {events, Append(events, e)}
  BY DEF Emit
<1>4. QED BY <1>1, <1>2, <1>3

\* What is reported is an event.
LEMMA EventIsEvent ==
  ASSUME NEW c \in Calls, NEW kind \in {"started", "sent", "received", "ended"}, NEW arg \in Nat
  PROVE  Event(c, kind, arg) \in Events /\ Event(c, kind, arg).call = c
         /\ Event(c, kind, arg).kind = kind
BY DEF Event, Events

\* A step that neither ends nor returns a call leaves its end last, as long as it
\* reports nothing of a call that has ended cleanly.
LEMMA EndsKept ==
  ASSUME Shape, NEW d \in Calls, EndsInOrder(d),
         handler'[d] = handler[d] \/ (handler[d] # "returned" /\ handler'[d] # "returned"),
         handler[d] = "returned" => outcome'[d] = outcome[d],
         \/ events' = events
         \/ \E e \in Events :
              /\ events' = Append(events, e)
              /\ e.call = d => e.kind # "ended" /\ ~(handler[d] = "returned" /\ outcome[d] = "ok")
  PROVE  EndsInOrder(d)'
<1>1. events \in Seq(Events)
  BY DEF Shape
<1>2. CASE events' = events
  BY <1>2 DEF EndsInOrder
<1>3. ASSUME NEW e \in Events, events' = Append(events, e),
             e.call = d => e.kind # "ended" /\ ~(handler[d] = "returned" /\ outcome[d] = "ok")
      PROVE  EndsInOrder(d)'
  <2>1. Len(events') = Len(events) + 1 /\ DOMAIN events' = 1 .. Len(events) + 1
        /\ DOMAIN events = 1 .. Len(events) /\ Len(events) \in Nat
        /\ events'[Len(events) + 1] = e /\ \A i \in DOMAIN events : events'[i] = events[i]
    BY <1>1, <1>3
  <2>2. \A i \in DOMAIN events' : i \in DOMAIN events \/ i = Len(events) + 1
    BY <2>1
  <2>3. handler'[d] # "returned" =>
          \A i \in DOMAIN events' : ~(events'[i].call = d /\ events'[i].kind = "ended")
    BY <1>3, <2>1, <2>2 DEF EndsInOrder
  <2>4. ASSUME handler'[d] = "returned", outcome'[d] = "ok", NEW i \in DOMAIN events',
               events'[i].call = d, events'[i].kind = "ended", NEW j \in i + 1 .. Len(events')
        PROVE  events'[j].call # d
    <3>1. handler[d] = "returned" /\ outcome[d] = "ok" /\ e.call # d
      BY <1>3, <2>4
    <3>2. i \in DOMAIN events /\ events[i].call = d /\ events[i].kind = "ended"
      BY <2>1, <2>2, <2>4, <3>1
    <3>3. j \in i + 1 .. Len(events) \/ j = Len(events) + 1
      BY <2>1, <2>4, <3>2
    <3>4. CASE j = Len(events) + 1
      BY <2>1, <3>1, <3>4
    <3>5. CASE j \in i + 1 .. Len(events)
      <4>1. j \in DOMAIN events
        BY <2>1, <3>2, <3>5
      <4>2. QED BY <2>1, <3>1, <3>2, <3>5, <4>1 DEF EndsInOrder
    <3>6. QED BY <3>3, <3>4, <3>5
  <2>5. QED BY <2>3, <2>4 DEF EndsInOrder
<1>4. QED BY <1>2, <1>3

\* The reader takes the oldest event: the ones behind it keep their order.
LEMMA EndsRead ==
  ASSUME Shape, NEW d \in Calls, EndsInOrder(d), Read
  PROVE  EndsInOrder(d)' /\ events' \in Seq(Events)
<1>1. events \in Seq(Events) /\ events # <<>> /\ events' = Tail(events)
      /\ UNCHANGED <<handler, outcome>>
  BY DEF Shape, Read
<1>2. Len(events') = Len(events) - 1 /\ events' \in Seq(Events)
      /\ \A i \in DOMAIN events' : i + 1 \in DOMAIN events /\ events'[i] = events[i + 1]
  BY <1>1
<1>3. handler'[d] # "returned" =>
        \A i \in DOMAIN events' : ~(events'[i].call = d /\ events'[i].kind = "ended")
  BY <1>1, <1>2 DEF EndsInOrder
<1>4. ASSUME handler'[d] = "returned", outcome'[d] = "ok", NEW i \in DOMAIN events',
             events'[i].call = d, events'[i].kind = "ended", NEW j \in i + 1 .. Len(events')
      PROVE  events'[j].call # d
  <2>1. i + 1 \in DOMAIN events /\ events[i + 1].call = d /\ events[i + 1].kind = "ended"
    BY <1>2, <1>4
  <2>2. i \in Nat /\ Len(events) \in Nat /\ DOMAIN events' = 1 .. Len(events')
    BY <1>1, <1>2
  <2>3. j \in DOMAIN events' /\ j + 1 \in (i + 1) + 1 .. Len(events)
    BY <1>2, <1>4, <2>2
  <2>4. QED BY <1>1, <1>2, <1>4, <2>1, <2>3 DEF EndsInOrder
<1>5. QED BY <1>2, <1>3, <1>4 DEF EndsInOrder

-----------------------------------------------------------------------------
(* The handler's steps. *)

\* Arrive keeps the invariant.
LEMMA ArriveStep ==
  ASSUME ProxyInv, Arrive
  PROVE  ProxyInv'
<1>1. calls + 1 \in Calls /\ calls' = calls + 1 /\ handler' = [handler EXCEPT ![calls + 1] = "starting"]
      /\ UNCHANGED <<outcome, pump, events, requests, replies>>
  BY DEF Arrive, Goto, reporting
<1>2. calls \in Nat /\ handler \in [Calls -> HandlerSteps] /\ handler[calls + 1] = "idle"
      /\ calls' \in 0 .. MaxCalls
  BY <1>1, ProxyAssumption DEF ProxyInv, Shape, CleanEnd, Calls
<1>3. Shape'
  BY <1>1, <1>2 DEF ProxyInv, Shape, HandlerSteps, Before, requests, replies
<1>4. \A d \in Calls : RequestsInHand(d)' /\ RepliesInHand(d)'
  BY <1>1, <1>2 DEF ProxyInv, RequestsInHand, RepliesInHand, Before, requests, replies
<1>5. \A d \in Calls : CleanEnd(d)'
  BY <1>1, <1>2 DEF ProxyInv, CleanEnd, Calls, replies
<1>6. \A d \in Calls : EndsInOrder(d)'
  BY <1>1, <1>2, EndsKept DEF ProxyInv
<1>7. QED BY <1>3, <1>4, <1>5, <1>6 DEF ProxyInv

\* ReportStart keeps the invariant.
LEMMA ReportStartStep ==
  ASSUME ProxyInv, NEW c \in Calls, ReportStart(c)
  PROVE  ProxyInv'
<1>1. Event(c, "started", 0) \in Events /\ Event(c, "started", 0).kind # "ended"
  BY EventIsEvent
<1>2. Emit(Handler(c), Event(c, "started", 0)) /\ handler[c] = "starting"
      /\ handler' = [handler EXCEPT ![c] = "opening"]
      /\ UNCHANGED <<calls, outcome, pump, requests, replies>>
  BY DEF ReportStart, At, Goto
<1>3. events' \in Seq(Events) /\ (events' = events \/ events' = Append(events, Event(c, "started", 0)))
  BY <1>1, <1>2, EmitAppends DEF ProxyInv
<1>4. Shape'
  BY <1>2, <1>3 DEF ProxyInv, Shape, HandlerSteps, Before, requests, replies
<1>5. \A d \in Calls : RequestsInHand(d)' /\ RepliesInHand(d)'
  BY <1>2 DEF ProxyInv, Shape, RequestsInHand, RepliesInHand, Before, requests, replies
<1>6. \A d \in Calls : CleanEnd(d)'
  BY <1>2 DEF ProxyInv, Shape, CleanEnd, replies
<1>7. \A d \in Calls : EndsInOrder(d)'
  <2>1. ASSUME NEW d \in Calls PROVE EndsInOrder(d)'
    <3>1. Event(c, "started", 0).call = d => ~(handler[d] = "returned")
      BY <1>2, EventIsEvent
    <3>2. handler \in [Calls -> HandlerSteps]
      BY DEF ProxyInv, Shape
    <3>3. handler'[d] = handler[d] \/ (handler[d] # "returned" /\ handler'[d] # "returned")
      BY <1>2, <3>2
    <3>4. QED BY <1>1, <1>2, <1>3, <3>1, <3>3, EndsKept DEF ProxyInv
  <2>2. QED BY <2>1
<1>8. QED BY <1>4, <1>5, <1>6, <1>7 DEF ProxyInv

\* OpenUpstream keeps the invariant.
LEMMA OpenUpstreamStep ==
  ASSUME ProxyInv, NEW c \in Calls, OpenUpstream(c)
  PROVE  ProxyInv'
<1>1. handler[c] = "opening" /\ handler' = [handler EXCEPT ![c] = "receiving"]
      /\ pump' = [pump EXCEPT ![c] = "receiving"]
      /\ UNCHANGED <<calls, outcome, reporting, requests, replies>>
  BY DEF OpenUpstream, At, Goto
<1>2. Shape'
  BY <1>1 DEF ProxyInv, Shape, HandlerSteps, PumpSteps, Before, Results, reporting, requests, replies
<1>3. \A d \in Calls : RequestsInHand(d)'
  BY <1>1 DEF ProxyInv, Shape, RequestsInHand, Before, requests, replies
<1>4. \A d \in Calls : RepliesInHand(d)'
  BY <1>1 DEF ProxyInv, Shape, RepliesInHand, Before, requests, replies
<1>5. \A d \in Calls : CleanEnd(d)'
  BY <1>1 DEF ProxyInv, Shape, CleanEnd, RepliesInHand, requests, replies
<1>6. \A d \in Calls : EndsInOrder(d)'
  <2>1. handler \in [Calls -> HandlerSteps] /\ outcome \in [Calls -> {"none", "ok", "failed", "bare"}]
    BY DEF ProxyInv, Shape
  <2>2. ASSUME NEW d \in Calls
        PROVE  /\ handler'[d] = handler[d] \/ (handler[d] # "returned" /\ handler'[d] # "returned")
               /\ handler[d] = "returned" => outcome'[d] = outcome[d]
    BY <1>1, <2>1
  <2>3. events' = events
    BY <1>1 DEF reporting
  <2>4. QED BY <2>2, <2>3, EndsKept DEF ProxyInv
<1>7. QED BY <1>2, <1>3, <1>4, <1>5, <1>6 DEF ProxyInv

\* RefusedUpstream keeps the invariant.
LEMMA RefusedUpstreamStep ==
  ASSUME ProxyInv, NEW c \in Calls, RefusedUpstream(c)
  PROVE  ProxyInv'
<1>1. handler[c] = "opening" /\ handler' = [handler EXCEPT ![c] = "ending"]
      /\ outcome' = [outcome EXCEPT ![c] = "failed"]
      /\ UNCHANGED <<calls, pump, reporting, requests, replies>>
  BY DEF RefusedUpstream, At, Goto
<1>2. Shape'
  BY <1>1 DEF ProxyInv, Shape, HandlerSteps, PumpSteps, Before, Results, reporting, requests, replies
<1>3. \A d \in Calls : RequestsInHand(d)'
  BY <1>1 DEF ProxyInv, Shape, RequestsInHand, Before, requests, replies
<1>4. \A d \in Calls : RepliesInHand(d)'
  BY <1>1 DEF ProxyInv, Shape, RepliesInHand, Before, requests, replies
<1>5. \A d \in Calls : CleanEnd(d)'
  BY <1>1 DEF ProxyInv, Shape, CleanEnd, RepliesInHand, requests, replies
<1>6. \A d \in Calls : EndsInOrder(d)'
  <2>1. handler \in [Calls -> HandlerSteps] /\ outcome \in [Calls -> {"none", "ok", "failed", "bare"}]
    BY DEF ProxyInv, Shape
  <2>2. ASSUME NEW d \in Calls
        PROVE  /\ handler'[d] = handler[d] \/ (handler[d] # "returned" /\ handler'[d] # "returned")
               /\ handler[d] = "returned" => outcome'[d] = outcome[d]
    BY <1>1, <2>1
  <2>3. events' = events
    BY <1>1 DEF reporting
  <2>4. QED BY <2>2, <2>3, EndsKept DEF ProxyInv
<1>7. QED BY <1>2, <1>3, <1>4, <1>5, <1>6 DEF ProxyInv

\* TakeReply keeps the invariant.
LEMMA TakeReplyStep ==
  ASSUME ProxyInv, NEW c \in Calls, TakeReply(c)
  PROVE  ProxyInv'
<1>1. handler[c] = "receiving" /\ handler' = [handler EXCEPT ![c] = "reporting"]
      /\ relayed[c] < replied[c] /\ relayed' = [relayed EXCEPT ![c] = @ + 1]
      /\ UNCHANGED <<calls, outcome, pump, reporting, requests, delivered, replied, upstream>>
  BY DEF TakeReply, At, Goto
<1>2. Shape'
  BY <1>1 DEF ProxyInv, Shape, HandlerSteps, PumpSteps, Before, Results, reporting, requests, replies
<1>3. \A d \in Calls : RequestsInHand(d)'
  BY <1>1 DEF ProxyInv, Shape, RequestsInHand, Before, requests, replies
<1>4. \A d \in Calls : RepliesInHand(d)'
  BY <1>1 DEF ProxyInv, Shape, RepliesInHand, Before, requests, replies
<1>5. \A d \in Calls : CleanEnd(d)'
  BY <1>1 DEF ProxyInv, Shape, CleanEnd, RepliesInHand, requests, replies
<1>6. \A d \in Calls : EndsInOrder(d)'
  <2>1. handler \in [Calls -> HandlerSteps] /\ outcome \in [Calls -> {"none", "ok", "failed", "bare"}]
    BY DEF ProxyInv, Shape
  <2>2. ASSUME NEW d \in Calls
        PROVE  /\ handler'[d] = handler[d] \/ (handler[d] # "returned" /\ handler'[d] # "returned")
               /\ handler[d] = "returned" => outcome'[d] = outcome[d]
    BY <1>1, <2>1
  <2>3. events' = events
    BY <1>1 DEF reporting
  <2>4. QED BY <2>2, <2>3, EndsKept DEF ProxyInv
<1>7. QED BY <1>2, <1>3, <1>4, <1>5, <1>6 DEF ProxyInv

\* EndOfReplies keeps the invariant.
LEMMA EndOfRepliesStep ==
  ASSUME ProxyInv, NEW c \in Calls, EndOfReplies(c)
  PROVE  ProxyInv'
<1>1. handler[c] = "receiving" /\ handler' = [handler EXCEPT ![c] = "waiting"]
      /\ relayed[c] = replied[c] /\ upstream[c] = "ok"
      /\ UNCHANGED <<calls, outcome, pump, reporting, requests, replies>>
  BY DEF EndOfReplies, At, Goto
<1>2. Shape'
  BY <1>1 DEF ProxyInv, Shape, HandlerSteps, PumpSteps, Before, Results, reporting, requests, replies
<1>3. \A d \in Calls : RequestsInHand(d)'
  BY <1>1 DEF ProxyInv, Shape, RequestsInHand, Before, requests, replies
<1>4. \A d \in Calls : RepliesInHand(d)'
  BY <1>1 DEF ProxyInv, Shape, RepliesInHand, Before, requests, replies
<1>5. \A d \in Calls : CleanEnd(d)'
  BY <1>1 DEF ProxyInv, Shape, CleanEnd, RepliesInHand, requests, replies, Before
<1>6. \A d \in Calls : EndsInOrder(d)'
  <2>1. handler \in [Calls -> HandlerSteps] /\ outcome \in [Calls -> {"none", "ok", "failed", "bare"}]
    BY DEF ProxyInv, Shape
  <2>2. ASSUME NEW d \in Calls
        PROVE  /\ handler'[d] = handler[d] \/ (handler[d] # "returned" /\ handler'[d] # "returned")
               /\ handler[d] = "returned" => outcome'[d] = outcome[d]
    BY <1>1, <2>1
  <2>3. events' = events
    BY <1>1 DEF reporting
  <2>4. QED BY <2>2, <2>3, EndsKept DEF ProxyInv
<1>7. QED BY <1>2, <1>3, <1>4, <1>5, <1>6 DEF ProxyInv

\* RepliesFail keeps the invariant.
LEMMA RepliesFailStep ==
  ASSUME ProxyInv, NEW c \in Calls, RepliesFail(c)
  PROVE  ProxyInv'
<1>1. handler[c] = "receiving" /\ handler' = [handler EXCEPT ![c] = "ending"]
      /\ outcome' = [outcome EXCEPT ![c] = "failed"]
      /\ UNCHANGED <<calls, pump, reporting, requests, replies>>
  BY DEF RepliesFail, At, Goto
<1>2. Shape'
  BY <1>1 DEF ProxyInv, Shape, HandlerSteps, PumpSteps, Before, Results, reporting, requests, replies
<1>3. \A d \in Calls : RequestsInHand(d)'
  BY <1>1 DEF ProxyInv, Shape, RequestsInHand, Before, requests, replies
<1>4. \A d \in Calls : RepliesInHand(d)'
  BY <1>1 DEF ProxyInv, Shape, RepliesInHand, Before, requests, replies
<1>5. \A d \in Calls : CleanEnd(d)'
  BY <1>1 DEF ProxyInv, Shape, CleanEnd, RepliesInHand, requests, replies
<1>6. \A d \in Calls : EndsInOrder(d)'
  <2>1. handler \in [Calls -> HandlerSteps] /\ outcome \in [Calls -> {"none", "ok", "failed", "bare"}]
    BY DEF ProxyInv, Shape
  <2>2. ASSUME NEW d \in Calls
        PROVE  /\ handler'[d] = handler[d] \/ (handler[d] # "returned" /\ handler'[d] # "returned")
               /\ handler[d] = "returned" => outcome'[d] = outcome[d]
    BY <1>1, <2>1
  <2>3. events' = events
    BY <1>1 DEF reporting
  <2>4. QED BY <2>2, <2>3, EndsKept DEF ProxyInv
<1>7. QED BY <1>2, <1>3, <1>4, <1>5, <1>6 DEF ProxyInv

\* HeaderRefused keeps the invariant.
LEMMA HeaderRefusedStep ==
  ASSUME ProxyInv, NEW c \in Calls, HeaderRefused(c)
  PROVE  ProxyInv'
<1>1. handler[c] = "receiving" /\ handler' = [handler EXCEPT ![c] = "ending"]
      /\ outcome' = [outcome EXCEPT ![c] = "bare"]
      /\ UNCHANGED <<calls, pump, reporting, requests, replies>>
  BY DEF HeaderRefused, At, Goto
<1>2. Shape'
  BY <1>1 DEF ProxyInv, Shape, HandlerSteps, PumpSteps, Before, Results, reporting, requests, replies
<1>3. \A d \in Calls : RequestsInHand(d)'
  BY <1>1 DEF ProxyInv, Shape, RequestsInHand, Before, requests, replies
<1>4. \A d \in Calls : RepliesInHand(d)'
  BY <1>1 DEF ProxyInv, Shape, RepliesInHand, Before, requests, replies
<1>5. \A d \in Calls : CleanEnd(d)'
  BY <1>1 DEF ProxyInv, Shape, CleanEnd, RepliesInHand, requests, replies
<1>6. \A d \in Calls : EndsInOrder(d)'
  <2>1. handler \in [Calls -> HandlerSteps] /\ outcome \in [Calls -> {"none", "ok", "failed", "bare"}]
    BY DEF ProxyInv, Shape
  <2>2. ASSUME NEW d \in Calls
        PROVE  /\ handler'[d] = handler[d] \/ (handler[d] # "returned" /\ handler'[d] # "returned")
               /\ handler[d] = "returned" => outcome'[d] = outcome[d]
    BY <1>1, <2>1
  <2>3. events' = events
    BY <1>1 DEF reporting
  <2>4. QED BY <2>2, <2>3, EndsKept DEF ProxyInv
<1>7. QED BY <1>2, <1>3, <1>4, <1>5, <1>6 DEF ProxyInv

\* HearPump keeps the invariant.
LEMMA HearPumpStep ==
  ASSUME ProxyInv, NEW c \in Calls, HearPump(c)
  PROVE  ProxyInv'
<1>1. handler[c] = "waiting" /\ handler' = [handler EXCEPT ![c] = "ending"]
      /\ pump[c] \in Results
      /\ outcome' = [outcome EXCEPT ![c] = IF pump[c] = "failed" THEN "failed" ELSE "ok"]
      /\ UNCHANGED <<calls, pump, reporting, requests, replies>>
  BY DEF HearPump, At, Goto
<1>2. Shape'
  BY <1>1 DEF ProxyInv, Shape, HandlerSteps, PumpSteps, Before, Results, reporting, requests, replies
<1>3. \A d \in Calls : RequestsInHand(d)'
  BY <1>1 DEF ProxyInv, Shape, RequestsInHand, Before, requests, replies
<1>4. \A d \in Calls : RepliesInHand(d)'
  BY <1>1 DEF ProxyInv, Shape, RepliesInHand, Before, requests, replies
<1>5. \A d \in Calls : CleanEnd(d)'
  BY <1>1 DEF ProxyInv, Shape, CleanEnd, RepliesInHand, requests, replies
<1>6. \A d \in Calls : EndsInOrder(d)'
  <2>1. handler \in [Calls -> HandlerSteps] /\ outcome \in [Calls -> {"none", "ok", "failed", "bare"}]
    BY DEF ProxyInv, Shape
  <2>2. ASSUME NEW d \in Calls
        PROVE  /\ handler'[d] = handler[d] \/ (handler[d] # "returned" /\ handler'[d] # "returned")
               /\ handler[d] = "returned" => outcome'[d] = outcome[d]
    BY <1>1, <2>1
  <2>3. events' = events
    BY <1>1 DEF reporting
  <2>4. QED BY <2>2, <2>3, EndsKept DEF ProxyInv
<1>7. QED BY <1>2, <1>3, <1>4, <1>5, <1>6 DEF ProxyInv

\* ReportReply keeps the invariant.
LEMMA ReportReplyStep ==
  ASSUME ProxyInv, NEW c \in Calls, ReportReply(c)
  PROVE  ProxyInv'
<1>e. /\ Event(c, "received", relayed[c]) \in Events /\ Event(c, "received", relayed[c]).call = c
      /\ Event(c, "received", relayed[c]).kind # "ended"
  BY EventIsEvent DEF ProxyInv, Shape
<1>0. /\ Emit(Handler(c), Event(c, "received", relayed[c])) /\ events' \in Seq(Events)
      /\ events' = events \/ events' = Append(events, Event(c, "received", relayed[c]))
  BY <1>e, EmitAppends DEF ReportReply, ProxyInv
<1>1. handler[c] = "reporting" /\ handler' = [handler EXCEPT ![c] = "forwarding"]
      /\ UNCHANGED <<calls, outcome, pump, requests, replies>>
  BY DEF ReportReply, At, Goto
<1>2. Shape'
  BY <1>1, <1>0 DEF ProxyInv, Shape, HandlerSteps, PumpSteps, Before, Results, reporting, requests, replies
<1>3. \A d \in Calls : RequestsInHand(d)'
  BY <1>1 DEF ProxyInv, Shape, RequestsInHand, Before, Results, requests, replies
<1>4. \A d \in Calls : RepliesInHand(d)'
  BY <1>1 DEF ProxyInv, Shape, RepliesInHand, Before, requests, replies
<1>5. \A d \in Calls : CleanEnd(d)'
  BY <1>1 DEF ProxyInv, Shape, CleanEnd, RepliesInHand, Results, requests, replies
<1>6. \A d \in Calls : EndsInOrder(d)'
  <2>1. ~(handler[c] = "returned" /\ outcome[c] = "ok")
    BY <1>1 DEF ProxyInv
  <2>2. handler \in [Calls -> HandlerSteps]
    BY DEF ProxyInv, Shape
  <2>3. \A d \in Calls :
          /\ handler'[d] = handler[d] \/ (handler[d] # "returned" /\ handler'[d] # "returned")
          /\ outcome'[d] = outcome[d]
          /\ Event(c, "received", relayed[c]).call = d => ~(handler[d] = "returned" /\ outcome[d] = "ok")
    BY <1>1, <1>e, <2>1, <2>2
  <2>4. QED BY <1>e, <1>0, <2>3, EndsKept DEF ProxyInv
<1>7. QED BY <1>2, <1>3, <1>4, <1>5, <1>6 DEF ProxyInv

\* PassReply keeps the invariant.
LEMMA PassReplyStep ==
  ASSUME ProxyInv, NEW c \in Calls, PassReply(c)
  PROVE  ProxyInv'
<1>1. handler[c] = "forwarding"
      /\ UNCHANGED <<calls, pump, reporting, requests, replied, relayed, upstream>>
      /\ \/ /\ handler' = [handler EXCEPT ![c] = "ending"]
            /\ outcome' = [outcome EXCEPT ![c] = "failed"] /\ UNCHANGED delivered
         \/ /\ handler' = [handler EXCEPT ![c] = "receiving"]
            /\ delivered' = [delivered EXCEPT ![c] = @ + 1] /\ UNCHANGED outcome
  BY DEF PassReply, At, Goto
<1>2. Shape'
  <2>1. handler' \in [Calls -> HandlerSteps] /\ outcome' \in [Calls -> {"none", "ok", "failed", "bare"}]
    BY <1>1 DEF ProxyInv, Shape, HandlerSteps
  <2>2. delivered \in [Calls -> Nat] /\ delivered[c] + 1 \in Nat
    BY DEF ProxyInv, Shape
  <2>3. delivered' \in [Calls -> Nat]
    BY <1>1, <2>2
  <2>4. QED BY <1>1, <2>1, <2>3 DEF ProxyInv, Shape, reporting, requests
<1>3. \A d \in Calls : RequestsInHand(d)'
  BY <1>1 DEF ProxyInv, Shape, RequestsInHand, Before, Results, requests, replies
<1>4. \A d \in Calls : RepliesInHand(d)'
  BY <1>1 DEF ProxyInv, Shape, RepliesInHand, Before, requests, replies
<1>5. \A d \in Calls : CleanEnd(d)'
  BY <1>1 DEF ProxyInv, Shape, CleanEnd, RepliesInHand, Results, requests, replies
<1>6. \A d \in Calls : EndsInOrder(d)'
  <2>1. handler \in [Calls -> HandlerSteps] /\ outcome \in [Calls -> {"none", "ok", "failed", "bare"}]
    BY DEF ProxyInv, Shape
  <2>2. ASSUME NEW d \in Calls
        PROVE  /\ handler'[d] = handler[d] \/ (handler[d] # "returned" /\ handler'[d] # "returned")
               /\ handler[d] = "returned" => outcome'[d] = outcome[d]
    BY <1>1, <2>1
  <2>3. events' = events
    BY <1>1 DEF reporting
  <2>4. QED BY <2>2, <2>3, EndsKept DEF ProxyInv
<1>7. QED BY <1>2, <1>3, <1>4, <1>5, <1>6 DEF ProxyInv

-----------------------------------------------------------------------------
(* The pump's steps. *)
LEMMA TakeRequestStep ==
  ASSUME ProxyInv, NEW c \in Calls, TakeRequest(c)
  PROVE  ProxyInv'
<1>1. pump[c] = "receiving" /\ pump' = [pump EXCEPT ![c] = "reporting"]
      /\ taken[c] < offered[c] /\ taken' = [taken EXCEPT ![c] = @ + 1]
      /\ UNCHANGED <<calls, handler, outcome, reporting, offered, client, carried, halfClosed, replies>>
  BY DEF TakeRequest, PumpAt, PumpGoto
<1>2. Shape'
  BY <1>1 DEF ProxyInv, Shape, HandlerSteps, PumpSteps, Before, Results, reporting, requests, replies
<1>3. \A d \in Calls : RequestsInHand(d)'
  BY <1>1 DEF ProxyInv, Shape, RequestsInHand, Before, Results, requests, replies
<1>4. \A d \in Calls : RepliesInHand(d)'
  BY <1>1 DEF ProxyInv, Shape, RepliesInHand, Before, requests, replies
<1>5. \A d \in Calls : CleanEnd(d)'
  BY <1>1 DEF ProxyInv, Shape, CleanEnd, RepliesInHand, Results, requests, replies
<1>6. \A d \in Calls : EndsInOrder(d)'
  BY <1>1, EndsKept DEF ProxyInv, reporting
<1>7. QED BY <1>2, <1>3, <1>4, <1>5, <1>6 DEF ProxyInv

\* ReportRequest keeps the invariant.
LEMMA ReportRequestStep ==
  ASSUME ProxyInv, NEW c \in Calls, ReportRequest(c)
  PROVE  ProxyInv'
<1>e. /\ Event(c, "sent", taken[c]) \in Events /\ Event(c, "sent", taken[c]).call = c
      /\ Event(c, "sent", taken[c]).kind # "ended"
  BY EventIsEvent DEF ProxyInv, Shape
<1>0. /\ Emit(Pump(c), Event(c, "sent", taken[c])) /\ events' \in Seq(Events)
      /\ events' = events \/ events' = Append(events, Event(c, "sent", taken[c]))
  BY <1>e, EmitAppends DEF ReportRequest, ProxyInv
<1>1. pump[c] = "reporting" /\ pump' = [pump EXCEPT ![c] = "forwarding"]
      /\ UNCHANGED <<calls, handler, outcome, requests, replies>>
  BY DEF ReportRequest, PumpAt, PumpGoto
<1>2. Shape'
  BY <1>1, <1>0 DEF ProxyInv, Shape, HandlerSteps, PumpSteps, Before, Results, reporting, requests, replies
<1>3. \A d \in Calls : RequestsInHand(d)'
  BY <1>1 DEF ProxyInv, Shape, RequestsInHand, Before, Results, requests, replies
<1>4. \A d \in Calls : RepliesInHand(d)'
  BY <1>1 DEF ProxyInv, Shape, RepliesInHand, Before, requests, replies
<1>5. \A d \in Calls : CleanEnd(d)'
  BY <1>1 DEF ProxyInv, Shape, CleanEnd, RepliesInHand, Results, requests, replies
<1>6. \A d \in Calls : EndsInOrder(d)'
  <2>1. ~(handler[c] = "returned" /\ outcome[c] = "ok")
    BY <1>1 DEF ProxyInv, CleanEnd, Results
  <2>2. handler \in [Calls -> HandlerSteps]
    BY DEF ProxyInv, Shape
  <2>3. \A d \in Calls :
          /\ handler'[d] = handler[d] \/ (handler[d] # "returned" /\ handler'[d] # "returned")
          /\ outcome'[d] = outcome[d]
          /\ Event(c, "sent", taken[c]).call = d => ~(handler[d] = "returned" /\ outcome[d] = "ok")
    BY <1>1, <1>e, <2>1, <2>2
  <2>4. QED BY <1>e, <1>0, <2>3, EndsKept DEF ProxyInv
<1>7. QED BY <1>2, <1>3, <1>4, <1>5, <1>6 DEF ProxyInv

\* PassRequest keeps the invariant.
LEMMA PassRequestStep ==
  ASSUME ProxyInv, NEW c \in Calls, PassRequest(c)
  PROVE  ProxyInv'
<1>1. pump[c] = "forwarding"
      /\ UNCHANGED <<calls, handler, outcome, reporting, offered, client, taken, halfClosed, replies>>
      /\ \/ pump' = [pump EXCEPT ![c] = "eof"] /\ UNCHANGED carried
         \/ /\ pump' = [pump EXCEPT ![c] = "receiving"]
            /\ carried' = [carried EXCEPT ![c] = @ + 1]
  BY DEF PassRequest, PumpAt, PumpGoto
<1>2. Shape'
  <2>1. pump' \in [Calls -> PumpSteps]
    BY <1>1 DEF ProxyInv, Shape, PumpSteps, Results
  <2>2. carried \in [Calls -> Nat] /\ carried[c] + 1 \in Nat
    BY DEF ProxyInv, Shape
  <2>3. carried' \in [Calls -> Nat]
    BY <1>1, <2>2
  <2>4. QED BY <1>1, <2>1, <2>3 DEF ProxyInv, Shape, reporting, replies
<1>3. \A d \in Calls : RequestsInHand(d)'
  BY <1>1 DEF ProxyInv, Shape, RequestsInHand, Before, Results, requests, replies
<1>4. \A d \in Calls : RepliesInHand(d)'
  BY <1>1 DEF ProxyInv, Shape, RepliesInHand, Before, requests, replies
<1>5. \A d \in Calls : CleanEnd(d)'
  BY <1>1 DEF ProxyInv, Shape, CleanEnd, RepliesInHand, Results, requests, replies
<1>6. \A d \in Calls : EndsInOrder(d)'
  BY <1>1, EndsKept DEF ProxyInv, reporting
<1>7. QED BY <1>2, <1>3, <1>4, <1>5, <1>6 DEF ProxyInv

\* RefuseRequest keeps the invariant.
LEMMA RefuseRequestStep ==
  ASSUME ProxyInv, NEW c \in Calls, RefuseRequest(c)
  PROVE  ProxyInv'
<1>1. pump[c] = "forwarding" /\ pump' = [pump EXCEPT ![c] = "failed"]
      /\ upstream' = [upstream EXCEPT ![c] = IF @ = "no" THEN "failed" ELSE @]
      /\ UNCHANGED <<calls, handler, outcome, reporting, requests, delivered, replied, relayed>>
  BY DEF RefuseRequest, PumpAt, PumpGoto
<1>2. Shape'
  BY <1>1 DEF ProxyInv, Shape, HandlerSteps, PumpSteps, Before, Results, reporting, requests, replies
<1>3. \A d \in Calls : RequestsInHand(d)'
  BY <1>1 DEF ProxyInv, Shape, RequestsInHand, Before, Results, requests, replies
<1>4. \A d \in Calls : RepliesInHand(d)'
  BY <1>1 DEF ProxyInv, Shape, RepliesInHand, Before, requests, replies
<1>5. \A d \in Calls : CleanEnd(d)'
  BY <1>1 DEF ProxyInv, Shape, CleanEnd, RepliesInHand, Results, requests, replies
<1>6. \A d \in Calls : EndsInOrder(d)'
  BY <1>1, EndsKept DEF ProxyInv, reporting
<1>7. QED BY <1>2, <1>3, <1>4, <1>5, <1>6 DEF ProxyInv

\* EndOfRequests keeps the invariant.
LEMMA EndOfRequestsStep ==
  ASSUME ProxyInv, NEW c \in Calls, EndOfRequests(c)
  PROVE  ProxyInv'
<1>1. pump[c] = "receiving" /\ pump' = [pump EXCEPT ![c] = "ok"]
      /\ taken[c] = offered[c] /\ client[c] = "closed"
      /\ halfClosed' = [halfClosed EXCEPT ![c] = TRUE]
      /\ UNCHANGED <<calls, handler, outcome, reporting, offered, client, taken, carried, replies>>
  BY DEF EndOfRequests, PumpAt, PumpGoto
<1>2. Shape'
  BY <1>1 DEF ProxyInv, Shape, HandlerSteps, PumpSteps, Before, Results, reporting, requests, replies
<1>3. \A d \in Calls : RequestsInHand(d)'
  BY <1>1 DEF ProxyInv, Shape, RequestsInHand, Before, Results, requests, replies
<1>4. \A d \in Calls : RepliesInHand(d)'
  BY <1>1 DEF ProxyInv, Shape, RepliesInHand, Before, requests, replies
<1>5. \A d \in Calls : CleanEnd(d)'
  BY <1>1 DEF ProxyInv, Shape, CleanEnd, RepliesInHand, Results, requests, replies
<1>6. \A d \in Calls : EndsInOrder(d)'
  BY <1>1, EndsKept DEF ProxyInv, reporting
<1>7. QED BY <1>2, <1>3, <1>4, <1>5, <1>6 DEF ProxyInv

\* RequestsFail keeps the invariant.
LEMMA RequestsFailStep ==
  ASSUME ProxyInv, NEW c \in Calls, RequestsFail(c)
  PROVE  ProxyInv'
<1>1. pump[c] = "receiving" /\ pump' = [pump EXCEPT ![c] = "failed"]
      /\ UNCHANGED <<calls, handler, outcome, reporting, requests, replies>>
  BY DEF RequestsFail, PumpAt, PumpGoto
<1>2. Shape'
  BY <1>1 DEF ProxyInv, Shape, HandlerSteps, PumpSteps, Before, Results, reporting, requests, replies
<1>3. \A d \in Calls : RequestsInHand(d)'
  BY <1>1 DEF ProxyInv, Shape, RequestsInHand, Before, Results, requests, replies
<1>4. \A d \in Calls : RepliesInHand(d)'
  BY <1>1 DEF ProxyInv, Shape, RepliesInHand, Before, requests, replies
<1>5. \A d \in Calls : CleanEnd(d)'
  BY <1>1 DEF ProxyInv, Shape, CleanEnd, RepliesInHand, Results, requests, replies
<1>6. \A d \in Calls : EndsInOrder(d)'
  BY <1>1, EndsKept DEF ProxyInv, reporting
<1>7. QED BY <1>2, <1>3, <1>4, <1>5, <1>6 DEF ProxyInv

-----------------------------------------------------------------------------
(* The client's steps and the server's. *)
LEMMA ClientSendsStep ==
  ASSUME ProxyInv, NEW c \in Calls, ClientSends(c)
  PROVE  ProxyInv'
<1>1. client[c] = "open" /\ offered' = [offered EXCEPT ![c] = @ + 1]
      /\ UNCHANGED <<calls, handler, outcome, pump, reporting, client, taken, carried, halfClosed, replies>>
  BY DEF ClientSends
<1>2. Shape'
  BY <1>1 DEF ProxyInv, Shape, HandlerSteps, PumpSteps, Before, Results, reporting, requests, replies
<1>3. \A d \in Calls : RequestsInHand(d)'
  BY <1>1 DEF ProxyInv, Shape, RequestsInHand, Before, Results, requests, replies
<1>4. \A d \in Calls : RepliesInHand(d)'
  BY <1>1 DEF ProxyInv, Shape, RepliesInHand, Before, requests, replies
<1>5. \A d \in Calls : CleanEnd(d)'
  BY <1>1 DEF ProxyInv, Shape, CleanEnd, RepliesInHand, Results, requests, replies
<1>6. \A d \in Calls : EndsInOrder(d)'
  BY <1>1, EndsKept DEF ProxyInv, reporting
<1>7. QED BY <1>2, <1>3, <1>4, <1>5, <1>6 DEF ProxyInv

\* ClientEnds keeps the invariant.
LEMMA ClientEndsStep ==
  ASSUME ProxyInv, NEW c \in Calls, NEW how \in {"closed", "gone"}, ClientEnds(c, how)
  PROVE  ProxyInv'
<1>1. client' = [client EXCEPT ![c] = how]
      /\ UNCHANGED <<calls, handler, outcome, pump, reporting, offered, taken, carried, halfClosed, replies>>
  BY DEF ClientEnds
<1>2. Shape'
  BY <1>1 DEF ProxyInv, Shape, HandlerSteps, PumpSteps, Before, Results, reporting, requests, replies
<1>3. \A d \in Calls : RequestsInHand(d)'
  BY <1>1 DEF ProxyInv, Shape, RequestsInHand, Before, Results, requests, replies
<1>4. \A d \in Calls : RepliesInHand(d)'
  BY <1>1 DEF ProxyInv, Shape, RepliesInHand, Before, requests, replies
<1>5. \A d \in Calls : CleanEnd(d)'
  BY <1>1 DEF ProxyInv, Shape, CleanEnd, RepliesInHand, Results, requests, replies
<1>6. \A d \in Calls : EndsInOrder(d)'
  BY <1>1, EndsKept DEF ProxyInv, reporting
<1>7. QED BY <1>2, <1>3, <1>4, <1>5, <1>6 DEF ProxyInv

\* ServerReplies keeps the invariant.
LEMMA ServerRepliesStep ==
  ASSUME ProxyInv, NEW c \in Calls, ServerReplies(c)
  PROVE  ProxyInv'
<1>1. upstream[c] = "no" /\ replied' = [replied EXCEPT ![c] = @ + 1]
      /\ UNCHANGED <<calls, handler, outcome, pump, reporting, requests, delivered, relayed, upstream>>
  BY DEF ServerReplies, Upstream
<1>2. Shape'
  BY <1>1 DEF ProxyInv, Shape, HandlerSteps, PumpSteps, Before, Results, reporting, requests, replies
<1>3. \A d \in Calls : RequestsInHand(d)'
  BY <1>1 DEF ProxyInv, Shape, RequestsInHand, Before, Results, requests, replies
<1>4. \A d \in Calls : RepliesInHand(d)'
  BY <1>1 DEF ProxyInv, Shape, RepliesInHand, Before, requests, replies
<1>5. \A d \in Calls : CleanEnd(d)'
  BY <1>1 DEF ProxyInv, Shape, CleanEnd, RepliesInHand, Results, requests, replies
<1>6. \A d \in Calls : EndsInOrder(d)'
  BY <1>1, EndsKept DEF ProxyInv, reporting
<1>7. QED BY <1>2, <1>3, <1>4, <1>5, <1>6 DEF ProxyInv

\* ServerEnds keeps the invariant.
LEMMA ServerEndsStep ==
  ASSUME ProxyInv, NEW c \in Calls, NEW how \in {"ok", "failed"}, ServerEnds(c, how)
  PROVE  ProxyInv'
<1>1. upstream[c] = "no" /\ upstream' = [upstream EXCEPT ![c] = how]
      /\ UNCHANGED <<calls, handler, outcome, pump, reporting, requests, delivered, replied, relayed>>
  BY DEF ServerEnds, Upstream
<1>2. Shape'
  BY <1>1 DEF ProxyInv, Shape, HandlerSteps, PumpSteps, Before, Results, reporting, requests, replies
<1>3. \A d \in Calls : RequestsInHand(d)'
  BY <1>1 DEF ProxyInv, Shape, RequestsInHand, Before, Results, requests, replies
<1>4. \A d \in Calls : RepliesInHand(d)'
  BY <1>1 DEF ProxyInv, Shape, RepliesInHand, Before, requests, replies
<1>5. \A d \in Calls : CleanEnd(d)'
  BY <1>1 DEF ProxyInv, Shape, CleanEnd, RepliesInHand, Results, requests, replies
<1>6. \A d \in Calls : EndsInOrder(d)'
  BY <1>1, EndsKept DEF ProxyInv, reporting
<1>7. QED BY <1>2, <1>3, <1>4, <1>5, <1>6 DEF ProxyInv

-----------------------------------------------------------------------------
(* The end of a call, and the steps that are no call's. *)

\* finish: nothing said the call had ended, and now its end is the newest event.
LEMMA FinishStep ==
  ASSUME ProxyInv, NEW c \in Calls, Finish(c)
  PROVE  ProxyInv'
<1> DEFINE e == Event(c, "ended", IF outcome[c] = "failed" THEN 1 ELSE 0)
<1>e. e \in Events /\ e.call = c /\ e.kind = "ended"
  <2>1. (IF outcome[c] = "failed" THEN 1 ELSE 0) \in Nat
    OBVIOUS
  <2>2. QED BY <2>1, EventIsEvent
<1>1. /\ Emit(Handler(c), e)
      /\ handler[c] = "ending" /\ handler' = [handler EXCEPT ![c] = "returned"]
      /\ UNCHANGED <<calls, outcome, pump, requests, replies>>
  BY DEF Finish, At, Goto
<1> HIDE DEF e
<1>2. /\ events \in Seq(Events) /\ events' \in Seq(Events)
      /\ events' = events \/ events' = Append(events, e)
  BY <1>1, <1>e, EmitAppends DEF ProxyInv, Shape
<1>3. Shape'
  BY <1>1, <1>2 DEF ProxyInv, Shape, HandlerSteps, requests, replies
<1>4. \A d \in Calls : RequestsInHand(d)' /\ RepliesInHand(d)'
  BY <1>1 DEF ProxyInv, Shape, RequestsInHand, RepliesInHand, Before, requests, replies
<1>5. \A d \in Calls : CleanEnd(d)'
  BY <1>1 DEF ProxyInv, Shape, CleanEnd, replies
<1>6. EndsInOrder(c)'
  <2>1. \A i \in DOMAIN events : ~(events[i].call = c /\ events[i].kind = "ended")
    BY <1>1 DEF ProxyInv, EndsInOrder
  <2>2. ASSUME NEW i \in DOMAIN events', events'[i].call = c, events'[i].kind = "ended",
               NEW j \in i + 1 .. Len(events')
        PROVE  FALSE
    <3>1. events' = Append(events, e)
      BY <1>2, <2>1, <2>2
    <3>2. i \in DOMAIN events \/ i = Len(events) + 1
      BY <1>2, <2>2, <3>1
    <3>3. i \notin DOMAIN events
      BY <1>2, <2>1, <2>2, <3>1
    <3>4. Len(events') = Len(events) + 1 /\ Len(events) \in Nat
      BY <1>2, <3>1
    <3>5. QED BY <2>2, <3>2, <3>3, <3>4
  <2>3. handler'[c] = "returned"
    BY <1>1 DEF ProxyInv, Shape
  <2>4. QED BY <2>2, <2>3 DEF EndsInOrder
<1>7. \A d \in Calls : d # c => EndsInOrder(d)'
  <2>1. \A d \in Calls : d # c => handler'[d] = handler[d] /\ outcome'[d] = outcome[d]
    BY <1>1 DEF ProxyInv, Shape
  <2>2. QED BY <1>2, <1>e, <2>1, EndsKept DEF ProxyInv
<1>8. QED BY <1>3, <1>4, <1>5, <1>6, <1>7 DEF ProxyInv

\* Read keeps the invariant.
LEMMA ReadStep ==
  ASSUME ProxyInv, Read
  PROVE  ProxyInv'
<1>1. UNCHANGED <<calls, handler, outcome, pump, requests, replies>>
  BY DEF Read
<1>2. \A d \in Calls : EndsInOrder(d)'
  BY EndsRead DEF ProxyInv
<1>3. events' \in Seq(Events)
  <2>1. events \in Seq(Events)
    BY DEF ProxyInv, Shape
  <2>2. QED BY <2>1 DEF Read
<1>4. Shape'
  BY <1>1, <1>3 DEF ProxyInv, Shape, requests, replies
<1>5. \A d \in Calls : RequestsInHand(d)' /\ RepliesInHand(d)' /\ CleanEnd(d)'
  BY <1>1 DEF ProxyInv, RequestsInHand, RepliesInHand, CleanEnd, requests, replies
<1>6. QED BY <1>2, <1>4, <1>5 DEF ProxyInv

\* Counting a drop, and Stop, leave the calls and the channel as they are.
LEMMA IdleStep ==
  ASSUME ProxyInv, UNCHANGED <<calls, handler, outcome, pump, events, requests, replies>>
  PROVE  ProxyInv'
<1>1. Shape'
  BY DEF ProxyInv, Shape, requests, replies
<1>2. \A d \in Calls : RequestsInHand(d)' /\ RepliesInHand(d)' /\ CleanEnd(d)'
  BY DEF ProxyInv, RequestsInHand, RepliesInHand, CleanEnd, requests, replies
<1>3. \A d \in Calls : EndsInOrder(d)'
  BY DEF ProxyInv, EndsInOrder
<1>4. QED BY <1>1, <1>2, <1>3 DEF ProxyInv

-----------------------------------------------------------------------------
(* The theorems. *)

\* A proxy starts with the invariant.
LEMMA InitProxy == Init => ProxyInv
<1> SUFFICES ASSUME Init PROVE ProxyInv
  OBVIOUS
<1>1. Shape
  <2>1. halfClosed \in [Calls -> BOOLEAN] /\ events \in Seq(Events)
    BY DEF Init
  <2>2. calls \in 0 .. MaxCalls
    BY ProxyAssumption DEF Init
  <2>3. QED BY <2>1, <2>2 DEF Init, Shape, HandlerSteps, PumpSteps, Before
<1>2. \A c \in Calls : RequestsInHand(c) /\ RepliesInHand(c) /\ CleanEnd(c) /\ EndsInOrder(c)
  BY DEF Init, RequestsInHand, RepliesInHand, CleanEnd, EndsInOrder, Before
<1>3. QED BY <1>1, <1>2 DEF ProxyInv

\* Handle keeps the invariant.
LEMMA HandleStep ==
  ASSUME ProxyInv, NEW c \in Calls, Handle(c)
  PROVE  ProxyInv'
<1>1. CASE CountDrop(Handler(c))
  BY <1>1, IdleStep DEF CountDrop
<1>2. QED
  BY <1>1, ReportStartStep, OpenUpstreamStep, RefusedUpstreamStep, TakeReplyStep,
     ReportReplyStep, PassReplyStep, EndOfRepliesStep, RepliesFailStep, HeaderRefusedStep,
     HearPumpStep, FinishStep
  DEF Handle

\* PumpRequests keeps the invariant.
LEMMA PumpRequestsStep ==
  ASSUME ProxyInv, NEW c \in Calls, PumpRequests(c)
  PROVE  ProxyInv'
<1>1. CASE CountDrop(Pump(c))
  BY <1>1, IdleStep DEF CountDrop
<1>2. QED
  BY <1>1, TakeRequestStep, ReportRequestStep, PassRequestStep, RefuseRequestStep,
     EndOfRequestsStep, RequestsFailStep
  DEF PumpRequests

\* ProxyInv is inductive: one case per kind of step.
LEMMA StepProxy == ProxyInv /\ [Next]_vars => ProxyInv'
<1> SUFFICES ASSUME ProxyInv, [Next]_vars PROVE ProxyInv'
  OBVIOUS
<1>1. CASE Arrive
  BY <1>1, ArriveStep
<1>2. ASSUME NEW c \in Calls, Handle(c) \/ PumpRequests(c) PROVE ProxyInv'
  BY <1>2, HandleStep, PumpRequestsStep
<1>3. CASE StopBegins \/ StopEnds
  BY <1>3, IdleStep DEF StopBegins, StopEnds, reporting
<1>4. CASE Ends
  BY <1>4, ClientSendsStep, ClientEndsStep, ServerRepliesStep, ServerEndsStep DEF Ends
<1>5. CASE Read
  BY <1>5, ReadStep
<1>6. CASE UNCHANGED vars
  BY <1>6, IdleStep DEF vars, reporting
<1>7. QED BY <1>1, <1>2, <1>3, <1>4, <1>5, <1>6 DEF Next, Forward

\* The inductive invariant of the proxy holds of every behaviour, however its goroutines
\* interleave and whenever it is stopped.
THEOREM ProxyInvHolds == Spec => []ProxyInv
<1>1. QED BY InitProxy, StepProxy, PTL DEF Spec

\* Passive mode as a whole takes the proxy's own steps: the panel's chain of watches is
\* one reader of the channel, and folding an event in is no step of the proxy.
THEOREM PassiveModeIsTheProxy == PassiveSpec => Spec
<1>1. InitAll => Init
  BY DEF InitAll
<1>2. [NextAll]_all => [Next]_vars
  BY DEF NextAll, all, Next, Screen, Watch, FoldIn, WatchOver
<1>3. QED BY <1>1, <1>2, PTL DEF PassiveSpec, Spec

\* What the proxy passes on it has been given, in both directions and with at most one
\* message in hand, and it closes its half only behind all the client sent.
THEOREM NothingIsInvented == PassiveSpec => []Passive
<1>1. ProxyInv => Passive
  BY DEF ProxyInv, Shape, RequestsInHand, RepliesInHand, Passive
<1>2. QED BY <1>1, ProxyInvHolds, PassiveModeIsTheProxy, PTL

\* A call the client is told ended OK was ended OK by the server, with every reply passed
\* on first.
THEOREM CleanCallsAreWhole == PassiveSpec => []CleanCallIsWhole
<1>1. ProxyInv => CleanCallIsWhole
  BY DEF ProxyInv, CleanEnd, CleanCallIsWhole
<1>2. QED BY <1>1, ProxyInvHolds, PassiveModeIsTheProxy, PTL

\* When a call that ended cleanly has returned its pump is done, and nothing of it is
\* reported after its end.
THEOREM EndedIsTheLastWord == PassiveSpec => []CleanEndIsLast
<1>1. ProxyInv => CleanEndIsLast
  BY DEF ProxyInv, CleanEnd, EndsInOrder, CleanEndIsLast
<1>2. QED BY <1>1, ProxyInvHolds, PassiveModeIsTheProxy, PTL

-----------------------------------------------------------------------------
(* The log.  What the proxy has told of a call is in the call's row, on its  *)
(* way to the panel, or, if anything was ever lost, nowhere.                 *)

Dirs == {"sent", "received"}

\* The events on their way to the panel, the oldest first.
Way == inHand \o events

\* Nothing was lost: every event was put on the channel, and no row has fallen off.
Lossless == dropped = 0 /\ counting = {} /\ fallen = 0 /\ ~panicked

\* What the proxy has told of a call: that there is one, how many messages went each
\* way, and how it ended.
Heard(c) == handler[c] \notin {"idle", "starting"}
Over(c) == handler[c] = "returned"
Ill(c) == outcome[c] = "failed"
Reported(c, dir) ==
  IF dir = "sent" THEN taken[c] - (IF pump[c] = "reporting" THEN 1 ELSE 0)
  ELSE relayed[c] - (IF handler[c] = "reporting" THEN 1 ELSE 0)

\* What the row of a call has counted of it.
Counted(c, dir) ==
  IF c \in DOMAIN at THEN (IF dir = "sent" THEN RowOf(c).sent ELSE RowOf(c).received) ELSE 0

On(i, c, kind) == Way[i].call = c /\ Way[i].kind = kind

\* The index of the rows is right, and no call has two of them.
RowType == [id : Calls, sent : Nat, received : Nat, request : Nat, done : BOOLEAN,
            hasStatus : BOOLEAN]
Indexed ==
  /\ rows \in Seq(RowType) /\ Len(rows) <= MaxTrafficCalls
  /\ fallen \in Nat
  /\ \A c \in DOMAIN at : c \in Calls /\ at[c] \in Nat /\ at[c] + 1 \in DOMAIN rows /\ RowOf(c).id = c
  /\ \A i \in DOMAIN rows : rows[i].id \in DOMAIN at /\ at[rows[i].id] = i - 1

\* A call is reported under its number once, before anything else is said of it.
StartedFirst(c) ==
  /\ ~Heard(c) => c \notin DOMAIN at /\ \A i \in DOMAIN Way : Way[i].call # c
  /\ \A i \in DOMAIN Way :
       On(i, c, "started") => c \notin DOMAIN at /\ \A j \in 1 .. i - 1 : Way[j].call # c

\* What is on its way of one direction is numbered upwards, from what the row has
\* counted to what was reported.
InTurn(c, dir) ==
  /\ Counted(c, dir) <= Reported(c, dir)
  /\ \A i \in DOMAIN Way :
       On(i, c, dir) => Counted(c, dir) < Way[i].arg /\ Way[i].arg <= Reported(c, dir)
  /\ \A i, j \in DOMAIN Way : i < j /\ On(i, c, dir) /\ On(j, c, dir) => Way[i].arg < Way[j].arg

\* The end said of a call is the one it had.
EndAsItWas(c) ==
  /\ \A i \in DOMAIN Way :
       On(i, c, "ended") => Over(c) /\ (Way[i].arg = 1 <=> Ill(c))
  /\ c \in DOMAIN at /\ RowOf(c).done => Over(c) /\ (RowOf(c).hasStatus <=> Ill(c))

\* While nothing is lost, whatever was told of a call is in its row or on its way.
Whole(c) ==
  Lossless /\ Heard(c) =>
    /\ c \in DOMAIN at \/ \E i \in DOMAIN Way : On(i, c, "started")
    /\ \A dir \in Dirs : \A m \in 1 .. Reported(c, dir) :
         m <= Counted(c, dir) \/ \E i \in DOMAIN Way : On(i, c, dir) /\ Way[i].arg = m
    /\ Over(c) =>
         (c \in DOMAIN at /\ RowOf(c).done) \/ \E i \in DOMAIN Way : On(i, c, "ended")

Told(c) == StartedFirst(c) /\ (\A dir \in Dirs : InTurn(c, dir)) /\ EndAsItWas(c) /\ Whole(c)

\* A watch is out or its event is in hand, and never both.
Watched ==
  /\ inHand \in Seq(Events) /\ (inHand # <<>> => inHand = <<inHand[1]>>)
  /\ dropped \in Nat

LogInv == ProxyInv /\ Watched /\ Indexed /\ \A c \in Calls : Told(c)

\* The proxy tells nothing new of a call.
SameTold(c) ==
  /\ Heard(c)' <=> Heard(c)
  /\ Over(c)' <=> Over(c)
  /\ Over(c) => (Ill(c)' <=> Ill(c))
  /\ \A dir \in Dirs : Reported(c, dir)' = Reported(c, dir)

\* An event joins the ones on their way, or it is lost and that shows.
Joins(e) == Way' = Append(Way, e) \/ (Way' = Way /\ ~Lossless')

SameRows == UNCHANGED <<rows, at, fallen>>

-----------------------------------------------------------------------------
(* What an event on its way does to what is told of the calls. *)

\* What a row has counted one way is a number.
LEMMA CountedIsANumber ==
  ASSUME Indexed, NEW c, NEW dir
  PROVE  Counted(c, dir) \in Nat
<1>1. CASE c \in DOMAIN at
  <2>1. RowOf(c) \in RowType
    BY <1>1 DEF Indexed, RowOf
  <2>2. QED BY <1>1, <2>1 DEF Counted, RowType
<1>2. QED BY <1>1 DEF Counted

\* What a goroutine has reported one way is a number.
LEMMA ReportedIsANumber ==
  ASSUME Shape, NEW c \in Calls, NEW dir
  PROVE  Reported(c, dir) \in Int
BY DEF Shape, Reported

\* The same events and one more, or no more, on their way.
LEMMA WayGrows ==
  ASSUME Way \in Seq(Events), NEW e \in Events, Way' = Way \/ Way' = Append(Way, e)
  PROVE  /\ Way' \in Seq(Events) /\ Len(Way) \in Nat /\ DOMAIN Way = 1 .. Len(Way)
         /\ \A i \in DOMAIN Way : i \in DOMAIN Way' /\ Way'[i] = Way[i]
         /\ \A i \in DOMAIN Way' :
              i \in DOMAIN Way
              \/ (i = Len(Way) + 1 /\ Way'[i] = e /\ Way' = Append(Way, e))
         /\ Way' = Append(Way, e) => Len(Way) + 1 \in DOMAIN Way' /\ Way'[Len(Way) + 1] = e
<1>1. Len(Way) \in Nat /\ DOMAIN Way = 1 .. Len(Way)
  OBVIOUS
<1>2. CASE Way' = Append(Way, e)
  <2>1. DOMAIN Way' = 1 .. Len(Way) + 1 /\ Way'[Len(Way) + 1] = e
        /\ \A i \in 1 .. Len(Way) : Way'[i] = Way[i]
    BY <1>2
  <2>2. Way' \in Seq(Events)
    BY <1>2
  <2>3. QED BY <1>1, <1>2, <2>1, <2>2
<1>3. CASE Way' = Way
  <2>1. Way # Append(Way, e)
    <3>1. Len(Append(Way, e)) = Len(Way) + 1
      OBVIOUS
    <3>2. \A n \in Nat : n + 1 # n
      OBVIOUS
    <3>3. QED BY ONLY <1>1, <3>1, <3>2, Zenon
  <2>2. QED BY <1>1, <1>3, <2>1
<1>4. QED BY <1>2, <1>3

\* Nothing is told of a call: its row and what is on its way stay as true as they were,
\* whatever is said of the others.
LEMMA ToldKept ==
  ASSUME Way \in Seq(Events), NEW d \in Calls, Told(d), SameTold(d), SameRows,
         Lossless' => Lossless,
         Way' = Way \/ \E e \in Events : Way' = Append(Way, e) /\ e.call # d
  PROVE  Told(d)'
<1>1. PICK e \in Events : Way' = Way \/ (Way' = Append(Way, e) /\ e.call # d)
  <2>1. \E e : e \in Events
    <3>1. Event(d, "started", 0) \in Events
      BY DEF Event, Events
    <3>2. QED BY <3>1
  <2>2. QED BY <2>1
<1>2. /\ Len(Way) \in Nat /\ DOMAIN Way = 1 .. Len(Way)
      /\ \A i \in DOMAIN Way : i \in DOMAIN Way' /\ Way'[i] = Way[i]
      /\ \A i \in DOMAIN Way' : i \in DOMAIN Way \/ (i = Len(Way) + 1 /\ Way'[i].call # d)
  BY <1>1, WayGrows
<1>3. at' = at /\ (\A dir \in Dirs : Counted(d, dir)' = Counted(d, dir)) /\ RowOf(d)' = RowOf(d)
  BY DEF SameRows, Counted, RowOf
<1>4. StartedFirst(d)'
  <2>1. ASSUME NEW i \in DOMAIN Way', On(i, d, "started")', NEW j \in 1 .. i - 1
        PROVE  Way'[j].call # d
    <3>1. i \in DOMAIN Way /\ On(i, d, "started")
      BY <1>2, <2>1 DEF On
    <3>2. j \in DOMAIN Way /\ Way[j].call # d
      BY <1>2, <2>1, <3>1 DEF Told, StartedFirst
    <3>3. QED BY <1>2, <3>2
  <2>2. \A i \in DOMAIN Way' : On(i, d, "started")' => d \notin DOMAIN at'
    BY <1>2, <1>3 DEF Told, StartedFirst, On
  <2>3. ~Heard(d)' => d \notin DOMAIN at' /\ \A i \in DOMAIN Way' : Way'[i].call # d
    BY <1>2, <1>3 DEF Told, StartedFirst, SameTold
  <2>4. QED BY <2>1, <2>2, <2>3 DEF StartedFirst
<1>5. ASSUME NEW dir \in Dirs PROVE InTurn(d, dir)'
  <2>1. InTurn(d, dir) /\ Counted(d, dir)' = Counted(d, dir) /\ Reported(d, dir)' = Reported(d, dir)
    BY <1>3 DEF Told, SameTold
  <2>2. \A i \in DOMAIN Way' : On(i, d, dir)' => i \in DOMAIN Way /\ On(i, d, dir) /\ Way'[i] = Way[i]
    BY <1>2 DEF On
  <2>3. QED BY <2>1, <2>2 DEF InTurn
<1>6. EndAsItWas(d)'
  BY <1>2, <1>3 DEF Told, SameTold, EndAsItWas, On
<1>7. Whole(d)'
  <2> SUFFICES ASSUME Lossless', Heard(d)' PROVE Whole(d)'
    BY DEF Whole
  <2>1. Lossless /\ Heard(d)
    BY DEF SameTold
  <2>2. d \in DOMAIN at' \/ \E i \in DOMAIN Way' : On(i, d, "started")'
    BY <1>2, <1>3, <2>1 DEF Told, Whole, On
  <2>3. ASSUME NEW dir \in Dirs, NEW m \in 1 .. Reported(d, dir)'
        PROVE  m <= Counted(d, dir)' \/ \E i \in DOMAIN Way' : On(i, d, dir)' /\ Way'[i].arg = m
    <3>1. m \in 1 .. Reported(d, dir)
      BY <2>3 DEF SameTold
    <3>2. m <= Counted(d, dir) \/ \E i \in DOMAIN Way : On(i, d, dir) /\ Way[i].arg = m
      BY <2>1, <3>1 DEF Told, Whole
    <3>3. QED BY <1>2, <1>3, <3>1, <3>2 DEF On
  <2>4. Over(d)' => (d \in DOMAIN at' /\ RowOf(d)'.done) \/ \E i \in DOMAIN Way' : On(i, d, "ended")'
    BY <1>2, <1>3, <2>1 DEF Told, Whole, SameTold, On
  <2>5. QED BY <2>2, <2>3, <2>4 DEF Whole
<1>8. QED BY <1>4, <1>5, <1>6, <1>7 DEF Told

\* A call's first report: there was nothing of it before.
LEMMA ToldStart ==
  ASSUME Way \in Seq(Events), Indexed, Shape, NEW c \in Calls, Told(c), SameRows,
         ~Heard(c), Heard(c)', ~Over(c)',
         \A dir \in Dirs : Reported(c, dir) = 0 /\ Reported(c, dir)' = 0,
         NEW e \in Events, e.call = c, e.kind = "started", Joins(e)
  PROVE  Told(c)'
<1>1. /\ Len(Way) \in Nat /\ DOMAIN Way = 1 .. Len(Way)
      /\ \A i \in DOMAIN Way : i \in DOMAIN Way' /\ Way'[i] = Way[i]
      /\ \A i \in DOMAIN Way' :
           i \in DOMAIN Way \/ (i = Len(Way) + 1 /\ Way'[i] = e /\ Way' = Append(Way, e))
      /\ Way' = Append(Way, e) => Len(Way) + 1 \in DOMAIN Way' /\ Way'[Len(Way) + 1] = e
  BY WayGrows DEF Joins
<1>2. c \notin DOMAIN at' /\ \A i \in DOMAIN Way : Way[i].call # c
  BY DEF Told, StartedFirst, SameRows
<1>3. \A i \in DOMAIN Way' : Way'[i].call = c => i = Len(Way) + 1 /\ Way'[i].kind = "started"
  BY <1>1, <1>2
<1>4. StartedFirst(c)'
  <2>1. ASSUME NEW i \in DOMAIN Way', On(i, c, "started")', NEW j \in 1 .. i - 1
        PROVE  Way'[j].call # c
    <3>1. j \in DOMAIN Way
      BY <1>1, <1>3, <2>1 DEF On
    <3>2. QED BY <1>1, <1>2, <3>1
  <2>2. QED BY <1>2, <2>1 DEF StartedFirst
<1>5. ASSUME NEW dir \in Dirs PROVE InTurn(c, dir)'
  <2>1. Counted(c, dir)' = 0 /\ Reported(c, dir)' = 0 /\ dir # "started"
    BY <1>2 DEF Counted, Dirs
  <2>2. QED BY <1>3, <2>1 DEF InTurn, On
<1>6. EndAsItWas(c)'
  BY <1>2, <1>3 DEF EndAsItWas, On
<1>7. Whole(c)'
  <2> SUFFICES ASSUME Lossless' PROVE Whole(c)'
    BY DEF Whole
  <2>1. \E i \in DOMAIN Way' : On(i, c, "started")'
    BY <1>1 DEF Joins, On
  <2>2. QED BY <2>1 DEF Whole
<1>8. QED BY <1>4, <1>5, <1>6, <1>7 DEF Told

\* The next message of one direction is reported, under the next number.
LEMMA ToldMessage ==
  ASSUME Way \in Seq(Events), Indexed, Shape, NEW c \in Calls, Told(c), SameRows,
         Lossless' => Lossless, Heard(c), Heard(c)', Over(c)' <=> Over(c), Over(c) => (Ill(c)' <=> Ill(c)),
         NEW dir \in Dirs, Reported(c, dir)' = Reported(c, dir) + 1,
         \A way \in Dirs \ {dir} : Reported(c, way)' = Reported(c, way),
         NEW e \in Events, e.call = c, e.kind = dir, e.arg = Reported(c, dir)', Joins(e)
  PROVE  Told(c)'
<1>1. /\ Len(Way) \in Nat /\ DOMAIN Way = 1 .. Len(Way)
      /\ \A i \in DOMAIN Way : i \in DOMAIN Way' /\ Way'[i] = Way[i]
      /\ \A i \in DOMAIN Way' :
           i \in DOMAIN Way \/ (i = Len(Way) + 1 /\ Way'[i] = e /\ Way' = Append(Way, e))
      /\ Way' = Append(Way, e) => Len(Way) + 1 \in DOMAIN Way' /\ Way'[Len(Way) + 1] = e
  BY WayGrows DEF Joins
<1>2. at' = at /\ (\A way \in Dirs : Counted(c, way)' = Counted(c, way)) /\ RowOf(c)' = RowOf(c)
  BY DEF SameRows, Counted, RowOf
<1>3. dir \notin {"started", "ended"}
  BY DEF Dirs
<1>4. \A way \in Dirs : Counted(c, way) \in Nat /\ Reported(c, way) \in Int
  BY CountedIsANumber, ReportedIsANumber
<1>5. StartedFirst(c)'
  <2>1. ASSUME NEW i \in DOMAIN Way', On(i, c, "started")', NEW j \in 1 .. i - 1
        PROVE  Way'[j].call # c /\ c \notin DOMAIN at'
    <3>1. i \in DOMAIN Way /\ On(i, c, "started")
      BY <1>1, <1>3, <2>1 DEF On
    <3>2. j \in DOMAIN Way /\ Way[j].call # c
      BY <1>1, <2>1, <3>1 DEF Told, StartedFirst
    <3>3. QED BY <1>1, <1>2, <3>1, <3>2 DEF Told, StartedFirst
  <2>2. \A i \in DOMAIN Way' : On(i, c, "started")' => c \notin DOMAIN at'
    BY <1>1, <1>2, <1>3 DEF On, Told, StartedFirst
  <2>3. QED BY <2>1, <2>2 DEF StartedFirst
<1>6. ASSUME NEW way \in Dirs PROVE InTurn(c, way)'
  <2>1. InTurn(c, way) /\ Counted(c, way)' = Counted(c, way)
        /\ Counted(c, way) \in Nat /\ Reported(c, way) \in Int
    BY <1>2, <1>4 DEF Told
  <2>2. CASE way # dir
    <3>1. \A i \in DOMAIN Way' : On(i, c, way)' => i \in DOMAIN Way /\ On(i, c, way) /\ Way'[i] = Way[i]
      BY <1>1, <2>2 DEF On
    <3>2. Reported(c, way)' = Reported(c, way)
      BY <2>2
    <3>3. QED BY <2>1, <3>1, <3>2 DEF InTurn
  <2>3. CASE way = dir
    <3>1. \A i \in DOMAIN Way' : On(i, c, way)' =>
            \/ i \in DOMAIN Way /\ On(i, c, way) /\ Way'[i] = Way[i]
            \/ i = Len(Way) + 1 /\ Way'[i].arg = Reported(c, way)'
      BY <1>1, <2>3 DEF On
    <3>2. Reported(c, way)' = Reported(c, way) + 1
      BY <2>3
    <3>3. \A i \in DOMAIN Way : Way[i].arg \in Int
      <4>1. \A i \in DOMAIN Way : Way[i] \in Events
        BY <1>1
      <4>2. QED BY <4>1 DEF Events
    <3>4. \A i, j \in DOMAIN Way' :
            i < j /\ On(i, c, way)' /\ On(j, c, way)' => Way'[i].arg < Way'[j].arg
      BY <1>1, <2>1, <3>1, <3>2, <3>3 DEF InTurn
    <3>5. \A i \in DOMAIN Way' :
            On(i, c, way)' => Counted(c, way)' < Way'[i].arg /\ Way'[i].arg <= Reported(c, way)'
      BY <1>1, <2>1, <3>1, <3>2, <3>3 DEF InTurn
    <3>6. Counted(c, way)' <= Reported(c, way)'
      BY <2>1, <3>2 DEF InTurn
    <3>7. QED BY <3>4, <3>5, <3>6 DEF InTurn
  <2>4. QED BY <2>2, <2>3
<1>7. EndAsItWas(c)'
  BY <1>1, <1>2, <1>3 DEF Told, EndAsItWas, On
<1>8. Whole(c)'
  <2> SUFFICES ASSUME Lossless' PROVE Whole(c)'
    BY DEF Whole
  <2>1. c \in DOMAIN at' \/ \E i \in DOMAIN Way' : On(i, c, "started")'
    BY <1>1, <1>2 DEF Told, Whole, On
  <2>2. ASSUME NEW way \in Dirs, NEW m \in 1 .. Reported(c, way)'
        PROVE  m <= Counted(c, way)' \/ \E i \in DOMAIN Way' : On(i, c, way)' /\ Way'[i].arg = m
    <3>1. CASE m \in 1 .. Reported(c, way)
      <4>1. m <= Counted(c, way) \/ \E i \in DOMAIN Way : On(i, c, way) /\ Way[i].arg = m
        BY <3>1 DEF Told, Whole
      <4>2. QED BY <1>1, <1>2, <4>1 DEF On
    <3>2. CASE m \notin 1 .. Reported(c, way)
      <4>1. way = dir /\ m = Reported(c, dir)'
        BY <1>4, <2>2, <3>2
      <4>2. QED BY <1>1, <4>1 DEF Joins, On
    <3>3. QED BY <3>1, <3>2
  <2>3. Over(c)' => (c \in DOMAIN at' /\ RowOf(c)'.done) \/ \E i \in DOMAIN Way' : On(i, c, "ended")'
    BY <1>1, <1>2 DEF Told, Whole, On
  <2>4. QED BY <2>1, <2>2, <2>3 DEF Whole
<1>9. QED BY <1>5, <1>6, <1>7, <1>8 DEF Told

\* The end of a call is reported with its outcome.
LEMMA ToldEnd ==
  ASSUME Way \in Seq(Events), NEW c \in Calls, Told(c), SameRows,
         Lossless' => Lossless, Heard(c), Heard(c)', ~Over(c), Over(c)',
         \A dir \in Dirs : Reported(c, dir)' = Reported(c, dir),
         NEW e \in Events, e.call = c, e.kind = "ended", e.arg = 1 <=> Ill(c)', Joins(e)
  PROVE  Told(c)'
<1>1. /\ Len(Way) \in Nat /\ DOMAIN Way = 1 .. Len(Way)
      /\ \A i \in DOMAIN Way : i \in DOMAIN Way' /\ Way'[i] = Way[i]
      /\ \A i \in DOMAIN Way' :
           i \in DOMAIN Way \/ (i = Len(Way) + 1 /\ Way'[i] = e /\ Way' = Append(Way, e))
      /\ Way' = Append(Way, e) => Len(Way) + 1 \in DOMAIN Way' /\ Way'[Len(Way) + 1] = e
  BY WayGrows DEF Joins
<1>2. at' = at /\ (\A way \in Dirs : Counted(c, way)' = Counted(c, way)) /\ RowOf(c)' = RowOf(c)
  BY DEF SameRows, Counted, RowOf
<1>3. \A i \in DOMAIN Way', kind \in Dirs \union {"started"} :
        Way'[i].kind = kind => i \in DOMAIN Way /\ Way'[i] = Way[i]
  BY <1>1 DEF Dirs
<1>4. StartedFirst(c)'
  <2>1. ASSUME NEW i \in DOMAIN Way', On(i, c, "started")', NEW j \in 1 .. i - 1
        PROVE  Way'[j].call # c
    <3>1. i \in DOMAIN Way /\ On(i, c, "started")
      BY <1>1, <1>3, <2>1 DEF On
    <3>2. j \in DOMAIN Way /\ Way[j].call # c
      BY <1>1, <2>1, <3>1 DEF Told, StartedFirst
    <3>3. QED BY <1>1, <3>2
  <2>2. \A i \in DOMAIN Way' : On(i, c, "started")' => c \notin DOMAIN at'
    BY <1>1, <1>2, <1>3 DEF On, Told, StartedFirst
  <2>3. QED BY <2>1, <2>2 DEF StartedFirst
<1>5. ASSUME NEW dir \in Dirs PROVE InTurn(c, dir)'
  <2>1. InTurn(c, dir) /\ Counted(c, dir)' = Counted(c, dir) /\ Reported(c, dir)' = Reported(c, dir)
    BY <1>2 DEF Told
  <2>2. \A i \in DOMAIN Way' : On(i, c, dir)' => i \in DOMAIN Way /\ On(i, c, dir) /\ Way'[i] = Way[i]
    BY <1>1, <1>3 DEF On
  <2>3. QED BY <2>1, <2>2 DEF InTurn
<1>6. EndAsItWas(c)'
  <2>1. c \in DOMAIN at' => ~RowOf(c)'.done
    BY <1>2 DEF Told, EndAsItWas
  <2>2. \A i \in DOMAIN Way' : On(i, c, "ended")' => Way'[i] = e
    BY <1>1 DEF Told, EndAsItWas, On
  <2>3. QED BY <2>1, <2>2 DEF EndAsItWas
<1>7. Whole(c)'
  <2> SUFFICES ASSUME Lossless' PROVE Whole(c)'
    BY DEF Whole
  <2>1. c \in DOMAIN at' \/ \E i \in DOMAIN Way' : On(i, c, "started")'
    BY <1>1, <1>2 DEF Told, Whole, On
  <2>2. ASSUME NEW dir \in Dirs, NEW m \in 1 .. Reported(c, dir)'
        PROVE  m <= Counted(c, dir)' \/ \E i \in DOMAIN Way' : On(i, c, dir)' /\ Way'[i].arg = m
    <3>1. m \in 1 .. Reported(c, dir)
      BY <2>2
    <3>2. m <= Counted(c, dir) \/ \E i \in DOMAIN Way : On(i, c, dir) /\ Way[i].arg = m
      BY <3>1 DEF Told, Whole
    <3>3. QED BY <1>1, <1>2, <3>2 DEF On
  <2>3. \E i \in DOMAIN Way' : On(i, c, "ended")'
    BY <1>1 DEF Joins, On
  <2>4. QED BY <2>1, <2>2, <2>3 DEF Whole
<1>8. QED BY <1>4, <1>5, <1>6, <1>7 DEF Told

-----------------------------------------------------------------------------
(* What an event folded in does to what is told of the calls. *)

\* The panel takes the first event of the way, and the others move up.
LEMMA WayShrinks ==
  ASSUME Way \in Seq(Events), Way # <<>>, Way' = Tail(Way)
  PROVE  /\ 1 \in DOMAIN Way /\ Way[1] \in Events
         /\ \A i \in DOMAIN Way : i \in Nat /\ i >= 1 /\ Way[i].arg \in Nat
         /\ \A i \in DOMAIN Way' : i \in Nat /\ i >= 1 /\ i + 1 \in DOMAIN Way /\ Way'[i] = Way[i + 1]
         /\ \A i \in DOMAIN Way : i = 1 \/ (i - 1 \in DOMAIN Way' /\ Way'[i - 1] = Way[i])
         /\ \A i \in DOMAIN Way : \A j \in 1 .. i - 1 : j \in DOMAIN Way
<1>1. Len(Way) \in Nat /\ DOMAIN Way = 1 .. Len(Way) /\ Len(Way) >= 1
  OBVIOUS
<1>2. Len(Way') = Len(Way) - 1 /\ DOMAIN Way' = 1 .. Len(Way) - 1
      /\ \A i \in 1 .. Len(Way) - 1 : Way'[i] = Way[i + 1]
  BY <1>1
<1>3. \A i \in DOMAIN Way : Way[i] \in Events
  BY <1>1
<1>4. \A i \in DOMAIN Way : Way[i].arg \in Nat
  BY <1>3 DEF Events
<1>5. QED BY <1>1, <1>2, <1>3, <1>4

\* The event is no word of this call, or is of one without a row: what is on its way of
\* the call is as true as it was, of its row if it still has one.
LEMMA ToldPast ==
  ASSUME Way \in Seq(Events), Way # <<>>, Way' = Tail(Way), Indexed, Shape,
         NEW d \in Calls, Told(d), SameTold(d),
         d \in DOMAIN at' => d \in DOMAIN at /\ RowOf(d)' = RowOf(d),
         Lossless' => Lossless /\ Way[1].call # d /\ (d \in DOMAIN at => d \in DOMAIN at')
  PROVE  Told(d)'
<1>1. /\ \A i \in DOMAIN Way' : i \in Nat /\ i >= 1 /\ i + 1 \in DOMAIN Way /\ Way'[i] = Way[i + 1]
      /\ \A i \in DOMAIN Way : i = 1 \/ (i - 1 \in DOMAIN Way' /\ Way'[i - 1] = Way[i])
      /\ \A i \in DOMAIN Way : Way[i].arg \in Nat
  BY WayShrinks
<1>2. StartedFirst(d)'
  <2>1. ASSUME NEW i \in DOMAIN Way', On(i, d, "started")', NEW j \in 1 .. i - 1
        PROVE  Way'[j].call # d
    <3>1. i + 1 \in DOMAIN Way /\ On(i + 1, d, "started")
      BY <1>1, <2>1 DEF On
    <3>2. j + 1 \in 1 .. (i + 1) - 1 /\ i \in Nat
      BY <1>1, <2>1
    <3>3. Way[j + 1].call # d
      BY <3>1, <3>2 DEF Told, StartedFirst
    <3>4. j \in DOMAIN Way'
      <4>1. DOMAIN Way' = 1 .. Len(Way) - 1 /\ Len(Way) \in Nat
        OBVIOUS
      <4>2. QED BY <2>1, <4>1
    <3>5. QED BY <1>1, <3>3, <3>4
  <2>2. \A i \in DOMAIN Way' : On(i, d, "started")' => d \notin DOMAIN at'
    BY <1>1 DEF Told, StartedFirst, On
  <2>3. ~Heard(d)' => d \notin DOMAIN at' /\ \A i \in DOMAIN Way' : Way'[i].call # d
    BY <1>1 DEF Told, StartedFirst, SameTold
  <2>4. QED BY <2>1, <2>2, <2>3 DEF StartedFirst
<1>3. \A dir \in Dirs : Counted(d, dir)' \in Int /\ Counted(d, dir)' <= Counted(d, dir)
  <2>1. \A dir \in Dirs : Counted(d, dir) \in Nat
    BY CountedIsANumber
  <2>2. CASE d \in DOMAIN at'
    <3>1. \A dir \in Dirs : Counted(d, dir)' = Counted(d, dir)
      BY <2>2 DEF Counted, RowOf
    <3>2. QED BY <2>1, <3>1
  <2>3. CASE d \notin DOMAIN at'
    <3>1. \A dir \in Dirs : Counted(d, dir)' = 0
      BY <2>3 DEF Counted
    <3>2. QED BY <2>1, <3>1
  <2>4. QED BY <2>2, <2>3
<1>4. ASSUME NEW dir \in Dirs PROVE InTurn(d, dir)'
  <2>1. /\ InTurn(d, dir) /\ Reported(d, dir)' = Reported(d, dir)
        /\ Counted(d, dir)' \in Int /\ Counted(d, dir)' <= Counted(d, dir)
        /\ Counted(d, dir) \in Nat
    BY <1>3, CountedIsANumber DEF Told, SameTold
  <2>2. \A i \in DOMAIN Way' : On(i, d, dir)' =>
          /\ i + 1 \in DOMAIN Way /\ On(i + 1, d, dir) /\ Way'[i].arg = Way[i + 1].arg
          /\ Way[i + 1].arg \in Nat
    BY <1>1 DEF On
  <2>3. \A i \in DOMAIN Way' :
          On(i, d, dir)' => Counted(d, dir)' < Way'[i].arg /\ Way'[i].arg <= Reported(d, dir)'
    BY <2>1, <2>2 DEF InTurn
  <2>4. \A i, j \in DOMAIN Way' :
          i < j /\ On(i, d, dir)' /\ On(j, d, dir)' => Way'[i].arg < Way'[j].arg
    <3>1. \A i, j \in DOMAIN Way' : i < j => i + 1 < j + 1
      BY <1>1
    <3>2. QED BY <2>1, <2>2, <3>1 DEF InTurn
  <2>5. Counted(d, dir)' <= Reported(d, dir)'
    <3>1. Counted(d, dir) <= Reported(d, dir) /\ Reported(d, dir) \in Int
      BY <2>1, ReportedIsANumber DEF InTurn
    <3>2. QED BY <2>1, <3>1
  <2>6. QED BY <2>3, <2>4, <2>5 DEF InTurn
<1>5. EndAsItWas(d)'
  BY <1>1 DEF Told, SameTold, EndAsItWas, On
<1>6. Whole(d)'
  <2> SUFFICES ASSUME Lossless', Heard(d)' PROVE Whole(d)'
    BY DEF Whole
  <2>1. Lossless /\ Heard(d) /\ (d \in DOMAIN at <=> d \in DOMAIN at') /\ Way[1].call # d
    BY DEF SameTold
  <2>2. \A dir \in Dirs : Counted(d, dir)' = Counted(d, dir)
    BY <2>1 DEF Counted, RowOf
  <2>3. \A i \in DOMAIN Way : Way[i].call = d =>
          \E k \in DOMAIN Way' : Way'[k] = Way[i]
    <3>1. ASSUME NEW i \in DOMAIN Way, Way[i].call = d
          PROVE  i - 1 \in DOMAIN Way' /\ Way'[i - 1] = Way[i]
      BY <1>1, <2>1, <3>1
    <3>2. QED BY <3>1
  <2>4. d \in DOMAIN at' \/ \E i \in DOMAIN Way' : On(i, d, "started")'
    BY <2>3, <2>1 DEF Told, Whole, On
  <2>5. ASSUME NEW dir \in Dirs, NEW m \in 1 .. Reported(d, dir)'
        PROVE  m <= Counted(d, dir)' \/ \E i \in DOMAIN Way' : On(i, d, dir)' /\ Way'[i].arg = m
    <3>1. m \in 1 .. Reported(d, dir)
      BY <2>5 DEF SameTold
    <3>2. m <= Counted(d, dir) \/ \E i \in DOMAIN Way : On(i, d, dir) /\ Way[i].arg = m
      BY <2>1, <3>1 DEF Told, Whole
    <3>3. QED BY <2>3, <2>2, <3>2 DEF On
  <2>6. Over(d)' => (d \in DOMAIN at' /\ RowOf(d)'.done) \/ \E i \in DOMAIN Way' : On(i, d, "ended")'
    BY <2>3, <2>1 DEF Told, Whole, SameTold, On
  <2>7. QED BY <2>4, <2>5, <2>6 DEF Whole
<1>7. QED BY <1>2, <1>4, <1>5, <1>6 DEF Told

\* The call's first word: its row begins with nothing counted.
LEMMA ToldFirst ==
  ASSUME Way \in Seq(Events), Way # <<>>, Way' = Tail(Way), Shape,
         NEW c \in Calls, Told(c), SameTold(c), On(1, c, "started"),
         c \in DOMAIN at' => RowOf(c)' = T!Row(c),
         Lossless' => Lossless /\ c \in DOMAIN at'
  PROVE  Told(c)'
<1>1. /\ 1 \in DOMAIN Way
      /\ \A i \in DOMAIN Way' : i \in Nat /\ i >= 1 /\ i + 1 \in DOMAIN Way /\ Way'[i] = Way[i + 1]
      /\ \A i \in DOMAIN Way : i = 1 \/ (i - 1 \in DOMAIN Way' /\ Way'[i - 1] = Way[i])
      /\ \A i \in DOMAIN Way : Way[i].arg \in Nat
  BY WayShrinks
<1>2. c \notin DOMAIN at /\ Heard(c) /\ Heard(c)'
  BY <1>1 DEF Told, StartedFirst, On, SameTold
<1>3. \A i \in DOMAIN Way' : ~On(i, c, "started")'
  <2>1. ASSUME NEW i \in DOMAIN Way', On(i, c, "started")' PROVE FALSE
    <3>1. i + 1 \in DOMAIN Way /\ On(i + 1, c, "started") /\ 1 \in 1 .. (i + 1) - 1
      BY <1>1, <2>1 DEF On
    <3>2. Way[1].call # c
      BY <3>1 DEF Told, StartedFirst
    <3>3. QED BY <3>2 DEF On
  <2>2. QED BY <2>1
<1>4. \A dir \in Dirs : Counted(c, dir) = 0 /\ Counted(c, dir)' = 0 /\ dir # "started"
  <2>1. c \in DOMAIN at' => RowOf(c)'.sent = 0 /\ RowOf(c)'.received = 0
    BY DEF T!Row
  <2>2. QED BY <1>2, <2>1 DEF Counted, Dirs
<1>5. c \in DOMAIN at' => RowOf(c)'.done = FALSE
  BY DEF T!Row
<1>6. ASSUME NEW dir \in Dirs PROVE InTurn(c, dir)'
  <2>1. InTurn(c, dir) /\ Reported(c, dir)' = Reported(c, dir) /\ Counted(c, dir)' = Counted(c, dir)
    BY <1>4 DEF Told, SameTold
  <2>2. \A i \in DOMAIN Way' : On(i, c, dir)' =>
          i + 1 \in DOMAIN Way /\ On(i + 1, c, dir) /\ Way'[i].arg = Way[i + 1].arg
    BY <1>1 DEF On
  <2>3. \A i, j \in DOMAIN Way' : i < j => i + 1 < j + 1
    BY <1>1
  <2>4. QED BY <2>1, <2>2, <2>3 DEF InTurn
<1>7. EndAsItWas(c)'
  BY <1>1, <1>5 DEF Told, SameTold, EndAsItWas, On
<1>8. Whole(c)'
  <2> SUFFICES ASSUME Lossless' PROVE Whole(c)'
    BY DEF Whole
  <2>1. \A i \in DOMAIN Way : Way[i].kind # "started" => \E k \in DOMAIN Way' : Way'[k] = Way[i]
    <3>1. ASSUME NEW i \in DOMAIN Way, Way[i].kind # "started"
          PROVE  i - 1 \in DOMAIN Way' /\ Way'[i - 1] = Way[i]
      BY <1>1, <3>1 DEF On
    <3>2. QED BY <3>1
  <2>2. ASSUME NEW dir \in Dirs, NEW m \in 1 .. Reported(c, dir)'
        PROVE  m <= Counted(c, dir)' \/ \E i \in DOMAIN Way' : On(i, c, dir)' /\ Way'[i].arg = m
    <3>1. m \in 1 .. Reported(c, dir)
      BY <2>2 DEF SameTold
    <3>2. m <= Counted(c, dir) \/ \E i \in DOMAIN Way : On(i, c, dir) /\ Way[i].arg = m
      BY <1>2, <3>1 DEF Told, Whole
    <3>3. QED BY <1>4, <2>1, <3>2 DEF On
  <2>3. Over(c)' => \E i \in DOMAIN Way' : On(i, c, "ended")'
    BY <1>2, <2>1 DEF Told, Whole, SameTold, On
  <2>4. QED BY <2>2, <2>3 DEF Whole
<1>9. QED BY <1>2, <1>3, <1>6, <1>7, <1>8 DEF Told, StartedFirst

\* A message of the call: its row counts one more that way, and not more than the number
\* the message has.
LEMMA ToldCount ==
  ASSUME Way \in Seq(Events), Way # <<>>, Way' = Tail(Way), Indexed, Shape,
         NEW c \in Calls, Told(c), SameTold(c), NEW dir \in Dirs, On(1, c, dir),
         c \in DOMAIN at, c \in DOMAIN at',
         Counted(c, dir)' = Counted(c, dir) + 1,
         \A way \in Dirs \ {dir} : Counted(c, way)' = Counted(c, way),
         RowOf(c)'.done <=> RowOf(c).done, RowOf(c)'.hasStatus <=> RowOf(c).hasStatus,
         Lossless' => Lossless
  PROVE  Told(c)'
<1>1. /\ 1 \in DOMAIN Way
      /\ \A i \in DOMAIN Way' : i \in Nat /\ i >= 1 /\ i + 1 \in DOMAIN Way /\ Way'[i] = Way[i + 1]
      /\ \A i \in DOMAIN Way : i = 1 \/ (i - 1 \in DOMAIN Way' /\ Way'[i - 1] = Way[i])
      /\ \A i \in DOMAIN Way : i \in Nat /\ i >= 1 /\ Way[i].arg \in Nat
  BY WayShrinks
<1>2. \A way \in Dirs : Counted(c, way) \in Nat /\ Reported(c, way) \in Int
  BY CountedIsANumber, ReportedIsANumber
<1>3. StartedFirst(c)' /\ Heard(c)
  <2>1. Heard(c) /\ Heard(c)'
    BY <1>1 DEF Told, StartedFirst, On, SameTold
  <2>2. \A i \in DOMAIN Way' : ~On(i, c, "started")'
    BY <1>1 DEF Told, StartedFirst, On
  <2>3. QED BY <2>1, <2>2 DEF StartedFirst
<1>4. /\ Counted(c, dir) < Way[1].arg /\ Way[1].arg <= Reported(c, dir)
      /\ \A i \in DOMAIN Way : i # 1 /\ On(i, c, dir) => Way[1].arg < Way[i].arg
  BY <1>1 DEF Told, InTurn
<1>5. ASSUME NEW way \in Dirs PROVE InTurn(c, way)'
  <2>1. InTurn(c, way) /\ Reported(c, way)' = Reported(c, way)
    BY DEF Told, SameTold
  <2>2. \A i \in DOMAIN Way' : On(i, c, way)' =>
          i + 1 \in DOMAIN Way /\ i + 1 # 1 /\ On(i + 1, c, way) /\ Way'[i].arg = Way[i + 1].arg
    BY <1>1 DEF On
  <2>3. \A i, j \in DOMAIN Way' : i < j => i + 1 < j + 1
    BY <1>1
  <2>4. \A i, j \in DOMAIN Way' :
          i < j /\ On(i, c, way)' /\ On(j, c, way)' => Way'[i].arg < Way'[j].arg
    BY <2>1, <2>2, <2>3 DEF InTurn
  <2>5. Counted(c, way)' <= Reported(c, way)'
        /\ \A i \in DOMAIN Way' :
             On(i, c, way)' => Counted(c, way)' < Way'[i].arg /\ Way'[i].arg <= Reported(c, way)'
    <3>1. CASE way = dir
      <4>1. Counted(c, way)' = Counted(c, way) + 1 /\ Counted(c, way) \in Nat
            /\ Reported(c, way) \in Int /\ Way[1].arg \in Nat
        BY <1>1, <1>2, <3>1
      <4>2. \A i \in DOMAIN Way' : Way[i + 1].arg \in Nat
        BY <1>1
      <4>3. QED BY <1>4, <2>1, <2>2, <3>1, <4>1, <4>2 DEF InTurn
    <3>2. CASE way # dir
      <4>1. Counted(c, way)' = Counted(c, way)
        BY <3>2
      <4>2. QED BY <2>1, <2>2, <4>1 DEF InTurn
    <3>3. QED BY <3>1, <3>2
  <2>6. QED BY <2>4, <2>5 DEF InTurn
<1>6. EndAsItWas(c)'
  BY <1>1 DEF Told, SameTold, EndAsItWas, On
<1>7. Whole(c)'
  <2> SUFFICES ASSUME Lossless' PROVE Whole(c)'
    BY DEF Whole
  <2>1. \A i \in DOMAIN Way : i # 1 => \E k \in DOMAIN Way' : Way'[k] = Way[i]
    <3>1. ASSUME NEW i \in DOMAIN Way, i # 1 PROVE i - 1 \in DOMAIN Way' /\ Way'[i - 1] = Way[i]
      BY <1>1, <3>1
    <3>2. QED BY <3>1
  <2>2. Way[1].arg = Counted(c, dir) + 1
    <3>1. Counted(c, dir) + 1 \in 1 .. Reported(c, dir)
      BY <1>1, <1>2, <1>4
    <3>2. Counted(c, dir) + 1 <= Counted(c, dir)
          \/ \E i \in DOMAIN Way : On(i, c, dir) /\ Way[i].arg = Counted(c, dir) + 1
      BY <1>3, <3>1 DEF Told, Whole
    <3>3. QED BY <1>1, <1>2, <1>4, <3>2
  <2>3. ASSUME NEW way \in Dirs, NEW m \in 1 .. Reported(c, way)'
        PROVE  m <= Counted(c, way)' \/ \E i \in DOMAIN Way' : On(i, c, way)' /\ Way'[i].arg = m
    <3>1. m \in 1 .. Reported(c, way) /\ m \in Int
      BY <2>3 DEF SameTold
    <3>2. m <= Counted(c, way) \/ \E i \in DOMAIN Way : On(i, c, way) /\ Way[i].arg = m
      BY <1>3, <3>1 DEF Told, Whole
    <3>3. Counted(c, way)' = Counted(c, way) \/ (way = dir /\ Counted(c, way)' = Counted(c, way) + 1)
      OBVIOUS
    <3>4. CASE m <= Counted(c, way)
      BY <1>2, <3>1, <3>3, <3>4
    <3>5. ASSUME NEW i \in DOMAIN Way, On(i, c, way), Way[i].arg = m
          PROVE  m <= Counted(c, way)' \/ \E k \in DOMAIN Way' : On(k, c, way)' /\ Way'[k].arg = m
      <4>1. CASE i = 1
        <5>1. way = dir
          BY <3>5, <4>1 DEF On
        <5>2. QED BY <1>2, <2>2, <3>1, <3>3, <3>5, <4>1, <5>1
      <4>2. CASE i # 1
        BY <2>1, <3>5, <4>2 DEF On
      <4>3. QED BY <4>1, <4>2
    <3>6. QED BY <3>2, <3>4, <3>5
  <2>4. Over(c)' => RowOf(c)'.done \/ \E i \in DOMAIN Way' : On(i, c, "ended")'
    <3>1. Over(c)' => RowOf(c).done \/ \E i \in DOMAIN Way : i # 1 /\ On(i, c, "ended")
      BY <1>3 DEF Told, Whole, SameTold, On, Dirs
    <3>2. QED BY <2>1, <3>1 DEF On
  <2>5. QED BY <2>3, <2>4 DEF Whole
<1>8. QED BY <1>3, <1>5, <1>6, <1>7 DEF Told

\* The end of the call: its row says how it ended.
LEMMA ToldLast ==
  ASSUME Way \in Seq(Events), Way # <<>>, Way' = Tail(Way), Indexed, Shape,
         NEW c \in Calls, Told(c), SameTold(c), On(1, c, "ended"),
         c \in DOMAIN at, c \in DOMAIN at',
         \A dir \in Dirs : Counted(c, dir)' = Counted(c, dir),
         RowOf(c)'.done, RowOf(c)'.hasStatus <=> Way[1].arg = 1,
         Lossless' => Lossless
  PROVE  Told(c)'
<1>1. /\ 1 \in DOMAIN Way
      /\ \A i \in DOMAIN Way' : i \in Nat /\ i >= 1 /\ i + 1 \in DOMAIN Way /\ Way'[i] = Way[i + 1]
      /\ \A i \in DOMAIN Way : i = 1 \/ (i - 1 \in DOMAIN Way' /\ Way'[i - 1] = Way[i])
  BY WayShrinks
<1>2. StartedFirst(c)' /\ Heard(c)
  <2>1. Heard(c) /\ Heard(c)'
    BY <1>1 DEF Told, StartedFirst, On, SameTold
  <2>2. \A i \in DOMAIN Way' : ~On(i, c, "started")'
    BY <1>1 DEF Told, StartedFirst, On
  <2>3. QED BY <2>1, <2>2 DEF StartedFirst
<1>3. ASSUME NEW dir \in Dirs PROVE InTurn(c, dir)'
  <2>1. InTurn(c, dir) /\ Reported(c, dir)' = Reported(c, dir) /\ Counted(c, dir)' = Counted(c, dir)
    BY DEF Told, SameTold
  <2>2. \A i \in DOMAIN Way' : On(i, c, dir)' =>
          i + 1 \in DOMAIN Way /\ On(i + 1, c, dir) /\ Way'[i].arg = Way[i + 1].arg
    BY <1>1 DEF On
  <2>3. \A i, j \in DOMAIN Way' : i < j => i + 1 < j + 1
    BY <1>1
  <2>4. QED BY <2>1, <2>2, <2>3 DEF InTurn
<1>4. EndAsItWas(c)'
  <2>1. Over(c) /\ (Way[1].arg = 1 <=> Ill(c))
    BY <1>1 DEF Told, EndAsItWas
  <2>2. QED BY <1>1, <2>1 DEF Told, SameTold, EndAsItWas, On
<1>5. Whole(c)'
  <2> SUFFICES ASSUME Lossless' PROVE Whole(c)'
    BY DEF Whole
  <2>1. \A i \in DOMAIN Way : Way[i].kind # "ended" => \E k \in DOMAIN Way' : Way'[k] = Way[i]
    <3>1. ASSUME NEW i \in DOMAIN Way, Way[i].kind # "ended"
          PROVE  i - 1 \in DOMAIN Way' /\ Way'[i - 1] = Way[i]
      BY <1>1, <3>1 DEF On
    <3>2. QED BY <3>1
  <2>2. ASSUME NEW dir \in Dirs, NEW m \in 1 .. Reported(c, dir)'
        PROVE  m <= Counted(c, dir)' \/ \E i \in DOMAIN Way' : On(i, c, dir)' /\ Way'[i].arg = m
    <3>1. m \in 1 .. Reported(c, dir) /\ dir # "ended"
      BY <2>2 DEF SameTold, Dirs
    <3>2. m <= Counted(c, dir) \/ \E i \in DOMAIN Way : On(i, c, dir) /\ Way[i].arg = m
      BY <1>2, <3>1 DEF Told, Whole
    <3>3. QED BY <2>1, <3>1, <3>2 DEF On
  <2>3. QED BY <2>2 DEF Whole
<1>6. QED BY <1>2, <1>3, <1>4, <1>5 DEF Told

-----------------------------------------------------------------------------
(* The rows. *)

\* A new call has the last row, under its number, and every row that is still there is
\* found where it is; only then may the oldest have fallen off, and that is counted.
LEMMA RowsGrow ==
  ASSUME Indexed, NEW c \in Calls, c \notin DOMAIN at, T!Start(c)
  PROVE  /\ Indexed'
         /\ \A k \in DOMAIN at' : k # c => k \in DOMAIN at /\ RowOf(k)' = RowOf(k)
         /\ c \in DOMAIN at' => RowOf(c)' = T!Row(c)
         /\ fallen' = 0 => fallen = 0 /\ DOMAIN at' = DOMAIN at \union {c}
<1> DEFINE n == Len(rows)
           log == Append(rows, T!Row(c))
           drop == IF Len(log) > MaxTrafficCalls THEN Len(log) - MaxTrafficCalls ELSE 0
           there == (DOMAIN at \union {c}) \ {log[i].id : i \in 1 .. drop}
<1>1. /\ rows \in Seq(RowType) /\ n \in Nat /\ DOMAIN rows = 1 .. n /\ n <= MaxTrafficCalls
      /\ MaxTrafficCalls \in Nat \ {0}
  BY PassiveAssumption DEF Indexed
<1>2. T!Row(c) \in RowType /\ T!Row(c).id = c
  BY DEF T!Row, RowType
<1>3. /\ log \in Seq(RowType) /\ Len(log) = n + 1 /\ log[n + 1] = T!Row(c)
      /\ \A i \in 1 .. n : log[i] = rows[i]
  BY <1>1, <1>2
<1>4. rows' = SubSeq(log, drop + 1, n + 1) /\ at' = T!Index(c, log, drop) /\ fallen' = fallen + drop
  BY <1>3 DEF T!Start
<1> HIDE DEF n, log
<1>5. drop \in {0, 1} /\ (drop = 1 => n = MaxTrafficCalls) /\ (drop = 0 => n + 1 <= MaxTrafficCalls)
  BY <1>1, <1>3
<1> HIDE DEF drop
<1>6. /\ rows' \in Seq(RowType) /\ Len(rows') = n + 1 - drop /\ DOMAIN rows' = 1 .. n + 1 - drop
      /\ \A i \in 1 .. n + 1 - drop : rows'[i] = log[i + drop]
  <2>1. \A i \in drop + 1 .. n + 1 : log[i] \in RowType
    BY <1>1, <1>3, <1>5
  <2>2. SubSeq(log, drop + 1, n + 1) = [i \in 1 .. n + 1 - drop |-> log[i + drop]]
    BY <1>1, <1>3, <1>5
  <2>3. \A i \in 1 .. n + 1 - drop : i + drop \in drop + 1 .. n + 1
    BY <1>1, <1>5
  <2>4. n + 1 - drop \in Nat
    BY <1>1, <1>5
  <2>5. rows' \in [1 .. n + 1 - drop -> RowType]
    BY <1>4, <2>1, <2>2, <2>3
  <2>6. rows' \in Seq(RowType)
    BY ONLY <2>4, <2>5
  <2>7. DOMAIN rows' = 1 .. n + 1 - drop /\ \A i \in 1 .. n + 1 - drop : rows'[i] = log[i + drop]
    BY ONLY <1>4, <2>2
  <2>8. Len(rows') = n + 1 - drop
    BY ONLY <2>4, <2>6, <2>7
  <2>9. QED BY <2>6, <2>7, <2>8
<1>7. \A i \in 1 .. n + 1 : \A k : log[i].id = k <=> (i = n + 1 /\ k = c) \/ (i <= n /\ k \in DOMAIN at /\ at[k] = i - 1)
  <2>1. \A i \in 1 .. n : rows[i].id \in DOMAIN at /\ at[rows[i].id] = i - 1
    BY <1>1 DEF Indexed
  <2>2. \A k \in DOMAIN at : at[k] + 1 \in 1 .. n /\ rows[at[k] + 1].id = k /\ at[k] \in Nat
    BY <1>1 DEF Indexed, RowOf
  <2>3. ASSUME NEW i \in 1 .. n, NEW k PROVE log[i].id = k <=> k \in DOMAIN at /\ at[k] = i - 1
    <3>1. log[i] = rows[i] /\ i - 1 + 1 = i
      BY <1>1, <1>3
    <3>2. QED BY <2>1, <2>2, <3>1
  <2>4. QED BY <1>1, <1>2, <1>3, <2>3
<1>8. there = IF drop = 0 THEN DOMAIN at \union {c} ELSE (DOMAIN at \union {c}) \ {log[1].id}
  BY <1>5
<1>9. \A k \in there : \E i \in drop + 1 .. n + 1 : log[i].id = k
  <2>1. ASSUME NEW k \in there, k # c PROVE \E i \in drop + 1 .. n + 1 : log[i].id = k
    <3>1. k \in DOMAIN at /\ at[k] + 1 \in 1 .. n /\ at[k] \in Nat
      BY <1>1, <2>1 DEF Indexed
    <3>2. log[at[k] + 1].id = k
      BY <1>1, <1>7, <3>1
    <3>3. at[k] + 1 \in drop + 1 .. n + 1
      BY <1>1, <1>5, <1>8, <2>1, <3>1, <3>2
    <3>4. QED BY <3>2, <3>3
  <2>2. log[n + 1].id = c /\ n + 1 \in drop + 1 .. n + 1
    BY <1>1, <1>5, <1>7
  <2>3. QED BY <2>1, <2>2
<1>10. DOMAIN at' = there /\ \A k \in there :
         at'[k] = IF drop > 0 THEN (CHOOSE i \in drop + 1 .. n + 1 : log[i].id = k) - 1 - drop
                  ELSE IF k = c THEN n ELSE at[k]
  <2>1. at' = [k \in there |-> IF drop > 0 THEN (CHOOSE i \in drop + 1 .. n + 1 : log[i].id = k) - 1 - drop
                               ELSE IF k = c THEN n ELSE at[k]]
    BY <1>1, <1>3, <1>4 DEF T!Index
  <2>2. QED BY <2>1
<1>11. ASSUME NEW k \in there
       PROVE  at'[k] + drop + 1 \in drop + 1 .. n + 1 /\ log[at'[k] + drop + 1].id = k
  <2>1. CASE drop > 0
    <3> DEFINE i == CHOOSE i \in drop + 1 .. n + 1 : log[i].id = k
    <3>1. i \in drop + 1 .. n + 1 /\ log[i].id = k
      BY <1>9
    <3>2. at'[k] = i - 1 - drop
      BY <1>10, <2>1
    <3> HIDE DEF i
    <3>3. at'[k] + drop + 1 = i
      BY <1>1, <1>5, <3>1, <3>2
    <3>4. QED BY <3>1, <3>3
  <2>2. CASE drop = 0 /\ k = c
    BY <1>1, <1>7, <1>10, <2>2
  <2>3. CASE drop = 0 /\ k # c
    <3>1. k \in DOMAIN at /\ at[k] \in Nat /\ at[k] + 1 \in 1 .. n /\ at'[k] = at[k]
      BY <1>1, <1>10, <2>3 DEF Indexed
    <3>2. QED BY <1>1, <1>7, <2>3, <3>1
  <2>4. QED BY <1>5, <2>1, <2>2, <2>3
<1>12. ASSUME NEW k \in there
       PROVE  /\ at'[k] \in Nat /\ at'[k] + 1 \in DOMAIN rows' /\ RowOf(k)'.id = k
              /\ k # c => k \in DOMAIN at /\ RowOf(k)' = RowOf(k)
              /\ k = c => RowOf(k)' = T!Row(c)
  <2> DEFINE i == at'[k] + drop + 1
  <2>1. i \in drop + 1 .. n + 1 /\ log[i].id = k /\ at'[k] = i - 1 - drop
    <3>1. at'[k] \in Int
      <4>1. (CHOOSE j \in drop + 1 .. n + 1 : log[j].id = k) \in drop + 1 .. n + 1
        BY <1>9
      <4>2. k # c => k \in DOMAIN at /\ at[k] \in Nat
        BY DEF Indexed
      <4>3. QED BY <1>1, <1>5, <1>10, <4>1, <4>2
    <3>2. QED BY <1>5, <1>11, <3>1
  <2> HIDE DEF i
  <2>2. at'[k] \in Nat /\ at'[k] + 1 \in 1 .. n + 1 - drop /\ at'[k] + 1 + drop = i
    BY <1>1, <1>5, <2>1
  <2>3. RowOf(k)' = log[i]
    BY <1>6, <2>2 DEF RowOf
  <2>4. k # c => k \in DOMAIN at /\ log[i] = RowOf(k)
    <3>1. ASSUME k # c PROVE k \in DOMAIN at /\ at[k] + 1 = i /\ i \in 1 .. n
      <4>1. k \in DOMAIN at /\ at[k] = i - 1 /\ i <= n
        BY <1>1, <1>5, <1>7, <2>1, <3>1
      <4>2. QED BY <1>1, <1>5, <2>1, <4>1
    <3>2. QED BY <1>3, <3>1 DEF RowOf
  <2>5. k = c => log[i] = T!Row(c)
    <3>1. c \notin DOMAIN at
      OBVIOUS
    <3>2. k = c => i = n + 1
      BY <1>1, <1>5, <1>7, <2>1, <3>1
    <3>3. QED BY <1>3, <3>2
  <2>6. QED BY <1>6, <2>1, <2>2, <2>3, <2>4, <2>5
<1>13. \A i \in DOMAIN rows' : rows'[i].id \in DOMAIN at' /\ at'[rows'[i].id] = i - 1
  <2>1. ASSUME NEW i \in 1 .. n + 1 - drop
        PROVE  rows'[i].id \in there /\ at'[rows'[i].id] = i - 1
    <3> DEFINE k == log[i + drop].id
    <3>1. i + drop \in drop + 1 .. n + 1 /\ i + drop \in 1 .. n + 1
      BY <1>1, <1>5
    <3>2. k \in DOMAIN at \union {c}
      BY <1>7, <3>1
    <3>3. \A x, y \in 1 .. n + 1 : log[x].id = log[y].id => x = y
      <4>1. SUFFICES ASSUME NEW x \in 1 .. n + 1, NEW y \in 1 .. n + 1, log[x].id = log[y].id
                     PROVE  x = y
        OBVIOUS
      <4> DEFINE id == log[x].id
      <4>2. /\ (x = n + 1 /\ id = c) \/ (x <= n /\ id \in DOMAIN at /\ at[id] = x - 1)
            /\ (y = n + 1 /\ id = c) \/ (y <= n /\ id \in DOMAIN at /\ at[id] = y - 1)
        BY <1>7, <4>1
      <4> HIDE DEF id
      <4>3. QED BY <1>1, <4>1, <4>2
    <3>4. k \in there
      BY <1>1, <1>5, <1>8, <3>1, <3>2, <3>3
    <3>5. at'[k] + drop + 1 \in 1 .. n + 1 /\ log[at'[k] + drop + 1].id = k
      BY <1>1, <1>5, <1>11, <3>4
    <3>6. at'[k] + drop + 1 = i + drop
      BY <3>1, <3>3, <3>5
    <3>7. at'[k] \in Nat
      BY <1>12, <3>4
    <3> HIDE DEF k
    <3>8. at'[k] = i - 1
      BY <1>5, <3>6, <3>7
    <3>9. rows'[i].id = k
      BY <1>6 DEF k
    <3>10. QED BY <3>4, <3>8, <3>9
  <2>2. QED BY <1>6, <1>10, <2>1
<1>14. Indexed'
  <2>1. Len(rows') <= MaxTrafficCalls /\ fallen' \in Nat
    BY <1>1, <1>5, <1>4, <1>6 DEF Indexed
  <2>2. \A k \in DOMAIN at' : k \in Calls
    BY <1>10 DEF Indexed
  <2>3. QED BY <1>6, <1>10, <1>12, <1>13, <2>1, <2>2 DEF Indexed
<1>15. fallen' = 0 => fallen = 0 /\ DOMAIN at' = DOMAIN at \union {c}
  BY <1>5, <1>4, <1>8, <1>10 DEF Indexed
<1>16. QED BY <1>10, <1>12, <1>14, <1>15

\* An event counted into its call's row leaves the other rows, and where each is.
LEMMA RowsCount ==
  ASSUME Indexed, NEW e \in Events, e.kind # "started", e.call \in DOMAIN at,
         rows' = [rows EXCEPT ![at[e.call] + 1] = T!Fold(@, e)], UNCHANGED <<at, fallen>>
  PROVE  /\ Indexed'
         /\ \A k \in DOMAIN at : k # e.call => RowOf(k)' = RowOf(k)
         /\ e.kind = "sent" => RowOf(e.call)'.sent = RowOf(e.call).sent + 1
                               /\ RowOf(e.call)'.received = RowOf(e.call).received
         /\ e.kind = "received" => RowOf(e.call)'.received = RowOf(e.call).received + 1
                                   /\ RowOf(e.call)'.sent = RowOf(e.call).sent
         /\ e.kind # "ended" => RowOf(e.call)'.done = RowOf(e.call).done
                                /\ RowOf(e.call)'.hasStatus = RowOf(e.call).hasStatus
         /\ e.kind = "ended" => RowOf(e.call)'.sent = RowOf(e.call).sent
                                /\ RowOf(e.call)'.received = RowOf(e.call).received
                                /\ RowOf(e.call)'.done /\ (RowOf(e.call)'.hasStatus <=> e.arg = 1)
<1> DEFINE c == e.call
           p == at[c] + 1
           row == RowOf(c)
<1>1. p \in DOMAIN rows /\ row \in RowType /\ row = rows[p] /\ row.id = c /\ rows \in Seq(RowType)
  BY DEF Indexed, RowOf
<1>2. e.kind \in {"sent", "received", "ended"} /\ e.arg \in Nat /\ T!HasStatus = 1
  BY DEF Events, T!HasStatus
<1>3. rows' = [rows EXCEPT ![p] = T!Fold(row, e)]
  BY <1>1
<1>4. /\ T!Fold(row, e) \in RowType /\ T!Fold(row, e).id = c
      /\ e.kind = "sent" => T!Fold(row, e).sent = row.sent + 1
                            /\ T!Fold(row, e).received = row.received
      /\ e.kind = "received" => T!Fold(row, e).received = row.received + 1
                                /\ T!Fold(row, e).sent = row.sent
      /\ e.kind # "ended" => T!Fold(row, e).done = row.done /\ T!Fold(row, e).hasStatus = row.hasStatus
      /\ e.kind = "ended" => T!Fold(row, e).sent = row.sent
                             /\ T!Fold(row, e).received = row.received
                             /\ T!Fold(row, e).done /\ (T!Fold(row, e).hasStatus <=> e.arg = 1)
  <2> HIDE DEF row, c
  <2>1. CASE e.kind = "sent"
    <3>1. T!Fold(row, e) = [row EXCEPT !.sent = @ + 1, !.request = IF @ = 0 THEN e.arg ELSE @]
      BY <2>1 DEF T!Fold
    <3>2. row.sent + 1 \in Nat /\ (IF row.request = 0 THEN e.arg ELSE row.request) \in Nat
      BY <1>1, <1>2 DEF RowType
    <3>3. T!Fold(row, e) \in RowType
      BY <1>1, <3>1, <3>2 DEF RowType
    <3>4. T!Fold(row, e).id = row.id /\ T!Fold(row, e).sent = row.sent + 1
          /\ T!Fold(row, e).received = row.received
          /\ T!Fold(row, e).done = row.done /\ T!Fold(row, e).hasStatus = row.hasStatus
      BY <1>1, <3>1 DEF RowType
    <3>5. QED BY <1>1, <2>1, <3>3, <3>4
  <2>2. CASE e.kind = "received"
    <3>1. T!Fold(row, e) = [row EXCEPT !.received = @ + 1]
      BY <2>2 DEF T!Fold
    <3>2. QED BY <1>1, <1>2, <2>2, <3>1 DEF RowType
  <2>3. CASE e.kind = "ended"
    <3>1. T!Fold(row, e) = [row EXCEPT !.done = TRUE, !.hasStatus = (e.arg = 1)]
      BY <1>2, <2>3 DEF T!Fold
    <3>2. (e.arg = 1) \in BOOLEAN
      OBVIOUS
    <3>3. PICK failed \in BOOLEAN : (failed <=> e.arg = 1) /\ failed = (e.arg = 1)
      BY <3>2
    <3>4. T!Fold(row, e) = [row EXCEPT !.done = TRUE, !.hasStatus = failed]
      BY <3>1, <3>3
    <3>5. T!Fold(row, e) \in RowType /\ T!Fold(row, e).id = row.id
          /\ T!Fold(row, e).sent = row.sent /\ T!Fold(row, e).received = row.received
          /\ T!Fold(row, e).done = TRUE /\ T!Fold(row, e).hasStatus = failed
      BY <1>1, <3>4 DEF RowType
    <3>6. QED BY <1>1, <2>3, <3>3, <3>5
  <2>4. QED BY <1>2, <2>1, <2>2, <2>3
<1>5. RowOf(c)' = T!Fold(row, e)
  BY <1>1, <1>3 DEF RowOf
<1>6. \A k \in DOMAIN at : k # c => at[k] + 1 # p /\ RowOf(k)' = RowOf(k)
  <2>1. ASSUME NEW k \in DOMAIN at, k # c PROVE at[k] + 1 # p /\ RowOf(k)' = RowOf(k)
    <3>1. at[k] + 1 \in DOMAIN rows /\ rows[at[k] + 1].id = k /\ rows[p].id = c
      BY <1>1, <2>1 DEF Indexed, RowOf
    <3>2. QED BY <1>3, <2>1, <3>1 DEF RowOf
  <2>2. QED BY <2>1
<1>7. Indexed'
  <2>1. rows' \in Seq(RowType) /\ Len(rows') = Len(rows) /\ DOMAIN rows' = DOMAIN rows
    BY <1>1, <1>3, <1>4
  <2>2. \A i \in DOMAIN rows : rows'[i].id = rows[i].id
    BY <1>1, <1>3, <1>4
  <2>3. QED BY <2>1, <2>2 DEF Indexed, RowOf
<1>8. QED BY <1>4, <1>5, <1>6, <1>7

-----------------------------------------------------------------------------
(* The steps that tell nothing new: everything but the reports. *)

\* The steps of a handler that report nothing leave what is told alone.
LEMMA HandlerIsQuiet ==
  ASSUME ProxyInv, NEW c \in Calls,
         \/ OpenUpstream(c) \/ RefusedUpstream(c) \/ TakeReply(c) \/ PassReply(c)
         \/ EndOfReplies(c) \/ RepliesFail(c) \/ HeaderRefused(c) \/ HearPump(c) \/ CountDrop(Handler(c))
  PROVE  (\A d \in Calls : SameTold(d)) /\ UNCHANGED <<events, panicked>>
         /\ ((counting' = counting /\ dropped' = dropped) \/ dropped' = dropped + 1)
<1>1. /\ handler \in [Calls -> HandlerSteps] /\ outcome \in [Calls -> {"none", "ok", "failed", "bare"}]
      /\ pump \in [Calls -> PumpSteps] /\ taken \in [Calls -> Nat] /\ relayed \in [Calls -> Nat]
  BY DEF ProxyInv, Shape
<1>2. CASE OpenUpstream(c)
  <2>1. /\ handler[c] = "opening" /\ pump[c] = "none"
        /\ handler' = [handler EXCEPT ![c] = "receiving"] /\ pump' = [pump EXCEPT ![c] = "receiving"]
        /\ UNCHANGED <<outcome, events, counting, panicked, dropped, taken, relayed>>
    BY <1>2 DEF OpenUpstream, At, Goto, ProxyInv, RequestsInHand, Before, reporting, requests, replies
  <2>2. QED BY <1>1, <2>1 DEF SameTold, Heard, Over, Ill, Reported
<1>3. CASE RefusedUpstream(c)
  <2>1. /\ handler[c] = "opening"
        /\ handler' = [handler EXCEPT ![c] = "ending"] /\ outcome' = [outcome EXCEPT ![c] = "failed"]
        /\ UNCHANGED <<pump, events, counting, panicked, dropped, taken, relayed>>
    BY <1>3 DEF RefusedUpstream, At, Goto, reporting, requests, replies
  <2>2. QED BY <1>1, <2>1 DEF SameTold, Heard, Over, Ill, Reported
<1>4. CASE TakeReply(c)
  <2>1. /\ handler[c] = "receiving"
        /\ handler' = [handler EXCEPT ![c] = "reporting"] /\ relayed' = [relayed EXCEPT ![c] = @ + 1]
        /\ UNCHANGED <<outcome, pump, events, counting, panicked, dropped, taken>>
    BY <1>4 DEF TakeReply, At, Goto, reporting, requests, replies
  <2>2. QED BY <1>1, <2>1 DEF SameTold, Heard, Over, Ill, Reported
<1>5. CASE PassReply(c)
  <2>1. /\ handler[c] = "forwarding"
        /\ handler' = [handler EXCEPT ![c] = "ending"] \/ handler' = [handler EXCEPT ![c] = "receiving"]
        /\ outcome' = [outcome EXCEPT ![c] = "failed"] \/ outcome' = outcome
        /\ UNCHANGED <<pump, events, counting, panicked, dropped, taken, relayed>>
    BY <1>5 DEF PassReply, At, Goto, reporting, requests, replies
  <2>2. QED BY <1>1, <2>1 DEF SameTold, Heard, Over, Ill, Reported
<1>6. CASE EndOfReplies(c)
  <2>1. /\ handler[c] = "receiving" /\ handler' = [handler EXCEPT ![c] = "waiting"]
        /\ UNCHANGED <<outcome, pump, events, counting, panicked, dropped, taken, relayed>>
    BY <1>6 DEF EndOfReplies, At, Goto, reporting, requests, replies
  <2>2. QED BY <1>1, <2>1 DEF SameTold, Heard, Over, Ill, Reported
<1>7. CASE RepliesFail(c)
  <2>1. /\ handler[c] = "receiving"
        /\ handler' = [handler EXCEPT ![c] = "ending"] /\ outcome' = [outcome EXCEPT ![c] = "failed"]
        /\ UNCHANGED <<pump, events, counting, panicked, dropped, taken, relayed>>
    BY <1>7 DEF RepliesFail, At, Goto, reporting, requests, replies
  <2>2. QED BY <1>1, <2>1 DEF SameTold, Heard, Over, Ill, Reported
<1>8. CASE HearPump(c)
  <2>1. /\ handler[c] = "waiting" /\ handler' = [handler EXCEPT ![c] = "ending"]
        /\ \A d \in Calls : d # c => outcome'[d] = outcome[d]
        /\ UNCHANGED <<pump, events, counting, panicked, dropped, taken, relayed>>
    BY <1>1, <1>8 DEF HearPump, At, Goto, reporting, requests, replies
  <2>2. QED BY <1>1, <2>1 DEF SameTold, Heard, Over, Ill, Reported
<1>9. CASE CountDrop(Handler(c))
  BY <1>9 DEF CountDrop, requests, replies, SameTold, Heard, Over, Ill, Reported
<1>10. CASE HeaderRefused(c)
  <2>1. /\ handler[c] = "receiving"
        /\ handler' = [handler EXCEPT ![c] = "ending"] /\ outcome' = [outcome EXCEPT ![c] = "bare"]
        /\ UNCHANGED <<pump, events, counting, panicked, dropped, taken, relayed>>
    BY <1>10 DEF HeaderRefused, At, Goto, reporting, requests, replies
  <2>2. QED BY <1>1, <2>1 DEF SameTold, Heard, Over, Ill, Reported
<1>11. QED BY <1>2, <1>3, <1>4, <1>5, <1>6, <1>7, <1>8, <1>9, <1>10

\* So do those of a pump.
LEMMA PumpIsQuiet ==
  ASSUME ProxyInv, NEW c \in Calls,
         \/ TakeRequest(c) \/ PassRequest(c) \/ RefuseRequest(c)
         \/ EndOfRequests(c) \/ RequestsFail(c) \/ CountDrop(Pump(c))
  PROVE  (\A d \in Calls : SameTold(d)) /\ UNCHANGED <<events, panicked>>
         /\ ((counting' = counting /\ dropped' = dropped) \/ dropped' = dropped + 1)
<1>1. pump \in [Calls -> PumpSteps] /\ taken \in [Calls -> Nat]
  BY DEF ProxyInv, Shape
<1>2. CASE TakeRequest(c)
  <2>1. /\ pump[c] = "receiving" /\ pump' = [pump EXCEPT ![c] = "reporting"]
        /\ taken' = [taken EXCEPT ![c] = @ + 1]
        /\ UNCHANGED <<handler, outcome, events, counting, panicked, dropped, relayed>>
    BY <1>2 DEF TakeRequest, PumpAt, PumpGoto, reporting, replies
  <2>2. QED BY <1>1, <2>1 DEF SameTold, Heard, Over, Ill, Reported
<1>3. CASE PassRequest(c) \/ RefuseRequest(c) \/ EndOfRequests(c) \/ RequestsFail(c)
  <2>1. /\ pump[c] # "reporting"
        /\ \E to \in {"eof", "receiving", "failed", "ok"} : pump' = [pump EXCEPT ![c] = to]
        /\ UNCHANGED <<handler, outcome, events, counting, panicked, dropped, taken, relayed>>
    BY <1>3 DEF PassRequest, RefuseRequest, EndOfRequests, RequestsFail, PumpAt, PumpGoto,
                reporting, requests, replies
  <2>2. QED BY <1>1, <2>1 DEF SameTold, Heard, Over, Ill, Reported
<1>4. CASE CountDrop(Pump(c))
  BY <1>4 DEF CountDrop, requests, replies, SameTold, Heard, Over, Ill, Reported
<1>5. QED BY <1>2, <1>3, <1>4

\* So do a call that arrives and the stop of the proxy.
LEMMA OthersAreQuiet ==
  ASSUME ProxyInv, Arrive \/ StopBegins \/ StopEnds \/ Ends
  PROVE  (\A d \in Calls : SameTold(d)) /\ UNCHANGED <<events, panicked, counting, dropped>>
<1>1. CASE Arrive
  <2>1. /\ calls + 1 \in Calls /\ handler' = [handler EXCEPT ![calls + 1] = "starting"]
        /\ UNCHANGED <<outcome, pump, events, counting, panicked, dropped, taken, relayed>>
    BY <1>1 DEF Arrive, Goto, reporting, requests, replies
  <2>2. handler \in [Calls -> HandlerSteps] /\ handler[calls + 1] = "idle"
    BY <2>1 DEF ProxyInv, Shape, CleanEnd, Calls
  <2>3. QED BY <2>1, <2>2 DEF SameTold, Heard, Over, Ill, Reported
<1>2. CASE StopBegins \/ StopEnds \/ Ends
  <2>1. UNCHANGED <<handler, outcome, pump, events, counting, panicked, dropped, taken, relayed>>
    BY <1>2 DEF StopBegins, StopEnds, Ends, ClientSends, ClientEnds, ServerReplies, ServerEnds,
                reporting, requests, replies
  <2>2. QED BY <2>1 DEF SameTold, Heard, Over, Ill, Reported
<1>3. QED BY <1>1, <1>2

\* What a quiet step leaves as true as it was: all of it.
LEMMA QuietStep ==
  ASSUME LogInv, UNCHANGED <<screen, inHand, events, panicked>>,
         \A d \in Calls : SameTold(d),
         (counting' = counting /\ dropped' = dropped) \/ dropped' = dropped + 1
  PROVE  Watched' /\ Indexed' /\ \A d \in Calls : Told(d)'
<1>1. Watched'
  BY DEF LogInv, Watched
<1>2. SameRows /\ Indexed'
  BY DEF LogInv, screen, SameRows, Indexed, RowOf
<1>3. Lossless' => Lossless
  BY DEF LogInv, Watched, screen, Lossless
<1>4. Way' = Way /\ Way \in Seq(Events)
  BY DEF LogInv, ProxyInv, Shape, Watched, Way
<1>5. QED BY <1>1, <1>2, <1>3, <1>4, ToldKept DEF LogInv

-----------------------------------------------------------------------------
(* The reports. *)

\* emit puts its event behind all that is on its way, or loses it and shows that it did.
LEMMA EmitJoins ==
  ASSUME LogInv, UNCHANGED <<screen, inHand, dropped>>, NEW who, NEW e \in Events, Emit(who, e)
  PROVE  /\ Joins(e) /\ SameRows /\ (Lossless' => Lossless)
         /\ Way \in Seq(Events) /\ Watched' /\ Indexed'
<1>1. inHand \in Seq(Events) /\ events \in Seq(Events) /\ inHand' = inHand
  BY DEF LogInv, ProxyInv, Shape, Watched
<1>2. SameRows /\ Indexed' /\ Watched'
  BY DEF LogInv, Watched, screen, SameRows, Indexed, RowOf
<1>3. Lossless' => counting' = {} /\ ~panicked'
  BY DEF Lossless
<1>4. CASE events' = Append(events, e) /\ UNCHANGED <<counting, panicked>>
  <2>1. inHand \o Append(events, e) = Append(inHand \o events, e)
    BY <1>1
  <2>2. Way' = Append(Way, e) /\ (Lossless' => Lossless)
    BY <1>1, <1>2, <1>4, <2>1 DEF Way, SameRows, Lossless
  <2>3. QED BY <1>1, <1>2, <2>2 DEF Joins, Way
<1>5. CASE events' = events /\ (panicked' = TRUE \/ counting' = counting \union {who})
  <2>1. Way' = Way /\ ~Lossless'
    BY <1>1, <1>3, <1>5 DEF Way
  <2>2. QED BY <1>1, <1>2, <2>1 DEF Joins, Way
<1>6. QED BY <1>4, <1>5 DEF Emit

\* A report of one call leaves what is told of the others.
LEMMA OthersKept ==
  ASSUME LogInv, NEW c \in Calls, NEW e \in Events, e.call = c, Joins(e), SameRows,
         Lossless' => Lossless, Way \in Seq(Events), NEW d \in Calls, d # c, SameTold(d)
  PROVE  Told(d)'
<1>1. Way' = Way \/ \E x \in Events : Way' = Append(Way, x) /\ x.call # d
  BY DEF Joins
<1>2. QED BY <1>1, ToldKept DEF LogInv

\* The start of a call is the first thing told of it.
LEMMA ReportStartTells ==
  ASSUME LogInv, NEW c \in Calls, ReportStart(c), UNCHANGED <<screen, inHand>>
  PROVE  Watched' /\ Indexed' /\ \A d \in Calls : Told(d)'
<1> DEFINE e == Event(c, "started", 0)
<1>1. e \in Events /\ e.call = c /\ e.kind = "started"
  BY EventIsEvent
<1>2. /\ handler[c] = "starting" /\ handler' = [handler EXCEPT ![c] = "opening"]
      /\ Emit(Handler(c), e) /\ UNCHANGED <<outcome, pump, dropped, taken, relayed>>
  BY DEF ReportStart, At, Goto, requests, replies
<1> HIDE DEF e
<1>3. /\ Joins(e) /\ SameRows /\ (Lossless' => Lossless) /\ Way \in Seq(Events) /\ Watched' /\ Indexed'
  BY <1>1, <1>2, EmitJoins
<1>4. /\ handler \in [Calls -> HandlerSteps] /\ Shape /\ Indexed /\ Told(c)
      /\ taken[c] = 0 /\ relayed[c] = 0 /\ pump[c] = "none"
  BY <1>2 DEF LogInv, ProxyInv, Shape, RequestsInHand, RepliesInHand, Before
<1>5. \A dir \in Dirs : Reported(c, dir) = 0 /\ Reported(c, dir)' = 0
  <2>1. handler'[c] = "opening" /\ pump'[c] = "none" /\ taken'[c] = 0 /\ relayed'[c] = 0
    BY <1>2, <1>4
  <2>2. ASSUME NEW dir \in Dirs PROVE Reported(c, dir) = 0
    BY <1>2, <1>4 DEF Reported
  <2>3. ASSUME NEW dir \in Dirs PROVE Reported(c, dir)' = 0
    BY <2>1 DEF Reported
  <2>4. QED BY <2>2, <2>3
<1>6. ~Heard(c) /\ Heard(c)' /\ ~Over(c)'
  BY <1>2, <1>4 DEF Heard, Over
<1>7. Told(c)'
  BY <1>1, <1>3, <1>4, <1>5, <1>6, ToldStart
<1>8. ASSUME NEW d \in Calls, d # c PROVE SameTold(d)
  BY <1>2, <1>4, <1>8 DEF SameTold, Heard, Over, Ill, Reported
<1>9. QED BY <1>1, <1>3, <1>7, <1>8, OthersKept

\* A reply is told of after those before it.
LEMMA ReportReplyTells ==
  ASSUME LogInv, NEW c \in Calls, ReportReply(c), UNCHANGED <<screen, inHand>>
  PROVE  Watched' /\ Indexed' /\ \A d \in Calls : Told(d)'
<1> DEFINE e == Event(c, "received", relayed[c])
<1>1. /\ handler \in [Calls -> HandlerSteps] /\ Shape /\ Indexed /\ Told(c)
      /\ relayed[c] \in Nat /\ taken[c] \in Nat
  BY DEF LogInv, ProxyInv, Shape
<1>2. e \in Events /\ e.call = c /\ e.kind = "received" /\ e.arg = relayed[c]
  BY <1>1 DEF Event, Events
<1>3. /\ handler[c] = "reporting" /\ handler' = [handler EXCEPT ![c] = "forwarding"]
      /\ Emit(Handler(c), e) /\ UNCHANGED <<outcome, pump, dropped, taken, relayed>>
  BY DEF ReportReply, At, Goto, requests, replies
<1> HIDE DEF e
<1>4. /\ Joins(e) /\ SameRows /\ (Lossless' => Lossless) /\ Way \in Seq(Events) /\ Watched' /\ Indexed'
  BY <1>2, <1>3, EmitJoins
<1>5. handler'[c] = "forwarding"
  BY <1>1, <1>3
<1>6. /\ Reported(c, "received") = relayed[c] - 1 /\ Reported(c, "received")' = relayed[c]
      /\ Reported(c, "sent")' = Reported(c, "sent")
  BY <1>1, <1>3, <1>5 DEF Reported
<1>7. Heard(c) /\ Heard(c)' /\ ~Over(c) /\ ~Over(c)'
  BY <1>3, <1>5 DEF Heard, Over
<1>8. Told(c)'
  <2>1. Reported(c, "received")' = Reported(c, "received") + 1
    BY <1>1, <1>6
  <2>2. \A way \in Dirs \ {"received"} : Reported(c, way)' = Reported(c, way)
    BY <1>6 DEF Dirs
  <2>3. "received" \in Dirs /\ e.arg = Reported(c, "received")'
    BY <1>2, <1>6 DEF Dirs
  <2>4. QED BY <1>1, <1>2, <1>4, <1>7, <2>1, <2>2, <2>3, ToldMessage
<1>9. ASSUME NEW d \in Calls, d # c PROVE SameTold(d)
  BY <1>1, <1>3, <1>9 DEF SameTold, Heard, Over, Ill, Reported
<1>10. QED BY <1>2, <1>4, <1>8, <1>9, OthersKept

\* So is a request.
LEMMA ReportRequestTells ==
  ASSUME LogInv, NEW c \in Calls, ReportRequest(c), UNCHANGED <<screen, inHand>>
  PROVE  Watched' /\ Indexed' /\ \A d \in Calls : Told(d)'
<1> DEFINE e == Event(c, "sent", taken[c])
<1>1. /\ pump \in [Calls -> PumpSteps] /\ Shape /\ Indexed /\ Told(c)
      /\ relayed[c] \in Nat /\ taken[c] \in Nat
  BY DEF LogInv, ProxyInv, Shape
<1>2. e \in Events /\ e.call = c /\ e.kind = "sent" /\ e.arg = taken[c]
  BY <1>1 DEF Event, Events
<1>3. /\ pump[c] = "reporting" /\ pump' = [pump EXCEPT ![c] = "forwarding"]
      /\ Emit(Pump(c), e) /\ UNCHANGED <<handler, outcome, dropped, taken, relayed>>
  BY DEF ReportRequest, PumpAt, PumpGoto, requests, replies
<1> HIDE DEF e
<1>4. /\ Joins(e) /\ SameRows /\ (Lossless' => Lossless) /\ Way \in Seq(Events) /\ Watched' /\ Indexed'
  BY <1>2, <1>3, EmitJoins
<1>5. pump'[c] = "forwarding"
  BY <1>1, <1>3
<1>6. /\ Reported(c, "sent") = taken[c] - 1 /\ Reported(c, "sent")' = taken[c]
      /\ Reported(c, "received")' = Reported(c, "received")
  BY <1>1, <1>3, <1>5 DEF Reported
<1>7. Heard(c) /\ Heard(c)' /\ (Over(c)' <=> Over(c)) /\ (Ill(c)' <=> Ill(c))
  BY <1>3 DEF Heard, Over, Ill, LogInv, ProxyInv, RequestsInHand, Before
<1>8. Told(c)'
  <2>1. Reported(c, "sent")' = Reported(c, "sent") + 1
    BY <1>1, <1>6
  <2>2. \A way \in Dirs \ {"sent"} : Reported(c, way)' = Reported(c, way)
    BY <1>6 DEF Dirs
  <2>3. "sent" \in Dirs /\ e.arg = Reported(c, "sent")'
    BY <1>2, <1>6 DEF Dirs
  <2>4. QED BY <1>1, <1>2, <1>4, <1>7, <2>1, <2>2, <2>3, ToldMessage
<1>9. ASSUME NEW d \in Calls, d # c PROVE SameTold(d)
  BY <1>1, <1>3, <1>9 DEF SameTold, Heard, Over, Ill, Reported
<1>10. QED BY <1>2, <1>4, <1>8, <1>9, OthersKept

\* The end is told as the call had it, and last.
LEMMA FinishTells ==
  ASSUME LogInv, NEW c \in Calls, Finish(c), UNCHANGED <<screen, inHand>>
  PROVE  Watched' /\ Indexed' /\ \A d \in Calls : Told(d)'
<1> DEFINE e == Event(c, "ended", IF outcome[c] = "failed" THEN 1 ELSE 0)
<1>1. /\ handler \in [Calls -> HandlerSteps] /\ Told(c)
  BY DEF LogInv, ProxyInv, Shape
<1>2. e \in Events /\ e.call = c /\ e.kind = "ended" /\ e.arg = (IF outcome[c] = "failed" THEN 1 ELSE 0)
  <2>1. (IF outcome[c] = "failed" THEN 1 ELSE 0) \in Nat
    OBVIOUS
  <2>2. QED BY <2>1 DEF Event, Events
<1>3. /\ handler[c] = "ending" /\ handler' = [handler EXCEPT ![c] = "returned"]
      /\ Emit(Handler(c), e) /\ UNCHANGED <<outcome, pump, dropped, taken, relayed>>
  BY DEF Finish, At, Goto, requests, replies
<1> HIDE DEF e
<1>4. /\ Joins(e) /\ SameRows /\ (Lossless' => Lossless) /\ Way \in Seq(Events) /\ Watched' /\ Indexed'
  BY <1>2, <1>3, EmitJoins
<1>5. handler'[c] = "returned"
  BY <1>1, <1>3
<1>6. \A dir \in Dirs : Reported(c, dir)' = Reported(c, dir)
  BY <1>3, <1>5 DEF Reported
<1>7. Heard(c) /\ Heard(c)' /\ ~Over(c) /\ Over(c)' /\ (e.arg = 1 <=> Ill(c)')
  BY <1>1, <1>2, <1>3, <1>5 DEF Heard, Over, Ill
<1>8. Told(c)'
  BY <1>1, <1>2, <1>4, <1>6, <1>7, ToldEnd
<1>9. ASSUME NEW d \in Calls, d # c PROVE SameTold(d)
  BY <1>1, <1>3, <1>9 DEF SameTold, Heard, Over, Ill, Reported
<1>10. QED BY <1>2, <1>4, <1>8, <1>9, OthersKept

-----------------------------------------------------------------------------
(* The panel's steps. *)

\* The event taken off the channel is the one in hand: all that is on its way still is.
LEMMA WatchTells ==
  ASSUME LogInv, Watch
  PROVE  Watched' /\ Indexed' /\ \A d \in Calls : Told(d)'
<1>1. /\ inHand = <<>> /\ events # <<>> /\ inHand' = <<Head(events)>> /\ events' = Tail(events)
      /\ UNCHANGED <<handler, outcome, pump, counting, panicked, dropped, taken, relayed, screen>>
  BY DEF Watch, Read, requests, replies
<1>2. events \in Seq(Events)
  BY DEF LogInv, ProxyInv, Shape
<1>3. Head(events) \in Events /\ Tail(events) \in Seq(Events)
      /\ <<Head(events)>> \o Tail(events) = events /\ <<>> \o events = events
  BY <1>1, <1>2
<1>4. Way' = Way /\ Way \in Seq(Events)
  BY <1>1, <1>2, <1>3 DEF Way
<1>5. Watched' /\ SameRows /\ Indexed' /\ (Lossless' => Lossless)
  BY <1>1, <1>3 DEF LogInv, Watched, screen, SameRows, Indexed, RowOf, Lossless
<1>6. \A d \in Calls : SameTold(d)
  BY <1>1 DEF SameTold, Heard, Over, Ill, Reported
<1>7. QED BY <1>4, <1>5, <1>6, ToldKept DEF LogInv

\* recordTraffic: the event in hand was the oldest on its way, and its call's row, if it
\* has one, now says it.
LEMMA FoldInTells ==
  ASSUME LogInv, FoldIn, NEW e, e = inHand[1]
  PROVE  Watched' /\ Indexed' /\ \A d \in Calls : Told(d)'
<1> DEFINE c == e.call
<1>1. /\ inHand # <<>> /\ T!Record(e) /\ inHand' = <<>>
      /\ UNCHANGED <<handler, outcome, pump, events, counting, panicked, dropped, taken, relayed>>
  BY DEF FoldIn, vars, reporting, requests, replies
<1>2. /\ inHand \in Seq(Events) /\ inHand = <<e>> /\ events \in Seq(Events)
      /\ Shape /\ Indexed /\ \A d \in Calls : Told(d)
  BY <1>1 DEF LogInv, ProxyInv, Shape, Watched
<1>3. e \in Events /\ c \in Calls /\ e.kind \in Dirs \union {"started", "ended"}
  <2>1. e \in Events
    BY <1>1, <1>2
  <2>2. QED BY <2>1 DEF Events, Dirs
<1>4. Way \in Seq(Events) /\ Way # <<>> /\ Way' = Tail(Way) /\ Way[1] = e
  <2>1. Way = <<e>> \o events /\ Way' = <<>> \o events
    BY <1>1, <1>2 DEF Way
  <2>2. <<e>> \o events \in Seq(Events) /\ <<e>> \o events # <<>>
        /\ Tail(<<e>> \o events) = events /\ (<<e>> \o events)[1] = e /\ <<>> \o events = events
    BY <1>2, <1>3
  <2>3. QED BY <2>1, <2>2
<1>5. Watched'
  BY <1>1 DEF LogInv, Watched
<1>6. \A d \in Calls : SameTold(d)
  BY <1>1 DEF SameTold, Heard, Over, Ill, Reported
<1>7. \A kind \in {"started", "ended", "sent", "received"} : e.kind = kind <=> On(1, c, kind)
  BY <1>4 DEF On
<1>8. CASE e.kind = "started"
  <2>1. c \notin DOMAIN at
    BY <1>2, <1>3, <1>4, <1>7, <1>8 DEF Told, StartedFirst
  <2>2. T!Start(c)
    BY <1>1, <1>8 DEF T!Record
  <2>3. /\ Indexed'
        /\ \A k \in DOMAIN at' : k # c => k \in DOMAIN at /\ RowOf(k)' = RowOf(k)
        /\ c \in DOMAIN at' => RowOf(c)' = T!Row(c)
        /\ fallen' = 0 => fallen = 0 /\ DOMAIN at' = DOMAIN at \union {c}
    BY <1>2, <1>3, <2>1, <2>2, RowsGrow
  <2>4. Lossless' => Lossless /\ DOMAIN at' = DOMAIN at \union {c}
    BY <1>1, <2>3 DEF Lossless
  <2>5. Told(c)'
    BY <1>2, <1>3, <1>4, <1>6, <1>7, <1>8, <2>3, <2>4, ToldFirst
  <2>6. ASSUME NEW d \in Calls, d # c PROVE Told(d)'
    BY <1>2, <1>4, <1>6, <2>3, <2>4, <2>6, ToldPast
  <2>7. QED BY <1>5, <2>3, <2>5, <2>6
<1>9. CASE e.kind # "started" /\ c \in DOMAIN at
  <2>1. rows' = [rows EXCEPT ![at[c] + 1] = T!Fold(@, e)] /\ UNCHANGED <<at, fallen>>
    BY <1>1, <1>9 DEF T!Record
  <2>2. /\ Indexed'
        /\ \A k \in DOMAIN at : k # c => RowOf(k)' = RowOf(k)
        /\ e.kind = "sent" => RowOf(c)'.sent = RowOf(c).sent + 1
                              /\ RowOf(c)'.received = RowOf(c).received
        /\ e.kind = "received" => RowOf(c)'.received = RowOf(c).received + 1
                                  /\ RowOf(c)'.sent = RowOf(c).sent
        /\ e.kind # "ended" => RowOf(c)'.done = RowOf(c).done /\ RowOf(c)'.hasStatus = RowOf(c).hasStatus
        /\ e.kind = "ended" => RowOf(c)'.sent = RowOf(c).sent
                               /\ RowOf(c)'.received = RowOf(c).received
                               /\ RowOf(c)'.done /\ (RowOf(c)'.hasStatus <=> e.arg = 1)
    BY <1>2, <1>3, <1>9, <2>1, RowsCount
  <2>3. (Lossless' => Lossless) /\ at' = at /\ c \in DOMAIN at'
    BY <1>1, <1>9, <2>1 DEF Lossless
  <2>4. Told(c)'
    <3>1. ASSUME e.kind \in Dirs PROVE Told(c)'
      <4>1. Counted(c, e.kind)' = Counted(c, e.kind) + 1
        BY <1>9, <2>2, <2>3, <3>1 DEF Counted, Dirs
      <4>2. \A way \in Dirs \ {e.kind} : Counted(c, way)' = Counted(c, way)
        BY <1>9, <2>2, <2>3, <3>1 DEF Counted, Dirs
      <4>3. On(1, c, e.kind) /\ (RowOf(c)'.done <=> RowOf(c).done) /\ (RowOf(c)'.hasStatus <=> RowOf(c).hasStatus)
        BY <1>4, <2>2, <3>1 DEF On, Dirs
      <4>4. QED BY <1>2, <1>3, <1>4, <1>6, <1>9, <2>3, <3>1, <4>1, <4>2, <4>3, ToldCount
    <3>2. CASE e.kind = "ended"
      <4>1. \A dir \in Dirs : Counted(c, dir)' = Counted(c, dir)
        BY <1>9, <2>2, <2>3, <3>2 DEF Counted
      <4>2. QED BY <1>2, <1>3, <1>4, <1>6, <1>7, <1>9, <2>2, <2>3, <3>2, <4>1, ToldLast
    <3>3. QED BY <1>3, <1>9, <3>1, <3>2
  <2>5. ASSUME NEW d \in Calls, d # c PROVE Told(d)'
    BY <1>2, <1>4, <1>6, <2>2, <2>3, <2>5, ToldPast
  <2>6. QED BY <1>5, <2>2, <2>4, <2>5
<1>10. CASE e.kind # "started" /\ c \notin DOMAIN at
  <2>1. UNCHANGED <<rows, at, fallen>>
    BY <1>1, <1>10 DEF T!Record
  <2>2. Indexed' /\ (Lossless' => Lossless) /\ \A d : RowOf(d)' = RowOf(d)
    BY <1>1, <1>2, <2>1 DEF Indexed, RowOf, Lossless
  <2>3. ~Lossless
    <3>1. 1 \in DOMAIN Way /\ Heard(c)
      <4>1. 1 \in DOMAIN Way
        BY <1>4
      <4>2. QED BY <1>2, <1>3, <1>4, <4>1 DEF Told, StartedFirst
    <3>2. \A i \in DOMAIN Way : ~On(i, c, "started")
      <4>1. \A i \in DOMAIN Way : i = 1 \/ 1 \in 1 .. i - 1
        BY <1>4
      <4>2. QED BY <1>2, <1>3, <1>4, <1>10, <4>1 DEF Told, StartedFirst, On
    <3>3. QED BY <1>2, <1>3, <1>10, <3>1, <3>2 DEF Told, Whole
  <2>4. ASSUME NEW d \in Calls PROVE Told(d)'
    BY <1>2, <1>4, <1>6, <2>1, <2>2, <2>3, ToldPast
  <2>5. QED BY <1>5, <2>2, <2>4
<1>11. QED BY <1>8, <1>9, <1>10

-----------------------------------------------------------------------------
(* The theorem. *)

\* The log starts empty, with nothing on the way.
LEMMA InitLog == InitAll => LogInv
<1> SUFFICES ASSUME InitAll PROVE LogInv
  OBVIOUS
<1>1. ProxyInv
  BY InitProxy DEF InitAll
<1>2. /\ inHand = <<>> /\ events = <<>> /\ rows = <<>> /\ at = [c \in {} |-> 0] /\ fallen = 0
      /\ dropped = 0 /\ handler = [c \in Calls |-> "idle"] /\ pump = [c \in Calls |-> "none"]
      /\ taken = [c \in Calls |-> 0] /\ relayed = [c \in Calls |-> 0]
  BY DEF InitAll, Init, T!InitPanel
<1>3. Watched
  BY <1>2 DEF Watched
<1>4. Indexed
  <2>1. rows \in Seq(RowType) /\ Len(rows) = 0 /\ DOMAIN rows = {} /\ DOMAIN at = {}
    BY <1>2
  <2>2. QED BY <1>2, <2>1, PassiveAssumption DEF Indexed
<1>5. DOMAIN Way = {} /\ DOMAIN at = {}
  BY <1>2 DEF Way
<1>6. ASSUME NEW c \in Calls PROVE Told(c)
  <2>1. ~Heard(c) /\ \A dir \in Dirs : Reported(c, dir) = 0 /\ Counted(c, dir) = 0
    BY <1>2, <1>5 DEF Heard, Reported, Counted
  <2>2. QED BY <1>5, <2>1 DEF Told, StartedFirst, InTurn, EndAsItWas, Whole
<1>7. QED BY <1>1, <1>3, <1>4, <1>6 DEF LogInv

\* LogInv is inductive: the proxy's reports, its other steps, and the panel's.
LEMMA StepLog == LogInv /\ [NextAll]_all => LogInv'
<1> SUFFICES ASSUME LogInv, [NextAll]_all PROVE LogInv'
  OBVIOUS
<1>1. ProxyInv'
  <2>1. ProxyInv /\ [Next]_vars
    BY DEF LogInv, NextAll, all, Next, Screen, Watch, FoldIn, WatchOver
  <2>2. QED BY <2>1, StepProxy
<1>2. SUFFICES Watched' /\ Indexed' /\ \A d \in Calls : Told(d)'
  BY <1>1 DEF LogInv
<1>3. ProxyInv
  BY DEF LogInv
<1>4. CASE Forward /\ UNCHANGED <<screen, watching, inHand>>
  <2>1. ASSUME NEW c \in Calls, Handle(c)
        PROVE  Watched' /\ Indexed' /\ \A d \in Calls : Told(d)'
    <3>1. CASE ReportStart(c)
      BY <1>4, <3>1, ReportStartTells
    <3>2. CASE ReportReply(c)
      BY <1>4, <3>2, ReportReplyTells
    <3>3. CASE Finish(c)
      BY <1>4, <3>3, FinishTells
    <3>4. CASE \/ OpenUpstream(c) \/ RefusedUpstream(c) \/ TakeReply(c) \/ PassReply(c)
               \/ EndOfReplies(c) \/ RepliesFail(c) \/ HeaderRefused(c) \/ HearPump(c) \/ CountDrop(Handler(c))
      <4>1. /\ \A d \in Calls : SameTold(d)
            /\ UNCHANGED <<events, panicked>>
            /\ ((counting' = counting /\ dropped' = dropped) \/ dropped' = dropped + 1)
        BY <1>3, <3>4, HandlerIsQuiet
      <4>2. QED BY <1>4, <4>1, QuietStep
    <3>5. QED BY <2>1, <3>1, <3>2, <3>3, <3>4 DEF Handle
  <2>2. ASSUME NEW c \in Calls, PumpRequests(c)
        PROVE  Watched' /\ Indexed' /\ \A d \in Calls : Told(d)'
    <3>1. CASE ReportRequest(c)
      BY <1>4, <3>1, ReportRequestTells
    <3>2. CASE \/ TakeRequest(c) \/ PassRequest(c) \/ RefuseRequest(c)
               \/ EndOfRequests(c) \/ RequestsFail(c) \/ CountDrop(Pump(c))
      <4>1. /\ \A d \in Calls : SameTold(d)
            /\ UNCHANGED <<events, panicked>>
            /\ ((counting' = counting /\ dropped' = dropped) \/ dropped' = dropped + 1)
        BY <1>3, <3>2, PumpIsQuiet
      <4>2. QED BY <1>4, <4>1, QuietStep
    <3>3. QED BY <2>2, <3>1, <3>2 DEF PumpRequests
  <2>3. CASE Arrive \/ StopBegins \/ StopEnds \/ Ends
    <3>1. (\A d \in Calls : SameTold(d)) /\ UNCHANGED <<events, panicked, counting, dropped>>
      BY <1>3, <2>3, OthersAreQuiet
    <3>2. QED BY <1>4, <3>1, QuietStep
  <2>4. QED BY <1>4, <2>1, <2>2, <2>3 DEF Forward
<1>5. CASE Watch
  BY <1>5, WatchTells
<1>6. CASE FoldIn
  BY <1>6, FoldInTells
<1>7. CASE WatchOver \/ UNCHANGED all
  <2>1. /\ UNCHANGED <<screen, inHand, events, panicked, counting, dropped>>
        /\ UNCHANGED <<handler, outcome, pump, taken, relayed>>
    BY <1>7 DEF WatchOver, all, vars, reporting, requests, replies
  <2>2. \A d \in Calls : SameTold(d)
    BY <2>1 DEF SameTold, Heard, Over, Ill, Reported
  <2>3. QED BY <2>1, <2>2, QuietStep
<1>8. QED BY <1>4, <1>5, <1>6, <1>7 DEF NextAll, Screen

\* Nothing on its way and nothing lost: the rows are all there is to tell.
LEMMA NothingOnItsWay ==
  ASSUME LogInv, Settled, dropped = 0, fallen = 0, NEW c \in Calls, Heard(c)
  PROVE  /\ c \in DOMAIN at
         /\ \A dir \in Dirs : Counted(c, dir) = Reported(c, dir)
         /\ RowOf(c).done <=> Over(c)
<1>1. Lossless /\ DOMAIN Way = {}
  BY DEF Settled, Lossless, Way
<1>2. Told(c) /\ Indexed /\ Shape
  BY DEF LogInv, ProxyInv
<1>3. c \in DOMAIN at /\ (Over(c) => RowOf(c).done)
  BY <1>1, <1>2 DEF Told, Whole
<1>4. RowOf(c).done => Over(c)
  BY <1>2, <1>3 DEF Told, EndAsItWas
<1>5. ASSUME NEW dir \in Dirs PROVE Counted(c, dir) = Reported(c, dir)
  <2>1. Counted(c, dir) \in Nat /\ Reported(c, dir) \in Int /\ Counted(c, dir) <= Reported(c, dir)
    BY <1>2, CountedIsANumber, ReportedIsANumber DEF Told, InTurn
  <2>2. Reported(c, dir) \in 1 .. Reported(c, dir) => Reported(c, dir) <= Counted(c, dir)
    BY <1>1, <1>2 DEF Told, Whole
  <2>3. QED BY <2>1, <2>2
<1>6. QED BY <1>3, <1>4, <1>5

\* When nothing is on its way and no drop was counted, the log says of every call exactly
\* what the proxy did (panels/traffic.go:111-113); and whatever was lost, no row claims
\* more than was forwarded, or an end that has not come, and one that has ended shows a
\* status exactly when its error had one.
THEOREM LogTellsWhatWasForwarded == PassiveSpec => []LogIsHonest
<1>1. LogInv => LogIsHonest
  <2> SUFFICES ASSUME LogInv PROVE CompleteLog /\ NoRowOverstates
    BY DEF LogIsHonest
  <2>1. Shape /\ Indexed /\ \A c \in Calls : Told(c)
    BY DEF LogInv, ProxyInv
  <2>2. \A c \in DOMAIN at : RowOf(c) \in RowType /\ c \in Calls
    BY <2>1 DEF Indexed, RowOf
  <2>3. CompleteLog
    <3> SUFFICES ASSUME Settled, dropped = 0, fallen = 0, NEW c \in Calls,
                        handler[c] \notin {"idle", "starting"}
                 PROVE  /\ c \in DOMAIN at
                        /\ RowOf(c).sent = taken[c] - (IF pump[c] = "reporting" THEN 1 ELSE 0)
                        /\ RowOf(c).received = relayed[c] - (IF handler[c] = "reporting" THEN 1 ELSE 0)
                        /\ RowOf(c).done = (handler[c] = "returned")
      BY DEF CompleteLog
    <3>1. /\ c \in DOMAIN at
          /\ \A dir \in Dirs : Counted(c, dir) = Reported(c, dir)
          /\ RowOf(c).done <=> Over(c)
      BY NothingOnItsWay DEF Heard
    <3>2. RowOf(c).done \in BOOLEAN
      BY <2>2, <3>1 DEF RowType
    <3>3. /\ RowOf(c).sent = taken[c] - (IF pump[c] = "reporting" THEN 1 ELSE 0)
          /\ RowOf(c).received = relayed[c] - (IF handler[c] = "reporting" THEN 1 ELSE 0)
      BY <3>1 DEF Counted, Reported, Dirs
    <3>4. RowOf(c).done = (handler[c] = "returned")
      BY <3>1, <3>2 DEF Over
    <3>5. QED BY <3>1, <3>3, <3>4
  <2>4. NoRowOverstates
    <3> SUFFICES ASSUME NEW c \in DOMAIN at
                 PROVE  /\ RowOf(c).sent <= taken[c] /\ RowOf(c).received <= relayed[c]
                        /\ RowOf(c).done => /\ handler[c] = "returned"
                                           /\ RowOf(c).hasStatus = (outcome[c] = "failed")
      BY DEF NoRowOverstates
    <3>1. /\ RowOf(c).sent <= Reported(c, "sent") /\ RowOf(c).received <= Reported(c, "received")
          /\ RowOf(c).done => Over(c) /\ (RowOf(c).hasStatus <=> Ill(c))
      BY <2>1, <2>2 DEF Told, InTurn, EndAsItWas, Counted, Dirs
    <3>2. /\ RowOf(c).sent \in Nat /\ RowOf(c).received \in Nat
          /\ taken[c] \in Nat /\ relayed[c] \in Nat
      BY <2>1, <2>2 DEF RowType, Shape
    <3>3. Reported(c, "sent") <= taken[c] /\ Reported(c, "received") <= relayed[c]
      BY <3>2 DEF Reported
    <3>4. Reported(c, "sent") \in Int /\ Reported(c, "received") \in Int
      BY <2>1, <2>2, ReportedIsANumber
    <3>5. RowOf(c).done => RowOf(c).hasStatus = (outcome[c] = "failed")
      BY <2>2, <3>1 DEF RowType, Ill
    <3>6. QED BY <3>1, <3>2, <3>3, <3>4, <3>5 DEF Over
  <2>5. QED BY <2>3, <2>4
<1>2. QED BY <1>1, InitLog, StepLog, PTL DEF PassiveSpec

\* Also after rows have fallen off the front, an event is folded into its own call's row
\* and no other (traffic.go:107-109), and the log keeps to its bound.
THEOREM RowsAreFound == PassiveSpec => []T!AtIsRight
<1>1. LogInv => T!AtIsRight
  <2> SUFFICES ASSUME Indexed PROVE T!AtIsRight
    BY DEF LogInv
  <2>1. DOMAIN at = T!Ids
    <3>1. \A c \in DOMAIN at : at[c] + 1 \in DOMAIN rows /\ rows[at[c] + 1].id = c
      BY DEF Indexed, RowOf
    <3>2. \A i \in DOMAIN rows : rows[i].id \in DOMAIN at
      BY DEF Indexed
    <3>3. QED BY <3>1, <3>2 DEF T!Ids
  <2>2. QED BY <2>1 DEF Indexed, RowOf, T!AtIsRight
<1>2. QED BY <1>1, InitLog, StepLog, PTL DEF PassiveSpec
=============================================================================
