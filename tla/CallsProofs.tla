---------------------------- MODULE CallsProofs ----------------------------
(***************************************************************************)
(* Proofs about Calls, for every set of methods and every bound.  CallInv  *)
(* is inductive: the sequence number, cancelCall, the stream and the       *)
(* commands in flight are only safe together.  On it, and on what it says  *)
(* of the step before and the step after, rest the refinement of           *)
(* CallContract, each message Update handles being one step of it or none, *)
(* and that the diff view compares answers to one method.                  *)
(***************************************************************************)
EXTENDS Calls, FiniteSetTheorems, SequenceTheorems, TLAPS

\* The constants as the lemmas use them.
LEMMA Constants ==
  /\ MaxCalls \in Nat \ {0} /\ MaxMsgs \in Nat \ {0}
  /\ None \notin Methods
  /\ CallId = 1 .. MaxCalls /\ CallRef = 0 .. MaxCalls /\ Msg = 1 .. MaxMsgs
  /\ NoCall = 0 /\ NoCall \in CallRef /\ NoCall \notin CallId
  /\ CallRef = CallId \union {NoCall}
BY MethodsAssumption, BoundsAssumption DEF CallId, CallRef, Msg, NoCall

\* The empty queue, log and wire.
LEMMA EmptyIsASeq == \A S : <<>> \in Seq(S)
OBVIOUS

\* The four kinds of command are commands, told apart by kind and number.
LEMMA CmdKinds ==
  ASSUME NEW s \in CallId
  PROVE  /\ Invoke(s) \in Cmd /\ Invoke(s).kind = "invoke" /\ Invoke(s).seq = s
         /\ Open(s) \in Cmd /\ Open(s).kind = "open" /\ Open(s).seq = s
         /\ Recv(s) \in Cmd /\ Recv(s).kind = "recv" /\ Recv(s).seq = s
         /\ \A a \in 0 .. MaxMsgs :
              Tx(s, a) \in Cmd /\ Tx(s, a).kind = "send" /\ Tx(s, a).seq = s
BY Constants DEF Invoke, Open, Recv, Tx, Cmd

\* Handling a command's message takes one copy of it from the bag.
LEMMA LandCounts ==
  ASSUME cmds \in [Cmd -> Nat], NEW c \in Cmd, InFlight(c)
  PROVE  /\ Land(c) \in [Cmd -> Nat]
         /\ Land(c)[c] = cmds[c] - 1
         /\ \A d \in Cmd : d # c => Land(c)[d] = cmds[d]
BY DEF Land, InFlight

\* Issuing a command adds one copy of it.
LEMMA LaunchCounts ==
  ASSUME NEW bag \in [Cmd -> Nat], NEW c \in Cmd
  PROVE  /\ Launch(bag, c) \in [Cmd -> Nat]
         /\ Launch(bag, c)[c] = bag[c] + 1
         /\ \A d \in Cmd : d # c => Launch(bag, c)[d] = bag[d]
BY DEF Launch

\* nextSend issues sends and nothing else, on the stream it is given.
LEMMA NextSendStep ==
  ASSUME NEW s \in CallRef, NEW q \in Seq(Msg), NEW busy, NEW cls,
         NEW bag \in [Cmd -> Nat],
         NextSend(s, q, busy, cls, bag)
  PROVE  /\ queue' \in Seq(Msg) /\ sending' \in {busy, TRUE, FALSE} /\ closeAfter' \in {cls, FALSE}
         /\ cmds' \in [Cmd -> Nat]
         /\ \A c \in Cmd : c.kind # "send" => cmds'[c] = bag[c]
         /\ \A c \in Cmd : c.seq # s => cmds'[c] = bag[c]
<1>1. CASE /\ cmds' = bag /\ queue' = q
           /\ sending' \in {busy, TRUE, FALSE} /\ closeAfter' \in {cls, FALSE}
  BY <1>1
<1>2. CASE /\ s # NoCall /\ q # <<>>
           /\ queue' = Tail(q) /\ sending' = TRUE /\ closeAfter' = cls
           /\ cmds' = Launch(bag, Tx(s, Head(q)))
  <2>1. s \in CallId /\ Head(q) \in Msg /\ Tail(q) \in Seq(Msg)
    BY <1>2, Constants
  <2>2. Head(q) \in 0 .. MaxMsgs
    BY <2>1, Constants
  <2>3. Tx(s, Head(q)) \in Cmd /\ Tx(s, Head(q)).kind = "send" /\ Tx(s, Head(q)).seq = s
    BY <2>1, <2>2, CmdKinds
  <2>4. /\ cmds' \in [Cmd -> Nat]
        /\ \A c \in Cmd : c # Tx(s, Head(q)) => cmds'[c] = bag[c]
    BY <1>2, <2>3, LaunchCounts
  <2>5. QED BY <1>2, <2>1, <2>3, <2>4
<1>3. CASE /\ s # NoCall
           /\ queue' = q /\ sending' = TRUE /\ closeAfter' = FALSE
           /\ cmds' = Launch(bag, Tx(s, Close))
  <2>1. s \in CallId /\ Close \in 0 .. MaxMsgs
    BY <1>3, Constants DEF Close
  <2>2. Tx(s, Close) \in Cmd /\ Tx(s, Close).kind = "send" /\ Tx(s, Close).seq = s
    BY <2>1, CmdKinds
  <2>3. /\ cmds' \in [Cmd -> Nat]
        /\ \A c \in Cmd : c # Tx(s, Close) => cmds'[c] = bag[c]
    BY <1>3, <2>2, LaunchCounts
  <2>4. QED BY <1>3, <2>2, <2>3
<1>4. QED BY <1>1, <1>2, <1>3 DEF NextSend

\* A step that starts and ends no call: the number stands, nothing that could end
\* the latest call is issued or handled, and contexts are only ever cancelled.
LEMMA QuietStep ==
  ASSUME CallInv, TypeOK',
         callSeq' = callSeq, stream' = stream, call' = call,
         released \subseteq released',
         cancel' = cancel \/ (cancel' = NoCall /\ cancel \in released'),
         callSeq # NoCall => /\ cmds'[Invoke(callSeq)] = cmds[Invoke(callSeq)]
                             /\ cmds'[Open(callSeq)] = cmds[Open(callSeq)]
                             /\ cmds'[Recv(callSeq)] = cmds[Recv(callSeq)],
         \A c \in Cmd : cmds'[c] > 0 => Known(c),
         \/ UNCHANGED <<panel, form>>
         \/ panel'.state = "empty" /\ panel'.from = NoCall /\ (cancel = NoCall \/ form' = None)
  PROVE  CallInv'
<1>1. NumbersInUse' /\ OneOutcome' /\ StreamIsCurrent'
  BY DEF CallInv, NumbersInUse, OneOutcome, StreamIsCurrent, InFlight, Known
<1>2. callSeq' # NoCall /\ InFlight(Recv(callSeq))' => stream' = callSeq'
  BY DEF CallInv, InFlight
<1>3. \A s \in CallId : Live(s)' => Live(s) /\ cancel' = cancel
  BY DEF CallInv, OneCallLive, Live
<1>4. OneCallLive'
  BY <1>3 DEF CallInv, OneCallLive
<1>5. EscReachesLiveCall'
  <2>1. ASSUME NEW s \in CallId, Live(s)'
        PROVE  Active' \/ SweptAway'
    <3>1. Live(s) /\ s = cancel /\ (Active \/ SweptAway)
      BY <1>3, <2>1 DEF CallInv, OneCallLive, EscReachesLiveCall
    <3>2. cancel # NoCall
      BY <3>1, Constants
    <3>3. QED BY <3>1, <3>2 DEF Active, SweptAway
  <2>2. QED BY <2>1 DEF EscReachesLiveCall
<1>6. LatestAnswer' /\ SpinnerHasACall'
  BY DEF CallInv, LatestAnswer, SpinnerHasACall, InFlight
<1>7. QED
  BY <1>1, <1>2, <1>4, <1>5, <1>6 DEF CallInv

\* A step that settles the latest call: the one message that could end it has
\* been handled, its context is released and the panel is no longer waiting.
LEMMA SettlingStep ==
  ASSUME CallInv, TypeOK', callSeq # NoCall,
         callSeq' = callSeq, call' = call, cancel' = NoCall, stream' \in {NoCall, stream},
         released \subseteq released', callSeq \in released',
         cmds'[Invoke(callSeq)] = 0, cmds'[Open(callSeq)] = 0, cmds'[Recv(callSeq)] = 0,
         \A c \in Cmd : cmds'[c] > 0 => Known(c),
         panel'.state \notin {"inflight", "streaming"},
         panel'.from \in {NoCall, callSeq}
  PROVE  CallInv'
<1>1. NumbersInUse' /\ OneOutcome' /\ StreamIsCurrent'
  BY DEF CallInv, NumbersInUse, OneOutcome, StreamIsCurrent, InFlight, Known
<1>2. ~InFlight(Recv(callSeq))'
  BY DEF InFlight
<1>3. \A s \in CallId : ~Live(s)'
  BY Constants DEF CallInv, OneCallLive, StreamIsCurrent, Live
<1>4. OneCallLive' /\ EscReachesLiveCall'
  BY <1>3 DEF OneCallLive, EscReachesLiveCall
<1>5. LatestAnswer'
  BY DEF LatestAnswer
<1>6. SpinnerHasACall'
  BY DEF SpinnerHasACall
<1>7. QED
  BY <1>1, <1>2, <1>4, <1>5, <1>6 DEF CallInv

\* A stale message is dropped: its command leaves the bag and at most its own
\* context is released.
LEMMA DroppedStep ==
  ASSUME CallInv, TypeOK', NEW c \in Cmd, c.seq # callSeq, InFlight(c), cmds' = Land(c),
         callSeq' = callSeq, stream' = stream, call' = call, cancel' = cancel,
         released \subseteq released', UNCHANGED <<panel, form>>
  PROVE  CallInv'
<1>1. cmds \in [Cmd -> Nat] /\ callSeq \in CallRef
  BY DEF CallInv, TypeOK
<1>2. cmds'[c] = cmds[c] - 1 /\ \A d \in Cmd : d # c => cmds'[d] = cmds[d]
  BY <1>1, LandCounts
<1>3. \A d \in Cmd : cmds'[d] > 0 => Known(d)
  <2>1. \A d \in Cmd : cmds'[d] > 0 => cmds[d] > 0
    BY <1>1, <1>2
  <2>2. QED BY <2>1 DEF CallInv, NumbersInUse, InFlight
<1>4. callSeq # NoCall => /\ cmds'[Invoke(callSeq)] = cmds[Invoke(callSeq)]
                          /\ cmds'[Open(callSeq)] = cmds[Open(callSeq)]
                          /\ cmds'[Recv(callSeq)] = cmds[Recv(callSeq)]
  <2>1. callSeq # NoCall => /\ Invoke(callSeq) \in Cmd /\ Invoke(callSeq) # c
                            /\ Open(callSeq) \in Cmd /\ Open(callSeq) # c
                            /\ Recv(callSeq) \in Cmd /\ Recv(callSeq) # c
    BY <1>1, CmdKinds, Constants
  <2>2. QED BY <1>2, <2>1
<1>5. QED
  BY <1>3, <1>4, QuietStep

-----------------------------------------------------------------------------
(* One lemma per action: each preserves CallInv. *)

\* A call begun under a fresh number is the only one that is live, and owes one
\* message: what was held before it is released in the same step.
LEMMA StartCallStep ==
  ASSUME CallInv, NEW m \in Methods, NEW n \in Nat, n > callSeq,
         StartCall(m, n), form' \in Methods
  PROVE  CallInv'
<1>0. TypeOK /\ NumbersInUse /\ OneCallLive /\ StreamIsCurrent
  BY DEF CallInv
<1>t. callSeq \in CallRef /\ cmds \in [Cmd -> Nat] /\ call \in [CallId -> Methods \union {None}]
      /\ released \in SUBSET CallId /\ stream \in CallRef /\ cancel \in CallRef
  BY <1>0 DEF TypeOK
<1>1. n \in CallId /\ n # NoCall /\ n # callSeq /\ callSeq' = n /\ cancel' = n
  BY <1>t, Constants DEF StartCall
<1>2. Invoke(n) \in Cmd /\ Open(n) \in Cmd /\ Recv(n) \in Cmd
      /\ Invoke(n).seq = n /\ Open(n).seq = n /\ Recv(n).seq = n
      /\ Open(n) # Invoke(n) /\ Recv(n) # Invoke(n)
  BY <1>1, CmdKinds
<1>3. /\ cmds' \in [Cmd -> Nat]
      /\ cmds'[Invoke(n)] = cmds[Invoke(n)] + 1
      /\ \A d \in Cmd : d # Invoke(n) => cmds'[d] = cmds[d]
  <2>1. cmds' = Launch(cmds, Invoke(n))
    BY DEF StartCall
  <2>2. QED BY <1>t, <1>2, <2>1, LaunchCounts
<1>4. cmds[Invoke(n)] = 0 /\ cmds[Open(n)] = 0 /\ cmds[Recv(n)] = 0
  <2>1. \A d \in Cmd : d.seq = n => cmds[d] = 0
    BY <1>0, <1>t, <1>1, Constants DEF NumbersInUse, InFlight, Known
  <2>2. QED BY <1>2, <2>1
<1>5. TypeOK'
  <2>1. callSeq' \in CallRef /\ cancel' \in CallRef /\ stream' \in CallRef
    BY <1>1, Constants DEF StartCall, DropStream
  <2>2. queue' \in Seq(Msg) /\ sending' \in BOOLEAN /\ closeAfter' \in BOOLEAN
    BY EmptyIsASeq, Zenon DEF StartCall, DropStream
  <2>3. panel' \in [state : PanelStates, method : Methods \union {None}, from : CallRef,
                    previous : CallRef]
        /\ log' \in Seq(LogLines)
    BY Constants DEF StartCall, Panel, PanelStates
  <2>4. call' \in [CallId -> Methods \union {None}] /\ released' \in SUBSET CallId
    BY <1>t, Constants DEF StartCall, Held4Release
  <2>5. responses' \in [Methods -> CallRef]
    BY <1>0 DEF StartCall, TypeOK
  <2>6. over' \in {"no", "ok", "failed"} /\ inbox' \in Nat /\ replied' \in Nat
        /\ halfClosed' \in BOOLEAN /\ submitted' \in 0 .. MaxMsgs /\ wire' \in Seq(Msg)
    <3>1. over' = "no" /\ inbox' = 0 /\ replied' = 0 /\ halfClosed' = FALSE
          /\ submitted' = 0 /\ wire' = <<>>
      BY DEF StartCall, Unopened
    <3>2. 0 \in 0 .. MaxMsgs
      BY Constants
    <3>3. 0 \in Nat
      OBVIOUS
    <3>4. QED BY <3>1, <3>2, <3>3, EmptyIsASeq, Zenon
  <2>7. QED BY <1>3, <2>1, <2>2, <2>3, <2>4, <2>5, <2>6 DEF TypeOK
<1>6. NumbersInUse'
  <2>1. \A c \in Cmd : c.seq \in CallId
    BY DEF Cmd
  <2>2. \A c \in Cmd : cmds'[c] > 0 => Known(c)'
    <3>1. ASSUME NEW c \in Cmd, cmds'[c] > 0, c.seq # n
          PROVE  Known(c)'
      <4>1. Known(c) /\ call'[c.seq] = call[c.seq]
        BY <1>0, <1>t, <1>1, <1>2, <1>3, <2>1, <3>1 DEF NumbersInUse, InFlight, StartCall
      <4>2. QED BY <1>t, <1>1, <2>1, <4>1, Constants DEF Known
    <3>2. call'[n] # None /\ n <= callSeq'
      BY <1>t, <1>1, Constants DEF StartCall
    <3>3. QED BY <3>1, <3>2 DEF Known
  <2>3. \A s \in CallId : s > callSeq' => call'[s] = None
    BY <1>0, <1>t, <1>1, Constants DEF StartCall, NumbersInUse
  <2>4. stream' = NoCall
    BY DEF StartCall, DropStream
  <2>5. QED BY <2>2, <2>3, <2>4 DEF NumbersInUse, InFlight
<1>7. OneOutcome' /\ ~InFlight(Recv(callSeq))' /\ InFlight(Invoke(callSeq))'
  BY <1>1, <1>2, <1>3, <1>4 DEF OneOutcome, InFlight
<1>8. StreamIsCurrent' /\ LatestAnswer' /\ panel'.state = "inflight" /\ Active'
  BY <1>1 DEF StartCall, DropStream, StreamIsCurrent, LatestAnswer, Panel, Active
<1>9. OneCallLive'
  <2>1. \A s \in CallId : s # n /\ call'[s] # None => call[s] # None
    BY <1>t DEF StartCall
  <2>2. \A s \in CallId : s \in released \/ s = cancel => s \in released'
    BY <1>t, Constants DEF StartCall, Held4Release
  <2>3. QED BY <1>0, <1>1, <2>1, <2>2 DEF OneCallLive, Live
<1>10. EscReachesLiveCall'
  BY <1>8 DEF EscReachesLiveCall
<1>11. SpinnerHasACall'
  BY <1>1, <1>7, <1>8 DEF SpinnerHasACall
<1>12. QED
  BY <1>5, <1>6, <1>7, <1>8, <1>9, <1>10, <1>11 DEF CallInv, SpinnerHasACall

\* The same of a stream, which owes the result of its opening.
LEMMA StartStreamStep ==
  ASSUME CallInv, NEW m \in Methods, NEW n \in Nat, n > callSeq,
         StartStream(m, n), form' \in Methods
  PROVE  CallInv'
<1>0. TypeOK /\ NumbersInUse /\ OneCallLive /\ StreamIsCurrent
  BY DEF CallInv
<1>t. callSeq \in CallRef /\ cmds \in [Cmd -> Nat] /\ call \in [CallId -> Methods \union {None}]
      /\ released \in SUBSET CallId /\ stream \in CallRef /\ cancel \in CallRef
  BY <1>0 DEF TypeOK
<1>1. n \in CallId /\ n # NoCall /\ n # callSeq /\ callSeq' = n /\ cancel' = n
  BY <1>t, Constants DEF StartStream
<1>2. Invoke(n) \in Cmd /\ Open(n) \in Cmd /\ Recv(n) \in Cmd
      /\ Invoke(n).seq = n /\ Open(n).seq = n /\ Recv(n).seq = n
      /\ Invoke(n) # Open(n) /\ Recv(n) # Open(n)
  BY <1>1, CmdKinds
<1>3. /\ cmds' \in [Cmd -> Nat]
      /\ cmds'[Open(n)] = cmds[Open(n)] + 1
      /\ \A d \in Cmd : d # Open(n) => cmds'[d] = cmds[d]
  <2>1. cmds' = Launch(cmds, Open(n))
    BY DEF StartStream
  <2>2. QED BY <1>t, <1>2, <2>1, LaunchCounts
<1>4. cmds[Invoke(n)] = 0 /\ cmds[Open(n)] = 0 /\ cmds[Recv(n)] = 0
  <2>1. \A d \in Cmd : d.seq = n => cmds[d] = 0
    BY <1>0, <1>t, <1>1, Constants DEF NumbersInUse, InFlight, Known
  <2>2. QED BY <1>2, <2>1
<1>5. TypeOK'
  <2>1. callSeq' \in CallRef /\ cancel' \in CallRef /\ stream' \in CallRef
    BY <1>1, Constants DEF StartStream, DropStream
  <2>2. queue' \in Seq(Msg) /\ sending' \in BOOLEAN /\ closeAfter' \in BOOLEAN
    <3>1. 1 \in Msg
      BY Constants
    <3>2. queue' = <<1>> /\ sending' = FALSE /\ closeAfter' = (m \notin ClientStreaming)
      BY DEF StartStream
    <3>3. <<1>> \in Seq(Msg)
      BY <3>1
    <3>4. QED BY <3>2, <3>3, Zenon
  <2>3. panel' \in [state : PanelStates, method : Methods \union {None}, from : CallRef,
                    previous : CallRef]
        /\ log' \in Seq(LogLines)
    BY Constants DEF StartStream, Panel, PanelStates
  <2>4. call' \in [CallId -> Methods \union {None}] /\ released' \in SUBSET CallId
    BY <1>t, Constants DEF StartStream, Held4Release
  <2>5. responses' \in [Methods -> CallRef]
    BY <1>0 DEF StartStream, TypeOK
  <2>6. over' \in {"no", "ok", "failed"} /\ inbox' \in Nat /\ replied' \in Nat
        /\ halfClosed' \in BOOLEAN /\ submitted' \in 0 .. MaxMsgs /\ wire' \in Seq(Msg)
    <3>1. over' = "no" /\ inbox' = 0 /\ replied' = 0 /\ halfClosed' = FALSE
          /\ submitted' = 1 /\ wire' = <<>>
      BY DEF StartStream, Unopened
    <3>2. 1 \in 0 .. MaxMsgs
      BY Constants
    <3>3. 0 \in Nat
      OBVIOUS
    <3>4. QED BY <3>1, <3>2, <3>3, EmptyIsASeq, Zenon
  <2>7. QED BY <1>3, <2>1, <2>2, <2>3, <2>4, <2>5, <2>6 DEF TypeOK
<1>6. NumbersInUse'
  <2>1. \A c \in Cmd : c.seq \in CallId
    BY DEF Cmd
  <2>2. \A c \in Cmd : cmds'[c] > 0 => Known(c)'
    <3>1. ASSUME NEW c \in Cmd, cmds'[c] > 0, c.seq # n
          PROVE  Known(c)'
      <4>1. Known(c) /\ call'[c.seq] = call[c.seq]
        BY <1>0, <1>t, <1>1, <1>2, <1>3, <2>1, <3>1 DEF NumbersInUse, InFlight, StartStream
      <4>2. QED BY <1>t, <1>1, <2>1, <4>1, Constants DEF Known
    <3>2. call'[n] # None /\ n <= callSeq'
      BY <1>t, <1>1, Constants DEF StartStream
    <3>3. QED BY <3>1, <3>2 DEF Known
  <2>3. \A s \in CallId : s > callSeq' => call'[s] = None
    BY <1>0, <1>t, <1>1, Constants DEF StartStream, NumbersInUse
  <2>4. stream' = NoCall
    BY DEF StartStream, DropStream
  <2>5. QED BY <2>2, <2>3, <2>4 DEF NumbersInUse, InFlight
<1>7. OneOutcome' /\ ~InFlight(Recv(callSeq))' /\ InFlight(Open(callSeq))'
  BY <1>1, <1>2, <1>3, <1>4 DEF OneOutcome, InFlight
<1>8. StreamIsCurrent' /\ LatestAnswer' /\ panel'.state = "streaming" /\ Active'
  BY <1>1 DEF StartStream, DropStream, StreamIsCurrent, LatestAnswer, Panel, Active
<1>9. OneCallLive'
  <2>1. \A s \in CallId : s # n /\ call'[s] # None => call[s] # None
    BY <1>t DEF StartStream
  <2>2. \A s \in CallId : s \in released \/ s = cancel => s \in released'
    BY <1>t, Constants DEF StartStream, Held4Release
  <2>3. QED BY <1>0, <1>1, <2>1, <2>2 DEF OneCallLive, Live
<1>10. EscReachesLiveCall'
  BY <1>8 DEF EscReachesLiveCall
<1>11. SpinnerHasACall'
  BY <1>1, <1>7, <1>8 DEF SpinnerHasACall
<1>12. QED
  BY <1>5, <1>6, <1>7, <1>8, <1>9, <1>10, <1>11 DEF CallInv, SpinnerHasACall

\* One more message on an open stream only grows the queue or issues a send.
LEMMA QueueOnStreamStep ==
  ASSUME CallInv, QueueOnStream, stream # NoCall, form' \in Methods, log' \in Seq(LogLines),
         \/ UNCHANGED <<panel, form>>
         \/ \E m \in Methods : cancel = NoCall /\ panel' = ClearedFor(m)
  PROVE  CallInv'
<1>1. TypeOK
  BY DEF CallInv
<1>2. stream \in CallRef /\ callSeq \in CallRef /\ stream = callSeq /\ callSeq \in CallId
  BY <1>1, Constants DEF CallInv, StreamIsCurrent, TypeOK
<1>3. submitted' \in 0 .. MaxMsgs /\ submitted + 1 \in Msg
  BY <1>1, Constants DEF QueueOnStream, TypeOK
<1>4. Append(queue, submitted + 1) \in Seq(Msg) /\ sending \in BOOLEAN /\ closeAfter \in BOOLEAN
      /\ cmds \in [Cmd -> Nat]
  BY <1>1, <1>3 DEF TypeOK
<1>5. /\ queue' \in Seq(Msg) /\ sending' \in BOOLEAN /\ closeAfter' \in BOOLEAN
      /\ cmds' \in [Cmd -> Nat]
      /\ \A c \in Cmd : c.kind # "send" => cmds'[c] = cmds[c]
      /\ \A c \in Cmd : c.seq # stream => cmds'[c] = cmds[c]
  <2>1. NextSend(stream, Append(queue, submitted + 1), sending, closeAfter, cmds)
    BY DEF QueueOnStream
  <2>2. QED BY <1>2, <1>4, <2>1, NextSendStep
<1>6. panel' \in [state : PanelStates, method : Methods \union {None}, from : CallRef,
                  previous : CallRef]
  BY <1>1, Constants DEF TypeOK, ClearedFor, Panel, PanelStates
<1>7. UNCHANGED <<callSeq, cancel, stream, responses, call, released, server, halfClosed, wire>>
  BY DEF QueueOnStream
<1>8. TypeOK'
  BY <1>1, <1>3, <1>5, <1>6, <1>7 DEF TypeOK, server
<1>9. \A c \in Cmd : cmds'[c] > 0 => Known(c)
  <2>1. stream # NoCall /\ call[callSeq] # None
    BY <1>2 DEF CallInv, NumbersInUse
  <2>2. QED BY <1>2, <1>5, <2>1, Constants DEF CallInv, NumbersInUse, InFlight, Known
<1>10. \/ UNCHANGED <<panel, form>>
       \/ cancel = NoCall /\ panel'.state = "empty" /\ panel'.from = NoCall
  BY DEF ClearedFor, Panel
<1>11. /\ cmds'[Invoke(callSeq)] = cmds[Invoke(callSeq)]
       /\ cmds'[Open(callSeq)] = cmds[Open(callSeq)]
       /\ cmds'[Recv(callSeq)] = cmds[Recv(callSeq)]
  BY <1>2, <1>5, CmdKinds
<1>12. QED
  BY <1>2, <1>7, <1>8, <1>9, <1>10, <1>11, QuietStep

\* ctrl+e issues at most the close.
LEMMA EndSendingStep ==
  ASSUME CallInv, EndSending
  PROVE  CallInv'
<1>1. TypeOK /\ stream # NoCall
  BY DEF CallInv, EndSending
<1>2. stream \in CallRef /\ stream = callSeq /\ callSeq \in CallId
  BY <1>1, Constants DEF CallInv, StreamIsCurrent, TypeOK
<1>3. queue \in Seq(Msg) /\ sending \in BOOLEAN /\ TRUE \in BOOLEAN /\ cmds \in [Cmd -> Nat]
  BY <1>1 DEF TypeOK
<1>4. /\ queue' \in Seq(Msg) /\ sending' \in BOOLEAN /\ closeAfter' \in BOOLEAN
      /\ cmds' \in [Cmd -> Nat]
      /\ \A c \in Cmd : c.kind # "send" => cmds'[c] = cmds[c]
      /\ \A c \in Cmd : c.seq # stream => cmds'[c] = cmds[c]
  <2>1. NextSend(stream, queue, sending, TRUE, cmds)
    BY DEF EndSending
  <2>2. QED BY <1>2, <1>3, <2>1, NextSendStep
<1>5. UNCHANGED <<callSeq, cancel, stream, shown, call, released, server, sent>>
  BY DEF EndSending
<1>6. TypeOK'
  BY <1>1, <1>4, <1>5 DEF TypeOK, shown, server, sent
<1>7. \A c \in Cmd : cmds'[c] > 0 => Known(c)
  <2>1. call[callSeq] # None
    BY <1>1, <1>2 DEF CallInv, NumbersInUse
  <2>2. QED BY <1>2, <1>4, <2>1, Constants DEF CallInv, NumbersInUse, InFlight, Known
<1>8. /\ cmds'[Invoke(callSeq)] = cmds[Invoke(callSeq)]
      /\ cmds'[Open(callSeq)] = cmds[Open(callSeq)]
      /\ cmds'[Recv(callSeq)] = cmds[Recv(callSeq)]
  BY <1>2, <1>4, CmdKinds
<1>9. QED
  BY <1>5, <1>6, <1>7, <1>8, QuietStep DEF shown

\* esc cancels the call it was holding, and leaves its outcome to come.
LEMMA CancelStep ==
  ASSUME CallInv, Cancel
  PROVE  CallInv'
<1>1. TypeOK /\ cancel # NoCall
  BY DEF CallInv, Cancel
<1>2. cancel \in CallId /\ cancel' = NoCall /\ released' = released \union {cancel}
  BY <1>1, Constants DEF Cancel, TypeOK
<1>3. UNCHANGED <<callSeq, stream, queue, sending, closeAfter, shown, cmds, call, server, sent>>
  BY DEF Cancel
<1>4. TypeOK'
  BY <1>1, <1>2, <1>3, Constants DEF TypeOK, shown, server, sent
<1>5. \A c \in Cmd : cmds'[c] > 0 => Known(c)
  BY <1>3 DEF CallInv, NumbersInUse, InFlight
<1>6. QED
  BY <1>2, <1>3, <1>4, <1>5, QuietStep DEF shown

\* Another method is selected: with a call to cancel, the call is retired.
LEMMA SelectMethodStep ==
  ASSUME CallInv, NEW m \in Methods, SelectMethod(m)
  PROVE  CallInv'
<1>1. TypeOK /\ callSeq \in CallRef /\ cancel \in CallRef /\ stream \in CallRef
      /\ released \in SUBSET CallId
  BY DEF CallInv, TypeOK
<1>2. /\ form' \in Methods \union {None}
      /\ panel' \in [state : PanelStates, method : Methods \union {None}, from : CallRef,
                     previous : CallRef]
      /\ panel'.state = "empty" /\ panel'.from = NoCall
      /\ log' \in Seq(LogLines)
      /\ UNCHANGED <<responses, cmds, call>>
  BY Constants, EmptyIsASeq DEF SelectMethod, ClearedFor, Panel, PanelStates
<1>3. CASE cancel = NoCall
  <2>1. UNCHANGED <<ui, released, server, sent>>
    BY <1>3 DEF SelectMethod, RetireCall
  <2>2. TypeOK'
    BY <1>1, <1>2, <2>1 DEF TypeOK, ui, server, sent
  <2>3. \A c \in Cmd : cmds'[c] > 0 => Known(c)
    BY <1>2 DEF CallInv, NumbersInUse, InFlight
  <2>4. QED
    BY <1>2, <1>3, <2>1, <2>2, <2>3, QuietStep DEF ui
<1>4. CASE cancel # NoCall
  <2>1. /\ callSeq < MaxCalls /\ callSeq' = callSeq + 1 /\ cancel' = NoCall
        /\ released' = released \union Held4Release /\ DropStream /\ Unopened(0)
    BY <1>4 DEF SelectMethod, RetireCall
  <2>2. callSeq' \in CallId /\ callSeq' # callSeq /\ callSeq' > callSeq
    BY <1>1, <2>1, Constants
  <2>3. TypeOK'
    <3>1. queue' \in Seq(Msg) /\ sending' \in BOOLEAN /\ closeAfter' \in BOOLEAN
      BY <2>1, EmptyIsASeq, Zenon DEF DropStream
    <3>2. 0 \in Nat /\ 0 \in 0 .. MaxMsgs
      BY Constants
    <3>3. over' \in {"no", "ok", "failed"} /\ inbox' \in Nat /\ replied' \in Nat
          /\ halfClosed' \in BOOLEAN /\ submitted' \in 0 .. MaxMsgs /\ wire' \in Seq(Msg)
      BY <2>1, <3>2, EmptyIsASeq, Zenon DEF Unopened
    <3>4. callSeq' \in CallRef /\ cancel' \in CallRef /\ stream' \in CallRef
      BY <2>1, <2>2, Constants DEF DropStream
    <3>7. released' \in SUBSET CallId
      BY <1>1, <2>1, Constants DEF Held4Release
    <3>5. responses' \in [Methods -> CallRef] /\ cmds' \in [Cmd -> Nat]
          /\ call' \in [CallId -> Methods \union {None}]
      BY <1>1, <1>2 DEF TypeOK
    <3>6. QED BY <1>2, <3>1, <3>3, <3>4, <3>5, <3>7 DEF TypeOK
  <2>4. \A c \in Cmd : cmds'[c] > 0 => Known(c) /\ c.seq <= callSeq /\ c.seq \in CallId
    BY <1>2 DEF CallInv, NumbersInUse, InFlight, Cmd, Known
  <2>5. NumbersInUse'
    <3>1. \A c \in Cmd : cmds'[c] > 0 => Known(c)'
      BY <1>1, <1>2, <2>1, <2>4, Constants DEF Known
    <3>2. \A s \in CallId : s > callSeq' => call'[s] = None
      BY <1>1, <1>2, <2>1, Constants DEF CallInv, NumbersInUse
    <3>3. stream' = NoCall
      BY <2>1 DEF DropStream
    <3>4. QED BY <3>1, <3>2, <3>3 DEF NumbersInUse, InFlight
  <2>6. cmds'[Invoke(callSeq')] = 0 /\ cmds'[Open(callSeq')] = 0 /\ cmds'[Recv(callSeq')] = 0
    <3>1. \A c \in Cmd : c.seq = callSeq' => cmds'[c] = 0
      <4>1. cmds' \in [Cmd -> Nat]
        BY <2>3 DEF TypeOK
      <4>2. \A c \in Cmd : c.seq = callSeq' => ~(cmds'[c] > 0)
        BY <1>1, <2>2, <2>4, Constants
      <4>3. QED BY <4>1, <4>2
    <3>2. QED BY <2>2, <3>1, CmdKinds
  <2>7. OneOutcome' /\ ~InFlight(Recv(callSeq))'
    BY <2>6 DEF OneOutcome, InFlight
  <2>8. \A s \in CallId : ~Live(s)'
    BY <1>1, <1>2, <1>4, <2>1 DEF CallInv, OneCallLive, Live, Held4Release
  <2>9. OneCallLive' /\ EscReachesLiveCall'
    BY <2>8 DEF OneCallLive, EscReachesLiveCall
  <2>10. StreamIsCurrent' /\ LatestAnswer' /\ SpinnerHasACall'
    BY <1>2, <2>1 DEF StreamIsCurrent, LatestAnswer, SpinnerHasACall, DropStream
  <2>11. QED
    BY <2>3, <2>5, <2>7, <2>9, <2>10 DEF CallInv
<1>5. QED BY <1>3, <1>4

\* ctrl+s begins a call, begins a stream or feeds the one that is open.
LEMMA SendStep ==
  ASSUME CallInv, Send
  PROVE  CallInv'
<1>1. form \in Methods /\ form' \in Methods /\ callSeq + 1 \in Nat /\ callSeq + 1 > callSeq
      /\ log \in Seq(LogLines)
  BY Constants DEF CallInv, TypeOK, Send
<1>2. CASE StartCall(form, callSeq + 1)
  BY <1>1, <1>2, StartCallStep
<1>3. CASE StartStream(form, callSeq + 1)
  BY <1>1, <1>3, StartStreamStep
<1>4. CASE stream # NoCall /\ QueueOnStream /\ UNCHANGED <<panel, form, log>>
  BY <1>1, <1>4, QueueOnStreamStep
<1>5. QED BY <1>2, <1>3, <1>4 DEF Send

\* ctrl+s in the browser does the same after retiring what was in flight.
LEMMA LoadAndSendStep ==
  ASSUME CallInv, NEW m \in Methods, LoadAndSend(m)
  PROVE  CallInv'
<1> DEFINE n == callSeq + (IF cancel = NoCall THEN 1 ELSE 2)
<1>1. n \in Nat /\ n > callSeq /\ form' \in Methods
  BY Constants DEF CallInv, TypeOK, LoadAndSend
<1>2. CASE StartCall(m, n)
  BY <1>1, <1>2, StartCallStep
<1>3. CASE StartStream(m, n)
  BY <1>1, <1>3, StartStreamStep
<1>4. CASE cancel = NoCall /\ stream # NoCall /\ QueueOnStream
           /\ panel' = ClearedFor(m) /\ log' = <<>>
  BY <1>1, <1>4, EmptyIsASeq, QueueOnStreamStep
<1>5. QED BY <1>2, <1>3, <1>4 DEF LoadAndSend

\* finishCall settles the latest call, and drops the answer of any other.
LEMMA FinishCallStep ==
  ASSUME CallInv, NEW s \in CallId, NEW ok \in BOOLEAN, FinishCall(s, ok)
  PROVE  CallInv'
<1>1. TypeOK /\ cmds \in [Cmd -> Nat] /\ responses \in [Methods -> CallRef]
      /\ call \in [CallId -> Methods \union {None}] /\ released \in SUBSET CallId
      /\ panel \in [state : PanelStates, method : Methods \union {None}, from : CallRef,
                    previous : CallRef]
  BY DEF CallInv, TypeOK
<1>2. InFlight(Invoke(s)) /\ cmds' = Land(Invoke(s)) /\ released' = released \union {s}
      /\ UNCHANGED <<callSeq, stream, queue, sending, closeAfter, form, call, server, sent>>
  BY DEF FinishCall
<1>3. /\ cmds' \in [Cmd -> Nat] /\ cmds'[Invoke(s)] = cmds[Invoke(s)] - 1
      /\ \A d \in Cmd : d # Invoke(s) => cmds'[d] = cmds[d]
      /\ Invoke(s) \in Cmd /\ Invoke(s).seq = s
  BY <1>1, <1>2, CmdKinds, LandCounts
<1>4. released' \in SUBSET CallId /\ released \subseteq released' /\ s \in released'
  BY <1>1, <1>2
<1>5. CASE s # callSeq
  <2>1. UNCHANGED <<cancel, panel, responses, log>>
    BY <1>5 DEF FinishCall
  <2>2. TypeOK'
    BY <1>1, <1>2, <1>3, <1>4, <2>1 DEF TypeOK, server, sent
  <2>3. QED
    BY <1>2, <1>3, <1>4, <1>5, <2>1, <2>2, DroppedStep
<1>6. CASE s = callSeq
  <2>1. cancel' = NoCall /\ log' = <<>>
    BY <1>6 DEF FinishCall
  <2>2. panel' \in [state : PanelStates, method : Methods \union {None}, from : CallRef,
                    previous : CallRef]
        /\ panel'.state \notin {"inflight", "streaming"} /\ panel'.from = callSeq
        /\ responses' \in [Methods -> CallRef]
    <3>1. CASE ok
      <4>1. panel' = Panel("ok", panel.method, s, responses[call[s]]) /\ Remember(call[s], s)
        BY <1>6, <3>1 DEF FinishCall
      <4>2. call[s] \in Methods
        BY <1>1, <1>2, <1>3 DEF CallInv, NumbersInUse, Known
      <4>3. responses' \in [Methods -> CallRef]
        BY <1>1, <4>1, <4>2, Constants DEF Remember
      <4>4. responses[call[s]] \in CallRef /\ callSeq \in CallRef
        BY <1>1, <1>6, <4>2, Constants
      <4>5. QED BY <1>1, <1>6, <4>1, <4>3, <4>4, Constants DEF Panel, PanelStates
    <3>2. CASE ~ok
      BY <1>1, <1>6, <3>2, Constants DEF FinishCall, Panel, PanelStates
    <3>3. QED BY <3>1, <3>2
  <2>3. TypeOK'
    BY <1>1, <1>2, <1>3, <1>4, <2>1, <2>2, EmptyIsASeq, Constants DEF TypeOK, server, sent
  <2>4. cmds'[Invoke(callSeq)] = 0 /\ cmds'[Open(callSeq)] = 0 /\ cmds'[Recv(callSeq)] = 0
    <3>1. Open(s) \in Cmd /\ Recv(s) \in Cmd /\ Open(s) # Invoke(s) /\ Recv(s) # Invoke(s)
      BY CmdKinds
    <3>2. cmds[Invoke(s)] > 0 /\ cmds[Invoke(s)] + cmds[Open(s)] + cmds[Recv(s)] <= 1
      BY <1>2, <1>6, Constants DEF CallInv, OneOutcome, InFlight
    <3>3. cmds[Invoke(s)] \in Nat /\ cmds[Open(s)] \in Nat /\ cmds[Recv(s)] \in Nat
      BY <1>1, <1>3, <3>1
    <3>4. QED BY <1>3, <1>6, <3>1, <3>2, <3>3
  <2>5. \A c \in Cmd : cmds'[c] > 0 => Known(c)
    <3>1. \A d \in Cmd : cmds'[d] > 0 => cmds[d] > 0
      BY <1>1, <1>3
    <3>2. QED BY <3>1 DEF CallInv, NumbersInUse, InFlight
  <2>6. QED
    BY <1>2, <1>4, <1>6, <2>1, <2>2, <2>3, <2>4, <2>5, Constants, SettlingStep
<1>7. QED BY <1>5, <1>6

\* streamOpened installs the latest call's stream and asks it for a message in the
\* same step; any other it closes.
LEMMA StreamOpenedStep ==
  ASSUME CallInv, NEW s \in CallId, StreamOpened(s)
  PROVE  CallInv'
<1>1. TypeOK /\ cmds \in [Cmd -> Nat] /\ queue \in Seq(Msg) /\ released \in SUBSET CallId
      /\ sending \in BOOLEAN /\ closeAfter \in BOOLEAN
  BY DEF CallInv, TypeOK
<1>2. InFlight(Open(s)) /\ UNCHANGED <<callSeq, cancel, shown, call, server, sent>>
  BY DEF StreamOpened
<1>3. /\ Open(s) \in Cmd /\ Open(s).seq = s /\ Open(s).kind = "open"
      /\ Recv(s) \in Cmd /\ Recv(s).seq = s /\ Recv(s).kind = "recv"
      /\ Invoke(s) \in Cmd /\ Invoke(s).kind = "invoke"
  BY CmdKinds
<1>4. /\ Land(Open(s)) \in [Cmd -> Nat] /\ Land(Open(s))[Open(s)] = cmds[Open(s)] - 1
      /\ \A d \in Cmd : d # Open(s) => Land(Open(s))[d] = cmds[d]
  BY <1>1, <1>2, <1>3, LandCounts
<1>5. CASE s # callSeq
  <2>1. released' = released \union {s} /\ cmds' = Land(Open(s))
        /\ UNCHANGED <<stream, queue, sending, closeAfter>>
    BY <1>5 DEF StreamOpened
  <2>2. released' \in SUBSET CallId /\ released \subseteq released'
    BY <1>1, <2>1
  <2>3. TypeOK'
    BY <1>1, <1>2, <1>4, <2>1, <2>2 DEF TypeOK, shown, server, sent
  <2>4. QED
    BY <1>2, <1>3, <1>5, <2>1, <2>2, <2>3, DroppedStep DEF shown
<1>6. CASE s = callSeq
  <2> DEFINE bag == Launch(Land(Open(s)), Recv(s))
  <2>1. /\ stream' = s /\ released' = released
        /\ NextSend(s, queue, sending, closeAfter, bag)
    BY <1>6 DEF StreamOpened
  <2>2. /\ bag \in [Cmd -> Nat] /\ bag[Recv(s)] = Land(Open(s))[Recv(s)] + 1
        /\ \A d \in Cmd : d # Recv(s) => bag[d] = Land(Open(s))[d]
    BY <1>3, <1>4, LaunchCounts
  <2>3. s \in CallRef /\ s # NoCall
    BY Constants
  <2> HIDE DEF bag
  <2>4. /\ queue' \in Seq(Msg) /\ sending' \in {sending, TRUE, FALSE}
        /\ closeAfter' \in {closeAfter, FALSE} /\ cmds' \in [Cmd -> Nat]
        /\ \A c \in Cmd : c.kind # "send" => cmds'[c] = bag[c]
        /\ \A c \in Cmd : c.seq # s => cmds'[c] = bag[c]
    BY <1>1, <2>1, <2>2, <2>3, NextSendStep
  <2>5. sending' \in BOOLEAN /\ closeAfter' \in BOOLEAN
    BY <1>1, <2>4
  <2>6. TypeOK'
    BY <1>1, <1>2, <2>1, <2>3, <2>4, <2>5 DEF TypeOK, shown, server, sent
  <2>7. /\ cmds'[Open(s)] = cmds[Open(s)] - 1 /\ cmds'[Recv(s)] = cmds[Recv(s)] + 1
        /\ cmds'[Invoke(s)] = cmds[Invoke(s)]
    BY <1>3, <1>4, <2>2, <2>4
  <2>8. /\ cmds[Open(s)] \in Nat /\ cmds[Recv(s)] \in Nat /\ cmds[Invoke(s)] \in Nat
        /\ cmds[Open(s)] > 0 /\ cmds[Invoke(s)] + cmds[Open(s)] + cmds[Recv(s)] <= 1
    BY <1>1, <1>2, <1>3, <1>6, <2>3 DEF CallInv, OneOutcome, InFlight
  <2>9. OneOutcome' /\ InFlight(Recv(callSeq))' /\ cmds[Invoke(callSeq)] = 0
    BY <1>2, <1>6, <2>7, <2>8 DEF OneOutcome, InFlight
  <2>10. NumbersInUse'
    <3>1. call[s] # None /\ s <= callSeq
      BY <1>2, <1>3 DEF CallInv, NumbersInUse, Known
    <3>2. \A c \in Cmd : c.seq # s => cmds'[c] = cmds[c]
      BY <1>3, <1>4, <2>2, <2>4
    <3>3. \A c \in Cmd : cmds'[c] > 0 => Known(c)
      BY <3>1, <3>2 DEF CallInv, NumbersInUse, Known, InFlight
    <3>4. QED BY <1>2, <2>1, <3>1, <3>3 DEF CallInv, NumbersInUse, Known, InFlight
  <2>11. StreamIsCurrent' /\ stream' = callSeq'
    BY <1>2, <1>6, <2>1 DEF CallInv, StreamIsCurrent
  <2>12. OneCallLive' /\ EscReachesLiveCall' /\ LatestAnswer'
    BY <1>2, <2>1
    DEF CallInv, OneCallLive, EscReachesLiveCall, SweptAway, LatestAnswer, Live, Active, shown
  <2>13. SpinnerHasACall'
    BY <1>2, <1>6, <2>3, <2>9 DEF CallInv, SpinnerHasACall, InFlight, shown
  <2>14. QED
    BY <2>6, <2>9, <2>10, <2>11, <2>12, <2>13 DEF CallInv
<1>7. QED BY <1>5, <1>6

\* A stream that could not be opened settles the call it was opened for.
LEMMA StreamRefusedStep ==
  ASSUME CallInv, NEW s \in CallId, StreamRefused(s)
  PROVE  CallInv'
<1>1. TypeOK /\ cmds \in [Cmd -> Nat] /\ released \in SUBSET CallId /\ log \in Seq(LogLines)
      /\ panel \in [state : PanelStates, method : Methods \union {None}, from : CallRef,
                    previous : CallRef]
  BY DEF CallInv, TypeOK
<1>2. InFlight(Open(s)) /\ cmds' = Land(Open(s)) /\ released' = released \union {s}
      /\ UNCHANGED <<callSeq, stream, sending, form, responses, call, server, sent>>
  BY DEF StreamRefused
<1>3. /\ cmds' \in [Cmd -> Nat] /\ cmds'[Open(s)] = cmds[Open(s)] - 1
      /\ \A d \in Cmd : d # Open(s) => cmds'[d] = cmds[d]
      /\ Open(s) \in Cmd /\ Open(s).seq = s
  BY <1>1, <1>2, CmdKinds, LandCounts
<1>4. released' \in SUBSET CallId /\ released \subseteq released' /\ s \in released'
  BY <1>1, <1>2
<1>5. CASE s # callSeq
  <2>1. UNCHANGED <<cancel, queue, closeAfter, panel, log>>
    BY <1>5 DEF StreamRefused
  <2>2. TypeOK'
    BY <1>1, <1>2, <1>3, <1>4, <2>1 DEF TypeOK, server, sent
  <2>3. QED
    BY <1>2, <1>3, <1>4, <1>5, <2>1, <2>2, DroppedStep
<1>6. CASE s = callSeq
  <2>1. cancel' = NoCall /\ queue' = <<>> /\ closeAfter' = FALSE /\ FinishStream(s, FALSE)
    BY <1>6 DEF StreamRefused
  <2>2. Invoke(s) \in Cmd /\ Recv(s) \in Cmd /\ Invoke(s) # Open(s) /\ Recv(s) # Open(s)
    BY CmdKinds
  <2>3. cmds[Open(s)] = 1 /\ cmds[Invoke(s)] = 0 /\ cmds[Recv(s)] = 0
    <3>1. cmds[Open(s)] > 0 /\ cmds[Invoke(s)] + cmds[Open(s)] + cmds[Recv(s)] <= 1
      BY <1>2, <1>6, Constants DEF CallInv, OneOutcome, InFlight
    <3>2. cmds[Open(s)] \in Nat /\ cmds[Invoke(s)] \in Nat /\ cmds[Recv(s)] \in Nat
      BY <1>1, <1>3, <2>2
    <3>3. QED BY <3>1, <3>2
  <2>4. panel.state # "inflight"
    BY <1>6, <2>3 DEF CallInv, SpinnerHasACall, InFlight
  <2>5. /\ panel' \in [state : PanelStates, method : Methods \union {None}, from : CallRef,
                       previous : CallRef]
        /\ log' \in Seq(LogLines)
        /\ panel'.state \notin {"inflight", "streaming"} /\ panel'.from \in {NoCall, callSeq}
    <3>1. CASE panel.state = "streaming"
      <4>1. /\ panel' = [panel EXCEPT !.state = "failed", !.from = s]
            /\ log' = Append(log, "verdict")
        BY <2>1, <3>1 DEF FinishStream
      <4>2. "verdict" \in LogLines /\ "failed" \in PanelStates /\ s \in CallRef
        BY Constants DEF PanelStates, LogLines
      <4>3. log' \in Seq(LogLines)
        BY <1>1, <4>1, <4>2
      <4>4. panel'.state = "failed" /\ panel'.from = s
            /\ panel' \in [state : PanelStates, method : Methods \union {None}, from : CallRef,
                           previous : CallRef]
        BY <1>1, <4>1, <4>2
      <4>5. QED BY <1>6, <4>3, <4>4
    <3>2. CASE panel.state # "streaming"
      BY <1>1, <2>1, <2>4, <3>2 DEF CallInv, LatestAnswer, FinishStream
    <3>3. QED BY <3>1, <3>2
  <2>6. TypeOK'
    <3>1. cancel' \in CallRef /\ queue' \in Seq(Msg) /\ closeAfter' \in BOOLEAN
      BY <2>1, Constants, EmptyIsASeq, Zenon
    <3>2. QED BY <1>1, <1>2, <1>3, <1>4, <2>5, <3>1 DEF TypeOK, server, sent
  <2>7. cmds'[Invoke(callSeq)] = 0 /\ cmds'[Open(callSeq)] = 0 /\ cmds'[Recv(callSeq)] = 0
    BY <1>3, <1>6, <2>2, <2>3
  <2>8. \A c \in Cmd : cmds'[c] > 0 => Known(c)
    <3>1. \A d \in Cmd : cmds'[d] > 0 => cmds[d] > 0
      BY <1>1, <1>3
    <3>2. QED BY <3>1 DEF CallInv, NumbersInUse, InFlight
  <2>9. QED
    BY <1>2, <1>4, <1>6, <2>1, <2>5, <2>6, <2>7, <2>8, Constants, SettlingStep
<1>7. QED BY <1>5, <1>6

\* A late send of an earlier call, and a late receive of one, are dropped.
LEMMA StaleSentStep ==
  ASSUME CallInv, NEW s \in CallId, NEW a \in 0 .. MaxMsgs, StaleSent(s, a)
  PROVE  CallInv'
<1>1. TypeOK /\ cmds \in [Cmd -> Nat]
  BY DEF CallInv, TypeOK
<1>2. /\ Tx(s, a) \in Cmd /\ Tx(s, a).seq = s
      /\ InFlight(Tx(s, a)) /\ s # callSeq /\ cmds' = Land(Tx(s, a))
      /\ UNCHANGED <<ui, shown, call, released, server, sent>>
  BY CmdKinds DEF StaleSent
<1>3. cmds' \in [Cmd -> Nat]
  BY <1>1, <1>2, LandCounts
<1>4. TypeOK'
  BY <1>1, <1>2, <1>3 DEF TypeOK, ui, shown, server, sent
<1>5. QED
  BY <1>2, <1>4, DroppedStep DEF ui, shown

\* A response of a call that is over changes nothing the invariant reads.
LEMMA StaleReceivedStep ==
  ASSUME CallInv, NEW s \in CallId, StaleReceived(s)
  PROVE  CallInv'
<1>1. TypeOK /\ cmds \in [Cmd -> Nat]
  BY DEF CallInv, TypeOK
<1>2. /\ Recv(s) \in Cmd /\ Recv(s).seq = s
      /\ InFlight(Recv(s)) /\ s # callSeq /\ cmds' = Land(Recv(s))
      /\ UNCHANGED <<ui, shown, call, released, server, sent>>
  BY CmdKinds DEF StaleReceived
<1>3. cmds' \in [Cmd -> Nat]
  BY <1>1, <1>2, LandCounts
<1>4. TypeOK'
  BY <1>1, <1>2, <1>3 DEF TypeOK, ui, shown, server, sent
<1>5. QED
  BY <1>2, <1>4, DroppedStep DEF ui, shown

\* streamSent issues the next send at most: it ends nothing.
LEMMA StreamSentStep ==
  ASSUME CallInv, NEW a \in 0 .. MaxMsgs, NEW outcome, StreamSent(a, outcome)
  PROVE  CallInv'
<1> DEFINE landed == Land(Tx(callSeq, a))
<1>1. TypeOK /\ cmds \in [Cmd -> Nat] /\ queue \in Seq(Msg) /\ log \in Seq(LogLines)
      /\ wire \in Seq(Msg) /\ halfClosed \in BOOLEAN /\ stream \in CallRef
      /\ closeAfter \in BOOLEAN
  BY DEF CallInv, TypeOK
<1>2. callSeq \in CallId /\ InFlight(Tx(callSeq, a)) /\ Carried(a, outcome)
      /\ UNCHANGED <<callSeq, cancel, stream, form, panel, responses, call, released, server,
                     submitted>>
  BY DEF StreamSent
<1>3. Tx(callSeq, a) \in Cmd /\ Tx(callSeq, a).seq = callSeq /\ Tx(callSeq, a).kind = "send"
  BY <1>2, CmdKinds
<1>4. landed \in [Cmd -> Nat] /\ landed[Tx(callSeq, a)] = cmds[Tx(callSeq, a)] - 1
      /\ \A d \in Cmd : d # Tx(callSeq, a) => landed[d] = cmds[d]
  BY <1>1, <1>2, <1>3, LandCounts
<1>5. landed = Land(Tx(callSeq, a))
  OBVIOUS
<1> HIDE DEF landed
<1>6. /\ queue' \in Seq(Msg) /\ sending' \in {TRUE, FALSE} /\ closeAfter' \in {closeAfter, FALSE}
      /\ cmds' \in [Cmd -> Nat]
      /\ \A c \in Cmd : c.kind # "send" => cmds'[c] = landed[c]
      /\ \A c \in Cmd : c.seq # stream => cmds'[c] = landed[c]
      /\ log' \in Seq(LogLines)
  <2>1. CASE /\ queue' = <<>> /\ sending' = FALSE /\ closeAfter' = FALSE
             /\ cmds' = landed /\ UNCHANGED log
    BY <1>1, <1>4, <2>1, EmptyIsASeq
  <2>2. CASE /\ log' = Append(log, "failed")
             /\ NextSend(stream, <<>>, FALSE, FALSE, landed)
    <3>1. /\ queue' \in Seq(Msg)
          /\ sending' \in {FALSE, TRUE, FALSE} /\ closeAfter' \in {FALSE, FALSE}
          /\ cmds' \in [Cmd -> Nat]
          /\ \A c \in Cmd : c.kind # "send" => cmds'[c] = landed[c]
          /\ \A c \in Cmd : c.seq # stream => cmds'[c] = landed[c]
      BY <1>1, <1>4, <2>2, EmptyIsASeq, NextSendStep
    <3>2. log' \in Seq(LogLines)
      BY <1>1, <2>2 DEF LogLines
    <3>3. QED BY <3>1, <3>2, Zenon
  <2>3. CASE /\ log' = Append(log, IF a = Close THEN "closed" ELSE "sent")
             /\ NextSend(stream, queue, FALSE, closeAfter, landed)
    <3>1. /\ queue' \in Seq(Msg)
          /\ sending' \in {FALSE, TRUE, FALSE} /\ closeAfter' \in {closeAfter, FALSE}
          /\ cmds' \in [Cmd -> Nat]
          /\ \A c \in Cmd : c.kind # "send" => cmds'[c] = landed[c]
          /\ \A c \in Cmd : c.seq # stream => cmds'[c] = landed[c]
      BY <1>1, <1>4, <2>3, NextSendStep
    <3>2. log' \in Seq(LogLines)
      BY <1>1, <2>3 DEF LogLines
    <3>3. QED BY <3>1, <3>2, Zenon
  <2>4. QED BY <1>5, <2>1, <2>2, <2>3 DEF StreamSent
<1>7. TypeOK'
  <2>1. sending' \in BOOLEAN /\ closeAfter' \in BOOLEAN
    BY <1>1, <1>6, Zenon
  <2>2. wire' \in Seq(Msg)
    <3>1. wire' = IF outcome = "ok" /\ a # Close THEN Append(wire, a) ELSE wire
      BY <1>2, Zenon DEF Carried
    <3>2. a # Close => a \in Msg
      BY Constants DEF Close
    <3>3. wire \in Seq(Msg)
      BY <1>1
    <3>4. QED BY <3>1, <3>2, <3>3
  <2>3. halfClosed' \in BOOLEAN
    BY <1>2, Zenon DEF Carried
  <2>4. QED BY <1>1, <1>2, <1>6, <2>1, <2>2, <2>3 DEF TypeOK, server
<1>8. \A c \in Cmd : cmds'[c] > 0 => Known(c)
  <2>1. Known(Tx(callSeq, a))
    BY <1>2, <1>3 DEF CallInv, NumbersInUse
  <2>2. \A c \in Cmd : c.seq # callSeq => cmds'[c] = cmds[c]
    <3>1. \A c \in Cmd : c.seq \in CallId
      BY DEF Cmd
    <3>2. stream \in {NoCall, callSeq}
      BY DEF CallInv, StreamIsCurrent
    <3>3. QED BY <1>3, <1>4, <1>6, <3>1, <3>2, Constants
  <2>3. \A c \in Cmd : c.seq = callSeq => Known(c)
    BY <1>3, <2>1 DEF Known
  <2>4. QED BY <2>2, <2>3 DEF CallInv, NumbersInUse, InFlight
<1>9. /\ cmds'[Invoke(callSeq)] = cmds[Invoke(callSeq)]
      /\ cmds'[Open(callSeq)] = cmds[Open(callSeq)]
      /\ cmds'[Recv(callSeq)] = cmds[Recv(callSeq)]
  <2>1. \A c \in Cmd : c.kind # "send" => cmds'[c] = cmds[c]
    BY <1>3, <1>4, <1>6
  <2>2. QED BY <1>2, <2>1, CmdKinds
<1>10. QED
  BY <1>2, <1>7, <1>8, <1>9, QuietStep

\* streamReceived asks for the next message on the stream it came from.
LEMMA StreamReceivedStep ==
  ASSUME CallInv, StreamReceived
  PROVE  CallInv'
<1>1. TypeOK /\ cmds \in [Cmd -> Nat] /\ log \in Seq(LogLines) /\ inbox \in Nat
  BY DEF CallInv, TypeOK
<1>2. callSeq \in CallId /\ InFlight(Recv(callSeq)) /\ stream = callSeq
      /\ inbox > 0 /\ inbox' = inbox - 1 /\ log' = Append(log, "received")
      /\ cmds' = Launch(Land(Recv(callSeq)), Recv(callSeq))
      /\ UNCHANGED <<ui, form, panel, responses, call, released, over, replied, sent>>
  BY Constants DEF CallInv, StreamReceived
<1>3. Recv(callSeq) \in Cmd
  BY <1>2, CmdKinds
<1>4. /\ Land(Recv(callSeq)) \in [Cmd -> Nat]
      /\ Land(Recv(callSeq))[Recv(callSeq)] = cmds[Recv(callSeq)] - 1
      /\ \A d \in Cmd : d # Recv(callSeq) => Land(Recv(callSeq))[d] = cmds[d]
  BY <1>1, <1>2, <1>3, LandCounts
<1>5. cmds' \in [Cmd -> Nat] /\ \A d \in Cmd : cmds'[d] = cmds[d]
  <2> DEFINE bag == Land(Recv(callSeq))
  <2>1. bag \in [Cmd -> Nat] /\ cmds' = Launch(bag, Recv(callSeq))
    BY <1>2, <1>4
  <2> HIDE DEF bag
  <2>2. cmds' \in [Cmd -> Nat] /\ cmds'[Recv(callSeq)] = bag[Recv(callSeq)] + 1
        /\ \A d \in Cmd : d # Recv(callSeq) => cmds'[d] = bag[d]
    BY <1>3, <2>1, LaunchCounts
  <2>3. QED BY <1>1, <1>3, <1>4, <2>2 DEF bag
<1>6. inbox' \in Nat /\ log' \in Seq(LogLines)
  BY <1>1, <1>2 DEF LogLines
<1>7. TypeOK'
  BY <1>1, <1>2, <1>5, <1>6 DEF TypeOK, ui, sent
<1>8. \A c \in Cmd : cmds'[c] > 0 => Known(c)
  BY <1>5 DEF CallInv, NumbersInUse, InFlight
<1>9. QED
  BY <1>2, <1>5, <1>7, <1>8, CmdKinds, QuietStep DEF ui

\* finishStream settles the latest call and closes its stream.
LEMMA StreamEndedStep ==
  ASSUME CallInv, NEW ok \in BOOLEAN, StreamEnded(ok)
  PROVE  CallInv'
<1>1. TypeOK /\ cmds \in [Cmd -> Nat] /\ released \in SUBSET CallId /\ log \in Seq(LogLines)
      /\ panel \in [state : PanelStates, method : Methods \union {None}, from : CallRef,
                    previous : CallRef]
  BY DEF CallInv, TypeOK
<1>2. callSeq \in CallId /\ InFlight(Recv(callSeq)) /\ cmds' = Land(Recv(callSeq))
      /\ stream = callSeq /\ cancel' = NoCall /\ DropStream /\ FinishStream(callSeq, ok)
      /\ released' = released \union {callSeq}
      /\ UNCHANGED <<callSeq, form, responses, call, server, sent>>
  BY Constants DEF CallInv, StreamEnded
<1>3. /\ Recv(callSeq) \in Cmd /\ Open(callSeq) \in Cmd /\ Invoke(callSeq) \in Cmd
      /\ Open(callSeq) # Recv(callSeq) /\ Invoke(callSeq) # Recv(callSeq)
  BY <1>2, CmdKinds
<1>4. /\ cmds' \in [Cmd -> Nat] /\ cmds'[Recv(callSeq)] = cmds[Recv(callSeq)] - 1
      /\ \A d \in Cmd : d # Recv(callSeq) => cmds'[d] = cmds[d]
  BY <1>1, <1>2, <1>3, LandCounts
<1>5. released' \in SUBSET CallId /\ released \subseteq released' /\ callSeq \in released'
      /\ callSeq # NoCall
  BY <1>1, <1>2, Constants
<1>6. cmds[Recv(callSeq)] = 1 /\ cmds[Invoke(callSeq)] = 0 /\ cmds[Open(callSeq)] = 0
  <2>1. cmds[Recv(callSeq)] > 0
        /\ cmds[Invoke(callSeq)] + cmds[Open(callSeq)] + cmds[Recv(callSeq)] <= 1
    BY <1>2, <1>5 DEF CallInv, OneOutcome, InFlight
  <2>2. cmds[Recv(callSeq)] \in Nat /\ cmds[Invoke(callSeq)] \in Nat /\ cmds[Open(callSeq)] \in Nat
    BY <1>1, <1>3
  <2>3. QED BY <2>1, <2>2
<1>7. panel.state # "inflight"
  BY <1>6 DEF CallInv, SpinnerHasACall, InFlight
<1>8. /\ panel' \in [state : PanelStates, method : Methods \union {None}, from : CallRef,
                     previous : CallRef]
      /\ log' \in Seq(LogLines)
      /\ panel'.state \notin {"inflight", "streaming"} /\ panel'.from \in {NoCall, callSeq}
  <2>1. CASE panel.state = "streaming"
    <3>1. /\ panel' = [panel EXCEPT !.state = IF ok THEN "ok" ELSE "failed", !.from = callSeq]
          /\ log' = Append(log, "verdict")
      BY <1>2, <2>1 DEF FinishStream
    <3>2. "verdict" \in LogLines /\ "failed" \in PanelStates /\ "ok" \in PanelStates
          /\ callSeq \in CallRef
      BY <1>2, Constants DEF PanelStates, LogLines
    <3>3. log' \in Seq(LogLines)
      BY <1>1, <3>1, <3>2
    <3>4. panel'.state \in {"ok", "failed"} /\ panel'.from = callSeq
          /\ panel' \in [state : PanelStates, method : Methods \union {None}, from : CallRef,
                         previous : CallRef]
      BY <1>1, <3>1, <3>2
    <3>5. QED BY <3>3, <3>4
  <2>2. CASE panel.state # "streaming"
    BY <1>1, <1>2, <1>7, <2>2 DEF CallInv, LatestAnswer, FinishStream
  <2>3. QED BY <2>1, <2>2
<1>9. TypeOK'
  <2>1. queue' \in Seq(Msg) /\ sending' \in BOOLEAN /\ closeAfter' \in BOOLEAN
    BY <1>2, EmptyIsASeq, Zenon DEF DropStream
  <2>2. cancel' \in CallRef /\ stream' \in CallRef
    BY <1>2, Constants DEF DropStream
  <2>3. QED BY <1>1, <1>2, <1>4, <1>5, <1>8, <2>1, <2>2 DEF TypeOK, server, sent
<1>10. cmds'[Invoke(callSeq)] = 0 /\ cmds'[Open(callSeq)] = 0 /\ cmds'[Recv(callSeq)] = 0
  BY <1>3, <1>4, <1>6
<1>11. \A c \in Cmd : cmds'[c] > 0 => Known(c)
  <2>1. \A d \in Cmd : cmds'[d] > 0 => cmds[d] > 0
    BY <1>1, <1>3, <1>4
  <2>2. QED BY <2>1 DEF CallInv, NumbersInUse, InFlight
<1>12. stream' \in {NoCall, stream}
  BY <1>2 DEF DropStream
<1>13. QED
  BY <1>2, <1>5, <1>8, <1>9, <1>10, <1>11, <1>12, SettlingStep

\* The server touches nothing the model keeps.
LEMMA ServerStep ==
  ASSUME CallInv, Server
  PROVE  CallInv'
<1>1. TypeOK
  BY DEF CallInv
<1>2. UNCHANGED <<ui, shown, cmds, call, released, sent>>
  BY DEF Server, ServerReplies, ServerEnds
<1>3. over' \in {"no", "ok", "failed"} /\ inbox' \in Nat /\ replied' \in Nat
  BY <1>1 DEF TypeOK, Server, ServerReplies, ServerEnds
<1>4. TypeOK'
  BY <1>1, <1>2, <1>3 DEF TypeOK, ui, shown, sent
<1>5. \A c \in Cmd : cmds'[c] > 0 => Known(c)
  BY <1>2 DEF CallInv, NumbersInUse, InFlight
<1>6. QED
  BY <1>2, <1>4, <1>5, QuietStep DEF ui, shown

\* A finished sweep empties the form with the panel: the call goes on, out of sight.
LEMMA SweepStep ==
  ASSUME CallInv, ServicesDiscovered
  PROVE  CallInv'
<1>1. /\ form' = None /\ panel' = ClearedFor(panel.method) /\ log' = <<>>
      /\ UNCHANGED <<ui, responses, cmds, call, released, server, sent>>
  BY DEF ServicesDiscovered
<1>2. panel' \in [state : PanelStates, method : Methods \union {None}, from : CallRef,
                  previous : CallRef]
  BY <1>1, Constants DEF CallInv, TypeOK, ClearedFor, Panel, PanelStates
<1>3. TypeOK'
  BY <1>1, <1>2, EmptyIsASeq DEF CallInv, TypeOK, ui, server, sent
<1>4. panel'.state = "empty" /\ panel'.from = NoCall
  BY <1>1 DEF ClearedFor, Panel
<1>5. QED
  BY <1>1, <1>3, <1>4, QuietStep DEF CallInv, NumbersInUse, InFlight, ui

-----------------------------------------------------------------------------
(* The theorems. *)

\* A session starts with the invariant.
LEMMA InitInv == Init => CallInv
<1> SUFFICES ASSUME Init PROVE CallInv
  OBVIOUS
<1>1. TypeOK
  <2>1. halfClosed \in BOOLEAN /\ sending \in BOOLEAN /\ closeAfter \in BOOLEAN
    BY Zenon DEF Init
  <2>2. panel \in [state : PanelStates, method : Methods \union {None}, from : CallRef,
                   previous : CallRef]
    BY Constants DEF Init, ClearedFor, Panel, PanelStates
  <2>3. cmds \in [Cmd -> Nat] /\ call \in [CallId -> Methods \union {None}]
        /\ responses \in [Methods -> CallRef] /\ released \in SUBSET CallId
    BY Constants DEF Init
  <2>4. queue \in Seq(Msg) /\ log \in Seq(LogLines) /\ wire \in Seq(Msg)
    BY EmptyIsASeq, Zenon DEF Init
  <2>5. callSeq \in CallRef /\ cancel \in CallRef /\ stream \in CallRef
        /\ over \in {"no", "ok", "failed"} /\ inbox \in Nat /\ replied \in Nat
        /\ submitted \in 0 .. MaxMsgs /\ form \in Methods \union {None}
    BY Constants DEF Init
  <2>6. QED BY <2>1, <2>2, <2>3, <2>4, <2>5 DEF TypeOK
<1>2. \A c \in Cmd : ~InFlight(c)
  BY DEF Init, InFlight
<1>3. \A s \in CallId : call[s] = None
  BY DEF Init
<1>4. callSeq = NoCall /\ stream = NoCall /\ cancel = NoCall
  BY Constants DEF Init
<1>5. panel.state = "empty" /\ panel.from = NoCall
  BY DEF Init, ClearedFor, Panel
<1>6. QED
  BY <1>1, <1>2, <1>3, <1>4, <1>5
  DEF CallInv, NumbersInUse, OneOutcome, StreamIsCurrent, OneCallLive, EscReachesLiveCall,
      LatestAnswer, SpinnerHasACall, Live

\* CallInv is inductive: one case per action of Next.
LEMMA StepInv == CallInv /\ [Next]_vars => CallInv'
<1> SUFFICES ASSUME CallInv, [Next]_vars PROVE CallInv'
  OBVIOUS
<1>1. ASSUME NEW m \in Methods, SelectMethod(m) PROVE CallInv'
  BY <1>1, SelectMethodStep
<1>2. ASSUME NEW m \in Methods, LoadAndSend(m) PROVE CallInv'
  BY <1>2, LoadAndSendStep
<1>3. CASE Send
  BY <1>3, SendStep
<1>4. CASE EndSending
  BY <1>4, EndSendingStep
<1>5. CASE Cancel
  BY <1>5, CancelStep
<1>6. ASSUME NEW s \in CallId, NEW ok \in BOOLEAN, FinishCall(s, ok) PROVE CallInv'
  BY <1>6, FinishCallStep
<1>7. ASSUME NEW s \in CallId, StreamOpened(s) PROVE CallInv'
  BY <1>7, StreamOpenedStep
<1>8. ASSUME NEW s \in CallId, StreamRefused(s) PROVE CallInv'
  BY <1>8, StreamRefusedStep
<1>9. ASSUME NEW s \in CallId, StaleReceived(s) PROVE CallInv'
  BY <1>9, StaleReceivedStep
<1>10. ASSUME NEW s \in CallId, NEW a \in 0 .. MaxMsgs, StaleSent(s, a) PROVE CallInv'
  BY <1>10, StaleSentStep
<1>11. ASSUME NEW a \in 0 .. MaxMsgs, NEW outcome, StreamSent(a, outcome) PROVE CallInv'
  BY <1>11, StreamSentStep
<1>12. CASE StreamReceived
  BY <1>12, StreamReceivedStep
<1>13. ASSUME NEW ok \in BOOLEAN, StreamEnded(ok) PROVE CallInv'
  BY <1>13, StreamEndedStep
<1>14. CASE Server
  BY <1>14, ServerStep
<1>15. CASE ServicesDiscovered
  BY <1>15, SweepStep
<1>16. CASE UNCHANGED vars
  BY <1>16
  DEF CallInv, TypeOK, NumbersInUse, Known, OneOutcome, StreamIsCurrent, OneCallLive,
      EscReachesLiveCall, SweptAway, LatestAnswer, SpinnerHasACall, Live, Active, InFlight, vars,
      ui, shown, server, sent
<1>17. QED
  BY <1>1, <1>2, <1>3, <1>4, <1>5, <1>6, <1>7, <1>8, <1>9, <1>10, <1>11, <1>12, <1>13,
     <1>14, <1>15, <1>16
  DEF Next, User, Report

\* The inductive invariant holds of every behaviour.
THEOREM InvHolds == Spec => []CallInv
<1>1. QED BY InitInv, StepInv, PTL DEF Spec

\* Every variable keeps to its type, whatever the methods and the bounds.
THEOREM TypeCorrect == Spec => []TypeOK
<1>1. CallInv => TypeOK
  BY DEF CallInv
<1>2. QED BY <1>1, InvHolds, PTL

\* Only one call, of either shape, is ever in flight; esc ends it, and is offered for it
\* until a sweep empties the form and the panel under it.
THEOREM OneCallAtATime == Spec => []CallWithinReach
<1>1. CallInv => CallWithinReach
  BY DEF CallInv, CallWithinReach
<1>2. QED BY <1>1, InvHolds, PTL

\* A stale answer is never drawn: the panel shows the latest call's outcome or none.
THEOREM StaleAnswersDropped == Spec => []LatestAnswer
<1>1. CallInv => LatestAnswer
  BY DEF CallInv
<1>2. QED BY <1>1, InvHolds, PTL

\* A panel that waits, in flight or streaming, has the message that ends the wait to come.
THEOREM NoSpinnerWithoutACall == Spec => []SpinnerHasACall
<1>1. CallInv => SpinnerHasACall
  BY DEF CallInv
<1>2. QED BY <1>1, InvHolds, PTL

-----------------------------------------------------------------------------
(* The contract, and the diff view. *)

\* What CallInv leaves out of the contract: no context is released before its
\* call is made, and cancelCall is never left behind by a call that is over.
ContractInv ==
  /\ \A s \in released : s <= callSeq
  /\ cancel # NoCall => Live(cancel)

ContractStep == [Contract!Next]_(Contract!vars)

\* The shapes the steps below rely on.
LEMMA Shapes ==
  ASSUME CallInv
  PROVE  /\ callSeq \in CallRef /\ cancel \in {NoCall, callSeq} /\ stream \in {NoCall, callSeq}
         /\ cmds \in [Cmd -> Nat] /\ call \in [CallId -> Methods \union {None}]
         /\ released \in SUBSET CallId
         /\ \A s \in CallId : Live(s) => s = cancel
         /\ panel.from \in {NoCall, callSeq}
BY DEF CallInv, TypeOK, StreamIsCurrent, OneCallLive, LatestAnswer

-----------------------------------------------------------------------------
(* The three ways a step can treat the call in flight. *)

\* Nothing begins and nothing ends: the contract stutters, or clears the panel.
LEMMA Untouched ==
  ASSUME CallInv, ContractInv, callSeq' = callSeq, call' = call, cancel' = cancel,
         released \subseteq released',
         \A s \in released' \ released : s \in CallId /\ s # callSeq /\ call[s] # None,
         Owed' <=> Owed,
         panel'.from \in {NoCall, panel.from}
  PROVE  ContractInv' /\ ContractStep
<1>1. \A s \in released' \ released : s <= callSeq
  BY Shapes, Constants DEF CallInv, NumbersInUse
<1>2. \A t \in CallId : Live(t)' <=> Live(t)
  BY Shapes, Constants DEF Live
<1>3. ContractInv'
  <2>2. \A t \in released' : t <= callSeq'
    BY <1>1 DEF ContractInv
  <2>3. cancel' # NoCall => Live(cancel)'
    BY <1>2, Shapes DEF ContractInv, Live
  <2>4. QED BY <2>2, <2>3 DEF ContractInv
<1>4. {t \in CallId : Live(t)'} = {t \in CallId : Live(t)}
  BY <1>2
<1>5. ContractStep
  BY <1>4 DEF ContractStep, Contract!Next, Contract!Clear, Contract!vars, NoCall
<1>6. QED BY <1>3, <1>5

\* The latest call is handed its outcome: the contract settles it.
LEMMA Settles ==
  ASSUME CallInv, CallInv', ContractInv, callSeq \in CallId,
         NEW c \in {Invoke(callSeq), Open(callSeq), Recv(callSeq)}, InFlight(c),
         cmds' = Land(c), callSeq' = callSeq, call' = call, cancel' = NoCall,
         released' = released \union {callSeq},
         panel'.from \in {callSeq, panel.from}
  PROVE  ContractInv' /\ ContractStep
<1>1. /\ Invoke(callSeq) \in Cmd /\ Open(callSeq) \in Cmd /\ Recv(callSeq) \in Cmd
      /\ Invoke(callSeq) # Open(callSeq) /\ Invoke(callSeq) # Recv(callSeq)
      /\ Open(callSeq) # Recv(callSeq)
  BY CmdKinds
<1>2. cmds'[c] = cmds[c] - 1 /\ \A d \in Cmd : d # c => cmds'[d] = cmds[d]
  BY <1>1, Shapes, LandCounts
<1>3. Owed
  BY Constants DEF Owed
<1>4. ~Owed'
  <2>1. cmds[Invoke(callSeq)] + cmds[Open(callSeq)] + cmds[Recv(callSeq)] <= 1 /\ cmds[c] > 0
    BY Constants DEF CallInv, OneOutcome, InFlight
  <2>2. cmds[Invoke(callSeq)] \in Nat /\ cmds[Open(callSeq)] \in Nat /\ cmds[Recv(callSeq)] \in Nat
    BY <1>1, Shapes
  <2>3. \A d \in {Invoke(callSeq), Open(callSeq), Recv(callSeq)} : cmds'[d] = 0
    <3>1. CASE c = Invoke(callSeq)
      BY <1>1, <1>2, <2>1, <2>2, <3>1
    <3>2. CASE c = Open(callSeq)
      BY <1>1, <1>2, <2>1, <2>2, <3>2
    <3>3. CASE c = Recv(callSeq)
      BY <1>1, <1>2, <2>1, <2>2, <3>3
    <3>4. QED BY <3>1, <3>2, <3>3
  <2>4. QED BY <2>3 DEF Owed, InFlight
<1>5. {s \in CallId : Live(s)'} = {}
  BY CallInv', Constants DEF CallInv, OneCallLive
<1>6. ContractInv'
  BY Constants, Shapes DEF ContractInv
<1>7. ContractStep
  BY <1>3, <1>4, <1>5 DEF ContractStep, Contract!Next, Contract!Settle
<1>8. QED BY <1>6, <1>7

\* A call begins under a fresh number: the contract begins it.
LEMMA Begins ==
  ASSUME CallInv, CallInv', ContractInv, NEW m \in Methods, NEW n \in Nat, n > callSeq,
         StartCall(m, n) \/ StartStream(m, n)
  PROVE  ContractInv' /\ ContractStep
<1>1. /\ n \in CallId /\ callSeq' = n /\ cancel' = n
      /\ released' = released \union Held4Release /\ call' = [call EXCEPT ![n] = m]
      /\ panel'.from = NoCall /\ panel'.state \in {"inflight", "streaming"}
  BY DEF StartCall, StartStream, Panel
<1>2. \A s \in released' : s <= callSeq
  BY <1>1, Shapes, Constants DEF ContractInv, Held4Release
<1>3. Live(n)'
  BY <1>1, <1>2, Shapes, Constants DEF Live
<1>4. {s \in CallId : Live(s)'} = {n}
  BY <1>1, <1>3, CallInv' DEF CallInv, OneCallLive
<1>5. Owed'
  BY <1>1, CallInv' DEF CallInv, SpinnerHasACall, Owed
<1>6. callSeq' \in callSeq + 1 .. MaxCalls
  BY <1>1, Shapes, Constants
<1>7. ContractInv'
  <2>1. \A s \in released' : s <= callSeq'
    BY <1>1, <1>2, Shapes, Constants DEF Held4Release
  <2>2. Live(cancel)'
    BY <1>1, <1>3 DEF Live
  <2>3. QED BY <2>1, <2>2 DEF ContractInv
<1>8. ContractStep
  BY <1>1, <1>4, <1>5, <1>6 DEF ContractStep, Contract!Next, Contract!Begin, NoCall
<1>9. QED BY <1>7, <1>8

-----------------------------------------------------------------------------
(* One step of the contract, or none, per action. *)

\* No command that could end the latest call comes or goes: it owes what it owed.
LEMMA OwesTheSame ==
  ASSUME callSeq' = callSeq,
         callSeq # NoCall => /\ cmds'[Invoke(callSeq)] = cmds[Invoke(callSeq)]
                             /\ cmds'[Open(callSeq)] = cmds[Open(callSeq)]
                             /\ cmds'[Recv(callSeq)] = cmds[Recv(callSeq)]
  PROVE  Owed' <=> Owed
BY DEF Owed, InFlight

\* One message more on an open stream, or its end asked for, is a send at most.
LEMMA SendsOweNothing ==
  ASSUME CallInv, stream # NoCall, callSeq' = callSeq,
         NEW q \in Seq(Msg), NEW busy, NEW cls, NextSend(stream, q, busy, cls, cmds)
  PROVE  Owed' <=> Owed
<1>1. callSeq \in CallId /\ stream \in CallRef
  BY Shapes, Constants
<1>2. \A c \in Cmd : c.kind # "send" => cmds'[c] = cmds[c]
  BY <1>1, Shapes, NextSendStep
<1>3. QED
  BY <1>1, <1>2, CmdKinds, OwesTheSame

\* SelectMethod is a step of the contract, or none.
LEMMA SelectMethodContract ==
  ASSUME CallInv, CallInv', ContractInv, NEW m \in Methods, SelectMethod(m)
  PROVE  ContractInv' /\ ContractStep
<1>1. panel'.from = NoCall /\ panel'.state = "empty" /\ UNCHANGED <<cmds, call>>
  BY DEF SelectMethod, ClearedFor, Panel
<1>2. CASE cancel = NoCall
  <2>1. UNCHANGED <<ui, released>>
    BY <1>2 DEF SelectMethod, RetireCall
  <2>2. QED
    BY <1>1, <2>1, OwesTheSame, Untouched DEF ui
<1>3. CASE cancel # NoCall
  <2>1. /\ callSeq < MaxCalls /\ callSeq' = callSeq + 1 /\ cancel' = NoCall
        /\ released' = released \union Held4Release
    BY <1>3 DEF SelectMethod, RetireCall
  <2>2. {s \in CallId : Live(s)} # {}
    BY <1>3, Shapes, Constants DEF ContractInv
  <2>3. {s \in CallId : Live(s)'} = {}
    BY <2>1, CallInv', Constants DEF CallInv, OneCallLive
  <2>4. callSeq' \in callSeq + 1 .. MaxCalls /\ callSeq' \in CallId
    BY <2>1, Shapes, Constants
  <2>5. ~Owed'
    <3>1. \A c \in Cmd : c.seq = callSeq' => ~InFlight(c)
      BY <1>1, <2>1, Shapes, Constants DEF CallInv, NumbersInUse, InFlight, Known
    <3>2. QED BY <1>1, <2>4, <3>1, CmdKinds DEF Owed, InFlight
  <2>6. ContractInv'
    BY <2>1, <2>4, Shapes, Constants DEF ContractInv, Held4Release
  <2>7. ContractStep
    BY <1>1, <2>2, <2>3, <2>4, <2>5
    DEF ContractStep, Contract!Next, Contract!Retire, NoCall
  <2>8. QED BY <2>6, <2>7
<1>4. QED BY <1>2, <1>3

\* QueueOnStream is a step of the contract, or none.
LEMMA QueueOnStreamContract ==
  ASSUME CallInv, ContractInv, QueueOnStream, stream # NoCall, panel'.from \in {NoCall, panel.from}
  PROVE  ContractInv' /\ ContractStep
<1>1. UNCHANGED <<callSeq, cancel, call, released>>
      /\ NextSend(stream, Append(queue, submitted + 1), sending, closeAfter, cmds)
  BY DEF QueueOnStream
<1>2. Append(queue, submitted + 1) \in Seq(Msg)
  BY Constants DEF QueueOnStream, CallInv, TypeOK
<1>3. Owed' <=> Owed
  BY <1>1, <1>2, SendsOweNothing
<1>4. QED
  BY <1>1, <1>3, Untouched

\* What a user does is a step of the contract, or none.
LEMMA UserContract ==
  ASSUME CallInv, CallInv', ContractInv, User
  PROVE  ContractInv' /\ ContractStep
<1>1. ASSUME NEW m \in Methods, SelectMethod(m)
      PROVE  ContractInv' /\ ContractStep
  BY <1>1, SelectMethodContract
<1>2. ASSUME NEW m \in Methods, LoadAndSend(m)
      PROVE  ContractInv' /\ ContractStep
  <2> DEFINE n == callSeq + (IF cancel = NoCall THEN 1 ELSE 2)
  <2>1. n \in Nat /\ n > callSeq
    BY Shapes, Constants
  <2>2. \/ StartCall(m, n) \/ StartStream(m, n)
        \/ stream # NoCall /\ QueueOnStream /\ panel' = ClearedFor(m)
    BY <1>2 DEF LoadAndSend
  <2> HIDE DEF n
  <2>3. CASE StartCall(m, n) \/ StartStream(m, n)
    BY <2>1, <2>3, Begins
  <2>4. CASE stream # NoCall /\ QueueOnStream /\ panel' = ClearedFor(m)
    BY <2>4, QueueOnStreamContract DEF ClearedFor, Panel
  <2>5. QED BY <2>2, <2>3, <2>4
<1>3. CASE Send
  <2>1. form \in Methods /\ callSeq + 1 \in Nat /\ callSeq + 1 > callSeq
    BY <1>3, Shapes, Constants DEF Send, CallInv, TypeOK
  <2>2. CASE StartCall(form, callSeq + 1) \/ StartStream(form, callSeq + 1)
    BY <2>1, <2>2, Begins
  <2>3. CASE stream # NoCall /\ QueueOnStream /\ UNCHANGED panel
    BY <2>3, QueueOnStreamContract
  <2>4. QED BY <1>3, <2>2, <2>3 DEF Send
<1>4. CASE EndSending
  <2>1. /\ stream # NoCall /\ NextSend(stream, queue, sending, TRUE, cmds)
        /\ UNCHANGED <<callSeq, cancel, panel, call, released>>
    BY <1>4 DEF EndSending, shown
  <2>2. queue \in Seq(Msg)
    BY DEF CallInv, TypeOK
  <2>3. QED
    BY <2>1, <2>2, SendsOweNothing, Untouched
<1>5. CASE Cancel
  <2>1. /\ cancel # NoCall /\ Active /\ cancel' = NoCall /\ released' = released \union {cancel}
        /\ UNCHANGED <<callSeq, panel, cmds, call>>
    BY <1>5 DEF Cancel, shown
  <2>2. Owed /\ Owed'
    BY <2>1 DEF CallInv, SpinnerHasACall, Active, Owed, InFlight
  <2>3. {s \in CallId : Live(s)} # {}
    BY <2>1, Shapes, Constants DEF ContractInv
  <2>4. {s \in CallId : Live(s)'} = {}
    BY <2>1, CallInv', Constants DEF CallInv, OneCallLive
  <2>5. ContractInv'
    BY <2>1, Shapes, Constants DEF ContractInv
  <2>6. ContractStep
    BY <2>1, <2>2, <2>3, <2>4 DEF ContractStep, Contract!Next, Contract!Abort
  <2>7. QED BY <2>5, <2>6
<1>6. QED BY <1>1, <1>2, <1>3, <1>4, <1>5 DEF User

\* A message of a call that was replaced leaves the bag, and at most its own
\* context is released.
LEMMA StaleContract ==
  ASSUME CallInv, ContractInv, NEW s \in CallId, s # callSeq,
         NEW c \in Cmd, c.seq = s, InFlight(c), cmds' = Land(c),
         released' \in {released, released \union {s}},
         UNCHANGED <<callSeq, cancel, panel, call>>
  PROVE  ContractInv' /\ ContractStep
<1>1. \A d \in Cmd : d # c => cmds'[d] = cmds[d]
  BY Shapes, LandCounts
<1>2. callSeq # NoCall => /\ Invoke(callSeq) \in Cmd /\ Invoke(callSeq).seq = callSeq
                          /\ Open(callSeq) \in Cmd /\ Open(callSeq).seq = callSeq
                          /\ Recv(callSeq) \in Cmd /\ Recv(callSeq).seq = callSeq
  BY Shapes, Constants, CmdKinds
<1>3. Owed' <=> Owed
  BY <1>1, <1>2, OwesTheSame
<1>4. call[s] # None
  BY DEF CallInv, NumbersInUse, Known
<1>5. QED
  BY <1>3, <1>4, Untouched

\* FinishCall is a step of the contract, or none.
LEMMA FinishCallContract ==
  ASSUME CallInv, CallInv', ContractInv, NEW s \in CallId, NEW ok \in BOOLEAN, FinishCall(s, ok)
  PROVE  ContractInv' /\ ContractStep
<1>1. InFlight(Invoke(s)) /\ cmds' = Land(Invoke(s)) /\ released' = released \union {s}
      /\ UNCHANGED <<callSeq, call>> /\ Invoke(s) \in Cmd /\ Invoke(s).seq = s
  BY CmdKinds DEF FinishCall
<1>2. CASE s # callSeq
  BY <1>1, <1>2, StaleContract DEF FinishCall
<1>3. CASE s = callSeq
  <2>1. cancel' = NoCall /\ panel'.from = callSeq
    BY <1>3 DEF FinishCall, Panel
  <2>2. QED
    BY <1>1, <1>3, <2>1, Settles
<1>4. QED BY <1>2, <1>3

\* StreamOpened is a step of the contract, or none.
LEMMA StreamOpenedContract ==
  ASSUME CallInv, CallInv', ContractInv, NEW s \in CallId, StreamOpened(s)
  PROVE  ContractInv' /\ ContractStep
<1>1. InFlight(Open(s)) /\ UNCHANGED <<callSeq, cancel, shown, call>>
      /\ Open(s) \in Cmd /\ Open(s).seq = s
  BY CmdKinds DEF StreamOpened
<1>2. CASE s # callSeq
  BY <1>1, <1>2, StaleContract DEF StreamOpened, shown
<1>3. CASE s = callSeq
  <2>1. released' = released /\ stream' = callSeq'
    BY <1>1, <1>3 DEF StreamOpened
  <2>2. Owed
    BY <1>1, <1>3, Constants DEF Owed
  <2>3. Owed'
    <3>1. /\ Land(Open(s)) \in [Cmd -> Nat] /\ Recv(s) \in Cmd /\ Recv(s).kind = "recv"
      BY <1>1, Shapes, LandCounts, CmdKinds
    <3> DEFINE bag == Launch(Land(Open(s)), Recv(s))
    <3>2. bag \in [Cmd -> Nat] /\ bag[Recv(s)] > 0
      BY <3>1, LaunchCounts
    <3>3. NextSend(s, queue, sending, closeAfter, bag)
      BY <1>3 DEF StreamOpened
    <3>4. queue \in Seq(Msg) /\ s \in CallRef
      BY Constants DEF CallInv, TypeOK
    <3> HIDE DEF bag
    <3>5. cmds'[Recv(s)] = bag[Recv(s)]
      BY <3>1, <3>2, <3>3, <3>4, NextSendStep
    <3>6. QED BY <1>1, <1>3, <3>2, <3>5, Constants DEF Owed, InFlight
  <2>4. QED
    BY <1>1, <2>1, <2>2, <2>3, Untouched DEF shown
<1>4. QED BY <1>2, <1>3

\* StreamRefused is a step of the contract, or none.
LEMMA StreamRefusedContract ==
  ASSUME CallInv, CallInv', ContractInv, NEW s \in CallId, StreamRefused(s)
  PROVE  ContractInv' /\ ContractStep
<1>1. InFlight(Open(s)) /\ cmds' = Land(Open(s)) /\ released' = released \union {s}
      /\ UNCHANGED <<callSeq, call>> /\ Open(s) \in Cmd /\ Open(s).seq = s
  BY CmdKinds DEF StreamRefused
<1>2. CASE s # callSeq
  BY <1>1, <1>2, StaleContract DEF StreamRefused
<1>3. CASE s = callSeq
  <2>1. cancel' = NoCall /\ FinishStream(s, FALSE)
    BY <1>3 DEF StreamRefused
  <2>2. panel'.from \in {callSeq, panel.from}
    BY <1>3, <2>1 DEF FinishStream, CallInv, TypeOK
  <2>3. QED
    BY <1>1, <1>3, <2>1, <2>2, Settles
<1>4. QED BY <1>2, <1>3

\* StreamSent is a step of the contract, or none.
LEMMA StreamSentContract ==
  ASSUME CallInv, ContractInv, NEW a \in 0 .. MaxMsgs, NEW outcome, StreamSent(a, outcome)
  PROVE  ContractInv' /\ ContractStep
<1> DEFINE landed == Land(Tx(callSeq, a))
<1>1. callSeq \in CallId /\ InFlight(Tx(callSeq, a))
      /\ UNCHANGED <<callSeq, cancel, panel, call, released>>
      /\ Tx(callSeq, a) \in Cmd /\ Tx(callSeq, a).kind = "send"
  BY CmdKinds DEF StreamSent
<1>2. landed \in [Cmd -> Nat] /\ \A d \in Cmd : d.kind # "send" => landed[d] = cmds[d]
  BY <1>1, Shapes, LandCounts
<1>3. queue \in Seq(Msg) /\ stream \in CallRef
  BY DEF CallInv, TypeOK
<1>4. \/ cmds' = landed
      \/ NextSend(stream, <<>>, FALSE, FALSE, landed)
      \/ NextSend(stream, queue, FALSE, closeAfter, landed)
  BY DEF StreamSent
<1> HIDE DEF landed
<1>5. \A d \in Cmd : d.kind # "send" => cmds'[d] = cmds[d]
  <2>1. CASE cmds' = landed
    BY <1>2, <2>1
  <2>2. CASE NextSend(stream, <<>>, FALSE, FALSE, landed)
    BY <1>2, <1>3, <2>2, EmptyIsASeq, NextSendStep
  <2>3. CASE NextSend(stream, queue, FALSE, closeAfter, landed)
    BY <1>2, <1>3, <2>3, NextSendStep
  <2>4. QED BY <1>4, <2>1, <2>2, <2>3
<1>6. Owed' <=> Owed
  BY <1>1, <1>5, CmdKinds, OwesTheSame
<1>7. QED
  BY <1>1, <1>6, Untouched

\* StreamReceived is a step of the contract, or none.
LEMMA StreamReceivedContract ==
  ASSUME CallInv, CallInv', ContractInv, StreamReceived
  PROVE  ContractInv' /\ ContractStep
<1>1. /\ callSeq \in CallId /\ InFlight(Recv(callSeq)) /\ stream = callSeq
      /\ cmds' = Launch(Land(Recv(callSeq)), Recv(callSeq)) /\ Recv(callSeq) \in Cmd
      /\ UNCHANGED <<callSeq, cancel, panel, call, released>>
  BY Shapes, Constants, CmdKinds DEF StreamReceived, ui
<1>2. Land(Recv(callSeq)) \in [Cmd -> Nat]
  BY <1>1, Shapes, LandCounts
<1>3. cmds'[Recv(callSeq)] > 0
  BY <1>1, <1>2, LaunchCounts
<1>4. Owed /\ Owed'
  BY <1>1, <1>3, Constants DEF Owed, InFlight
<1>5. QED
  BY <1>1, <1>4, Untouched

\* StreamEnded is a step of the contract, or none.
LEMMA StreamEndedContract ==
  ASSUME CallInv, CallInv', ContractInv, NEW ok \in BOOLEAN, StreamEnded(ok)
  PROVE  ContractInv' /\ ContractStep
<1>1. /\ callSeq \in CallId /\ InFlight(Recv(callSeq)) /\ cmds' = Land(Recv(callSeq))
      /\ cancel' = NoCall /\ released' = released \union ({stream} \ {NoCall})
      /\ FinishStream(callSeq, ok) /\ UNCHANGED <<callSeq, call>>
  BY DEF StreamEnded
<1>2. stream = callSeq
  BY <1>1, Constants DEF CallInv
<1>3. released' = released \union {callSeq}
  BY <1>1, <1>2, Constants
<1>4. panel'.from \in {callSeq, panel.from}
  BY <1>1 DEF FinishStream, CallInv, TypeOK
<1>5. QED
  BY <1>1, <1>3, <1>4, Settles

\* What a command reports is a step of the contract, or none.
LEMMA ReportContract ==
  ASSUME CallInv, CallInv', ContractInv, Report
  PROVE  ContractInv' /\ ContractStep
<1>1. ASSUME NEW s \in CallId, NEW ok \in BOOLEAN, FinishCall(s, ok)
      PROVE  ContractInv' /\ ContractStep
  BY <1>1, FinishCallContract
<1>2. ASSUME NEW s \in CallId, StreamOpened(s)
      PROVE  ContractInv' /\ ContractStep
  BY <1>2, StreamOpenedContract
<1>3. ASSUME NEW s \in CallId, StreamRefused(s)
      PROVE  ContractInv' /\ ContractStep
  BY <1>3, StreamRefusedContract
<1>4. ASSUME NEW s \in CallId, StaleReceived(s)
      PROVE  ContractInv' /\ ContractStep
  BY <1>4, CmdKinds, StaleContract DEF StaleReceived, ui, shown
<1>5. ASSUME NEW s \in CallId, NEW a \in 0 .. MaxMsgs, StaleSent(s, a)
      PROVE  ContractInv' /\ ContractStep
  BY <1>5, CmdKinds, StaleContract DEF StaleSent, ui, shown
<1>6. ASSUME NEW a \in 0 .. MaxMsgs, NEW outcome, StreamSent(a, outcome)
      PROVE  ContractInv' /\ ContractStep
  BY <1>6, StreamSentContract
<1>7. CASE StreamReceived
  BY <1>7, StreamReceivedContract
<1>8. ASSUME NEW ok \in BOOLEAN, StreamEnded(ok)
      PROVE  ContractInv' /\ ContractStep
  BY <1>8, StreamEndedContract
<1>9. QED BY <1>1, <1>2, <1>3, <1>4, <1>5, <1>6, <1>7, <1>8 DEF Report

\* Every step of a call is a step of the contract, or none, and keeps what that needs.
LEMMA StepContract ==
  CallInv /\ CallInv' /\ ContractInv /\ [Next]_vars => ContractInv' /\ ContractStep
<1> SUFFICES ASSUME CallInv, CallInv', ContractInv, [Next]_vars
             PROVE  ContractInv' /\ ContractStep
  OBVIOUS
<1>1. CASE User
  BY <1>1, UserContract
<1>2. CASE Report
  BY <1>2, ReportContract
<1>3. CASE Server
  <2>1. UNCHANGED <<callSeq, cancel, panel, cmds, call, released>>
    BY <1>3 DEF Server, ServerReplies, ServerEnds, ui, shown
  <2>2. QED
    BY <2>1, OwesTheSame, Untouched
<1>4. CASE UNCHANGED vars
  <2>1. UNCHANGED <<callSeq, cancel, panel, cmds, call, released>>
    BY <1>4 DEF vars, ui, shown
  <2>2. QED
    BY <2>1, OwesTheSame, Untouched
<1>5. CASE ServicesDiscovered
  <2>1. UNCHANGED <<callSeq, cancel, cmds, call, released>> /\ panel'.from = NoCall
    BY <1>5 DEF ServicesDiscovered, ClearedFor, Panel, ui
  <2>2. QED
    BY <2>1, OwesTheSame, Untouched
<1>6. QED BY <1>1, <1>2, <1>3, <1>4, <1>5 DEF Next

\* Whatever the methods and the bounds, and however late the commands report, the
\* model's numbering, cancelling and dropping of messages keep the contract: a call
\* replaced is a call ended, and one outcome per call reaches the panel.
THEOREM CallsKeepTheContract == Spec => ImplementsContract
<1>1. Init => ContractInv /\ Contract!Init
  <2> SUFFICES ASSUME Init PROVE ContractInv /\ Contract!Init
    OBVIOUS
  <2>1. \A s \in CallId : ~Live(s)
    BY DEF Init, Live
  <2>2. ~Owed /\ callSeq = 0 /\ cancel = NoCall /\ released = {} /\ panel.from = NoCall
    BY DEF Init, Owed, ClearedFor, Panel, NoCall
  <2>3. QED BY <2>1, <2>2 DEF ContractInv, Contract!Init, NoCall
<1>2. CallInv /\ CallInv' /\ ContractInv /\ [Next]_vars => ContractInv' /\ [Contract!Next]_(Contract!vars)
  BY StepContract DEF ContractStep
<1>3. QED
  BY <1>1, <1>2, InvHolds, PTL DEF Spec, ImplementsContract, Contract!Spec

-----------------------------------------------------------------------------
(* The diff view. *)

\* What DiffIsAgainstPrevious rests on: the body a method has left is an answer to
\* it, from a call before the one still waiting; and a panel that waits has nothing
\* to compare yet.
DiffInv ==
  /\ IsFiniteSet(Held) /\ Cardinality(Held) <= MaxDiffMethods
  /\ \A m \in Held : /\ responses[m] <= callSeq /\ call[responses[m]] = m
                     /\ InFlight(Invoke(callSeq)) => responses[m] # callSeq
  /\ Active => panel.previous = NoCall
  /\ panel.previous # NoCall =>
       /\ panel.previous < panel.from
       /\ call[panel.previous] = call[panel.from]

\* A step that answers no unary call keeps the bodies, and the panel shows what it
\* showed or nothing to compare.
LEMMA BodiesKept ==
  ASSUME CallInv, CallInv', DiffInv, responses' = responses, callSeq' >= callSeq,
         \A s \in CallId : s <= callSeq => call'[s] = call[s],
         callSeq \in CallId /\ callSeq' = callSeq =>
           cmds'[Invoke(callSeq)] <= cmds[Invoke(callSeq)],
         panel' = panel \/ panel'.previous = NoCall
  PROVE  DiffInv'
<1>1. /\ callSeq \in CallRef /\ callSeq' \in CallRef /\ responses \in [Methods -> CallRef]
      /\ panel.from \in {NoCall, callSeq} /\ panel.previous \in CallRef
  BY DEF CallInv, TypeOK, LatestAnswer
<1>2. Held' = Held /\ Held \subseteq Methods
  BY DEF Held
<1>3. \A m \in Held : responses[m] \in CallId /\ responses[m] <= callSeq
  BY <1>1, <1>2, Constants DEF DiffInv, Held
<1>4. \A m \in Held' : /\ responses'[m] <= callSeq' /\ call'[responses'[m]] = m
                       /\ InFlight(Invoke(callSeq))' => responses'[m] # callSeq'
  <2>1. callSeq \in CallId /\ callSeq' = callSeq /\ InFlight(Invoke(callSeq))'
          => InFlight(Invoke(callSeq))
    BY <1>1, Shapes, CmdKinds DEF CallInv, TypeOK, InFlight
  <2>2. QED BY <1>1, <1>2, <1>3, <2>1, Constants DEF DiffInv
<1>5. panel'.previous # NoCall =>
        /\ panel'.previous < panel'.from
        /\ call'[panel'.previous] = call'[panel'.from]
  <2>1. CASE panel' = panel /\ panel.previous # NoCall
    <3>1. panel.previous \in CallId /\ panel.from \in CallId /\ panel.previous < panel.from
          /\ panel.from = callSeq
      BY <1>1, <2>1, Constants DEF DiffInv
    <3>2. call'[panel.previous] = call[panel.previous] /\ call'[panel.from] = call[panel.from]
      BY <3>1, Constants
    <3>3. QED BY <2>1, <3>1, <3>2 DEF DiffInv
  <2>2. QED BY <2>1
<1>6. Active' => panel'.previous = NoCall
  BY DEF DiffInv, Active
<1>7. QED
  BY <1>2, <1>4, <1>5, <1>6 DEF DiffInv

\* remember keeps the bodies of at most maxDiffMethods methods, whichever it evicts.
LEMMA RememberBound ==
  ASSUME IsFiniteSet(Held), Cardinality(Held) <= MaxDiffMethods,
         responses \in [Methods -> CallRef], NEW m \in Methods, NEW s \in CallId, Remember(m, s)
  PROVE  /\ IsFiniteSet(Held') /\ Cardinality(Held') <= MaxDiffMethods
         /\ Held' \subseteq Held \union {m}
         /\ \A k \in Held' : responses'[k] = IF k = m THEN s ELSE responses[k]
<1>1. s # NoCall /\ MaxDiffMethods \in Nat /\ Cardinality(Held) \in Nat
  BY Constants, BoundsAssumption, FS_CardinalityType
<1>2. CASE m \notin Held /\ Cardinality(Held) >= MaxDiffMethods
  <2>1. PICK evict \in Held : responses' = [responses EXCEPT ![evict] = NoCall, ![m] = s]
    BY <1>2 DEF Remember
  <2>2. Held' = (Held \ {evict}) \union {m} /\ evict # m
    BY <1>1, <1>2, <2>1 DEF Held
  <2>3. IsFiniteSet(Held \ {evict}) /\ Cardinality(Held \ {evict}) = Cardinality(Held) - 1
    BY <2>1, FS_RemoveElement
  <2>4. m \notin Held \ {evict}
    BY <1>2
  <2>5. IsFiniteSet(Held') /\ Cardinality(Held') = Cardinality(Held) - 1 + 1
    BY <2>2, <2>3, <2>4, FS_AddElement
  <2>6. \A k \in Held' : responses'[k] = IF k = m THEN s ELSE responses[k]
    BY <2>1, <2>2 DEF Held
  <2>7. QED BY <1>1, <2>2, <2>5, <2>6
<1>3. CASE ~(m \notin Held /\ Cardinality(Held) >= MaxDiffMethods)
  <2>1. responses' = [responses EXCEPT ![m] = s]
    BY <1>3 DEF Remember
  <2>2. Held' = Held \union {m}
    BY <1>1, <2>1 DEF Held
  <2>3. IsFiniteSet(Held') /\ Cardinality(Held') =
          IF m \in Held THEN Cardinality(Held) ELSE Cardinality(Held) + 1
    BY <2>2, FS_AddElement
  <2>4. \A k \in Held' : responses'[k] = IF k = m THEN s ELSE responses[k]
    BY <2>1, <2>2 DEF Held
  <2>5. QED BY <1>1, <1>3, <2>2, <2>3, <2>4
<1>4. QED BY <1>2, <1>3

\* An answer replaces the body of its own method, and is drawn against it.
LEMMA FinishCallDiff ==
  ASSUME CallInv, CallInv', DiffInv, NEW s \in CallId, NEW ok \in BOOLEAN, FinishCall(s, ok)
  PROVE  DiffInv'
<1>1. /\ InFlight(Invoke(s)) /\ cmds' = Land(Invoke(s)) /\ UNCHANGED <<callSeq, call>>
      /\ Invoke(s) \in Cmd /\ Invoke(s).seq = s
  BY CmdKinds DEF FinishCall
<1>2. /\ callSeq \in CallRef /\ responses \in [Methods -> CallRef] /\ cmds \in [Cmd -> Nat]
      /\ call \in [CallId -> Methods \union {None}]
  BY DEF CallInv, TypeOK
<1>3. \A d \in Cmd : cmds'[d] > 0 => cmds[d] > 0
  BY <1>1, <1>2, LandCounts
<1>4. CASE s # callSeq \/ ~ok
  <2>1. responses' = responses /\ (panel' = panel \/ panel'.previous = NoCall)
    BY <1>4 DEF FinishCall, Panel
  <2>2. callSeq' >= callSeq /\ \A t \in CallId : call'[t] = call[t]
    BY <1>1, <1>2, Constants
  <2>3. callSeq \in CallId => cmds'[Invoke(callSeq)] <= cmds[Invoke(callSeq)]
    BY <1>1, <1>2, CmdKinds, LandCounts
  <2>4. QED
    BY <1>1, <2>1, <2>2, <2>3, BodiesKept
<1>6. CASE s = callSeq /\ ok
  <2> DEFINE m == call[s]
  <2>1. m \in Methods
    BY <1>1, <1>2 DEF CallInv, NumbersInUse, Known
  <2>2. Remember(m, s) /\ panel' = Panel("ok", panel.method, s, responses[m])
    BY <1>6 DEF FinishCall
  <2> HIDE DEF m
  <2>3. /\ IsFiniteSet(Held') /\ Cardinality(Held') <= MaxDiffMethods
        /\ Held' \subseteq Held \union {m}
        /\ \A k \in Held' : responses'[k] = IF k = m THEN s ELSE responses[k]
    BY <1>2, <2>1, <2>2, RememberBound DEF DiffInv
  <2>4. ~InFlight(Invoke(callSeq))'
    <3>1. cmds'[Invoke(s)] = cmds[Invoke(s)] - 1 /\ cmds[Invoke(s)] <= 1 /\ cmds[Invoke(s)] > 0
      <4>1. cmds[Invoke(s)] + cmds[Open(s)] + cmds[Recv(s)] <= 1
        BY <1>6, Constants DEF CallInv, OneOutcome
      <4>2. cmds[Invoke(s)] \in Nat /\ cmds[Open(s)] \in Nat /\ cmds[Recv(s)] \in Nat
        BY <1>2, CmdKinds
      <4>3. QED BY <1>1, <1>2, <4>1, <4>2, LandCounts DEF InFlight
    <3>2. QED BY <1>1, <1>2, <1>6, <3>1 DEF InFlight
  <2>5. \A k \in Held' : responses'[k] <= callSeq' /\ call'[responses'[k]] = k
    <3>1. call[s] = m
      BY DEF m
    <3>2. QED BY <1>1, <1>2, <1>6, <2>3, <3>1, Constants DEF DiffInv
  <2>6. panel'.previous # NoCall =>
          /\ panel'.previous < panel'.from
          /\ call'[panel'.previous] = call'[panel'.from]
    <3>1. panel'.previous = responses[m] /\ panel'.from = s /\ panel'.state = "ok"
      BY <2>2 DEF Panel
    <3>2. responses[m] # NoCall => m \in Held
      BY <2>1 DEF Held
    <3>3. m \in Held => responses[m] <= callSeq /\ responses[m] # callSeq /\ call[responses[m]] = m
      BY <1>1, <1>6 DEF DiffInv
    <3>4. responses[m] \in CallRef /\ call[s] = m
      BY <1>2, <2>1 DEF m
    <3>5. QED BY <1>1, <1>2, <1>6, <3>1, <3>2, <3>3, <3>4, Constants
  <2>7. ~Active'
    BY <2>2 DEF Panel, Active
  <2>8. QED BY <2>3, <2>4, <2>5, <2>6, <2>7 DEF DiffInv
<1>7. QED BY <1>4, <1>6

\* Every step keeps what the diff needs.
LEMMA StepDiff == CallInv /\ CallInv' /\ DiffInv /\ [Next]_vars => DiffInv'
<1> SUFFICES ASSUME CallInv, CallInv', DiffInv, [Next]_vars PROVE DiffInv'
  OBVIOUS
<1>t. /\ callSeq \in CallRef /\ queue \in Seq(Msg) /\ stream \in CallRef /\ cmds \in [Cmd -> Nat]
      /\ call \in [CallId -> Methods \union {None}]
  BY DEF CallInv, TypeOK
<1>1. ASSUME NEW m \in Methods, NEW n \in Nat, n > callSeq, StartCall(m, n) \/ StartStream(m, n)
      PROVE  DiffInv'
  <2>1. /\ n \in CallId /\ callSeq' = n /\ call' = [call EXCEPT ![n] = m]
        /\ responses' = responses /\ panel'.previous = NoCall
    BY <1>1 DEF StartCall, StartStream, Panel
  <2>2. QED BY <1>1, <1>t, <2>1, Constants, BodiesKept
<1>2. ASSUME QueueOnStream, stream # NoCall, panel' = panel \/ panel'.previous = NoCall
      PROVE  DiffInv'
  <2>1. /\ UNCHANGED <<callSeq, call, responses>>
        /\ NextSend(stream, Append(queue, submitted + 1), sending, closeAfter, cmds)
    BY <1>2 DEF QueueOnStream
  <2>2. Append(queue, submitted + 1) \in Seq(Msg)
    BY <1>2, Constants DEF QueueOnStream, CallInv, TypeOK
  <2>3. \A c \in Cmd : c.kind # "send" => cmds'[c] = cmds[c]
    BY <1>t, <2>1, <2>2, NextSendStep
  <2>4. callSeq \in CallId => cmds'[Invoke(callSeq)] <= cmds[Invoke(callSeq)]
    BY <1>t, <2>3, CmdKinds
  <2>5. QED BY <1>2, <1>t, <2>1, <2>4, Constants, BodiesKept
<1>3. ASSUME NEW m \in Methods, SelectMethod(m) PROVE DiffInv'
  <2>1. UNCHANGED <<responses, cmds, call>> /\ panel'.previous = NoCall /\ callSeq' \in {callSeq, callSeq + 1}
    BY <1>3 DEF SelectMethod, RetireCall, ClearedFor, Panel, ui
  <2>2. callSeq' >= callSeq /\ (callSeq \in CallId => cmds'[Invoke(callSeq)] <= cmds[Invoke(callSeq)])
    BY <1>t, <2>1, Constants, CmdKinds
  <2>3. QED BY <2>1, <2>2, BodiesKept
<1>4. ASSUME NEW m \in Methods, LoadAndSend(m) PROVE DiffInv'
  <2> DEFINE n == callSeq + (IF cancel = NoCall THEN 1 ELSE 2)
  <2>1. n \in Nat /\ n > callSeq
    BY <1>t, Constants
  <2>2. \/ StartCall(m, n) \/ StartStream(m, n)
        \/ stream # NoCall /\ QueueOnStream /\ panel'.previous = NoCall
    BY <1>4 DEF LoadAndSend, ClearedFor, Panel
  <2> HIDE DEF n
  <2>3. QED BY <1>1, <1>2, <2>1, <2>2
<1>5. CASE Send
  <2>1. form \in Methods /\ callSeq + 1 \in Nat /\ callSeq + 1 > callSeq
    BY <1>5, <1>t, Constants DEF Send, CallInv, TypeOK
  <2>2. \/ StartCall(form, callSeq + 1) \/ StartStream(form, callSeq + 1)
        \/ stream # NoCall /\ QueueOnStream /\ UNCHANGED panel
    BY <1>5 DEF Send
  <2>3. QED BY <1>1, <1>2, <2>1, <2>2
<1>6. ASSUME NEW s \in CallId, NEW ok \in BOOLEAN, FinishCall(s, ok) PROVE DiffInv'
  BY <1>6, FinishCallDiff
<1>7. CASE \/ EndSending \/ Cancel \/ ServicesDiscovered \/ Server \/ StreamReceived
           \/ \E ok \in BOOLEAN : StreamEnded(ok)
           \/ \E s \in CallId : \/ StreamOpened(s) \/ StreamRefused(s) \/ StaleReceived(s)
                                \/ \E a \in 0 .. MaxMsgs : StaleSent(s, a)
           \/ \E a \in 0 .. MaxMsgs, outcome \in {"ok", "eof", "failed"} : StreamSent(a, outcome)
           \/ UNCHANGED vars
  \* Whatever these do to the commands, they add no answer to come.
  <2>1. UNCHANGED <<callSeq, call, responses>>
    BY <1>7
    DEF EndSending, Cancel, ServicesDiscovered, Server, ServerReplies, ServerEnds, StreamReceived,
        StreamEnded, StreamOpened, StreamRefused, StaleReceived, StaleSent, StreamSent, vars, ui, shown
  <2>2. panel' = panel \/ panel'.previous = NoCall
    <3>1. ASSUME NEW s, NEW ok, FinishStream(s, ok)
          PROVE  panel' = panel \/ panel'.previous = NoCall
      BY <3>1 DEF FinishStream, DiffInv, Active, CallInv, TypeOK
    <3>2. ASSUME NEW s \in CallId, StreamRefused(s)
          PROVE  panel' = panel \/ panel'.previous = NoCall
      BY <3>1, <3>2 DEF StreamRefused
    <3>3. ASSUME NEW ok \in BOOLEAN, StreamEnded(ok)
          PROVE  panel' = panel \/ panel'.previous = NoCall
      BY <3>1, <3>3 DEF StreamEnded
    <3>4. CASE ServicesDiscovered
      BY <3>4 DEF ServicesDiscovered, ClearedFor, Panel
    <3>5. QED
      BY <1>7, <3>2, <3>3, <3>4
      DEF EndSending, Cancel, Server, ServerReplies, ServerEnds,
          StreamReceived, StreamOpened, StaleReceived, StaleSent, StreamSent, vars, shown
  <2>3. ASSUME callSeq \in CallId
        PROVE  cmds'[Invoke(callSeq)] = cmds[Invoke(callSeq)]
    <3>1. Invoke(callSeq) \in Cmd /\ Invoke(callSeq).kind = "invoke"
      BY <2>3, CmdKinds
    <3>2. ASSUME NEW c \in Cmd, c.kind # "invoke"
          PROVE  /\ Launch(cmds, c)[Invoke(callSeq)] = cmds[Invoke(callSeq)]
                 /\ InFlight(c) => Land(c)[Invoke(callSeq)] = cmds[Invoke(callSeq)]
      BY <1>t, <3>1, <3>2, LaunchCounts, LandCounts
    <3>3. ASSUME NEW bag \in [Cmd -> Nat], NEW s \in CallRef, NEW q \in Seq(Msg), NEW busy, NEW cls,
                 bag[Invoke(callSeq)] = cmds[Invoke(callSeq)], NextSend(s, q, busy, cls, bag)
          PROVE  cmds'[Invoke(callSeq)] = cmds[Invoke(callSeq)]
      BY <3>1, <3>3, NextSendStep
    <3>4. CASE EndSending
      BY <1>t, <3>3, <3>4 DEF EndSending
    <3>5. CASE StreamReceived
      <4>1. /\ Recv(callSeq) \in Cmd /\ Recv(callSeq).kind = "recv"
            /\ InFlight(Recv(callSeq)) /\ stream = callSeq
            /\ cmds' = Launch(Land(Recv(callSeq)), Recv(stream))
        BY <2>3, <3>5, CmdKinds, Constants DEF StreamReceived, CallInv
      <4>2. Land(Recv(callSeq)) \in [Cmd -> Nat]
            /\ Land(Recv(callSeq))[Invoke(callSeq)] = cmds[Invoke(callSeq)]
        BY <1>t, <3>1, <4>1, LandCounts
      <4>3. QED BY <3>1, <4>1, <4>2, LaunchCounts
    <3>6. ASSUME NEW s \in CallId, StreamOpened(s)
          PROVE  cmds'[Invoke(callSeq)] = cmds[Invoke(callSeq)]
      <4>1. /\ Open(s) \in Cmd /\ Open(s).kind = "open" /\ InFlight(Open(s))
            /\ Recv(s) \in Cmd /\ Recv(s).kind = "recv" /\ s \in CallRef
        BY <3>6, CmdKinds, Constants DEF StreamOpened
      <4>2. Land(Open(s)) \in [Cmd -> Nat]
            /\ Land(Open(s))[Invoke(callSeq)] = cmds[Invoke(callSeq)]
        BY <1>t, <3>1, <4>1, LandCounts
      <4>3. Launch(Land(Open(s)), Recv(s)) \in [Cmd -> Nat]
            /\ Launch(Land(Open(s)), Recv(s))[Invoke(callSeq)] = cmds[Invoke(callSeq)]
        BY <3>1, <4>1, <4>2, LaunchCounts
      <4>4. \/ cmds' = Land(Open(s))
            \/ NextSend(s, queue, sending, closeAfter, Launch(Land(Open(s)), Recv(s)))
        BY <3>6 DEF StreamOpened
      <4>5. QED BY <1>t, <3>3, <4>1, <4>2, <4>3, <4>4
    <3>7. ASSUME NEW a \in 0 .. MaxMsgs, NEW outcome, StreamSent(a, outcome)
          PROVE  cmds'[Invoke(callSeq)] = cmds[Invoke(callSeq)]
      <4>1. Tx(callSeq, a) \in Cmd /\ Tx(callSeq, a).kind = "send" /\ InFlight(Tx(callSeq, a))
        BY <3>7, CmdKinds DEF StreamSent
      <4>2. Land(Tx(callSeq, a)) \in [Cmd -> Nat]
            /\ Land(Tx(callSeq, a))[Invoke(callSeq)] = cmds[Invoke(callSeq)]
        BY <1>t, <3>1, <4>1, LandCounts
      <4>3. \/ cmds' = Land(Tx(callSeq, a))
            \/ NextSend(stream, <<>>, FALSE, FALSE, Land(Tx(callSeq, a)))
            \/ NextSend(stream, queue, FALSE, closeAfter, Land(Tx(callSeq, a)))
        BY <3>7 DEF StreamSent
      <4>4. QED BY <1>t, <3>3, <4>2, <4>3, EmptyIsASeq
    <3>8. CASE \/ \E ok \in BOOLEAN : StreamEnded(ok)
               \/ \E s \in CallId : \/ StreamRefused(s) \/ StaleReceived(s)
                                    \/ \E a \in 0 .. MaxMsgs : StaleSent(s, a)
      <4>1. \E c \in Cmd : c.kind # "invoke" /\ InFlight(c) /\ cmds' = Land(c)
        BY <2>3, <3>8, CmdKinds DEF StreamEnded, StreamRefused, StaleReceived, StaleSent
      <4>2. QED BY <3>2, <4>1
    <3>9. CASE Cancel \/ ServicesDiscovered \/ Server \/ UNCHANGED vars
      BY <3>9 DEF Cancel, ServicesDiscovered, Server, ServerReplies, ServerEnds, vars
    <3>10. QED BY <1>7, <3>4, <3>5, <3>6, <3>7, <3>8, <3>9
  <2>4. callSeq \in CallId => cmds'[Invoke(callSeq)] <= cmds[Invoke(callSeq)]
    BY <1>t, <2>3, CmdKinds
  <2>5. QED BY <1>t, <2>1, <2>2, <2>4, Constants, BodiesKept
<1>8. QED
  BY <1>3, <1>4, <1>5, <1>6, <1>7 DEF Next, User, Report

\* Whatever was evicted on the way, the diff view compares an answer with an earlier
\* answer to the same method, and never keeps more bodies than maxDiffMethods.
THEOREM DiffIsSound == Spec => []DiffIsAgainstPrevious
<1>1. Init => DiffInv
  <2> SUFFICES ASSUME Init PROVE DiffInv
    OBVIOUS
  <2>1. Held = {}
    BY DEF Init, Held
  <2>2. panel.state = "empty" /\ panel.previous = NoCall
    BY DEF Init, ClearedFor, Panel
  <2>3. QED BY <2>1, <2>2, FS_EmptySet, BoundsAssumption DEF DiffInv, Active
<1>2. CallInv /\ CallInv' /\ DiffInv /\ [Next]_vars => DiffInv'
  BY StepDiff
<1>3. DiffInv => DiffIsAgainstPrevious
  BY DEF DiffInv, DiffIsAgainstPrevious
<1>4. QED
  BY <1>1, <1>2, <1>3, InvHolds, PTL DEF Spec

-----------------------------------------------------------------------------
(***************************************************************************)
(* The streaming half, for every set of methods and every bound: one       *)
(* sender and one receiver at a time, a queue that is always being served, *)
(* messages that go out in the order they were sent, and a log that counts *)
(* them.  CallInv says which call is current; StreamInv says what its      *)
(* commands are, and OrderInv what they carry.                             *)
(***************************************************************************)

\* A send of call s is among the commands of the bag.
SendOut(bag, s) == \E c \in Cmd : c.kind = "send" /\ c.seq = s /\ bag[c] > 0

\* What a bag of commands may hold, with s the stream the model has: of each call
\* one message at most that could end it, one send at most, and no send before its
\* stream has been installed.
BagOK(bag, s) ==
  /\ \A t \in CallId : bag[Invoke(t)] + bag[Open(t)] + bag[Recv(t)] <= 1
  /\ \A c, d \in Cmd :
       c.kind = "send" /\ d.kind = "send" /\ c.seq = d.seq /\ bag[c] > 0 /\ bag[d] > 0 =>
         c = d /\ bag[c] = 1
  /\ \A t \in CallId, d \in Cmd :
       bag[Open(t)] > 0 => t # s /\ (d.kind = "send" /\ d.seq = t => bag[d] = 0)

\* nextSend's hand-over: the flag says whether a send is under way, and it is while
\* anything waits for one.
HandOver ==
  IF stream = NoCall
  THEN ~sending
  ELSE /\ queue # <<>> \/ closeAfter => sending
       /\ sending <=> SendOut(cmds, stream)

StreamInv == BagOK(cmds, stream) /\ HandOver

\* The shapes the steps below rely on.
LEMMA StreamShapes ==
  ASSUME CallInv
  PROVE  /\ callSeq \in CallRef /\ cancel \in {NoCall, callSeq} /\ stream \in {NoCall, callSeq}
         /\ cmds \in [Cmd -> Nat] /\ call \in [CallId -> Methods \union {None}]
         /\ queue \in Seq(Msg) /\ wire \in Seq(Msg) /\ log \in Seq(LogLines)
         /\ sending \in BOOLEAN /\ closeAfter \in BOOLEAN /\ halfClosed \in BOOLEAN
         /\ submitted \in 0 .. MaxMsgs /\ released \in SUBSET CallId
BY DEF CallInv, TypeOK, StreamIsCurrent

\* A command is of one of the four kinds, and is the one its fields say.
LEMMA CmdFields ==
  ASSUME NEW c \in Cmd
  PROVE  /\ c.kind \in {"invoke", "open", "recv", "send"}
         /\ c.seq \in CallId /\ c.arg \in 0 .. MaxMsgs
         /\ c.kind = "send" => c = Tx(c.seq, c.arg)
BY DEF Cmd, Tx

\* Sends are told apart by what they carry.
LEMMA TxArgs ==
  ASSUME NEW s, NEW a, NEW b, Tx(s, a) = Tx(s, b)
  PROVE  a = b
<1>1. Tx(s, a).arg = a /\ Tx(s, b).arg = b
  BY DEF Tx
<1>2. QED BY <1>1

\* nextSend leaves everything as it was, or issues the one send that is now due.
LEMMA NextSendCases ==
  ASSUME NEW s \in CallId, NEW q \in Seq(Msg), NEW busy \in BOOLEAN, NEW cls \in BOOLEAN,
         NEW bag, NextSend(s, q, busy, cls, bag)
  PROVE  \/ /\ busy \/ (q = <<>> /\ ~cls)
            /\ queue' = q /\ sending' = busy /\ closeAfter' = cls /\ cmds' = bag
         \/ /\ ~busy /\ q # <<>>
            /\ queue' = Tail(q) /\ sending' = TRUE
            /\ Tx(s, Head(q)) \in Cmd /\ cmds' = Launch(bag, Tx(s, Head(q)))
         \/ /\ ~busy /\ q = <<>> /\ cls
            /\ queue' = <<>> /\ sending' = TRUE
            /\ Tx(s, Close) \in Cmd /\ cmds' = Launch(bag, Tx(s, Close))
<1>1. s # NoCall
  BY Constants
<1>2. q # <<>> => Head(q) \in 0 .. MaxMsgs
  BY Constants
<1>3. Close \in 0 .. MaxMsgs
  BY Constants DEF Close
<1>4. QED
  BY <1>1, <1>2, <1>3, CmdKinds DEF NextSend

\* A send joins a bag that has none of its call, and whose stream is installed.
LEMMA SendJoins ==
  ASSUME NEW s \in CallId, NEW bag \in [Cmd -> Nat], BagOK(bag, s), ~SendOut(bag, s),
         NEW c \in Cmd, c.kind = "send", c.seq = s
  PROVE  BagOK(Launch(bag, c), s) /\ SendOut(Launch(bag, c), s)
<1> DEFINE more == Launch(bag, c)
<1>1. more \in [Cmd -> Nat] /\ more[c] = bag[c] + 1 /\ \A d \in Cmd : d # c => more[d] = bag[d]
  BY LaunchCounts
<1> HIDE DEF more
<1>2. bag[c] = 0
  BY DEF SendOut
<1>3. \A t \in CallId : /\ more[Invoke(t)] = bag[Invoke(t)] /\ more[Open(t)] = bag[Open(t)]
                        /\ more[Recv(t)] = bag[Recv(t)]
  BY <1>1, CmdKinds
<1>4. \A d, e \in Cmd :
        d.kind = "send" /\ e.kind = "send" /\ d.seq = e.seq /\ more[d] > 0 /\ more[e] > 0 =>
          d = e /\ more[d] = 1
  BY <1>1, <1>2 DEF BagOK, SendOut
<1>5. \A t \in CallId, e \in Cmd :
        more[Open(t)] > 0 => t # s /\ (e.kind = "send" /\ e.seq = t => more[e] = 0)
  BY <1>1, <1>3 DEF BagOK
<1>6. BagOK(more, s)
  BY <1>3, <1>4, <1>5 DEF BagOK
<1>7. SendOut(more, s)
  BY <1>1, <1>2 DEF SendOut
<1>8. QED BY <1>6, <1>7 DEF more

\* Served or left alone, the queue of an open stream is being drained.
LEMMA NextSendHandsOver ==
  ASSUME NEW q \in Seq(Msg), NEW busy \in BOOLEAN, NEW cls \in BOOLEAN,
         NEW bag \in [Cmd -> Nat], stream' \in CallId, BagOK(bag, stream'),
         busy <=> SendOut(bag, stream'), NextSend(stream', q, busy, cls, bag)
  PROVE  StreamInv'
<1>1. stream' # NoCall
  BY Constants
<1>2. CASE /\ busy \/ (q = <<>> /\ ~cls)
           /\ queue' = q /\ sending' = busy /\ closeAfter' = cls /\ cmds' = bag
  BY <1>1, <1>2 DEF StreamInv, HandOver
<1>3. ASSUME NEW c \in Cmd, c.kind = "send", c.seq = stream', ~busy, sending' = TRUE,
             cmds' = Launch(bag, c)
      PROVE  StreamInv'
  <2>1. BagOK(cmds', stream') /\ SendOut(cmds', stream')
    BY <1>3, SendJoins
  <2>2. QED BY <1>1, <1>3, <2>1 DEF StreamInv, HandOver
<1>4. \A a : Tx(stream', a).kind = "send" /\ Tx(stream', a).seq = stream'
  BY DEF Tx
<1>5. QED
  BY <1>2, <1>3, <1>4, NextSendCases

\* A message is handled, or nothing: the bag only shrinks, and the stream keeps the
\* send it has or goes.
LEMMA Shrinks ==
  ASSUME CallInv, CallInv', StreamInv, \A c \in Cmd : cmds'[c] <= cmds[c],
         \/ /\ UNCHANGED <<stream, queue, sending, closeAfter>>
            /\ \A c \in Cmd : c.kind = "send" /\ c.seq = stream => cmds'[c] = cmds[c]
         \/ stream' = NoCall /\ ~sending'
  PROVE  StreamInv'
<1>1. cmds \in [Cmd -> Nat] /\ cmds' \in [Cmd -> Nat]
  BY CallInv' DEF CallInv, TypeOK
<1>2. stream' \in {stream, NoCall}
  OBVIOUS
<1>3. \A t \in CallId : cmds'[Invoke(t)] + cmds'[Open(t)] + cmds'[Recv(t)] <= 1
  <2>1. ASSUME NEW t \in CallId
        PROVE  cmds'[Invoke(t)] + cmds'[Open(t)] + cmds'[Recv(t)] <= 1
    <3>1. Invoke(t) \in Cmd /\ Open(t) \in Cmd /\ Recv(t) \in Cmd
      BY CmdKinds
    <3>2. cmds[Invoke(t)] + cmds[Open(t)] + cmds[Recv(t)] <= 1
      BY DEF StreamInv, BagOK
    <3>3. QED BY <1>1, <3>1, <3>2
  <2>2. QED BY <2>1
<1>4. \A c, d \in Cmd :
        c.kind = "send" /\ d.kind = "send" /\ c.seq = d.seq /\ cmds'[c] > 0 /\ cmds'[d] > 0 =>
          c = d /\ cmds'[c] = 1
  BY <1>1 DEF StreamInv, BagOK
<1>5. \A t \in CallId, d \in Cmd :
        cmds'[Open(t)] > 0 =>
          t # stream' /\ (d.kind = "send" /\ d.seq = t => cmds'[d] = 0)
  <2>1. \A t \in CallId : t # NoCall /\ Open(t) \in Cmd
    BY CmdKinds, Constants
  <2>2. QED BY <1>1, <1>2, <2>1 DEF StreamInv, BagOK
<1>6. HandOver'
  BY <1>1 DEF StreamInv, HandOver, SendOut
<1>7. QED BY <1>3, <1>4, <1>5, <1>6 DEF StreamInv, BagOK

\* A call begun under a fresh number has one command, its stream is still to be
\* opened, and whatever was being sent before is no longer the model's.
LEMMA BeginsAfresh ==
  ASSUME CallInv, CallInv', StreamInv, NEW n \in CallId, n > callSeq,
         NEW c \in Cmd, c.seq = n, c \in {Invoke(n), Open(n)}, cmds' = Launch(cmds, c),
         stream' = NoCall, ~sending'
  PROVE  StreamInv'
<1>1. cmds \in [Cmd -> Nat] /\ callSeq \in CallRef
  BY StreamShapes
<1>2. \A d \in Cmd : d.seq = n => cmds[d] = 0
  BY <1>1, Constants DEF CallInv, NumbersInUse, InFlight, Known
<1>3. cmds' \in [Cmd -> Nat] /\ cmds'[c] = 1 /\ \A d \in Cmd : d # c => cmds'[d] = cmds[d]
  BY <1>1, <1>2, LaunchCounts
<1>4. c.kind # "send"
  BY CmdKinds
<1>5. \A t \in CallId : cmds'[Invoke(t)] + cmds'[Open(t)] + cmds'[Recv(t)] <= 1
  <2>1. ASSUME NEW t \in CallId
        PROVE  cmds'[Invoke(t)] + cmds'[Open(t)] + cmds'[Recv(t)] <= 1
    <3>1. /\ Invoke(t) \in Cmd /\ Invoke(t).kind = "invoke" /\ Invoke(t).seq = t
          /\ Open(t) \in Cmd /\ Open(t).kind = "open" /\ Open(t).seq = t
          /\ Recv(t) \in Cmd /\ Recv(t).kind = "recv" /\ Recv(t).seq = t
      BY CmdKinds
    <3>2. CASE t = n
      <4>1. cmds[Invoke(t)] = 0 /\ cmds[Open(t)] = 0 /\ cmds[Recv(t)] = 0
        BY <1>2, <3>1, <3>2
      <4>2. Invoke(t) # Open(t) /\ Invoke(t) # Recv(t) /\ Open(t) # Recv(t)
        BY <3>1
      <4>3. QED BY <1>3, <3>1, <3>2, <4>1, <4>2
    <3>3. CASE t # n
      <4>1. cmds[Invoke(t)] + cmds[Open(t)] + cmds[Recv(t)] <= 1
        BY DEF StreamInv, BagOK
      <4>2. QED BY <1>3, <3>1, <3>3, <4>1
    <3>4. QED BY <3>2, <3>3
  <2>2. QED BY <2>1
<1>6. \A d, e \in Cmd :
        d.kind = "send" /\ e.kind = "send" /\ d.seq = e.seq /\ cmds'[d] > 0 /\ cmds'[e] > 0 =>
          d = e /\ cmds'[d] = 1
  BY <1>3, <1>4 DEF StreamInv, BagOK
<1>7. \A t \in CallId, e \in Cmd :
        cmds'[Open(t)] > 0 =>
          t # stream' /\ (e.kind = "send" /\ e.seq = t => cmds'[e] = 0)
  <2>1. \A t \in CallId : t # NoCall /\ Open(t) \in Cmd /\ Open(t).seq = t
    BY CmdKinds, Constants
  <2>2. QED BY <1>2, <1>3, <1>4, <2>1 DEF StreamInv, BagOK
<1>8. QED BY <1>5, <1>6, <1>7 DEF StreamInv, BagOK, HandOver

\* A message queued on an open stream is handed over if no send is under way.
LEMMA QueueOnStreamHandsOver ==
  ASSUME CallInv, StreamInv, QueueOnStream, stream # NoCall
  PROVE  StreamInv'
<1>1. /\ NextSend(stream', Append(queue, submitted + 1), sending, closeAfter, cmds)
      /\ stream' = stream
  BY DEF QueueOnStream
<1>2. Append(queue, submitted + 1) \in Seq(Msg)
  BY StreamShapes, Constants DEF QueueOnStream
<1>3. stream' \in CallId
  BY <1>1, StreamShapes, Constants
<1>4. QED
  BY <1>1, <1>2, <1>3, StreamShapes, NextSendHandsOver DEF StreamInv, HandOver

\* Choosing a method keeps what the stream rests on.
LEMMA SelectMethodStream ==
  ASSUME CallInv, CallInv', StreamInv, NEW m \in Methods, SelectMethod(m)
  PROVE  StreamInv'
<1>1. cmds' = cmds /\ cmds \in [Cmd -> Nat]
  BY StreamShapes DEF SelectMethod
<1>2. \/ UNCHANGED <<stream, queue, sending, closeAfter>>
      \/ stream' = NoCall /\ ~sending'
  BY DEF SelectMethod, RetireCall, DropStream, ui
<1>3. QED BY <1>1, <1>2, Shrinks

\* So does all else that a user does.
LEMMA UserStream ==
  ASSUME CallInv, CallInv', StreamInv, User
  PROVE  StreamInv'
<1>c. callSeq \in Nat /\ callSeq \in CallRef
  BY StreamShapes, Constants
<1>b. ASSUME NEW m, NEW n \in Nat, n > callSeq, StartCall(m, n) \/ StartStream(m, n)
      PROVE  StreamInv'
  <2>1. n \in CallId /\ stream' = NoCall /\ ~sending'
        /\ cmds' \in {Launch(cmds, Invoke(n)), Launch(cmds, Open(n))}
    BY <1>b DEF StartCall, StartStream, DropStream
  <2>2. QED BY <1>b, <2>1, CmdKinds, BeginsAfresh
<1>1. ASSUME NEW m \in Methods, SelectMethod(m) PROVE StreamInv'
  BY <1>1, SelectMethodStream
<1>2. ASSUME NEW m \in Methods, LoadAndSend(m) PROVE StreamInv'
  <2> DEFINE n == callSeq + (IF cancel = NoCall THEN 1 ELSE 2)
  <2>1. n \in Nat /\ n > callSeq
    BY <1>c
  <2>2. StartCall(m, n) \/ StartStream(m, n) \/ (stream # NoCall /\ QueueOnStream)
    BY <1>2 DEF LoadAndSend
  <2> HIDE DEF n
  <2>3. QED BY <1>b, <2>1, <2>2, QueueOnStreamHandsOver
<1>3. CASE Send
  <2> DEFINE n == callSeq + 1
  <2>1. n \in Nat /\ n > callSeq
    BY <1>c
  <2>2. StartCall(form, n) \/ StartStream(form, n) \/ (stream # NoCall /\ QueueOnStream)
    BY <1>3 DEF Send
  <2> HIDE DEF n
  <2>3. QED BY <1>b, <2>1, <2>2, QueueOnStreamHandsOver
<1>4. CASE EndSending
  <2>1. NextSend(stream', queue, sending, TRUE, cmds) /\ stream' = stream /\ stream # NoCall
    BY <1>4 DEF EndSending
  <2>2. stream' \in CallId
    BY <2>1, StreamShapes, Constants
  <2>3. QED
    BY <2>1, <2>2, StreamShapes, NextSendHandsOver DEF StreamInv, HandOver
<1>5. CASE Cancel
  BY <1>5, StreamShapes, Shrinks DEF Cancel
<1>6. QED BY <1>1, <1>2, <1>3, <1>4, <1>5 DEF User

\* The command whose message is handled leaves the bag.
LEMMA LandShrinks ==
  ASSUME CallInv, NEW c \in Cmd, InFlight(c)
  PROVE  /\ Land(c) \in [Cmd -> Nat]
         /\ \A d \in Cmd : Land(c)[d] <= cmds[d] /\ (d # c => Land(c)[d] = cmds[d])
<1>1. cmds \in [Cmd -> Nat]
  BY StreamShapes
<1>2. QED BY <1>1, LandCounts

\* Whatever is handled but a send of the latest call leaves the stream its send.
LEMMA HandledElsewhere ==
  ASSUME CallInv, CallInv', StreamInv, NEW c \in Cmd, InFlight(c), cmds' = Land(c),
         c.kind # "send" \/ c.seq # callSeq,
         \/ UNCHANGED <<stream, queue, sending, closeAfter>>
         \/ stream' = NoCall /\ ~sending'
  PROVE  StreamInv'
<1>1. \A d \in Cmd : cmds'[d] <= cmds[d] /\ (d # c => cmds'[d] = cmds[d])
  BY LandShrinks
<1>2. \A d \in Cmd : d.seq # NoCall
  BY CmdFields, Constants
<1>3. c.kind = "send" => c.seq # stream
  BY <1>2, StreamShapes
<1>4. QED BY <1>1, <1>3, Shrinks

\* streamOpened: the stream is installed with a receive, and its first send is issued.
LEMMA StreamOpenedStream ==
  ASSUME CallInv, CallInv', StreamInv, NEW s \in CallId, StreamOpened(s)
  PROVE  StreamInv'
<1>1. InFlight(Open(s)) /\ UNCHANGED <<callSeq, call, log>>
  BY DEF StreamOpened, shown
<1>2. Open(s) \in Cmd /\ Open(s).kind = "open" /\ Open(s).seq = s
      /\ Recv(s) \in Cmd /\ Recv(s).kind = "recv" /\ Recv(s).seq = s
      /\ Invoke(s) \in Cmd
  BY CmdKinds
<1>3. CASE s # callSeq
  BY <1>1, <1>2, <1>3, HandledElsewhere DEF StreamOpened
<1>4. CASE s = callSeq
  <2> DEFINE landed == Land(Open(s))
             bag == Launch(landed, Recv(s))
  <2>1. stream' = s /\ NextSend(s, queue, sending, closeAfter, bag)
    BY <1>4 DEF StreamOpened
  <2>2. landed \in [Cmd -> Nat] /\ landed[Open(s)] = cmds[Open(s)] - 1
        /\ \A d \in Cmd : d # Open(s) => landed[d] = cmds[d]
    BY <1>1, <1>2, StreamShapes, LandCounts
  <2> HIDE DEF landed
  <2>3. bag \in [Cmd -> Nat] /\ bag[Recv(s)] = landed[Recv(s)] + 1
        /\ \A d \in Cmd : d # Recv(s) => bag[d] = landed[d]
    BY <1>2, <2>2, LaunchCounts
  <2> HIDE DEF bag
  <2>4. cmds \in [Cmd -> Nat]
    BY StreamShapes
  <2>5. cmds[Open(s)] = 1 /\ cmds[Recv(s)] = 0 /\ cmds[Invoke(s)] = 0
    <3>1. cmds[Open(s)] > 0 /\ cmds[Invoke(s)] + cmds[Open(s)] + cmds[Recv(s)] <= 1
      BY <1>1 DEF StreamInv, BagOK, InFlight
    <3>2. QED BY <1>2, <2>4, <3>1
  <2>6. \A d \in Cmd : d # Open(s) /\ d # Recv(s) => bag[d] = cmds[d]
    BY <2>2, <2>3
  <2>7. bag[Open(s)] = 0 /\ bag[Recv(s)] = 1
    <3>1. Open(s) # Recv(s)
      BY <1>2
    <3>2. landed[Recv(s)] = cmds[Recv(s)] /\ bag[Open(s)] = landed[Open(s)]
      BY <1>2, <2>2, <2>3, <3>1
    <3>3. QED BY <2>2, <2>3, <2>5, <3>2
  <2>8. stream = NoCall /\ ~sending
    <3>1. stream # s
      BY <1>1, <1>2 DEF StreamInv, BagOK, InFlight
    <3>2. stream = NoCall
      BY <1>4, <3>1, StreamShapes
    <3>3. QED BY <3>2 DEF StreamInv, HandOver
  <2>9. ~SendOut(bag, s)
    BY <1>1, <1>2, <2>4, <2>6 DEF StreamInv, BagOK, SendOut, InFlight
  <2>10. BagOK(bag, s)
    <3>1. \A t \in CallId : bag[Invoke(t)] + bag[Open(t)] + bag[Recv(t)] <= 1
      <4>1. ASSUME NEW t \in CallId
            PROVE  bag[Invoke(t)] + bag[Open(t)] + bag[Recv(t)] <= 1
        <5>1. /\ Invoke(t) \in Cmd /\ Invoke(t).kind = "invoke" /\ Invoke(t).seq = t
              /\ Open(t) \in Cmd /\ Open(t).kind = "open" /\ Open(t).seq = t
              /\ Recv(t) \in Cmd /\ Recv(t).kind = "recv" /\ Recv(t).seq = t
          BY CmdKinds
        <5>2. CASE t = s
          <6>1. bag[Invoke(t)] = 0
            BY <1>2, <2>5, <2>6, <5>1, <5>2
          <6>2. QED BY <2>7, <5>2, <6>1
        <5>3. CASE t # s
          <6>1. cmds[Invoke(t)] + cmds[Open(t)] + cmds[Recv(t)] <= 1
            BY DEF StreamInv, BagOK
          <6>2. /\ bag[Invoke(t)] = cmds[Invoke(t)] /\ bag[Open(t)] = cmds[Open(t)]
                /\ bag[Recv(t)] = cmds[Recv(t)]
            BY <1>2, <2>6, <5>1, <5>3
          <6>3. QED BY <6>1, <6>2
        <5>4. QED BY <5>2, <5>3
      <4>2. QED BY <4>1
    <3>2. \A d, e \in Cmd :
            d.kind = "send" /\ e.kind = "send" /\ d.seq = e.seq /\ bag[d] > 0 /\ bag[e] > 0 =>
              d = e /\ bag[d] = 1
      BY <1>2, <2>6 DEF StreamInv, BagOK
    <3>3. \A t \in CallId, e \in Cmd :
            bag[Open(t)] > 0 => t # s /\ (e.kind = "send" /\ e.seq = t => bag[e] = 0)
      <4>1. \A t \in CallId : Open(t) \in Cmd /\ Open(t).kind = "open" /\ Open(t).seq = t
        BY CmdKinds
      <4>2. QED BY <1>2, <2>6, <2>7, <4>1 DEF StreamInv, BagOK
    <3>4. QED BY <3>1, <3>2, <3>3 DEF BagOK
  <2>11. QED
    BY <2>1, <2>3, <2>8, <2>9, <2>10, StreamShapes, NextSendHandsOver
<1>5. QED BY <1>3, <1>4

\* streamOpened with an error: the stream was not installed, so nothing is being sent.
LEMMA StreamRefusedStream ==
  ASSUME CallInv, CallInv', StreamInv, NEW s \in CallId, StreamRefused(s)
  PROVE  StreamInv'
<1>1. InFlight(Open(s)) /\ cmds' = Land(Open(s)) /\ UNCHANGED <<stream, sending>>
  BY DEF StreamRefused
<1>2. Open(s) \in Cmd /\ Open(s).kind = "open"
  BY CmdKinds
<1>3. CASE s # callSeq
  BY <1>1, <1>2, <1>3, HandledElsewhere DEF StreamRefused
<1>4. CASE s = callSeq
  <2>1. stream # s
    BY <1>1, <1>2 DEF StreamInv, BagOK, InFlight
  <2>2. stream = NoCall /\ ~sending
    BY <1>4, <2>1, StreamShapes DEF StreamInv, HandOver
  <2>3. QED BY <1>1, <1>2, <2>2, HandledElsewhere
<1>5. QED BY <1>3, <1>4

\* streamSent: the one send of the latest call is over, and the next one starts if
\* the stream is still the model's.
LEMMA StreamSentStream ==
  ASSUME CallInv, CallInv', StreamInv, NEW a \in 0 .. MaxMsgs, NEW outcome,
         StreamSent(a, outcome)
  PROVE  StreamInv'
<1> DEFINE landed == Land(Tx(callSeq, a))
<1>1. callSeq \in CallId /\ InFlight(Tx(callSeq, a)) /\ stream' = stream
      /\ Tx(callSeq, a) \in Cmd /\ Tx(callSeq, a).kind = "send" /\ Tx(callSeq, a).seq = callSeq
  BY CmdKinds DEF StreamSent
<1>2. cmds \in [Cmd -> Nat] /\ landed \in [Cmd -> Nat]
      /\ landed[Tx(callSeq, a)] = cmds[Tx(callSeq, a)] - 1
      /\ \A d \in Cmd : d # Tx(callSeq, a) => landed[d] = cmds[d]
  BY <1>1, StreamShapes, LandCounts
<1>3. \/ queue' = <<>> /\ sending' = FALSE /\ closeAfter' = FALSE /\ cmds' = landed
      \/ NextSend(stream, <<>>, FALSE, FALSE, landed)
      \/ NextSend(stream, queue, FALSE, closeAfter, landed)
  BY DEF StreamSent
<1> HIDE DEF landed
<1>4. \A d \in Cmd : d.kind = "send" /\ d.seq = callSeq => landed[d] = 0
  <2>1. ASSUME NEW d \in Cmd, d.kind = "send", d.seq = callSeq
        PROVE  landed[d] = 0
    <3>1. cmds[Tx(callSeq, a)] = 1 /\ (d # Tx(callSeq, a) => ~(cmds[d] > 0))
      BY <1>1, <2>1 DEF StreamInv, BagOK, InFlight
    <3>2. QED BY <1>1, <1>2, <3>1
  <2>2. QED BY <2>1
<1>5. \A d \in Cmd : landed[d] <= cmds[d] /\ (d.kind # "send" => landed[d] = cmds[d])
  BY <1>1, <1>2
<1>6. BagOK(landed, stream)
  <2>1. \A t \in CallId : landed[Invoke(t)] + landed[Open(t)] + landed[Recv(t)] <= 1
    BY <1>5, CmdKinds DEF StreamInv, BagOK
  <2>2. \A c, d \in Cmd :
          c.kind = "send" /\ d.kind = "send" /\ c.seq = d.seq /\ landed[c] > 0 /\ landed[d] > 0 =>
            c = d /\ landed[c] = 1
    BY <1>2, <1>5 DEF StreamInv, BagOK
  <2>3. \A t \in CallId, d \in Cmd :
          landed[Open(t)] > 0 =>
            t # stream /\ (d.kind = "send" /\ d.seq = t => landed[d] = 0)
    BY <1>2, <1>5, CmdKinds DEF StreamInv, BagOK
  <2>4. QED BY <2>1, <2>2, <2>3 DEF BagOK
<1>7. ~SendOut(landed, callSeq)
  BY <1>4 DEF SendOut
<1>8. CASE stream = NoCall
  <2>1. ~sending' /\ cmds' = landed
    BY <1>3, <1>8 DEF NextSend
  <2>2. QED BY <1>1, <1>6, <1>8, <2>1 DEF StreamInv, HandOver
<1>9. CASE stream # NoCall
  <2>1. stream = callSeq /\ stream' = callSeq
    BY <1>1, <1>9, StreamShapes
  <2>2. CASE queue' = <<>> /\ sending' = FALSE /\ closeAfter' = FALSE /\ cmds' = landed
    BY <1>6, <1>7, <1>9, <2>1, <2>2 DEF StreamInv, HandOver
  <2>3. CASE NextSend(stream, <<>>, FALSE, FALSE, landed)
    <3>1. NextSend(stream', <<>>, FALSE, FALSE, landed) /\ BagOK(landed, stream')
          /\ (FALSE <=> SendOut(landed, stream'))
      BY <1>6, <1>7, <2>1, <2>3
    <3>2. QED BY <1>1, <1>2, <2>1, <3>1, EmptyIsASeq, NextSendHandsOver
  <2>4. CASE NextSend(stream, queue, FALSE, closeAfter, landed)
    <3>1. NextSend(stream', queue, FALSE, closeAfter, landed) /\ BagOK(landed, stream')
          /\ (FALSE <=> SendOut(landed, stream'))
      BY <1>6, <1>7, <2>1, <2>4
    <3>2. QED BY <1>1, <1>2, <2>1, <3>1, StreamShapes, NextSendHandsOver
  <2>5. QED BY <1>3, <2>2, <2>3, <2>4
<1>10. QED BY <1>8, <1>9

\* streamReceived hands the receive on: the bag is what it was.
LEMMA ReceiveGoesOn ==
  ASSUME CallInv, StreamReceived
  PROVE  /\ stream = callSeq /\ UNCHANGED <<ui, released, call, form>>
         /\ \A d \in Cmd : cmds'[d] = cmds[d]
<1>1. callSeq \in CallId /\ InFlight(Recv(callSeq)) /\ stream # NoCall
      /\ cmds' = Launch(Land(Recv(callSeq)), Recv(stream))
      /\ UNCHANGED <<ui, released, call, form>>
  BY DEF StreamReceived
<1>2. stream = callSeq /\ Recv(callSeq) \in Cmd
  BY <1>1, StreamShapes, CmdKinds
<1>3. Land(Recv(callSeq)) \in [Cmd -> Nat]
      /\ Land(Recv(callSeq))[Recv(callSeq)] = cmds[Recv(callSeq)] - 1
      /\ cmds[Recv(callSeq)] \in Nat
      /\ \A d \in Cmd : d # Recv(callSeq) => Land(Recv(callSeq))[d] = cmds[d]
  BY <1>1, <1>2, StreamShapes, LandCounts
<1> DEFINE landed == Land(Recv(callSeq))
<1> HIDE DEF landed
<1>4. cmds'[Recv(callSeq)] = landed[Recv(callSeq)] + 1
      /\ \A d \in Cmd : d # Recv(callSeq) => cmds'[d] = landed[d]
  <2>1. landed \in [Cmd -> Nat] /\ cmds' = Launch(landed, Recv(callSeq))
    BY <1>1, <1>2, <1>3 DEF landed
  <2>2. QED BY <1>2, <2>1, LaunchCounts
<1>5. \A d \in Cmd : cmds'[d] = cmds[d]
  BY <1>3, <1>4 DEF landed
<1>6. QED BY <1>1, <1>2, <1>5

\* So does what a command reports.
LEMMA ReportStream ==
  ASSUME CallInv, CallInv', StreamInv, Report
  PROVE  StreamInv'
<1>1. ASSUME NEW s \in CallId, NEW ok \in BOOLEAN, FinishCall(s, ok) PROVE StreamInv'
  <2>1. InFlight(Invoke(s)) /\ cmds' = Land(Invoke(s))
        /\ UNCHANGED <<stream, queue, sending, closeAfter>>
    BY <1>1 DEF FinishCall
  <2>2. QED BY <2>1, CmdKinds, HandledElsewhere
<1>2. ASSUME NEW s \in CallId, StreamOpened(s) PROVE StreamInv'
  BY <1>2, StreamOpenedStream
<1>3. ASSUME NEW s \in CallId, StreamRefused(s) PROVE StreamInv'
  BY <1>3, StreamRefusedStream
<1>4. ASSUME NEW s \in CallId, StaleReceived(s) PROVE StreamInv'
  <2>1. InFlight(Recv(s)) /\ cmds' = Land(Recv(s)) /\ UNCHANGED <<stream, queue, sending, closeAfter>>
    BY <1>4 DEF StaleReceived, ui
  <2>2. QED BY <2>1, CmdKinds, HandledElsewhere
<1>5. ASSUME NEW s \in CallId, NEW a \in 0 .. MaxMsgs, StaleSent(s, a) PROVE StreamInv'
  <2>1. InFlight(Tx(s, a)) /\ cmds' = Land(Tx(s, a)) /\ s # callSeq
        /\ UNCHANGED <<stream, queue, sending, closeAfter>>
    BY <1>5 DEF StaleSent, ui
  <2>2. QED BY <2>1, CmdKinds, HandledElsewhere
<1>6. ASSUME NEW a \in 0 .. MaxMsgs, NEW outcome, StreamSent(a, outcome) PROVE StreamInv'
  BY <1>6, StreamSentStream
<1>7. CASE StreamReceived
  <2>1. cmds \in [Cmd -> Nat]
    BY StreamShapes
  <2>2. QED BY <1>7, <2>1, ReceiveGoesOn, Shrinks DEF ui
<1>8. ASSUME NEW ok \in BOOLEAN, StreamEnded(ok) PROVE StreamInv'
  <2>1. callSeq \in CallId /\ InFlight(Recv(callSeq)) /\ cmds' = Land(Recv(callSeq))
        /\ stream' = NoCall /\ ~sending'
    BY <1>8 DEF StreamEnded, DropStream
  <2>2. QED BY <2>1, CmdKinds, HandledElsewhere
<1>9. QED BY <1>1, <1>2, <1>3, <1>4, <1>5, <1>6, <1>7, <1>8 DEF Report

\* A session starts without a stream.
LEMMA InitStream == Init => StreamInv
<1> SUFFICES ASSUME Init PROVE StreamInv
  OBVIOUS
<1>1. cmds = [c \in Cmd |-> 0] /\ stream = NoCall /\ ~sending
  BY DEF Init
<1>2. \A t \in CallId : cmds[Invoke(t)] = 0 /\ cmds[Open(t)] = 0 /\ cmds[Recv(t)] = 0
  BY <1>1, CmdKinds
<1>3. QED BY <1>1, <1>2 DEF StreamInv, BagOK, HandOver

\* StreamInv is inductive beside CallInv.
LEMMA StepStream == CallInv /\ CallInv' /\ StreamInv /\ [Next]_vars => StreamInv'
<1> SUFFICES ASSUME CallInv, CallInv', StreamInv, [Next]_vars PROVE StreamInv'
  OBVIOUS
<1>1. CASE User
  BY <1>1, UserStream
<1>2. CASE Report
  BY <1>2, ReportStream
<1>3. CASE Server \/ UNCHANGED vars
  <2>1. UNCHANGED <<ui, cmds>> /\ cmds \in [Cmd -> Nat]
    BY <1>3, StreamShapes DEF Server, ServerReplies, ServerEnds, vars
  <2>2. QED BY <2>1, Shrinks DEF ui
<1>4. CASE ServicesDiscovered
  BY <1>4, StreamShapes, Shrinks DEF ServicesDiscovered, ui
<1>5. QED BY <1>1, <1>2, <1>3, <1>4 DEF Next

\* The invariants of the call and of its stream hold together.
LEMMA StreamInvHolds == Spec => [](CallInv /\ StreamInv)
<1>1. CallInv /\ StreamInv /\ [Next]_vars => (CallInv /\ StreamInv)'
  BY StepInv, StepStream
<1>2. Init => CallInv /\ StreamInv
  BY InitInv, InitStream
<1>3. QED BY <1>1, <1>2, PTL DEF Spec

\* As long as a stream has something queued, or a close to do, a send for it is under
\* way whose result starts the next one: a queue never jams, whatever was sent when.
THEOREM QueueNeverJams == Spec => []QueueIsDraining
<1>1. CallInv /\ StreamInv => QueueIsDraining
  <2> SUFFICES ASSUME CallInv, StreamInv, stream # NoCall, sending
               PROVE  \E a \in 0 .. MaxMsgs : InFlight(Tx(stream, a))
    BY DEF QueueIsDraining, StreamInv, HandOver
  <2>1. PICK c \in Cmd : c.kind = "send" /\ c.seq = stream /\ cmds[c] > 0
    BY DEF StreamInv, HandOver, SendOut
  <2>2. c.arg \in 0 .. MaxMsgs /\ c = Tx(stream, c.arg)
    BY <2>1, CmdFields
  <2>3. QED BY <2>1, <2>2 DEF InFlight
<1>2. QED BY <1>1, StreamInvHolds, PTL

\* The transport's stream is never sent on, or received from, by two goroutines at a
\* time, however late the commands of a replaced call report.
THEOREM StreamHasOneUser == Spec => []StreamContract
<1>1. CallInv /\ StreamInv => StreamContract
  <2> SUFFICES ASSUME CallInv, StreamInv, NEW s \in CallId
               PROVE  /\ cmds[Recv(s)] <= 1
                      /\ Cardinality(Sends(s)) <= 1 /\ \A c \in Sends(s) : cmds[c] = 1
                      /\ s = callSeq /\ InFlight(Recv(s)) => stream = s
    BY DEF StreamContract
  <2>1. cmds[Recv(s)] <= 1
    <3>1. cmds[Invoke(s)] \in Nat /\ cmds[Open(s)] \in Nat /\ cmds[Recv(s)] \in Nat
      BY StreamShapes, CmdKinds
    <3>2. QED BY <3>1 DEF StreamInv, BagOK
  <2>2. \A c \in Sends(s) : cmds[c] = 1
    BY DEF StreamInv, BagOK, Sends
  <2>3. Cardinality(Sends(s)) <= 1
    <3>1. \A c, d \in Sends(s) : c = d
      BY DEF StreamInv, BagOK, Sends
    <3>2. CASE Sends(s) = {}
      BY <3>2, FS_EmptySet
    <3>3. CASE Sends(s) # {}
      <4>1. PICK c : Sends(s) = {c}
        BY <3>1, <3>3
      <4>2. Cardinality({c}) = 1
        BY FS_Singleton, Zenon
      <4>3. QED BY <4>1, <4>2
    <3>4. QED BY <3>2, <3>3
  <2>4. s = callSeq /\ InFlight(Recv(s)) => stream = s
    BY Constants DEF CallInv
  <2>5. QED BY <2>1, <2>2, <2>3, <2>4
<1>2. QED BY <1>1, StreamInvHolds, PTL

-----------------------------------------------------------------------------
(* Order: what a healthy stream of method m has on the wire, in flight and in its
   queue are the messages the user sent, one after the other. *)

Carrying(m, s, bag, q, w, h, n) ==
  /\ \A i \in DOMAIN w : w[i] = i
  /\ \A i \in DOMAIN q : q[i] = n - Len(q) + i
  /\ \A a \in Msg : bag[Tx(s, a)] > 0 => a = Len(w) + 1 /\ Len(w) + 1 + Len(q) = n
  /\ (\A a \in Msg : ~(bag[Tx(s, a)] > 0)) => Len(w) + Len(q) = n
  /\ m \notin ClientStreaming =>
       n = 1 /\ (h \/ bag[Tx(s, Close)] > 0 => w = <<1>>)

\* The form holds the method of the call that is running, until a sweep empties it.
FormIsLive == \A s \in CallId : Live(s) => form \in {None, call[s]}

\* A stream that is still being opened has carried nothing and has one message queued.
Fresh ==
  callSeq # NoCall /\ InFlight(Open(callSeq)) =>
    wire = <<>> /\ ~halfClosed /\ queue = <<1>> /\ submitted = 1

OrderInv ==
  /\ FormIsLive
  /\ Fresh
  /\ Healthy => Carrying(call[stream], stream, cmds, queue, wire, halfClosed, submitted)

\* A healthy stream belongs to the call the model would cancel, and to the method on
\* the form while there is one.
LEMMA HealthyIsLive ==
  ASSUME CallInv, FormIsLive, Healthy
  PROVE  stream \in CallId /\ stream = cancel /\ form \in {None, call[stream]}
<1>1. stream \in CallId /\ stream \notin released
  BY StreamShapes, Constants DEF Healthy, Serving
<1>2. Live(stream)
  BY <1>1, Constants DEF Live, CallInv, NumbersInUse
<1>3. QED BY <1>1, <1>2 DEF CallInv, OneCallLive, FormIsLive

\* nextSend takes the message that is next in order, and closes only behind the last.
LEMMA NextSendCarries ==
  ASSUME NEW s \in CallId, NEW m, NEW q \in Seq(Msg), NEW busy \in BOOLEAN,
         NEW cls \in BOOLEAN, NEW bag \in [Cmd -> Nat], NEW w \in Seq(Msg), NEW h,
         NEW n \in Nat, busy <=> SendOut(bag, s), Carrying(m, s, bag, q, w, h, n),
         NextSend(s, q, busy, cls, bag)
  PROVE  Carrying(m, s, cmds', queue', w, h, n)
<1>1. \A a \in 0 .. MaxMsgs : Tx(s, a) \in Cmd /\ Tx(s, a).kind = "send" /\ Tx(s, a).seq = s
  BY CmdKinds
<1>2. Msg \subseteq 0 .. MaxMsgs /\ Close \in 0 .. MaxMsgs /\ Close \notin Msg
  BY Constants DEF Close
<1>3. CASE queue' = q /\ cmds' = bag
  BY <1>3
<1>4. ~busy => \A a \in 0 .. MaxMsgs : bag[Tx(s, a)] = 0
  BY <1>1 DEF SendOut
<1>5. ~busy => Len(w) + Len(q) = n
  BY <1>2, <1>4 DEF Carrying
<1>6. \A a, b \in 0 .. MaxMsgs : Tx(s, a) = Tx(s, b) => a = b
  BY TxArgs
<1>7. ASSUME ~busy, q # <<>>, queue' = Tail(q), cmds' = Launch(bag, Tx(s, Head(q)))
      PROVE  Carrying(m, s, cmds', queue', w, h, n)
  <2>1. Head(q) \in Msg /\ Head(q) = q[1] /\ 1 \in DOMAIN q
    BY <1>7
  <2>2. Head(q) = Len(w) + 1
    BY <1>5, <1>7, <2>1 DEF Carrying
  <2>3. Len(queue') = Len(q) - 1 /\ \A i \in DOMAIN queue' : i + 1 \in DOMAIN q /\ queue'[i] = q[i + 1]
    BY <1>7
  <2>4. \A i \in DOMAIN queue' : queue'[i] = n - Len(queue') + i
    <3>1. ASSUME NEW i \in DOMAIN queue'
          PROVE  queue'[i] = n - Len(queue') + i
      <4>1. i \in Nat /\ Len(q) \in Nat /\ q[i + 1] = n - Len(q) + (i + 1)
        BY <1>7, <2>3 DEF Carrying
      <4>2. QED BY <2>3, <4>1
    <3>2. QED BY <3>1
  <2> DEFINE c == Tx(s, Head(q))
  <2>a. c \in Cmd /\ cmds' = Launch(bag, c) /\ \A a \in 0 .. MaxMsgs : a # Head(q) => Tx(s, a) # c
    BY <1>1, <1>2, <1>6, <1>7, <2>1
  <2>b. bag[c] = 0
    BY <1>2, <1>4, <1>7, <2>1
  <2> HIDE DEF c
  <2>c. cmds'[c] = bag[c] + 1 /\ \A d \in Cmd : d # c => cmds'[d] = bag[d]
    BY <2>a, LaunchCounts
  <2>5. \A a \in 0 .. MaxMsgs : a # Head(q) => cmds'[Tx(s, a)] = 0
    BY <1>1, <1>4, <1>7, <2>a, <2>c
  <2>6. cmds'[Tx(s, Head(q))] > 0
    BY <2>b, <2>c DEF c
  <2>7. Len(w) \in Nat /\ Len(q) \in Nat
    OBVIOUS
  <2>8. \A a \in Msg : cmds'[Tx(s, a)] > 0 => a = Len(w) + 1 /\ Len(w) + 1 + Len(queue') = n
    <3>1. \A a \in Msg : cmds'[Tx(s, a)] > 0 => a = Head(q)
      BY <1>2, <2>5
    <3>2. Len(w) + 1 + Len(queue') = n
      BY <1>5, <1>7, <2>3, <2>7
    <3>3. QED BY <2>2, <3>1, <3>2
  <2>9. m \notin ClientStreaming => n = 1 /\ (h \/ cmds'[Tx(s, Close)] > 0 => w = <<1>>)
    BY <1>2, <2>1, <2>5 DEF Carrying
  <2>10. QED BY <2>1, <2>4, <2>6, <2>8, <2>9 DEF Carrying
<1>8. ASSUME ~busy, q = <<>>, queue' = <<>>, cmds' = Launch(bag, Tx(s, Close))
      PROVE  Carrying(m, s, cmds', queue', w, h, n)
  <2>1. \A a \in Msg : cmds'[Tx(s, a)] = 0
    BY <1>1, <1>2, <1>4, <1>6, <1>8, LaunchCounts
  <2>2. Len(w) = n /\ Len(queue') = 0 /\ Len(w) + Len(queue') = n
    BY <1>5, <1>8
  <2>3. n = 1 => w = <<1>>
    BY <2>2 DEF Carrying
  <2>4. QED BY <1>8, <2>1, <2>2, <2>3 DEF Carrying
<1>9. QED BY <1>3, <1>7, <1>8, NextSendCases

\* A step that leaves the stream, its sends and its queue alone.
LEMMA Steady ==
  ASSUME CallInv, OrderInv,
         UNCHANGED <<callSeq, stream, form, call, queue, sent>>,
         released \subseteq released',
         \A a \in 0 .. MaxMsgs : cmds'[Tx(stream, a)] = cmds[Tx(stream, a)],
         callSeq # NoCall /\ cmds'[Open(callSeq)] > 0 => InFlight(Open(callSeq)),
         Healthy' => Healthy
  PROVE  OrderInv'
<1>1. FormIsLive'
  BY DEF OrderInv, FormIsLive, Live
<1>2. Fresh'
  BY DEF OrderInv, Fresh, InFlight, sent
<1>3. Msg \subseteq 0 .. MaxMsgs /\ Close \in 0 .. MaxMsgs
  BY Constants DEF Close
<1>4. Healthy' => Carrying(call[stream], stream, cmds', queue, wire, halfClosed, submitted)
  BY <1>3 DEF OrderInv, Carrying
<1>5. QED BY <1>1, <1>2, <1>4 DEF OrderInv, sent

\* A step after which the model has no stream.
LEMMA StreamGone ==
  ASSUME FormIsLive', stream' = NoCall, Fresh'
  PROVE  OrderInv'
BY DEF OrderInv, Healthy, Serving

\* A call begun under a fresh number: the form holds its method, and a stream starts
\* with its first message queued.
LEMMA BeginsInOrder ==
  ASSUME CallInv, CallInv', NEW m \in Methods, NEW n \in Nat, n > callSeq, form' = m,
         StartCall(m, n) \/ StartStream(m, n)
  PROVE  OrderInv'
<1>1. n \in CallId /\ callSeq' = n /\ cancel' = n /\ stream' = NoCall
      /\ call' = [call EXCEPT ![n] = m]
  BY DEF StartCall, StartStream, DropStream
<1>2. FormIsLive'
  BY <1>1, StreamShapes DEF FormIsLive, CallInv, OneCallLive
<1>3. Fresh'
  <2>1. CASE StartStream(m, n)
    BY <2>1 DEF StartStream, Unopened, Fresh
  <2>2. CASE StartCall(m, n)
    <3>1. cmds' = Launch(cmds, Invoke(n))
      BY <2>2 DEF StartCall
    <3>2. Open(n) \in Cmd /\ Open(n).seq = n /\ Invoke(n) \in Cmd /\ Open(n) # Invoke(n)
      BY <1>1, CmdKinds
    <3>3. cmds'[Open(n)] = cmds[Open(n)]
      BY <3>1, <3>2, StreamShapes, LaunchCounts
    <3>4. ~InFlight(Open(n))
      BY <3>2, StreamShapes, Constants DEF CallInv, NumbersInUse, Known
    <3>5. QED BY <1>1, <3>3, <3>4 DEF Fresh, InFlight
  <2>3. QED BY <2>1, <2>2
<1>4. QED BY <1>1, <1>2, <1>3, StreamGone

\* An open stream has been opened.
LEMMA NotOpening ==
  ASSUME CallInv, StreamInv, stream # NoCall
  PROVE  stream = callSeq /\ stream \in CallId /\ cmds[Open(callSeq)] = 0
<1>1. stream = callSeq /\ stream \in CallId
  BY StreamShapes, Constants
<1>2. cmds[Open(callSeq)] \in Nat
  BY <1>1, StreamShapes, CmdKinds
<1>3. QED BY <1>1, <1>2, CmdKinds DEF StreamInv, BagOK

\* One more message, behind what the stream already carries.
LEMMA QueueOnStreamInOrder ==
  ASSUME CallInv, StreamInv, StreamInv', CallInv', OrderInv, QueueOnStream, stream # NoCall,
         \/ UNCHANGED <<form, panel, log>> /\ form \in ClientStreaming
         \/ cancel = NoCall
  PROVE  OrderInv'
<1>1. UNCHANGED <<callSeq, cancel, stream, call, released, server, halfClosed, wire>>
      /\ submitted' = submitted + 1
      /\ NextSend(stream, Append(queue, submitted + 1), sending, closeAfter, cmds)
  BY DEF QueueOnStream
<1>2. Fresh'
  BY <1>1, NotOpening, CmdKinds DEF Fresh, StreamInv, BagOK, InFlight
<1>3. FormIsLive'
  <2>1. CASE cancel = NoCall
    BY <1>1, <2>1, Constants DEF FormIsLive, CallInv, OneCallLive, Live
  <2>2. CASE UNCHANGED form
    BY <1>1, <2>2 DEF OrderInv, FormIsLive, Live
  <2>3. QED BY <2>1, <2>2
<1>4. ASSUME Healthy'
      PROVE  Carrying(call[stream], stream, cmds', queue', wire, halfClosed, submitted + 1)
  <2>1. stream \in CallId /\ stream = cancel /\ cancel # NoCall
    <3>1. stream \in CallId /\ stream \notin released /\ call[stream] # None
      BY <1>1, <1>4, NotOpening DEF Healthy, Serving, CallInv, NumbersInUse
    <3>2. QED BY <3>1, Constants DEF CallInv, OneCallLive, Live
  <2>2. UNCHANGED <<form, panel, log>> /\ form \in ClientStreaming
    BY <2>1
  <2>3. Healthy
    BY <1>1, <1>4, <2>2 DEF Healthy, Serving, server
  <2>4. call[stream] \in ClientStreaming
    <3>1. form # None
      BY <2>2, MethodsAssumption
    <3>2. QED BY <2>2, <2>3, <3>1, HealthyIsLive DEF OrderInv
  <2> DEFINE more == Append(queue, submitted + 1)
  <2>5. more \in Seq(Msg) /\ Len(more) = Len(queue) + 1 /\ submitted \in Nat
        /\ queue \in Seq(Msg) /\ wire \in Seq(Msg)
    BY StreamShapes, Constants DEF QueueOnStream
  <2>6. \A i \in DOMAIN more : more[i] = submitted + 1 - Len(more) + i
    <3>1. \A i \in DOMAIN queue : queue[i] = submitted - Len(queue) + i
      BY <2>3 DEF OrderInv, Carrying
    <3>2. QED BY <2>5, <3>1
  <2>7. Carrying(call[stream], stream, cmds, queue, wire, halfClosed, submitted)
    BY <2>3 DEF OrderInv
  <2> HIDE DEF more
  <2>8. Carrying(call[stream], stream, cmds, more, wire, halfClosed, submitted + 1)
    BY <2>4, <2>5, <2>6, <2>7 DEF Carrying
  <2>9. sending <=> SendOut(cmds, stream)
    BY DEF StreamInv, HandOver
  <2>10. NextSend(stream, more, sending, closeAfter, cmds)
    BY <1>1 DEF more
  <2>11. submitted + 1 \in Nat
    BY <2>5
  <2>12. QED
    BY <2>1, <2>5, <2>8, <2>9, <2>10, <2>11, StreamShapes, NextSendCarries
<1>5. QED BY <1>1, <1>2, <1>3, <1>4 DEF OrderInv

\* Choosing a method leaves the order of the messages alone.
LEMMA SelectMethodInOrder ==
  ASSUME CallInv, OrderInv, NEW m \in Methods, SelectMethod(m)
  PROVE  OrderInv'
<1>1. UNCHANGED <<cmds, call>>
  BY DEF SelectMethod
<1>2. CASE cancel = NoCall
  <2>1. UNCHANGED <<ui, released, server, sent>>
    BY <1>2 DEF SelectMethod, RetireCall
  <2>2. \A s \in CallId : ~Live(s)
    BY <1>2, Constants DEF CallInv, OneCallLive
  <2>3. ~Healthy'
    <3>1. stream \in CallId => ~(stream \notin released /\ call[stream] # None)
      BY <2>2 DEF Live
    <3>2. stream # NoCall => stream \in CallId /\ call[stream] # None
      BY StreamShapes, Constants DEF CallInv, NumbersInUse
    <3>3. QED BY <2>1, <3>1, <3>2 DEF Healthy, Serving, ui
  <2>4. FormIsLive'
    BY <1>1, <2>1, <2>2 DEF FormIsLive, Live
  <2>5. Fresh'
    BY <1>1, <2>1 DEF OrderInv, Fresh, InFlight, ui, sent
  <2>6. QED BY <2>3, <2>4, <2>5 DEF OrderInv
<1>3. CASE cancel # NoCall
  <2>1. callSeq' = callSeq + 1 /\ callSeq < MaxCalls /\ stream' = NoCall
        /\ released' = released \union Held4Release
    BY <1>3 DEF SelectMethod, RetireCall, DropStream
  <2>2. \A s \in CallId : ~Live(s)'
    BY <1>1, <1>3, <2>1 DEF CallInv, OneCallLive, Live, Held4Release
  <2>3. ~InFlight(Open(callSeq))'
    <3>1. callSeq' \in CallId /\ callSeq' > callSeq
      BY <2>1, StreamShapes, Constants
    <3>2. \A t \in CallId : InFlight(Open(t)) => t <= callSeq
      BY CmdKinds DEF CallInv, NumbersInUse, Known
    <3>3. ~(callSeq' <= callSeq)
      BY <2>1, StreamShapes, Constants
    <3>4. QED BY <1>1, <3>1, <3>2, <3>3 DEF InFlight
  <2>4. FormIsLive' /\ Fresh'
    BY <2>2, <2>3 DEF FormIsLive, Fresh
  <2>5. QED BY <2>1, <2>4, StreamGone
<1>4. QED BY <1>2, <1>3

\* All else that a user does keeps it.
LEMMA UserInOrder ==
  ASSUME CallInv, CallInv', StreamInv, StreamInv', OrderInv, User
  PROVE  OrderInv'
<1>c. callSeq \in Nat /\ callSeq \in CallRef
  BY StreamShapes, Constants
<1>1. ASSUME NEW m \in Methods, SelectMethod(m) PROVE OrderInv'
  BY <1>1, SelectMethodInOrder
<1>2. ASSUME NEW m \in Methods, LoadAndSend(m) PROVE OrderInv'
  <2> DEFINE n == callSeq + (IF cancel = NoCall THEN 1 ELSE 2)
  <2>1. n \in Nat /\ n > callSeq
    BY <1>c
  <2>2. /\ form' = m
        /\ \/ StartCall(m, n) \/ StartStream(m, n)
           \/ stream # NoCall /\ cancel = NoCall /\ QueueOnStream
    BY <1>2 DEF LoadAndSend
  <2> HIDE DEF n
  <2>3. QED BY <2>1, <2>2, BeginsInOrder, QueueOnStreamInOrder
<1>3. CASE Send
  <2> DEFINE n == callSeq + 1
  <2>1. n \in Nat /\ n > callSeq /\ form \in Methods
    BY <1>3, <1>c DEF Send, CallInv, TypeOK
  <2>2. /\ form' = form
        /\ \/ StartCall(form, n) \/ StartStream(form, n)
           \/ /\ stream # NoCall /\ QueueOnStream
              /\ form \in ClientStreaming /\ UNCHANGED <<panel, log>>
    BY <1>3 DEF Send
  <2> HIDE DEF n
  <2>3. QED BY <2>1, <2>2, BeginsInOrder, QueueOnStreamInOrder
<1>4. CASE EndSending
  <2>1. /\ NextSend(stream, queue, sending, TRUE, cmds) /\ stream # NoCall
        /\ UNCHANGED <<callSeq, cancel, stream, form, panel, log, call, released, server, sent>>
    BY <1>4 DEF EndSending, shown
  <2>2. Fresh'
    BY <2>1, NotOpening, CmdKinds DEF Fresh, StreamInv, BagOK, InFlight
  <2>3. FormIsLive'
    BY <2>1 DEF OrderInv, FormIsLive, Live
  <2>4. ASSUME Healthy'
        PROVE  Carrying(call[stream], stream, cmds', queue', wire, halfClosed, submitted)
    <3>1. Healthy
      BY <2>1, <2>4 DEF Healthy, Serving, server
    <3>2. Carrying(call[stream], stream, cmds, queue, wire, halfClosed, submitted)
      BY <3>1 DEF OrderInv
    <3>3. sending <=> SendOut(cmds, stream)
      BY <2>1 DEF StreamInv, HandOver
    <3>4. stream \in CallId /\ submitted \in Nat
      BY <2>1, NotOpening, StreamShapes, Constants
    <3>5. QED BY <2>1, <3>2, <3>3, <3>4, StreamShapes, NextSendCarries
  <2>5. QED BY <2>1, <2>2, <2>3, <2>4 DEF OrderInv, sent
<1>5. CASE Cancel
  <2>1. UNCHANGED <<callSeq, stream, queue, form, panel, log, cmds, call, server, sent>>
        /\ released \subseteq released'
    BY <1>5 DEF Cancel, shown
  <2>2. Healthy' => Healthy
    BY <2>1 DEF Healthy, Serving, server
  <2>3. QED BY <2>1, <2>2, Steady DEF InFlight
<1>6. QED BY <1>1, <1>2, <1>3, <1>4, <1>5 DEF User

\* A message of another kind than a send is handled, and the stream is left alone.
LEMMA HandledInOrder ==
  ASSUME CallInv, StreamInv, OrderInv, NEW c \in Cmd, InFlight(c), cmds' = Land(c),
         c.kind # "send" \/ c.seq # callSeq,
         UNCHANGED <<callSeq, stream, form, call, queue, sent>>,
         released \subseteq released', Healthy' => Healthy
  PROVE  OrderInv'
<1>1. \A d \in Cmd : cmds'[d] <= cmds[d] /\ (d # c => cmds'[d] = cmds[d])
  BY LandShrinks
<1>2. cmds \in [Cmd -> Nat] /\ cmds' \in [Cmd -> Nat]
  BY StreamShapes, LandShrinks
<1>3. callSeq # NoCall /\ cmds'[Open(callSeq)] > 0 => InFlight(Open(callSeq))
  <2>1. callSeq # NoCall => Open(callSeq) \in Cmd
    BY StreamShapes, CmdKinds, Constants
  <2>2. QED BY <1>1, <1>2, <2>1 DEF InFlight
<1>4. CASE stream = NoCall
  <2>1. FormIsLive' /\ Fresh'
    BY <1>3 DEF OrderInv, FormIsLive, Live, Fresh, InFlight, sent
  <2>2. QED BY <1>4, <2>1, StreamGone
<1>5. CASE stream # NoCall
  <2>1. stream = callSeq /\ stream \in CallId
    BY <1>5, NotOpening
  <2>2. \A a \in 0 .. MaxMsgs : cmds'[Tx(stream, a)] = cmds[Tx(stream, a)]
    BY <1>1, <2>1, CmdKinds
  <2>3. QED BY <1>3, <2>2, Steady
<1>6. QED BY <1>4, <1>5

\* A call that reports has no messages waiting to be in order.
LEMMA FinishCallInOrder ==
  ASSUME CallInv, StreamInv, OrderInv, NEW s \in CallId, NEW ok, FinishCall(s, ok)
  PROVE  OrderInv'
<1>1. InFlight(Invoke(s)) /\ cmds' = Land(Invoke(s)) /\ released' = released \union {s}
      /\ log' = (IF s = callSeq THEN <<>> ELSE log)
      /\ UNCHANGED <<callSeq, stream, queue, form, call, server, sent>>
  BY DEF FinishCall
<1>2. Healthy' => Healthy
  <2>1. CASE s = callSeq
    BY <1>1, <2>1, StreamShapes DEF Healthy, Serving
  <2>2. CASE s # callSeq
    BY <1>1, <2>2 DEF FinishCall, Healthy, Serving, server
  <2>3. QED BY <2>1, <2>2
<1>3. QED BY <1>1, <1>2, CmdKinds, HandledInOrder

\* streamOpened: the first message goes out on an empty wire.
LEMMA StreamOpenedInOrder ==
  ASSUME CallInv, StreamInv, StreamInv', OrderInv, NEW s \in CallId, StreamOpened(s)
  PROVE  OrderInv'
<1>1. InFlight(Open(s)) /\ UNCHANGED <<callSeq, form, panel, log, call, server, sent>>
  BY DEF StreamOpened, shown
<1>2. CASE s # callSeq
  <2>1. cmds' = Land(Open(s)) /\ released' = released \union {s} /\ UNCHANGED <<stream, queue>>
    BY <1>2 DEF StreamOpened
  <2>2. Healthy' => Healthy
    BY <1>1, <2>1 DEF Healthy, Serving, server
  <2>3. QED BY <1>1, <2>1, <2>2, CmdKinds, HandledInOrder
<1>3. CASE s = callSeq
  <2> DEFINE landed == Land(Open(s))
             bag == Launch(landed, Recv(s))
  <2>1. stream' = s /\ NextSend(s, queue, sending, closeAfter, bag) /\ UNCHANGED released
    BY <1>3 DEF StreamOpened
  <2>2. wire = <<>> /\ ~halfClosed /\ queue = <<1>> /\ submitted = 1
    BY <1>1, <1>3, Constants DEF OrderInv, Fresh
  <2>3. Open(s) \in Cmd /\ Open(s).kind = "open" /\ Recv(s) \in Cmd /\ Recv(s).kind = "recv"
    BY CmdKinds
  <2>4. landed \in [Cmd -> Nat] /\ \A d \in Cmd : d # Open(s) => landed[d] = cmds[d]
    BY <1>1, <2>3, LandShrinks
  <2> HIDE DEF landed
  <2>5. bag \in [Cmd -> Nat] /\ \A d \in Cmd : d # Recv(s) => bag[d] = landed[d]
    BY <2>3, <2>4, LaunchCounts
  <2> HIDE DEF bag
  <2>6. \A d \in Cmd : d.kind = "send" /\ d.seq = s => bag[d] = 0
    BY <1>1, <2>3, <2>4, <2>5 DEF StreamInv, BagOK, InFlight
  <2>7. \A a \in 0 .. MaxMsgs : bag[Tx(s, a)] = 0
    BY <2>6, CmdKinds
  <2>8. Msg \subseteq 0 .. MaxMsgs /\ Close \in 0 .. MaxMsgs
    BY Constants DEF Close
  <2>9. Carrying(call[s], s, bag, queue, wire, halfClosed, submitted)
    BY <2>2, <2>7, <2>8 DEF Carrying
  <2>10. ~sending
    <3>1. stream # s
      BY <1>1, <2>3 DEF StreamInv, BagOK, InFlight
    <3>2. stream = NoCall
      BY <1>3, <3>1, StreamShapes
    <3>3. QED BY <3>2 DEF StreamInv, HandOver
  <2>11. sending <=> SendOut(bag, s)
    BY <2>6, <2>10 DEF SendOut
  <2>12. Carrying(call[s], s, cmds', queue', wire, halfClosed, submitted)
    <3>1. submitted \in Nat
      BY <2>2
    <3>2. QED BY <2>1, <2>5, <2>9, <2>11, <3>1, StreamShapes, NextSendCarries
  <2>13. FormIsLive'
    BY <1>1, <2>1 DEF OrderInv, FormIsLive, Live
  <2>14. Fresh'
    BY <1>1, <1>3, <2>1, <2>3 DEF Fresh, StreamInv, BagOK, InFlight
  <2>15. QED BY <1>1, <2>1, <2>12, <2>13, <2>14 DEF OrderInv, sent
<1>4. QED BY <1>2, <1>3

\* Neither has a stream that was refused.
LEMMA StreamRefusedInOrder ==
  ASSUME CallInv, StreamInv, OrderInv, NEW s \in CallId, StreamRefused(s)
  PROVE  OrderInv'
<1>1. InFlight(Open(s)) /\ cmds' = Land(Open(s)) /\ released' = released \union {s}
      /\ UNCHANGED <<callSeq, stream, form, call, server, sent>>
  BY DEF StreamRefused
<1>2. CASE s # callSeq
  <2>1. UNCHANGED <<queue, panel, log>>
    BY <1>2 DEF StreamRefused
  <2>2. Healthy' => Healthy
    BY <1>1, <2>1 DEF Healthy, Serving, server
  <2>3. QED BY <1>1, <2>1, <2>2, CmdKinds, HandledInOrder
<1>3. CASE s = callSeq
  <2>1. stream' = NoCall
    <3>1. stream # s
      BY <1>1, CmdKinds DEF StreamInv, BagOK, InFlight
    <3>2. QED BY <1>1, <1>3, <3>1, StreamShapes
  <2>2. FormIsLive'
    BY <1>1 DEF OrderInv, FormIsLive, Live
  <2>3. cmds'[Open(s)] = 0
    <3>1. Open(s) \in Cmd /\ cmds[Open(s)] \in Nat /\ cmds[Invoke(s)] \in Nat /\ cmds[Recv(s)] \in Nat
      BY CmdKinds, StreamShapes
    <3>2. cmds'[Open(s)] = cmds[Open(s)] - 1
      BY <1>1, <3>1, StreamShapes, LandCounts
    <3>3. cmds[Invoke(s)] + cmds[Open(s)] + cmds[Recv(s)] <= 1 /\ cmds[Open(s)] > 0
      BY <1>1 DEF StreamInv, BagOK, InFlight
    <3>4. QED BY <3>1, <3>2, <3>3
  <2>4. Fresh'
    BY <1>1, <1>3, <2>3 DEF Fresh, InFlight
  <2>5. QED BY <2>1, <2>2, <2>4, StreamGone
<1>4. QED BY <1>2, <1>3

\* A line more in the log of a healthy stream was one of a healthy stream.
LEMMA LogGrows ==
  ASSUME log \in Seq(LogLines), NEW line \in LogLines, log' = Append(log, line),
         \A i \in DOMAIN log' : log'[i] # "failed"
  PROVE  line # "failed" /\ \A i \in DOMAIN log : log[i] # "failed"
<1>1. Len(log) + 1 \in DOMAIN log' /\ log'[Len(log) + 1] = line
  OBVIOUS
<1>2. \A i \in DOMAIN log : i \in DOMAIN log' /\ log'[i] = log[i]
  OBVIOUS
<1>3. QED BY <1>1, <1>2

\* streamSent: a message that went out follows the ones that did, and the next one is
\* the first of the queue.
LEMMA StreamSentInOrder ==
  ASSUME CallInv, StreamInv, StreamInv', OrderInv, NEW a \in 0 .. MaxMsgs, NEW outcome,
         StreamSent(a, outcome)
  PROVE  OrderInv'
<1> DEFINE landed == Land(Tx(callSeq, a))
           line == IF a = Close THEN "closed" ELSE "sent"
<1>1. callSeq \in CallId /\ InFlight(Tx(callSeq, a)) /\ outcome \in SendOutcomes(callSeq, a)
      /\ Carried(a, outcome)
      /\ UNCHANGED <<callSeq, cancel, stream, form, panel, responses, call, released, server,
                     submitted>>
  BY DEF StreamSent
<1>2. Tx(callSeq, a) \in Cmd /\ Tx(callSeq, a).kind = "send" /\ Tx(callSeq, a).seq = callSeq
      /\ Open(callSeq) \in Cmd /\ Open(callSeq).kind = "open"
  BY <1>1, CmdKinds
<1>3. landed \in [Cmd -> Nat] /\ cmds \in [Cmd -> Nat]
      /\ landed[Tx(callSeq, a)] = cmds[Tx(callSeq, a)] - 1
      /\ \A d \in Cmd : d # Tx(callSeq, a) => landed[d] = cmds[d]
  BY <1>1, <1>2, StreamShapes, LandCounts
<1>4. \/ outcome = "eof"
         /\ cmds' = landed
      \/ outcome = "failed" /\ log' = Append(log, "failed")
         /\ NextSend(stream, <<>>, FALSE, FALSE, landed)
      \/ outcome = "ok" /\ log' = Append(log, line)
         /\ NextSend(stream, queue, FALSE, closeAfter, landed)
  BY DEF StreamSent
<1> HIDE DEF landed
<1>5. FormIsLive'
  BY <1>1 DEF OrderInv, FormIsLive, Live
<1>6. Fresh'
  <2>1. cmds[Open(callSeq)] = 0
    <3>1. cmds[Open(callSeq)] \in Nat
      BY <1>2, <1>3
    <3>2. ~(cmds[Open(callSeq)] > 0)
      BY <1>1, <1>2 DEF StreamInv, BagOK, InFlight
    <3>3. QED BY <3>1, <3>2
  <2>2. landed[Open(callSeq)] = 0
    BY <1>2, <1>3, <2>1
  <2>3. cmds'[Open(callSeq)] = 0
    <3>1. CASE cmds' = landed
      BY <2>2, <3>1
    <3>2. ASSUME NEW q \in Seq(Msg), NEW cls, NextSend(stream, q, FALSE, cls, landed)
          PROVE  cmds'[Open(callSeq)] = 0
      <4>1. stream \in CallRef
        BY StreamShapes, Constants
      <4>2. \A d \in Cmd : d.kind # "send" => cmds'[d] = landed[d]
        BY <1>3, <3>2, <4>1, NextSendStep
      <4>3. QED BY <1>2, <2>2, <4>2
    <3>3. <<>> \in Seq(Msg) /\ queue \in Seq(Msg)
      BY StreamShapes
    <3>4. QED BY <1>4, <3>1, <3>2, <3>3
  <2>4. QED BY <1>1, <2>3 DEF Fresh, InFlight
<1>7. ASSUME Healthy'
      PROVE  Carrying(call[stream], stream, cmds', queue', wire', halfClosed', submitted)
  <2>1. stream = callSeq /\ callSeq \notin released /\ over = "no" /\ stream # NoCall
    BY <1>1, <1>7, StreamShapes DEF Healthy, Serving, server
  <2>2. outcome # "eof"
    BY <1>1, <2>1 DEF SendOutcomes
  <2>3. \A i \in DOMAIN log' : log'[i] # "failed"
    BY <1>7 DEF Healthy
  <2>4. outcome # "failed"
    BY <1>4, <2>3, StreamShapes, LogGrows DEF LogLines
  <2>5. outcome = "ok" /\ log' = Append(log, line)
        /\ NextSend(stream, queue, FALSE, closeAfter, landed)
    BY <1>4, <2>2, <2>4
  <2>6. Healthy
    <3>1. line \in LogLines
      BY DEF LogLines
    <3>2. \A i \in DOMAIN log : log[i] # "failed"
      BY <2>3, <2>5, <3>1, StreamShapes, LogGrows
    <3>3. panel.state = "streaming"
      BY <1>1, <1>7 DEF Healthy
    <3>4. QED BY <1>1, <2>1, <3>2, <3>3 DEF Healthy, Serving
  <2>7. Carrying(call[stream], stream, cmds, queue, wire, halfClosed, submitted)
    BY <2>6 DEF OrderInv
  <2>8. \A b \in 0 .. MaxMsgs : /\ landed[Tx(stream, b)] = 0
                                /\ b # a => cmds[Tx(stream, b)] = 0
    <3>1. ASSUME NEW b \in 0 .. MaxMsgs
          PROVE  landed[Tx(stream, b)] = 0 /\ (b # a => cmds[Tx(stream, b)] = 0)
      <4>1. Tx(stream, b) \in Cmd /\ Tx(stream, b).kind = "send" /\ Tx(stream, b).seq = callSeq
        BY <1>1, <2>1, CmdKinds
      <4>2. cmds[Tx(stream, b)] \in Nat /\ (b # a => Tx(stream, b) # Tx(callSeq, a))
        BY <1>3, <2>1, <4>1, TxArgs
      <4>3. cmds[Tx(callSeq, a)] = 1
            /\ (cmds[Tx(stream, b)] > 0 => Tx(stream, b) = Tx(callSeq, a))
        BY <1>1, <1>2, <4>1 DEF StreamInv, BagOK, InFlight
      <4>4. QED BY <1>3, <2>1, <4>1, <4>2, <4>3
    <3>2. QED BY <3>1
  <2>9. Msg \subseteq 0 .. MaxMsgs /\ Close \in 0 .. MaxMsgs /\ (a # Close => a \in Msg)
        /\ Close \notin Msg
    BY Constants DEF Close
  <2>10. cmds[Tx(stream, a)] > 0
    BY <1>1, <2>1 DEF InFlight
  <2>11. Carrying(call[stream], stream, landed, queue, wire', halfClosed', submitted)
    <3>1. CASE a = Close
      <4>1. wire' = wire /\ halfClosed' = TRUE
        BY <1>1, <2>5, <3>1 DEF Carried
      <4>2. \A b \in Msg : ~(cmds[Tx(stream, b)] > 0)
        BY <2>8, <2>9, <3>1
      <4>3. QED BY <2>7, <2>8, <2>9, <2>10, <3>1, <4>1, <4>2 DEF Carrying
    <3>2. CASE a # Close
      <4>1. a \in Msg /\ ~halfClosed /\ wire' = Append(wire, a) /\ halfClosed' = halfClosed
        <5>1. outcome = "ok" /\ outcome \in SendOutcomes(callSeq, a)
          BY <1>1, <2>5
        <5>2. ~halfClosed
          BY <3>2, <5>1 DEF SendOutcomes
        <5>3. wire' = (IF outcome = "ok" /\ a # Close THEN Append(wire, a) ELSE wire)
              /\ halfClosed' = (halfClosed \/ (outcome = "ok" /\ a = Close))
          BY <1>1 DEF Carried
        <5>4. wire' = Append(wire, a)
          BY <3>2, <5>1, <5>3
        <5>5. halfClosed' = halfClosed
          BY <3>2, <5>2, <5>3, StreamShapes
        <5>6. QED BY <2>9, <3>2, <5>2, <5>4, <5>5
      <4>2. a = Len(wire) + 1 /\ Len(wire) + 1 + Len(queue) = submitted
        BY <2>7, <2>10, <4>1 DEF Carrying
      <4>3. wire \in Seq(Msg) /\ queue \in Seq(Msg) /\ submitted \in Nat
        BY StreamShapes, Constants
      <4>4. Len(wire') = Len(wire) + 1 /\ \A i \in DOMAIN wire' : wire'[i] = i
        <5>1. \A i \in DOMAIN wire : wire[i] = i
          BY <2>7 DEF Carrying
        <5>2. QED BY <4>1, <4>2, <4>3, <5>1
      <4>5. Len(wire') + Len(queue) = submitted
        BY <4>2, <4>3, <4>4
      <4>6. QED BY <2>7, <2>8, <2>9, <4>1, <4>4, <4>5 DEF Carrying
    <3>3. QED BY <3>1, <3>2
  <2>12. ~SendOut(landed, stream)
    <3>1. ASSUME NEW c \in Cmd, c.kind = "send", c.seq = stream
          PROVE  landed[c] = 0
      BY <2>8, <3>1, CmdFields
    <3>2. QED BY <3>1 DEF SendOut
  <2>13. wire' \in Seq(Msg) /\ submitted \in Nat /\ stream \in CallId
    <3>1. wire' = wire \/ (a \in Msg /\ wire' = Append(wire, a))
      BY <1>1, <2>5, <2>9 DEF Carried
    <3>2. QED BY <1>1, <2>1, <3>1, StreamShapes, Constants
  <2>14. QED
    BY <1>3, <2>5, <2>11, <2>12, <2>13, StreamShapes, NextSendCarries
<1>8. QED BY <1>1, <1>5, <1>6, <1>7 DEF OrderInv

\* What a command reports keeps the order.
LEMMA ReportInOrder ==
  ASSUME CallInv, CallInv', StreamInv, StreamInv', OrderInv, Report
  PROVE  OrderInv'
<1>1. ASSUME NEW s \in CallId, NEW ok \in BOOLEAN, FinishCall(s, ok) PROVE OrderInv'
  BY <1>1, FinishCallInOrder
<1>2. ASSUME NEW s \in CallId, StreamOpened(s) PROVE OrderInv'
  BY <1>2, StreamOpenedInOrder
<1>3. ASSUME NEW s \in CallId, StreamRefused(s) PROVE OrderInv'
  BY <1>3, StreamRefusedInOrder
<1>4. ASSUME NEW c \in Cmd, InFlight(c), cmds' = Land(c), c.seq # callSeq,
             UNCHANGED <<ui, shown, call, released, server, sent>>
      PROVE  OrderInv'
  <2>1. Healthy' => Healthy
    BY <1>4 DEF Healthy, Serving, ui, shown, server
  <2>2. QED BY <1>4, <2>1, HandledInOrder DEF ui, shown
<1>5. ASSUME NEW s \in CallId, StaleReceived(s) PROVE OrderInv'
  BY <1>4, <1>5, CmdKinds DEF StaleReceived
<1>6. ASSUME NEW s \in CallId, NEW a \in 0 .. MaxMsgs, StaleSent(s, a) PROVE OrderInv'
  BY <1>4, <1>6, CmdKinds DEF StaleSent
<1>7. ASSUME NEW a \in 0 .. MaxMsgs, NEW outcome, StreamSent(a, outcome) PROVE OrderInv'
  BY <1>7, StreamSentInOrder
<1>8. CASE StreamReceived
  <2>1. /\ callSeq \in CallId /\ stream = callSeq
        /\ UNCHANGED <<callSeq, stream, form, panel, call, queue, sent, released, over>>
        /\ log' = Append(log, "received") /\ "received" \in LogLines
        /\ \A d \in Cmd : cmds'[d] = cmds[d]
    BY <1>8, ReceiveGoesOn DEF StreamReceived, ui, LogLines
  <2>2. Healthy' => Healthy
    BY <2>1, StreamShapes, LogGrows DEF Healthy, Serving
  <2>3. /\ \A a \in 0 .. MaxMsgs : cmds'[Tx(stream, a)] = cmds[Tx(stream, a)]
        /\ cmds'[Open(callSeq)] = cmds[Open(callSeq)]
    BY <2>1, CmdKinds
  <2>4. QED BY <2>1, <2>2, <2>3, Steady DEF InFlight
<1>9. ASSUME NEW ok \in BOOLEAN, StreamEnded(ok) PROVE OrderInv'
  <2>1. /\ callSeq \in CallId /\ InFlight(Recv(callSeq)) /\ cmds' = Land(Recv(callSeq))
        /\ stream' = NoCall /\ released \subseteq released'
        /\ UNCHANGED <<callSeq, form, call, sent>>
    BY <1>9 DEF StreamEnded, DropStream
  <2>2. FormIsLive'
    BY <2>1 DEF OrderInv, FormIsLive, Live
  <2>3. stream # NoCall
    BY <2>1, Constants DEF CallInv
  <2>4. Recv(callSeq) \in Cmd /\ Recv(callSeq).kind = "recv"
        /\ Open(callSeq) \in Cmd /\ Open(callSeq).kind = "open"
    BY <2>1, CmdKinds
  <2>5. cmds'[Open(callSeq)] = 0
    BY <2>1, <2>3, <2>4, NotOpening, LandShrinks
  <2>6. Fresh'
    BY <2>1, <2>5 DEF Fresh, InFlight
  <2>7. QED BY <2>1, <2>2, <2>6, StreamGone
<1>10. QED BY <1>1, <1>2, <1>3, <1>5, <1>6, <1>7, <1>8, <1>9 DEF Report

\* OrderInv is inductive beside the other two.
LEMMA StepOrder ==
  CallInv /\ CallInv' /\ StreamInv /\ StreamInv' /\ OrderInv /\ [Next]_vars => OrderInv'
<1> SUFFICES ASSUME CallInv, CallInv', StreamInv, StreamInv', OrderInv, [Next]_vars
             PROVE  OrderInv'
  OBVIOUS
<1>1. CASE User
  BY <1>1, UserInOrder
<1>2. CASE Report
  BY <1>2, ReportInOrder
<1>3. CASE Server \/ UNCHANGED vars
  <2>1. UNCHANGED <<ui, shown, cmds, call, released, sent>> /\ (over' = "no" => over = "no")
    BY <1>3 DEF Server, ServerReplies, ServerEnds, Serving, vars, server
  <2>2. Healthy' => Healthy
    BY <2>1 DEF Healthy, Serving, ui, shown
  <2>3. QED BY <2>1, <2>2, Steady DEF ui, shown, InFlight
<1>4. CASE ServicesDiscovered
  <2>1. /\ form' = None /\ panel'.state = "empty"
        /\ UNCHANGED <<ui, cmds, call, released, sent>>
    BY <1>4 DEF ServicesDiscovered, ClearedFor, Panel
  <2>2. FormIsLive' /\ Fresh' /\ ~Healthy'
    BY <2>1 DEF OrderInv, FormIsLive, Fresh, Healthy, Live, InFlight, ui, sent
  <2>3. QED BY <2>2 DEF OrderInv
<1>5. QED BY <1>1, <1>2, <1>3, <1>4 DEF Next

\* The order of the messages always holds.
LEMMA OrderInvHolds == Spec => [](CallInv /\ StreamInv /\ OrderInv)
<1>1. CallInv /\ StreamInv /\ OrderInv /\ [Next]_vars => (CallInv /\ StreamInv /\ OrderInv)'
  BY StepInv, StepStream, StepOrder
<1>2. Init => CallInv /\ StreamInv
  BY InitInv, InitStream
<1>3. Init => OrderInv
  <2> SUFFICES ASSUME Init PROVE OrderInv
    OBVIOUS
  <2>1. stream = NoCall /\ callSeq = NoCall /\ \A s \in CallId : call[s] = None
    BY Constants DEF Init
  <2>2. QED BY <2>1 DEF OrderInv, FormIsLive, Live, Fresh, Healthy, Serving
<1>4. QED BY <1>1, <1>2, <1>3, PTL DEF Spec

\* The sequence that counts to n.
LEMMA Counting ==
  ASSUME NEW S, NEW s \in Seq(S), NEW n \in Nat, Len(s) = n, \A i \in 1 .. n : s[i] = i
  PROVE  s = [i \in 1 .. n |-> i]
<1>1. DOMAIN s = 1 .. n /\ s = [i \in DOMAIN s |-> s[i]]
  OBVIOUS
<1>2. QED BY <1>1, Zenon

\* Until a send fails or the call is over, what went out, what is going out and what is
\* queued are every message the user sent, in order; and a method the client does not
\* stream into is half-closed behind its one request.
THEOREM MessagesGoOutInOrder == Spec => []NothingLost
<1>1. CallInv /\ StreamInv /\ OrderInv => NothingLost
  <2> SUFFICES ASSUME CallInv, StreamInv, OrderInv, Healthy
               PROVE  /\ InOrder = [i \in 1 .. submitted |-> i]
                      /\ halfClosed /\ call[stream] \notin ClientStreaming => wire = <<1>>
    BY DEF NothingLost
  <2> DEFINE n == submitted
  <2>1. Carrying(call[stream], stream, cmds, queue, wire, halfClosed, n)
    BY DEF OrderInv
  <2>2. wire \in Seq(Msg) /\ queue \in Seq(Msg) /\ n \in Nat /\ stream \in CallId
    BY HealthyIsLive, StreamShapes, Constants DEF OrderInv
  <2>3. \A a \in Msg : a \in OnTheWay <=> cmds[Tx(stream, a)] > 0
    <3>1. ASSUME NEW a \in Msg
          PROVE  a \in OnTheWay <=> cmds[Tx(stream, a)] > 0
      <4>1. a \in 0 .. MaxMsgs /\ a # Close
        BY Constants DEF Close
      <4>2. Tx(stream, a) \in Cmd /\ Tx(stream, a).kind = "send" /\ Tx(stream, a).seq = stream
            /\ Tx(stream, a).arg = a
        BY <2>2, <4>1, CmdKinds DEF Tx
      <4>3. \A c \in Sends(stream) : c.arg = a => c = Tx(stream, a)
        BY CmdFields DEF Sends
      <4>4. QED BY <4>1, <4>2, <4>3 DEF OnTheWay, Sends
    <3>2. QED BY <3>1
  <2>4. OnTheWay \subseteq Msg
    BY CmdFields, Constants DEF OnTheWay, Sends, Close
  <2> HIDE DEF n
  <2>5. CASE OnTheWay = {}
    <3>1. InOrder = wire \o <<>> \o queue
      BY <2>5 DEF InOrder
    <3>2. Len(wire) + Len(queue) = n
      BY <2>1, <2>3, <2>5 DEF Carrying
    <3>3. InOrder = wire \o queue
      BY <2>2, <3>1
    <3>4. Len(wire \o queue) = n /\ wire \o queue \in Seq(Msg)
      BY <2>2, <3>2
    <3>5. \A i \in 1 .. n : (wire \o queue)[i] = i
      <4>1. ASSUME NEW i \in 1 .. n
            PROVE  (wire \o queue)[i] = i
        <5>1. CASE i <= Len(wire)
          BY <2>1, <2>2, <3>2, <5>1 DEF Carrying
        <5>2. CASE i > Len(wire)
          <6>1. i - Len(wire) \in DOMAIN queue /\ (wire \o queue)[i] = queue[i - Len(wire)]
            BY <2>2, <3>2, <5>2
          <6>2. queue[i - Len(wire)] = n - Len(queue) + (i - Len(wire))
            BY <2>1, <6>1 DEF Carrying
          <6>3. QED BY <2>2, <3>2, <6>1, <6>2
        <5>3. i <= Len(wire) \/ i > Len(wire)
          BY <2>2
        <5>4. QED BY <5>1, <5>2, <5>3, Zenon
      <4>2. QED BY <4>1
    <3>6. InOrder = [i \in 1 .. n |-> i]
      BY <2>2, <3>3, <3>4, <3>5, Counting
    <3>7. QED BY <2>1, <3>6 DEF Carrying, n
  <2>6. CASE OnTheWay # {}
    <3>1. PICK a \in Msg : a \in OnTheWay
      BY <2>4, <2>6
    <3>2. \A b \in OnTheWay : b = Len(wire) + 1 /\ Len(wire) + 1 + Len(queue) = n
      BY <2>1, <2>3, <2>4 DEF Carrying
    <3>3. (CHOOSE b \in OnTheWay : TRUE) = a /\ a = Len(wire) + 1 /\ Len(wire) + 1 + Len(queue) = n
      BY <3>1, <3>2
    <3> DEFINE out == Append(wire, a)
    <3>4. out \in Seq(Msg) /\ Len(out) = Len(wire) + 1 /\ \A i \in DOMAIN out : out[i] = i
      <4>1. \A i \in DOMAIN wire : wire[i] = i
        BY <2>1 DEF Carrying
      <4>2. QED BY <2>2, <3>1, <3>3, <4>1
    <3>5. wire \o <<a>> = out
      BY <2>2, <3>1
    <3>6. InOrder = out \o queue
      BY <2>6, <3>3, <3>5 DEF InOrder
    <3> HIDE DEF out
    <3>7. Len(out) + Len(queue) = n
      BY <2>2, <3>3, <3>4
    <3>8. Len(out \o queue) = n /\ out \o queue \in Seq(Msg)
      BY <2>2, <3>4, <3>7
    <3>9. \A i \in 1 .. n : (out \o queue)[i] = i
      <4>1. ASSUME NEW i \in 1 .. n
            PROVE  (out \o queue)[i] = i
        <5>1. CASE i <= Len(out)
          BY <2>2, <3>4, <5>1
        <5>2. CASE i > Len(out)
          <6>1. i - Len(out) \in DOMAIN queue /\ (out \o queue)[i] = queue[i - Len(out)]
            BY <2>2, <3>4, <3>7, <5>2
          <6>2. queue[i - Len(out)] = n - Len(queue) + (i - Len(out))
            BY <2>1, <6>1 DEF Carrying
          <6>3. QED BY <2>2, <3>4, <3>7, <6>1, <6>2
        <5>3. i <= Len(out) \/ i > Len(out)
          BY <2>2, <3>4
        <5>4. QED BY <5>1, <5>2, <5>3, Zenon
      <4>2. QED BY <4>1
    <3>10. InOrder = [i \in 1 .. n |-> i]
      BY <2>2, <3>6, <3>8, <3>9, Counting
    <3>11. QED BY <2>1, <3>10 DEF Carrying, n
  <2>7. QED BY <2>5, <2>6
<1>2. QED BY <1>1, OrderInvHolds, PTL

-----------------------------------------------------------------------------
(* The log of the stream on screen. *)

\* A line more is one more of its kind, and of no other.
LEMMA LineCounts ==
  ASSUME log \in Seq(LogLines), NEW line \in LogLines, NEW k, log' = Append(log, line)
  PROVE  Lines(k) \in Nat /\ Lines(k)' = Lines(k) + (IF line = k THEN 1 ELSE 0)
<1> DEFINE S == {i \in DOMAIN log : log[i] = k}
           T == {i \in DOMAIN log' : log'[i] = k}
           x == Len(log) + 1
<1>1. Lines(k) = Cardinality(S) /\ Lines(k)' = Cardinality(T)
  BY DEF Lines
<1>2. DOMAIN log = 1 .. Len(log) /\ Len(log) \in Nat
  OBVIOUS
<1>3. IsFiniteSet(1 .. Len(log)) /\ S \in SUBSET (1 .. Len(log))
  BY <1>2, FS_Interval
<1>4. IsFiniteSet(S)
  BY <1>3, FS_Subset
<1>5. Cardinality(S) \in Nat
  BY <1>4, FS_CardinalityType
<1>6. x \notin S
  BY <1>2
<1>7. DOMAIN log' = DOMAIN log \union {x} /\ log'[x] = line
      /\ \A i \in DOMAIN log : log'[i] = log[i]
  BY <1>2
<1>8. CASE line = k
  <2>1. T = S \union {x}
    BY <1>7, <1>8
  <2>2. Cardinality(S \union {x}) = Cardinality(S) + 1
    BY <1>4, <1>6, FS_AddElement
  <2>3. QED BY <1>1, <1>5, <1>8, <2>1, <2>2
<1>9. CASE line # k
  <2>1. T = S
    BY <1>6, <1>7, <1>9
  <2>2. Lines(k)' = Lines(k) /\ Lines(k) \in Nat
    BY <1>1, <1>5, <2>1, Zenon
  <2>3. QED BY <1>9, <2>2
<1>10. QED BY <1>8, <1>9

\* A step that touches neither the log nor what it counts, or after which the panel is
\* not streaming.
LEMMA LogStands ==
  ASSUME LogIsTruthful,
         \/ UNCHANGED <<panel, log, wire>> /\ replied' - inbox' = replied - inbox
         \/ panel'.state # "streaming"
  PROVE  LogIsTruthful'
BY DEF LogIsTruthful, Lines

\* A stream that has ended is no longer drawn as one.
LEMMA FinishStreamLog ==
  ASSUME LogIsTruthful, NEW s, NEW ok \in BOOLEAN, TypeOK, FinishStream(s, ok)
  PROVE  panel'.state # "streaming"
BY DEF FinishStream, TypeOK

\* A send that reports writes the line of the message the wire took.
LEMMA StreamSentLog ==
  ASSUME CallInv, LogIsTruthful, NEW a \in 0 .. MaxMsgs, NEW outcome, StreamSent(a, outcome)
  PROVE  LogIsTruthful'
<1>1. UNCHANGED <<panel, server>> /\ Carried(a, outcome)
      /\ log \in Seq(LogLines) /\ wire \in Seq(Msg)
  BY StreamShapes DEF StreamSent
<1>2. CASE outcome = "eof"
  BY <1>1, <1>2, LogStands DEF StreamSent, Carried, server
<1>3. CASE outcome = "failed"
  <2>1. log' = Append(log, "failed") /\ wire' = wire /\ "failed" \in LogLines
    BY <1>1, <1>3 DEF StreamSent, Carried, LogLines
  <2>2. Lines("sent")' = Lines("sent") /\ Lines("received")' = Lines("received")
    BY <1>1, <2>1, LineCounts
  <2>3. QED BY <1>1, <2>1, <2>2 DEF LogIsTruthful, server
<1>4. CASE outcome = "ok" /\ a = Close
  <2>1. log' = Append(log, "closed") /\ wire' = wire /\ "closed" \in LogLines
    BY <1>1, <1>4 DEF StreamSent, Carried, LogLines
  <2>2. Lines("sent")' = Lines("sent") /\ Lines("received")' = Lines("received")
    BY <1>1, <2>1, LineCounts
  <2>3. QED BY <1>1, <2>1, <2>2 DEF LogIsTruthful, server
<1>5. CASE outcome = "ok" /\ a # Close
  <2>1. log' = Append(log, "sent") /\ wire' = Append(wire, a) /\ "sent" \in LogLines
    BY <1>1, <1>5 DEF StreamSent, Carried, LogLines
  <2>2. Lines("sent")' = Lines("sent") + 1 /\ Lines("received")' = Lines("received")
    BY <1>1, <2>1, LineCounts
  <2>3. Len(wire') = Len(wire) + 1
    BY <1>1, <2>1
  <2>4. QED BY <1>1, <2>2, <2>3 DEF LogIsTruthful, server
<1>6. outcome \in {"eof", "failed", "ok"}
  BY DEF StreamSent
<1>7. QED BY <1>2, <1>3, <1>4, <1>5, <1>6

\* Every step keeps the log truthful.
LEMMA StepLog == CallInv /\ LogIsTruthful /\ [Next]_vars => LogIsTruthful'
<1> SUFFICES ASSUME CallInv, LogIsTruthful, [Next]_vars PROVE LogIsTruthful'
  OBVIOUS
<1>t. TypeOK /\ inbox \in Nat /\ replied \in Nat
  BY DEF CallInv, TypeOK
<1>s. ASSUME NEW m, NEW n, StartStream(m, n) PROVE LogIsTruthful'
  <2>1. log' = <<>> /\ wire' = <<>> /\ inbox' = 0 /\ replied' = 0
    BY <1>s DEF StartStream, Unopened
  <2>2. \A k : Lines(k)' = 0
    BY <2>1, FS_EmptySet DEF Lines
  <2>3. QED BY <2>1, <2>2 DEF LogIsTruthful
<1>i. ASSUME NEW m, NEW n, StartCall(m, n) PROVE LogIsTruthful'
  BY <1>i, LogStands DEF StartCall, Panel
<1>1. ASSUME NEW m \in Methods, SelectMethod(m) PROVE LogIsTruthful'
  BY <1>1, LogStands DEF SelectMethod, ClearedFor, Panel
<1>2. ASSUME NEW m \in Methods, LoadAndSend(m) PROVE LogIsTruthful'
  <2>1. CASE panel' = ClearedFor(m)
    BY <2>1, LogStands DEF ClearedFor, Panel
  <2>2. QED BY <1>2, <1>s, <1>i, <2>1 DEF LoadAndSend
<1>3. CASE Send
  <2>1. CASE QueueOnStream /\ UNCHANGED <<panel, log>>
    BY <2>1, LogStands DEF QueueOnStream, server
  <2>2. QED BY <1>3, <1>s, <1>i, <2>1 DEF Send
<1>4. CASE EndSending \/ Cancel
  BY <1>4, LogStands DEF EndSending, Cancel, shown, server, sent
<1>5. ASSUME NEW s \in CallId, NEW ok \in BOOLEAN, FinishCall(s, ok) PROVE LogIsTruthful'
  <2>1. CASE s = callSeq
    <3>1. panel'.state \in {"ok", "failed"}
      BY <1>5, <2>1 DEF FinishCall, Panel
    <3>2. QED BY <3>1, LogStands
  <2>2. CASE s # callSeq
    BY <1>5, <2>2, LogStands DEF FinishCall, server, sent
  <2>3. QED BY <2>1, <2>2
<1>6. ASSUME NEW s \in CallId, StreamOpened(s) PROVE LogIsTruthful'
  BY <1>6, LogStands DEF StreamOpened, shown, server, sent
<1>7. ASSUME NEW s \in CallId, StreamRefused(s) PROVE LogIsTruthful'
  <2>1. CASE s = callSeq
    BY <1>7, <1>t, <2>1, LogStands, FinishStreamLog DEF StreamRefused
  <2>2. CASE s # callSeq
    BY <1>7, <2>2, LogStands DEF StreamRefused, server, sent
  <2>3. QED BY <2>1, <2>2
<1>8. ASSUME NEW s \in CallId, StaleReceived(s) PROVE LogIsTruthful'
  BY <1>8, LogStands DEF StaleReceived, shown, server, sent
<1>9. ASSUME NEW s \in CallId, NEW a \in 0 .. MaxMsgs, StaleSent(s, a) PROVE LogIsTruthful'
  BY <1>9, LogStands DEF StaleSent, shown, server, sent
<1>10. ASSUME NEW a \in 0 .. MaxMsgs, NEW outcome, StreamSent(a, outcome) PROVE LogIsTruthful'
  BY <1>10, StreamSentLog
<1>11. CASE StreamReceived
  <2>1. /\ inbox' = inbox - 1 /\ log' = Append(log, "received") /\ UNCHANGED <<panel, replied, wire>>
        /\ log \in Seq(LogLines) /\ "received" \in LogLines
    BY <1>11, StreamShapes DEF StreamReceived, sent, LogLines
  <2>2. Lines("sent")' = Lines("sent") /\ Lines("received")' = Lines("received") + 1
    BY <2>1, LineCounts
  <2>3. QED BY <1>t, <2>1, <2>2 DEF LogIsTruthful
<1>12. ASSUME NEW ok \in BOOLEAN, StreamEnded(ok) PROVE LogIsTruthful'
  BY <1>12, <1>t, LogStands, FinishStreamLog DEF StreamEnded
<1>13. CASE Server \/ UNCHANGED vars
  <2>1. UNCHANGED <<panel, log, wire>> /\ replied' - inbox' = replied - inbox
    BY <1>13, <1>t DEF Server, ServerReplies, ServerEnds, vars, shown, server, sent
  <2>2. QED BY <2>1, LogStands
<1>14. CASE ServicesDiscovered
  BY <1>14, LogStands DEF ServicesDiscovered, ClearedFor, Panel
<1>15. QED
  BY <1>1, <1>2, <1>3, <1>4, <1>5, <1>6, <1>7, <1>8, <1>9, <1>10, <1>11, <1>12, <1>13, <1>14
  DEF Next, User, Report

\* While a stream is on screen its log has one "sent" line for every message the
\* transport took and one "received" line for every response taken off it, none of them
\* another stream's.
THEOREM LogTellsTheTruth == Spec => []LogIsTruthful
<1>1. Init => LogIsTruthful
  BY DEF Init, ClearedFor, Panel, LogIsTruthful
<1>2. CallInv /\ CallInv' /\ LogIsTruthful /\ [Next]_vars => LogIsTruthful'
  BY StepLog
<1>3. QED BY <1>1, <1>2, InvHolds, PTL DEF Spec
=============================================================================
