------------------------------ MODULE Passive ------------------------------
(***************************************************************************)
(* Passive mode as a whole: the proxy (Proxy), the chain of commands that  *)
(* drains its channel (internal/ui/traffic.go) and the panel the events    *)
(* are folded into (Traffic).  The panel's keys read the log and change    *)
(* nothing the proxy sees, so they are left to Traffic's own run.          *)
(***************************************************************************)
EXTENDS Proxy

CONSTANTS MaxTrafficCalls, Heights

ASSUME PassiveAssumption == MaxTrafficCalls \in Nat \ {0}

VARIABLES
  rows, at, fallen, opened, cursor, offset, height,   \* the panel, as in Traffic
  watching,   \* whether a watchTraffic command is out, or its message
  inHand,     \* the event of a trafficEventMsg that is still to be handled
  lost        \* lost: what the panel says the proxy threw away

T == INSTANCE Traffic

screen == <<rows, at, fallen, opened, cursor, offset, height, lost>>
all == <<vars, screen, watching, inHand>>

\* watchTraffic: one event off the channel.
Watch ==
  /\ watching /\ inHand = <<>>
  /\ Read
  /\ inHand' = <<Head(events)>>
  /\ UNCHANGED <<screen, watching>>

\* recordTraffic: the event folded in, the count of the lost brought up to
\* date, and the next watch issued.
FoldIn ==
  /\ inHand # <<>>
  /\ T!Record(inHand[1])
  /\ lost' = dropped
  /\ inHand' = <<>>
  /\ UNCHANGED <<vars, watching>>

\* recordTraffic on a closed channel that is drained: the chain ends.
WatchOver ==
  /\ watching /\ inHand = <<>>
  /\ Closed /\ events = <<>>
  /\ watching' = FALSE
  /\ UNCHANGED <<vars, screen, inHand>>

InitAll ==
  /\ Init
  /\ T!InitPanel
  /\ watching = TRUE /\ inHand = <<>> /\ lost = 0

Screen == Watch \/ FoldIn \/ WatchOver

NextAll ==
  \/ Forward /\ UNCHANGED <<screen, watching, inHand>>
  \/ ~panicked /\ Screen

PassiveSpec == InitAll /\ [][NextAll]_all

\* bubbletea runs its commands and handles their messages; the proxy's own
\* goroutines run as in Proxy.
FairPassive ==
  /\ PassiveSpec
  /\ WF_all(~panicked /\ Screen)
  /\ \A c \in Calls :
       WF_all(~panicked /\ Handle(c) /\ UNCHANGED <<screen, watching, inHand>>)
       /\ WF_all(~panicked /\ PumpRequests(c) /\ UNCHANGED <<screen, watching, inHand>>)
  /\ WF_all(~panicked /\ StopEnds /\ UNCHANGED <<screen, watching, inHand>>)

-----------------------------------------------------------------------------

\* No event is on its way to the panel or being reported.
Settled == events = <<>> /\ inHand = <<>> /\ counting = {} /\ ~panicked

RowOf(c) == rows[at[c] + 1]

\* "A log quietly missing entries is worse than one that admits to it"
\* (panels/traffic.go:111-113): when nothing is on its way and the proxy has
\* counted no drop, the log says of every call how many messages passed each way, and
\* whether it has returned.
CompleteLog ==
  Settled /\ dropped = 0 /\ fallen = 0 =>
    \A c \in Calls :
      handler[c] \notin {"idle", "starting"} =>
        /\ c \in DOMAIN at
        /\ RowOf(c).sent = taken[c] - (IF pump[c] = "reporting" THEN 1 ELSE 0)
        /\ RowOf(c).received = relayed[c] - (IF handler[c] = "reporting" THEN 1 ELSE 0)
        /\ RowOf(c).done = (handler[c] = "returned")

\* A count on screen is a lower bound, and a row marked done is a call that has
\* returned, with the status the row shows: none for one whose error had none, even
\* where that is not what the row is read as (CleanRowIsClean).
NoRowOverstates ==
  \A c \in DOMAIN at :
    /\ RowOf(c).sent <= taken[c]
    /\ RowOf(c).received <= relayed[c]
    /\ RowOf(c).done => handler[c] = "returned" /\ RowOf(c).hasStatus = (outcome[c] = "failed")

\* The log is complete when nothing was lost, and no row claims more than was
\* forwarded however much was.  That a row drawn "OK" is a call that ended cleanly is
\* no part of it: see CleanRowIsClean.
LogIsHonest == CompleteLog /\ NoRowOverstates

\* Stopping the proxy ends the chain of watches, with everything it saw on
\* screen: the program is not left with a command that never reports.
WatchEnds == stop = "stopping" ~> ~watching \/ panicked

-----------------------------------------------------------------------------
(* What the comments promise and the code does not keep. *)

\* panels/traffic.go:57-58: a row is done "with HasStatus false for one that ended
\* cleanly", which is drawn as "OK": a call that failed is not.
CleanRowIsClean ==
  \A c \in DOMAIN at : RowOf(c).done /\ ~RowOf(c).hasStatus => outcome[c] = "ok"

\* panels/traffic.go:50-52: "Request is the first message the client sent".
RequestIsFirst == \A i \in DOMAIN rows : rows[i].request \in {0, 1}
=============================================================================
