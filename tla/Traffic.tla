------------------------------ MODULE Traffic ------------------------------
(***************************************************************************)
(* The traffic panel (internal/ui/panels/traffic.go): the proxy's events   *)
(* folded up into one row per call, the oldest rows dropped once the log   *)
(* is full, and a cursor that follows the newest row until it is moved.    *)
(*                                                                         *)
(* Indices count from 0 as in the code: row i is calls[i + 1].             *)
(***************************************************************************)
EXTENDS Integers, Sequences, FiniteSets, Scroll

CONSTANTS
  MaxTrafficCalls,  \* maxTrafficCalls: the rows the log keeps
  Calls,            \* the numbers the proxy gives calls
  MaxMsgs,          \* bound: messages each way on a call
  Heights           \* the window heights a resize may give

VARIABLES
  rows,     \* calls: the rows, oldest first
  at,       \* at: the index of each call's row
  fallen,   \* dropped: how many rows fell off the front
  opened,   \* opened
  cursor,   \* cursor
  offset,   \* offset
  height    \* visibleRows' window, 0 before the terminal's size is known

panel == <<rows, at, fallen, opened, cursor, offset, height>>

\* proxy.Event: "arg" is the number of the message it carries, or whether the end of
\* the call came with a gRPC status (HasStatus).
Kinds == {"started", "sent", "received", "ended"}
Event(c, kind, arg) == [call |-> c, kind |-> kind, arg |-> arg]
NoStatus == 0
HasStatus == 1

\* TrafficCall: "request" is the message kept for a replay, 0 when none is.  A row that
\* is done is drawn with its status, or as "OK" when it has none (outcome).
Row(c) ==
  [id |-> c, sent |-> 0, received |-> 0, request |-> 0, done |-> FALSE, hasStatus |-> FALSE]

Ids == {rows[i].id : i \in DOMAIN rows}

VisibleRows(h, n) == IF h = 0 THEN (IF n = 0 THEN 1 ELSE n) ELSE h

\* moveTo, over a log of n rows: the cursor clamped and the window after it.
MoveTo(i, n) ==
  /\ cursor' = ClampIndex(i, n)
  /\ offset' = ClampWindow(ClampIndex(i, n), offset, VisibleRows(height, n), n)

\* Mutated start: the indices are not rebuilt when the oldest row falls off.
IndexStale(c, log, drop) ==
  [k \in (DOMAIN at \union {c}) \ {log[i].id : i \in 1 .. drop} |->
     IF k = c THEN Len(log) - 1 ELSE at[k]]

\* The index once a row for c ends the log and its first "drop" rows fall off:
\* rebuilt when some do, else one entry more.
Index(c, log, drop) ==
  [k \in (DOMAIN at \union {c}) \ {log[i].id : i \in 1 .. drop} |->
     IF drop > 0 THEN (CHOOSE i \in drop + 1 .. Len(log) : log[i].id = k) - 1 - drop
     ELSE IF k = c THEN Len(log) - 1 ELSE at[k]]

\* Mutated start: the cursor is not moved with the rows under it.
StartUnmoored(c) ==
  LET log == Append(rows, Row(c))
      drop == IF Len(log) > MaxTrafficCalls THEN Len(log) - MaxTrafficCalls ELSE 0
      following == cursor >= Len(rows) - 1
      kept == SubSeq(log, drop + 1, Len(log))
  IN  /\ rows' = kept
      /\ at' = Index(c, log, drop)
      /\ fallen' = fallen + drop
      /\ MoveTo(IF following THEN Len(kept) - 1 ELSE cursor, Len(kept))

\* start: a row for a new call, the oldest dropped once the log is full, the
\* cursor following the tail only while it is already there.
Start(c) ==
  LET log == Append(rows, Row(c))
      drop == IF Len(log) > MaxTrafficCalls THEN Len(log) - MaxTrafficCalls ELSE 0
      following == cursor >= Len(rows) - 1
      kept == SubSeq(log, drop + 1, Len(log))
  IN  /\ rows' = kept
      /\ at' = Index(c, log, drop)
      /\ fallen' = fallen + drop
      /\ MoveTo(IF following THEN Len(kept) - 1 ELSE cursor - drop, Len(kept))

\* Mutated Record: the directions taken from the proxy's side of the call.
FoldSwapped(row, e) ==
  CASE e.kind = "sent" -> [row EXCEPT !.received = @ + 1]
    [] e.kind = "received" -> [row EXCEPT !.sent = @ + 1]
    [] e.kind = "ended" -> [row EXCEPT !.done = TRUE, !.hasStatus = (e.arg = HasStatus)]

\* One event other than Started, folded into its call's row.
Fold(row, e) ==
  CASE e.kind = "sent" ->
         [row EXCEPT !.sent = @ + 1, !.request = IF @ = 0 THEN e.arg ELSE @]
    [] e.kind = "received" -> [row EXCEPT !.received = @ + 1]
    [] e.kind = "ended" -> [row EXCEPT !.done = TRUE, !.hasStatus = (e.arg = HasStatus)]

\* Record: events of a call that has no row are ignored.
Record(e) ==
  /\ UNCHANGED <<opened, height>>
  /\ \/ e.kind = "started" /\ Start(e.call)
     \/ /\ e.kind # "started" /\ e.call \in DOMAIN at
        /\ rows' = [rows EXCEPT ![at[e.call] + 1] = Fold(@, e)]
        /\ UNCHANGED <<at, fallen, cursor, offset>>
     \/ /\ e.kind # "started" /\ e.call \notin DOMAIN at
        /\ UNCHANGED <<rows, at, fallen, cursor, offset>>

-----------------------------------------------------------------------------
(* The panel's keys, and the terminal's size. *)

\* Open, from the root model's traffic key.
Open ==
  /\ ~opened
  /\ opened' = TRUE
  /\ MoveTo(cursor, Len(rows))
  /\ UNCHANGED <<rows, at, fallen, height>>

\* Update's moves: a row or a page either way, the top, the bottom.
Move ==
  /\ opened
  /\ LET page == VisibleRows(height, Len(rows)) IN
     \E to \in {cursor - 1, cursor + 1, cursor - page, cursor + page, 0, Len(rows) - 1} :
       MoveTo(to, Len(rows))
  /\ UNCHANGED <<rows, at, fallen, opened, height>>

\* replay: only a call whose request was kept can be loaded, and loading it
\* closes the panel.
Replay ==
  /\ opened
  /\ cursor < Len(rows)
  /\ rows[cursor + 1].request # 0
  /\ opened' = FALSE
  /\ UNCHANGED <<rows, at, fallen, cursor, offset, height>>

\* Close.
Hide ==
  /\ opened
  /\ opened' = FALSE
  /\ UNCHANGED <<rows, at, fallen, cursor, offset, height>>

\* SetSize.
Resize(h) ==
  /\ height' = h
  /\ offset' = ClampWindow(cursor, offset, VisibleRows(h, Len(rows)), Len(rows))
  /\ UNCHANGED <<rows, at, fallen, opened, cursor>>

InitPanel ==
  /\ rows = <<>>
  /\ at = [c \in {} |-> 0]
  /\ fallen = 0
  /\ opened = FALSE
  /\ cursor = 0 /\ offset = 0 /\ height = 0

Keys == Open \/ Move \/ Replay \/ Hide \/ \E h \in Heights : Resize(h)

-----------------------------------------------------------------------------
(* Properties. *)

\* "at maps a proxy call number to its index in calls" (traffic.go:107-109), also
\* after rows have fallen off the front: an event is never folded into another
\* call's row, and the log never grows past its bound.
AtIsRight ==
  /\ Len(rows) <= MaxTrafficCalls
  /\ DOMAIN at = Ids
  /\ \A c \in DOMAIN at : at[c] + 1 \in DOMAIN rows /\ rows[at[c] + 1].id = c

\* The row under the cursor is on screen: the window follows the cursor through
\* arrivals, rows falling off, paging and a resize, so that enter never loads a
\* call the user cannot see.
CursorOnScreen ==
  rows # <<>> =>
    /\ cursor < Len(rows)
    /\ offset <= cursor
    /\ cursor < offset + VisibleRows(height, Len(rows))

Under == rows[cursor + 1].id
Reading == cursor < Len(rows) - 1

\* traffic.go:197-199: "a user reading a call from ten minutes ago is not dragged
\* away from it by traffic arriving underneath".  While the cursor is above the
\* tail, a new row leaves it on its call, unless that call itself falls off.
IsNotDragged ==
  Reading /\ Len(rows') > 0 /\ Ids' \ Ids # {} /\ Under \in Ids' => Under' = Under
=============================================================================
