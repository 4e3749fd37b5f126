----------------------------- MODULE MCTraffic -----------------------------
(***************************************************************************)
(* The traffic panel on its own, fed any events a proxy may hand it: calls *)
(* start in any order and their events interleave in any order that keeps  *)
(* each direction's own, and any event may have been lost on the way.      *)
(***************************************************************************)
EXTENDS Traffic

CONSTANT MaxTold   \* bound: events the panel is given

VARIABLE told   \* the events the panel has been given

Args(kind) ==
  CASE kind = "started" -> {0}
    [] kind = "ended" -> {NoStatus, HasStatus}
    [] OTHER -> 1 .. MaxMsgs

Told(c, kind) == {e \in told : e.call = c /\ e.kind = kind}

\* The proxy reports a call's start first and once, its end once, and the
\* messages of one direction in order.
Due(c, kind, arg) ==
  /\ Cardinality(told) < MaxTold
  /\ kind = "started" => \A e \in told : e.call # c
  /\ kind = "ended" => Told(c, "ended") = {}
  /\ \A e \in Told(c, kind) : e.arg < arg

Feed(c, kind, arg) ==
  /\ Due(c, kind, arg)
  /\ told' = told \union {Event(c, kind, arg)}
  /\ Record(Event(c, kind, arg))

Init == InitPanel /\ told = {}

Next ==
  \/ \E c \in Calls, kind \in Kinds : \E arg \in Args(kind) : Feed(c, kind, arg)
  \/ Keys /\ UNCHANGED told

Spec == Init /\ [][Next]_<<panel, told>>

\* A row counts what was said of its call and keeps the first request it was
\* told of, however the events of several calls interleave and whichever rows
\* have fallen off in between.
RowsAreFaithful ==
  \A i \in DOMAIN rows :
    LET row == rows[i] IN
    /\ row.sent = Cardinality(Told(row.id, "sent"))
    /\ row.received = Cardinality(Told(row.id, "received"))
    /\ row.done = (Told(row.id, "ended") # {})
    /\ row.request # 0 => \A e \in Told(row.id, "sent") : row.request <= e.arg
=============================================================================
