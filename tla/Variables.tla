----------------------------- MODULE Variables -----------------------------
(***************************************************************************)
(* The {{name}} variables of a session: the panel that lists, binds and    *)
(* captures them (internal/ui/panels/variables.go), the root model that    *)
(* installs them (internal/ui/variables.go, update.go), the environments   *)
(* they come from (panels/environments.go), and the set itself             *)
(* (internal/vars).                                                        *)
(*                                                                         *)
(* What a panel asks of the root model is a message of its own: it lands   *)
(* after keys pressed since, and out of order with others.                 *)
(***************************************************************************)
EXTENDS Integers, Sequences, FiniteSets, SequencesExt, Scroll

CONSTANTS
  Names,        \* the names there are, in order
  Environments, \* each environment's own bindings
  Texts,        \* what can be typed in a prompt
  Found,        \* what a path in the response may lead to
  Heights,      \* the window heights a resize may give
  MaxPending    \* bound: messages on their way

VARIABLES
  active,    \* the environment in force
  set,       \* the bindings in force
  resolver,  \* those the request form refers to
  mode,      \* "closed", "list", "bind" or "capture"
  input,     \* what the prompt holds
  failed,    \* the panel says why the last binding failed
  cursor, offset, height,
  response,  \* the last response: "none", "text" or "json"
  pending    \* messages on their way to the root model

panel == <<mode, input, failed, cursor, offset, height>>
vars == <<active, set, resolver, panel, response, pending>>

\* What was typed: an assignment of some text to a name, or something else.
Assign(name, rest) == [shape |-> "assignment", name |-> name, rest |-> rest]
Other(shape) == [shape |-> shape, name |-> "", rest |-> ""]
Empty == Other("empty")

-----------------------------------------------------------------------------
(* The set *)

\* A binding: its value, and the environment it was made under.
Binding(value, env) == [value |-> value, env |-> env]
Own(env) == [n \in DOMAIN Environments[env] |-> Binding(Environments[env][n], env)]

\* Set.With, Set.Without.
With(s, n, b) == [x \in DOMAIN s \union {n} |-> IF x = n THEN b ELSE s[x]]
Without(s, n) == [x \in DOMAIN s \ {n} |-> s[x]]

\* Set.Len, and Set.All: ordered by name.
Count(s) == Cardinality(DOMAIN s)
All(s) == SelectSeq(Names, LAMBDA n : n \in DOMAIN s)

-----------------------------------------------------------------------------
(* The panel *)

VisibleRows(h, n) == IF h = 0 THEN (IF n = 0 THEN 1 ELSE n) ELSE h

\* moveTo over n bindings.
MoveTo(i, n) ==
  /\ cursor' = ClampIndex(i, n)
  /\ offset' = ClampWindow(ClampIndex(i, n), offset, VisibleRows(height, n), n)

\* Mutated Install: what was bound meanwhile is merged into the new bindings.
InstallMerged(s) ==
  LET both == [n \in DOMAIN s \union DOMAIN set |-> IF n \in DOMAIN s THEN s[n] ELSE set[n]]
  IN  /\ set' = both /\ resolver' = both
      /\ MoveTo(cursor, Count(both))

\* SetVariables and SetResolver, which the root model always calls together.
Install(s) ==
  /\ set' = s
  /\ resolver' = s
  /\ MoveTo(cursor, Count(s))

HasRow == cursor < Count(set)
Here == All(set)[cursor + 1]

\* A mode, and what the panel shows of the last binding.
Shows(m, text, bad) == mode' = m /\ input' = text /\ failed' = bad
NotMoved == UNCHANGED <<cursor, offset, height>>
Session == UNCHANGED <<active, set, resolver, response>>

\* Open, from the root model's key.
Open ==
  /\ mode = "closed"
  /\ Shows("list", input, FALSE)
  /\ NotMoved /\ Session /\ UNCHANGED pending

\* startCapture: a prompt that can only fail is not opened.
StartCapture ==
  /\ mode = "closed"
  /\ IF response = "json" THEN Shows("capture", Empty, FALSE) ELSE Shows("list", input, TRUE)
  /\ NotMoved /\ Session /\ UNCHANGED pending

Move ==
  /\ mode = "list"
  /\ LET n == Count(set)
         page == VisibleRows(height, n)
     IN  \E to \in {cursor - 1, cursor + 1, cursor - page, cursor + page, 0, n - 1} : MoveTo(to, n)
  /\ UNCHANGED <<mode, input, failed, height, pending>> /\ Session

\* updateList: a, enter on a binding, and ctrl+p.
Prompt ==
  /\ mode = "list"
  /\ \/ Shows("bind", Empty, failed)
     \/ Shows("bind", IF HasRow THEN Assign(Here, set[Here].value) ELSE Empty, failed)
     \/ Shows("capture", Empty, failed)
  /\ NotMoved /\ Session /\ UNCHANGED pending

\* esc goes from a prompt to the list, and closes the list.
Cancel ==
  /\ mode # "closed"
  /\ \/ mode = "list" /\ Shows("closed", input, failed)
     \/ mode # "list" /\ Shows("list", input, FALSE)
  /\ NotMoved /\ Session /\ UNCHANGED pending

Type ==
  /\ mode \in {"bind", "capture"}
  /\ \E text \in Texts : text # input /\ Shows(mode, text, failed)
  /\ NotMoved /\ Session /\ UNCHANGED pending

Ask(msg) == Cardinality(pending) < MaxPending /\ pending' = pending \union {msg}

\* What submit refuses: an input that is no assignment, a name no reference can
\* spell, and a capture with no path.
Refused ==
  input.shape # "assignment" \/ (mode = "capture" /\ input.rest = "")

\* submit: the prompt stays as it is until the message lands.
Submit ==
  /\ mode \in {"bind", "capture"}
  /\ \/ Refused /\ failed' = TRUE /\ UNCHANGED pending
     \/ /\ ~Refused
        /\ Ask([kind |-> mode, name |-> input.name, rest |-> input.rest, env |-> active])
        /\ UNCHANGED failed
  /\ UNCHANGED <<mode, input>> /\ NotMoved /\ Session

\* unbind.
Unbind ==
  /\ mode = "list" /\ HasRow
  /\ Ask([kind |-> "unbind", name |-> Here, rest |-> "", env |-> active])
  /\ UNCHANGED panel /\ Session

\* SetSize.
Resize(h) ==
  /\ height' = h
  /\ offset' = ClampWindow(cursor, offset, VisibleRows(h, Count(set)), Count(set))
  /\ UNCHANGED <<mode, input, failed, cursor, pending>> /\ Session

-----------------------------------------------------------------------------
(* The root model *)

\* VariableBoundMsg: the panel is opened on the list, whatever it was doing.
Bound(m) ==
  /\ m \in pending /\ m.kind = "bind"
  /\ pending' = pending \ {m}
  /\ Install(With(set, m.name, Binding(m.rest, active)))
  /\ Shows("list", input, FALSE)
  /\ UNCHANGED <<active, height, response>>

\* VariableCapturedMsg: the response is read now.  A path that leads nowhere is
\* reported on the panel as it is.
Captured(m) ==
  /\ m \in pending /\ m.kind = "capture"
  /\ pending' = pending \ {m}
  /\ \/ /\ response = "json"
        /\ \E value \in Found :
             Install(With(set, m.name, Binding(value, active)))
        /\ Shows("list", input, FALSE)
     \/ Shows(mode, input, TRUE) /\ UNCHANGED <<set, resolver, cursor, offset>>
  /\ UNCHANGED <<active, height, response>>

\* VariableUnboundMsg: the panel is left as it is.
Unbound(m) ==
  /\ m \in pending /\ m.kind = "unbind"
  /\ pending' = pending \ {m}
  /\ Install(Without(set, m.name))
  /\ UNCHANGED <<active, mode, input, failed, height, response>>

\* EnvironmentSelectedMsg, for the one in force as well: its own bindings and no
\* others, whatever the panel shows when the message lands.
Switch(env) ==
  /\ active' = env
  /\ Install(Own(env))
  /\ UNCHANGED <<mode, input, failed, height, response, pending>>

\* A call ends, or the panels are cleared.
Answer(r) ==
  /\ r # response /\ response' = r
  /\ UNCHANGED <<active, set, resolver, panel, pending>>

Init ==
  /\ active \in DOMAIN Environments
  /\ set = Own(active) /\ resolver = set
  /\ mode = "closed" /\ input = Empty /\ failed = FALSE
  /\ cursor = 0 /\ offset = 0 /\ height = 0
  /\ response = "none" /\ pending = {}

Next ==
  \/ Open \/ StartCapture \/ Move \/ Prompt \/ Cancel \/ Type \/ Submit \/ Unbind
  \/ (\E h \in Heights : Resize(h))
  \/ (\E m \in pending : Bound(m) \/ Captured(m) \/ Unbound(m))
  \/ (\E env \in DOMAIN Environments : Switch(env))
  \/ (\E r \in {"none", "text", "json"} : Answer(r))

Spec == Init /\ [][Next]_vars

-----------------------------------------------------------------------------
(* Properties *)

\* The cursor is on a binding, in the window, while bindings land under it and
\* environments with fewer of them are switched to.
CursorOnScreen ==
  LET n == Count(set) IN
  /\ cursor = ClampIndex(cursor, n)
  /\ n > 0 => cursor \in offset .. (offset + VisibleRows(height, n) - 1)

\* Of what a call would be sent with, nothing came from another environment than
\* the one in force ("carrying it into production would be the single most
\* expensive thing this feature could do", ui/variables.go:21-23), and a form
\* field and a header that refer to one name get one value.
NothingCrossesEnvironments ==
  /\ resolver = set
  /\ \A n \in DOMAIN set : set[n].env = active

\* "a value captured while pointed at staging is staging's" (ui/variables.go:21-22):
\* what was asked for under one environment is bound under no other.
AskedHereBoundHere ==
  [][\A m \in pending \ pending' : m.kind # "unbind" /\ set' # set => m.env = active']_vars
=============================================================================
