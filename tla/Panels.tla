------------------------------- MODULE Panels -------------------------------
(***************************************************************************)
(* The parts of the screen, each by itself: a behaviour is one of one      *)
(* part.  The parts share no state but keep alike things, so a variable    *)
(* here is the field of that name of whichever part it is, and None in a   *)
(* part that has no such field.                                            *)
(***************************************************************************)
EXTENDS Integers, Sequences, FiniteSets

CONSTANTS
  Heights,                                          \* the window heights a resize may give
  Schemas, Wanted, TreeHeights, MaxPicks,           \* as in ServiceTree
  Profiles, Totals, RequestWant, MaxHeaders,        \* as in Headers
  Names, Environments, Bindings, Found, MaxPending, \* as in Variables
  Requests, Sources, Filters, Words, Limit,         \* as in Browser
  Texts, MaxLines, MaxCells, Contexts,              \* as in Diff
  MaxMessages,                                      \* as in Screen, MaxPending
  Choices, MaxAsked,                                \* as in Switcher, Entries
  MaxTrafficCalls, Calls, MaxMsgs, MaxTold          \* as in MCTraffic

VARIABLES
  part,
  cursor, offset, height, rows, editing, active, mode, input, failed, pending, before, opened,
  services, expanded, chosen, picks,                \* the service tree
  headers, column, notice, focused, total,          \* the headers
  set, resolver, response,                          \* the variables
  history, collections, visible, query, saving,     \* the browser
  after,                                            \* the diff
  state, focus, lit,                                \* the routing of keys
  kind, open, asked, looked,                        \* the choosers
  at, fallen, told                                  \* the traffic

None == "none"

Tree == INSTANCE ServiceTree WITH Heights <- TreeHeights
Panel == INSTANCE Headers
Vars == INSTANCE Variables WITH Texts <- Bindings
List == INSTANCE Browser WITH Texts <- Filters
Answers == INSTANCE Diff
Routing == INSTANCE Screen WITH MaxPending <- MaxMessages
Chooser == INSTANCE Switcher WITH Entries <- Choices
Log == INSTANCE MCTraffic

\* A list of none is never opened (environments.go:91-94).
ASSUME PanelsAssumption ==
  /\ Heights \subseteq Nat \ {0} /\ TreeHeights \subseteq Nat
  /\ Schemas \subseteq Seq(Seq(STRING))
  /\ Profiles \subseteq Seq([key : STRING, value : STRING, disabled : BOOLEAN])
  /\ Totals \subseteq Nat /\ RequestWant \in Nat
  /\ \A env \in DOMAIN Environments : IsFiniteSet(DOMAIN Environments[env])
  /\ List!ConstantsOK
  /\ Choices \in Nat \ {0}
  /\ MaxTrafficCalls \in Nat \ {0} /\ MaxMsgs \in Nat /\ MaxTold \in Nat

\* The parts with a list in a window.
Windowed == {"tree", "headers", "variables", "browser", "chooser", "traffic"}

\* What is not this part's: None to begin with, and left alone.
NoneElsewhere ==
  /\ IF part \in Windowed THEN TRUE ELSE cursor = None /\ offset = None /\ height = None
  /\ IF part \in {"tree", "traffic"} THEN TRUE ELSE rows = None
  /\ IF part \in {"headers", "routing"} THEN TRUE ELSE editing = None
  /\ IF part \in {"variables", "chooser"} THEN TRUE ELSE active = None
  /\ IF part \in {"variables", "browser"} THEN TRUE
     ELSE mode = None /\ input = None /\ failed = None
  /\ IF part \in {"variables", "routing"} THEN TRUE ELSE pending = None
  /\ IF part \in {"browser", "diff"} THEN TRUE ELSE before = None
  /\ IF part \in {"routing", "traffic"} THEN TRUE ELSE opened = None
  /\ IF part = "tree" THEN TRUE ELSE services = None /\ expanded = None /\ chosen = None /\ picks = None
  /\ IF part = "headers" THEN TRUE
     ELSE headers = None /\ column = None /\ notice = None /\ focused = None /\ total = None
  /\ IF part = "variables" THEN TRUE ELSE set = None /\ resolver = None /\ response = None
  /\ IF part = "browser" THEN TRUE
     ELSE /\ history = None /\ collections = None /\ visible = None
          /\ query = None /\ saving = None
  /\ IF part = "diff" THEN TRUE ELSE after = None
  /\ IF part = "routing" THEN TRUE ELSE state = None /\ focus = None /\ lit = None
  /\ IF part = "chooser" THEN TRUE
     ELSE kind = None /\ open = None /\ asked = None /\ looked = None
  /\ IF part = "traffic" THEN TRUE ELSE at = None /\ fallen = None /\ told = None

Init ==
  /\ \/ part = "tree" /\ Tree!Init
     \/ part = "headers" /\ Panel!Init
     \/ part = "variables" /\ Vars!Init
     \/ part = "browser" /\ List!Init
     \/ part = "diff" /\ Answers!Init
     \/ part = "routing" /\ Routing!Init
     \/ part = "chooser" /\ Chooser!Init
     \/ part = "traffic" /\ Log!Init
  /\ NoneElsewhere

Stays ==
  /\ part' = part
  /\ IF part \in Windowed THEN TRUE ELSE UNCHANGED <<cursor, offset, height>>
  /\ IF part \in {"tree", "traffic"} THEN TRUE ELSE UNCHANGED <<rows>>
  /\ IF part \in {"headers", "routing"} THEN TRUE ELSE UNCHANGED <<editing>>
  /\ IF part \in {"variables", "chooser"} THEN TRUE ELSE UNCHANGED <<active>>
  /\ IF part \in {"variables", "browser"} THEN TRUE ELSE UNCHANGED <<mode, input, failed>>
  /\ IF part \in {"variables", "routing"} THEN TRUE ELSE UNCHANGED <<pending>>
  /\ IF part \in {"browser", "diff"} THEN TRUE ELSE UNCHANGED <<before>>
  /\ IF part \in {"routing", "traffic"} THEN TRUE ELSE UNCHANGED <<opened>>
  /\ IF part = "tree" THEN TRUE ELSE UNCHANGED <<services, expanded, chosen, picks>>
  /\ IF part = "headers" THEN TRUE
     ELSE UNCHANGED <<headers, column, notice, focused, total>>
  /\ IF part = "variables" THEN TRUE ELSE UNCHANGED <<set, resolver, response>>
  /\ IF part = "browser" THEN TRUE
     ELSE UNCHANGED <<history, collections, visible, query, saving>>
  /\ IF part = "diff" THEN TRUE ELSE UNCHANGED <<after>>
  /\ IF part = "routing" THEN TRUE ELSE UNCHANGED <<state, focus, lit>>
  /\ IF part = "chooser" THEN TRUE ELSE UNCHANGED <<kind, open, asked, looked>>
  /\ IF part = "traffic" THEN TRUE ELSE UNCHANGED <<at, fallen, told>>

Next ==
  \/ part = "tree" /\ Tree!Next /\ Stays
  \/ part = "headers" /\ Panel!Next /\ Stays
  \/ part = "variables" /\ Vars!Next /\ Stays
  \/ part = "browser" /\ List!Next /\ Stays
  \/ part = "diff" /\ Answers!Next /\ Stays
  \/ part = "routing" /\ Routing!Next /\ Stays
  \/ part = "chooser" /\ Chooser!Next /\ Stays
  \/ part = "traffic" /\ Log!Next /\ Stays

vars ==
  <<part, cursor, offset, height, rows, editing, active, mode, input, failed, pending, before,
    opened, services, expanded, chosen, picks, headers, column, notice, focused, total, set,
    resolver, response, history, collections, visible, query, saving, after, state, focus,
    lit, kind, open, asked, looked, at, fallen, told>>

Spec == Init /\ [][Next]_vars

-----------------------------------------------------------------------------
(* The properties, of the part a behaviour is about. *)

\* The tree, the variables, the browser, the choosers and the traffic log keep their
\* cursor on a row, and the row in the window, whatever lands under it: enter acts on
\* something the user can see (the CursorOnScreen of each).  The list of headers does
\* not (Headers!CursorStaysInSight).
CursorsAreOnScreen ==
  /\ part = "tree" => Tree!CursorOnScreen
  /\ part = "variables" => Vars!CursorOnScreen
  /\ part = "browser" => List!CursorOnScreen
  /\ part = "chooser" => Chooser!CursorOnScreen
  /\ part = "traffic" => Log!CursorOnScreen

\* Rows that come, go and fold leave a reader on the row being read, and a recalled
\* request takes the tree to its method (tree.go:108-111, traffic.go:197-199).
PlacesAreKept ==
  [][/\ part = "tree" => Tree!StaysPut
     /\ part = "traffic" => Log!IsNotDragged]_vars

\* Every event is in its own call's row, and none is counted twice
\* (MCTraffic!RowsAreFaithful, Traffic!AtIsRight).
RowsAreFaithful == part = "traffic" => Log!RowsAreFaithful /\ Log!AtIsRight

\* No binding in force was made under another environment than the one in force, and
\* the form and the headers see the same (ui/variables.go:21-23;
\* Variables!NothingCrossesEnvironments).
NothingCrossesEnvironments == part = "variables" => Vars!NothingCrossesEnvironments

\* A refused send leaves the user in the headers, and on the first header that refuses
\* it, in the window, if a malformed one does (call.go:29-33; Headers!RefusedOnTheRow).
RefusalIsOnTheRow == [][part = "headers" => Panel!RefusedOnTheRow]_vars

\* The diff is between these two answers, keeps the most lines they share, and its
\* skipped runs hide no change (Diff!DiffIsExact).
DiffIsExact == part = "diff" => Answers!DiffIsExact

\* One panel has the focus, and no other takes what is typed (Screen!EditingIsFocused).
EditingIsFocused == part = "routing" => Routing!EditingIsFocused
=============================================================================
