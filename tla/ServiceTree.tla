---------------------------- MODULE ServiceTree ----------------------------
(***************************************************************************)
(* The service tree (internal/ui/panels/tree.go): services that open to    *)
(* show their methods, flattened to rows, with a cursor and a window.      *)
(*                                                                         *)
(* Indices count from 0 as in the code: row i is rows[i + 1].  A service   *)
(* is the sequence of its methods' full names, known by its place.         *)
(***************************************************************************)
EXTENDS Integers, Sequences, FiniteSets, SequencesExt, Scroll

CONSTANTS
  Schemas,   \* what a discovery may find: sequences of services
  Wanted,    \* the methods a saved request may name
  Heights,   \* the window heights a resize may give
  MaxPicks   \* bound: methods picked and not yet given to the form

VARIABLES
  services,  \* services
  expanded,  \* expanded: the services that are open
  rows,      \* rows: <<service, method>>, the method 0 on a service's own row
  cursor, offset, height,
  chosen,    \* the method the form was last given from here, or None
  picks      \* MethodSelectedMsg on their way

tree == <<services, expanded, rows, cursor, offset, height, chosen, picks>>
form == <<chosen, picks>>

None == "none"

\* rebuild: each service's row, and under an open one a row for each method.
RowsOf(ss, open) ==
  FlattenSeq([s \in DOMAIN ss |->
    << <<s, 0>> >> \o (IF s \in open THEN [m \in DOMAIN ss[s] |-> <<s, m>>] ELSE << >>)])

HasRow == cursor + 1 \in DOMAIN rows
Here == rows[cursor + 1]
RowIndex(rs, row) == (CHOOSE i \in DOMAIN rs : rs[i] = row) - 1

\* pageSize.
PageSize == IF height > 1 THEN height - 1 ELSE 1

\* moveTo over the rows rs.
MoveTo(i, rs) ==
  /\ cursor' = ClampIndex(i, Len(rs))
  /\ offset' = ClampWindow(ClampIndex(i, Len(rs)), offset, height, Len(rs))

\* setExpanded on the service s.
SetExpanded(s, open) ==
  LET to == IF open THEN expanded \union {s} ELSE expanded \ {s}
  IN  /\ expanded' = to
      /\ rows' = RowsOf(services, to)
      /\ MoveTo(cursor, RowsOf(services, to))
      /\ UNCHANGED <<services, height, form>>

-----------------------------------------------------------------------------
(* From the root model *)

\* SetServices: a new schema opens every service and goes to the top.
SetServices(ss) ==
  /\ services' = ss
  /\ expanded' = DOMAIN ss
  /\ rows' = RowsOf(ss, DOMAIN ss)
  /\ cursor' = 0 /\ offset' = 0
  /\ chosen' = None
  /\ UNCHANGED <<height, picks>>

\* SelectMethod, from a recalled request: the service is opened, and the cursor
\* goes to the method.  A method that is not in the schema changes nothing; one
\* whose body no longer decodes leaves the form as it was.
SelectMethod(name, decodes) ==
  \E s \in DOMAIN services : \E m \in DOMAIN services[s] :
    LET rs == RowsOf(services, expanded \union {s})
        rebuilt == ClampWindow(ClampIndex(cursor, Len(rs)), offset, height, Len(rs))
    IN  /\ services[s][m] = name
        /\ expanded' = expanded \union {s}
        /\ rows' = rs
        /\ cursor' = RowIndex(rs, <<s, m>>)
        /\ offset' = ClampWindow(RowIndex(rs, <<s, m>>), rebuilt, height, Len(rs))
        /\ chosen' = IF decodes THEN name ELSE chosen
        /\ UNCHANGED <<services, height, picks>>

\* SetSize.
Resize(h) ==
  /\ height' = h
  /\ offset' = ClampWindow(cursor, offset, h, Len(rows))
  /\ UNCHANGED <<services, expanded, rows, cursor, form>>

-----------------------------------------------------------------------------
(* Keys *)

Move ==
  /\ \E to \in {cursor - 1, cursor + 1, cursor - PageSize, cursor + PageSize, 0, Len(rows) - 1} :
       MoveTo(to, rows)
  /\ UNCHANGED <<services, expanded, rows, height, form>>

Expand == HasRow /\ Here[1] \notin expanded /\ SetExpanded(Here[1], TRUE)

\* collapse: from a method to its service first.
Collapse ==
  /\ HasRow
  /\ \/ /\ Here[2] # 0
        /\ MoveTo(RowIndex(rows, <<Here[1], 0>>), rows)
        /\ UNCHANGED <<services, expanded, rows, height, form>>
     \/ /\ Here[2] = 0 /\ Here[1] \in expanded
        /\ SetExpanded(Here[1], FALSE)

\* selectCurrent: a service opens or folds, a method is sent to the form.
Select ==
  /\ HasRow
  /\ \/ Here[2] = 0 /\ SetExpanded(Here[1], Here[1] \notin expanded)
     \/ /\ Here[2] # 0
        /\ Cardinality(picks) < MaxPicks
        /\ picks' = picks \union {services[Here[1]][Here[2]]}
        /\ UNCHANGED <<services, expanded, rows, cursor, offset, height, chosen>>

\* MethodSelectedMsg: the form is given the method that was picked, whatever has been
\* pressed, recalled or discovered since.
MethodSelected(name) ==
  /\ name \in picks
  /\ picks' = picks \ {name}
  /\ chosen' = name
  /\ UNCHANGED <<services, expanded, rows, cursor, offset, height>>

Init ==
  /\ services = << >> /\ expanded = {} /\ rows = << >>
  /\ cursor = 0 /\ offset = 0 /\ height = 0
  /\ chosen = None /\ picks = {}

Next ==
  \/ \E ss \in Schemas : SetServices(ss)
  \/ \E name \in Wanted, decodes \in BOOLEAN : SelectMethod(name, decodes)
  \/ \E h \in Heights : Resize(h)
  \/ Move \/ Expand \/ Collapse \/ Select
  \/ \E name \in picks : MethodSelected(name)

Spec == Init /\ [][Next]_tree

-----------------------------------------------------------------------------
(* Properties *)

\* What is on screen is the schema as it is folded, with the cursor on a row of
\* it and in the window, after any folding, recall, resize or new schema.
CursorOnScreen ==
  /\ rows = RowsOf(services, expanded)
  /\ cursor = ClampIndex(cursor, Len(rows))
  /\ HasRow /\ height > 0 => cursor \in offset .. (offset + height - 1)

Folds == (Expand \/ Collapse \/ Select) /\ expanded' # expanded
Under == rows[cursor + 1]

\* The form is given a method by something else than a pick of the tree's own.
Recalled == chosen' \notin {chosen, None} /\ picks' = picks

\* Opening or folding a service leaves the cursor on the row it was pressed on; and
\* when a recalled request gives the form a method, the cursor is on that method,
\* however the tree was folded and whatever was picked before, so the tree and the form
\* agree ("leaving it pointing at the previous one would make the whole screen disagree
\* with itself", tree.go:108-111).
StaysPut ==
  /\ Folds => Under' = Under
  /\ Recalled => /\ cursor' + 1 \in DOMAIN rows'
                 /\ Under'[2] # 0 /\ services'[Under'[1]][Under'[2]] = chosen'

\* The same of a method that is picked: its message may land on a tree that has been
\* moved to another method by a recall, and that has just been discovered anew.
PickedIsUnderTheCursor ==
  [][chosen' \notin {chosen, None} =>
       HasRow' /\ Under'[2] # 0 /\ services'[Under'[1]][Under'[2]] = chosen']_tree

\* tree.go:108-111 again, of a recall that is refused: the tree is not left on the
\* method the form was not given.
RefusedRecallLeavesTheTree ==
  [][\A name \in Wanted : (SelectMethod(name, FALSE) /\ chosen # name /\ chosen # None)
        => cursor' = cursor]_tree
=============================================================================
