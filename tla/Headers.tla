------------------------------ MODULE Headers ------------------------------
(***************************************************************************)
(* The request headers: the panel they are typed into                      *)
(* (internal/ui/panels/metadata.go), the layout that decides how much of   *)
(* it is on screen, and the checks a send makes of them                    *)
(* (internal/grpcclient/metadata.go, internal/ui/call.go).                 *)
(***************************************************************************)
EXTENDS Integers, Sequences, FiniteSets, SequencesExt, Scroll, Layout

CONSTANTS
  Profiles,    \* what switching profile puts in the panel
  Totals,      \* the heights a resize may give the column
  RequestWant, \* the height the form asks for
  MaxHeaders   \* bound: headers in the panel

VARIABLES
  headers, cursor, column, editing, notice, focused,
  offset, height,
  total        \* the height of the column

vars == <<headers, cursor, column, editing, notice, focused, offset, height, total>>

\* A key is empty, one gRPC takes, or one it does not; a value is empty, or a
\* reference to a variable.
Cells == [key |-> {"", "x-key", "grpc-key"}, value |-> {"", "{{t}}"}]
Header(k, v) == [key |-> k, value |-> v, disabled |-> FALSE]

\* ValidateHeader.
Valid(h) == h.key = "x-key"
\* Metadata.Validate: the headers that refuse the send.
Invalid(hs) == {i \in DOMAIN hs : ~hs[i].disabled /\ ~Valid(hs[i])}
\* Model.headers: the references that must be bound.
References(hs) == {i \in DOMAIN hs : ~hs[i].disabled /\ hs[i].value = "{{t}}"}

-----------------------------------------------------------------------------
(* What is drawn *)

\* rowError: nothing of a row being typed into, or with nothing in it yet.
Complaints(hs, ed, at) ==
  {i \in Invalid(hs) : hs[i] # Header("", "") /\ ~(ed /\ i = at + 1)}

\* build: a line per header and per complaint, and the notice at the foot.
LineCount(hs, ed, at, note) ==
  (IF hs = << >> THEN 1 ELSE Len(hs)) + Cardinality(Complaints(hs, ed, at))
    + (IF note THEN 1 ELSE 0)
\* cursorLine.
LineOf(hs, ed, at, i) == i + Cardinality({j \in Complaints(hs, ed, at) : j <= i})

Lines == LineCount(headers, editing, cursor, notice)
CursorLine == LineOf(headers, editing, cursor, cursor)
OnScreen(line) == line \in offset .. (offset + height - 1)

\* maxMetadataHeight, ContentHeight, Visible, and the layout they enter.
MaxMetadataHeight == 8
HeightOf(hs, lines, foc, tall) ==
  LET want == IF hs # << >> \/ foc
              THEN (IF lines < MaxMetadataHeight THEN lines ELSE MaxMetadataHeight) + Chrome
              ELSE 0
  IN  Inner(SplitColumn(tall, RequestWant, want, MinPanelHeight).middle)

\* layout, which every key of the panel ends with.
Relayout ==
  height' = HeightOf(headers', LineCount(headers', editing', cursor', notice'), focused', total')

\* Mutated MoveTo: the window is kept.
MoveToStill(i, hs) == cursor' = ClampIndex(i, Len(hs)) /\ offset' = offset

\* moveTo, in the window as the last layout left it; the edit is over.
MoveTo(i, hs) ==
  LET to == ClampIndex(i, Len(hs))
  IN  /\ cursor' = to
      /\ offset' = ClampWindow(LineOf(hs, FALSE, to, to), offset, height,
                               LineCount(hs, FALSE, to, notice))

-----------------------------------------------------------------------------
(* Keys, while browsing *)

Browsing == focused /\ ~editing
Still == UNCHANGED <<notice, focused, total>>

\* pageSize: the header rows on screen, less one.
PageSize ==
  LET shown == Cardinality({i \in 0 .. Len(headers) - 1 :
                              OnScreen(LineOf(headers, editing, cursor, i))})
  IN  IF shown > 2 THEN shown - 1 ELSE 1

Move ==
  /\ Browsing
  /\ \E to \in {cursor - 1, cursor + 1, cursor - PageSize, cursor + PageSize,
                0, Len(headers) - 1} : MoveTo(to, headers)
  /\ UNCHANGED <<headers, column, editing>> /\ Still /\ Relayout

\* moveColumn.
MoveColumn ==
  /\ Browsing
  /\ column' = IF column = "key" THEN "value" ELSE "key"
  /\ UNCHANGED <<headers, cursor, editing, offset>> /\ Still /\ Relayout

\* addHeader: an empty one, opened for typing.
Add ==
  /\ Browsing /\ Len(headers) < MaxHeaders
  /\ headers' = Append(headers, Header("", ""))
  /\ column' = "key"
  /\ MoveTo(Len(headers), headers')
  /\ editing' = TRUE
  /\ Still /\ Relayout

\* removeHeader.
Drop ==
  /\ Browsing /\ headers # << >>
  /\ headers' = RemoveAt(headers, cursor + 1)
  /\ MoveTo(cursor, headers')
  /\ UNCHANGED <<column, editing>> /\ Still /\ Relayout

\* toggleHeader.
Toggle ==
  /\ Browsing /\ headers # << >>
  /\ headers' = [headers EXCEPT ![cursor + 1].disabled = ~@]
  /\ UNCHANGED <<cursor, column, editing, offset>> /\ Still /\ Relayout

\* startEditing.
Edit ==
  /\ Browsing /\ headers # << >>
  /\ editing' = TRUE
  /\ UNCHANGED <<headers, cursor, column, offset>> /\ Still /\ Relayout

\* updateEditing: what is typed goes into the cell under the cursor.
Type ==
  /\ editing
  /\ \E text \in Cells[column] :
       /\ text # headers[cursor + 1][column]
       /\ headers' = [headers EXCEPT ![cursor + 1][column] = text]
  /\ UNCHANGED <<cursor, column, editing, offset>> /\ Still /\ Relayout

\* StopEditing, by enter or esc.
StopEditing ==
  /\ editing /\ editing' = FALSE
  /\ UNCHANGED <<headers, cursor, column, offset>> /\ Still /\ Relayout

-----------------------------------------------------------------------------
(* The root model *)

\* movePanel: tab moves the focus without a layout, and ends an edit.
SwitchPanel ==
  /\ focused' = ~focused
  /\ editing' = FALSE
  /\ UNCHANGED <<headers, cursor, column, notice, offset, height, total>>

\* A key of another panel, or a new terminal size: the layout alone.
Elsewhere(tall) ==
  /\ total' = tall
  /\ UNCHANGED <<headers, cursor, column, editing, notice, focused, offset>>
  /\ Relayout

\* SetHeaders.
SwitchProfile(hs) ==
  /\ headers' = hs
  /\ notice' = FALSE /\ editing' = FALSE
  /\ cursor' = 0 /\ column' = "key" /\ offset' = 0
  /\ UNCHANGED <<focused, total>>
  /\ Relayout

\* FocusFirstInvalid, and the focus the send moves here.
Refuse ==
  /\ Invalid(headers) # {}
  /\ editing' = FALSE
  /\ MoveTo((CHOOSE i \in Invalid(headers) : \A j \in Invalid(headers) : i <= j) - 1, headers)
  /\ focused' = TRUE
  /\ UNCHANGED <<headers, column, notice, total>>
  /\ Relayout

\* dispatch: a reference nothing binds puts the notice up.
RefuseReference ==
  /\ References(headers) # {}
  /\ notice' = TRUE
  /\ focused' = TRUE /\ editing' = FALSE
  /\ UNCHANGED <<headers, cursor, column, offset, total>>
  /\ Relayout

\* dispatch, of a request that goes out.
GoOut ==
  /\ notice' = FALSE
  /\ UNCHANGED <<headers, cursor, column, editing, focused, offset, total>>
  /\ Relayout

\* dispatch, with the variable the values refer to bound or not.
Dispatch(bound) ==
  \/ ~bound /\ RefuseReference
  \/ (bound \/ References(headers) = {}) /\ GoOut

\* send.
Send(bound) == Refuse \/ (Invalid(headers) = {} /\ Dispatch(bound))

\* loadRequest, of a request to be sent at once: its headers are not checked.
LoadAndSend(bound) == Dispatch(bound)

Init ==
  /\ headers \in Profiles
  /\ cursor = 0 /\ column = "key" /\ editing = FALSE /\ notice = FALSE /\ focused = FALSE
  /\ total \in Totals
  /\ offset = 0 /\ height = HeightOf(headers, LineCount(headers, FALSE, 0, FALSE), FALSE, total)

Next ==
  \/ Move \/ MoveColumn \/ Add \/ Drop \/ Toggle \/ Edit \/ Type \/ StopEditing
  \/ SwitchPanel \/ (\E tall \in Totals : Elsewhere(tall))
  \/ (\E hs \in Profiles : SwitchProfile(hs))
  \/ \E bound \in BOOLEAN : Send(bound) \/ LoadAndSend(bound)

Spec == Init /\ [][Next]_vars

-----------------------------------------------------------------------------
(* Properties *)

\* What refuses a send: a malformed header, or a reference whichever way it came in.
RefusedForAHeader == Invalid(headers) # {} /\ \E bound \in BOOLEAN : Send(bound)
RefusedForAReference == notice' /\ \E bound \in BOOLEAN : LoadAndSend(bound)

\* A refused send leaves the user in the headers, with nothing being typed into; and one
\* that a malformed header refuses, on that header: the first one, in the window,
\* whatever was being typed, scrolled to or parked before (call.go:29-33, "a panel
\* capped at eight lines can have the offending header scrolled out of sight").  A
\* request loaded to be sent is refused for its references alone.
RefusedOnTheRow ==
  /\ RefusedForAHeader \/ RefusedForAReference => focused' /\ ~editing'
  /\ RefusedForAHeader =>
       /\ cursor' + 1 \in Invalid(headers') /\ \A j \in Invalid(headers') : cursor' + 1 <= j
       /\ height' > 0 => CursorLine' \in offset' .. (offset' + height' - 1)

\* "A list that fits ... scrolls to the top — there is nothing to reveal"
\* (scroll.go:53-54).
HeadersThatFitAreShown == focused /\ height > 0 /\ Lines <= height => offset = 0

\* "a cursor that moves within a list, and a window that follows it" (scroll.go:32-33):
\* a layout that shrinks the panel, or a complaint that pushes the row down, leaves the
\* cursor below the window.
CursorStaysInSight ==
  headers # << >> /\ focused /\ height > 0 => OnScreen(CursorLine)

\* "so that a refused call explains itself where the mistake was made"
\* (metadata.go:115-117): the row the refusal leaves the cursor on has a complaint.
RefusalIsExplained ==
  [][(RefusedForAHeader /\ height' > 1) =>
       /\ cursor' + 1 \in Complaints(headers', editing', cursor')
       /\ CursorLine' + 1 \in offset' .. (offset' + height' - 1)]_vars
=============================================================================
