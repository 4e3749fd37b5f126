----------------------------- MODULE FormPanel -----------------------------
(***************************************************************************)
(* The request form (internal/ui/panels: form.go, form_edit.go, and the    *)
(* lines of form_view.go), over the tree of FormTree.  Each action is one  *)
(* keystroke or one call of the root model, together with the layout the   *)
(* root model ends it with.                                                *)
(***************************************************************************)
EXTENDS FormTree, Scroll

CONSTANTS
  Typed,      \* what can be typed into a field
  Envs,       \* what the reference may be bound to, Unbound among them
  Height,     \* the lines the panel is given
  MaxItems, MaxChanged  \* bounds of the model

ASSUME PanelAssumption == Height \in Int

VARIABLES
  tree,       \* schema: the tree of rows
  rows,       \* the visible rows, flattened
  cursor,     \* counts from zero
  offset,     \* the first line on screen
  editing,    \* the row under the cursor is being typed into
  fieldErrs,  \* the rows with a complaint under them
  resolver,   \* what the reference is bound to
  selected    \* a method is selected

vars == <<tree, rows, cursor, offset, editing, fieldErrs, resolver, selected>>

Here == rows[cursor + 1]
Request == tree[<< >>].fd.type
NoForm == Alone(NewRow(NoField, "message"))
HasRow == cursor + 1 \in DOMAIN rows
Sends == Wire(resolver)

-----------------------------------------------------------------------------
(* What is drawn (form_view.go) *)

\* build: three lines of header, then each row and the complaint under it.
HeaderLines == 3
Complaints(rs, errs, n) == Cardinality({i \in 1..n : rs[i] \in errs})
LineOf(rs, errs, c) == IF rs = << >> THEN 0 ELSE HeaderLines + c + Complaints(rs, errs, c)
LineCount(rs, errs) == HeaderLines + Len(rs) + Complaints(rs, errs, Len(rs))

\* pageSize: the rows among the lines on screen, less one.
PageSize ==
  LET shown == Cardinality({i \in DOMAIN rows :
                 LineOf(rows, fieldErrs, i - 1) \in offset..(offset + Height - 1)})
  IN  IF shown > 2 THEN shown - 1 ELSE 1

\* moveTo, clampOffset, and the SetSize that follows: rows, cursor and window, which
\* was where from says.
ShowsFrom(from, rs, errs, c) ==
  LET at == ClampIndex(c, Len(rs))
  IN  /\ rows' = rs
      /\ cursor' = at
      /\ fieldErrs' = errs
      /\ offset' = ClampWindow(LineOf(rs, errs, at), from, Height, LineCount(rs, errs))
Shows(rs, errs, c) == ShowsFrom(offset, rs, errs, c)

\* Mutated Rebuild: the rows that were there before are kept.
RebuildStale(t, keep) == tree' = t /\ Shows(rows, fieldErrs, cursor)

\* rebuild, moveToNode: the cursor goes to keep, or stays where it is if that is gone.
Rebuild(t, keep) ==
  LET rs == Rows(t)
      found == {i \in DOMAIN rs : rs[i] = keep}
  IN  /\ tree' = t
      /\ Shows(rs, fieldErrs, IF found = {} THEN cursor ELSE (CHOOSE i \in found : TRUE) - 1)

\* The bound of the model: the rows that are not as a fresh form has them.
Small(t) ==
  Cardinality({p \in DOMAIN t : t[p].touched \/ t[p].present \/ t[p].expanded
                                 \/ IsItem(t, p)}) <= MaxChanged

Browsing == selected /\ ~editing /\ HasRow
Unmoved == UNCHANGED <<editing, resolver, selected>>

-----------------------------------------------------------------------------
(* Where the form comes from *)

\* SetMethod.
SetMethod(type) ==
  /\ tree' = NewForm(type) /\ ShowsFrom(0, Rows(tree'), {}, 0)
  /\ selected' = TRUE /\ editing' = FALSE
  /\ UNCHANGED resolver

\* Clear: the resolver is the session's, and stays.
Clear ==
  /\ selected
  /\ tree' = NoForm /\ rows' = << >>
  /\ selected' = FALSE /\ editing' = FALSE
  /\ cursor' = 0 /\ offset' = 0 /\ fieldErrs' = {}
  /\ UNCHANGED resolver

\* Form.Template as it is recorded: a template that does not build falls back to
\* the request (Submit), which keeps no reference.
Recording(t, b) == [message |-> Message(t, b), values |-> Values(t, b)]
Recorded(t, env) == Recording(t, IF Errors(t, Record(env)) = {} THEN Record(env) ELSE Wire(env))

\* SetMethod, Load and LoadValues on what was recorded.
Recalled(type, record, order) ==
  LoadValues(LoadInto(NewForm(type), record.message, order), record.values)

\* Send, and recall what was sent.
RecallFrom(record) ==
  \E order \in KeyOrders(record.message) : tree' = Recalled(Request, record, order)
Recall ==
  /\ selected /\ Errors(tree, Sends) = {}
  /\ RecallFrom(Recorded(tree, resolver)) /\ ShowsFrom(0, Rows(tree'), {}, 0)
  /\ editing' = FALSE
  /\ UNCHANGED <<resolver, selected>>

\* SetResolver: the complaints of the last send are no longer about anything.
SetResolver(env) ==
  /\ env # resolver
  /\ resolver' = env
  /\ Shows(rows, {}, cursor)
  /\ UNCHANGED <<tree, editing, selected>>

-----------------------------------------------------------------------------
(* Keys, while browsing *)

Move(c) ==
  /\ Browsing
  /\ Shows(rows, fieldErrs, c)
  /\ UNCHANGED tree /\ Unmoved

ExpandRow(p, expanded) ==
  Rebuild(SetExpanded(tree, p, expanded), p) /\ Small(tree')

Expand ==
  /\ Browsing /\ Expandable(tree[Here])
  /\ ExpandRow(Here, TRUE)
  /\ Unmoved

\* From a row that holds nothing, to the row that holds it.
Collapse ==
  /\ Browsing
  /\ IF Expandable(tree[Here]) /\ tree[Here].expanded
     THEN ExpandRow(Here, FALSE)
     ELSE Rebuild(tree, Parent(Here))
  /\ Unmoved

\* addItem: to the nearest list the cursor is on or in.
Add ==
  /\ Browsing
  /\ LET lists == {k \in 1..Len(Here) : Repeated(tree[Prefix(Here, k)])}
         list == Prefix(Here, CHOOSE k \in lists : \A j \in lists : j <= k)
         grown == AddItem(tree, list)
     IN  /\ lists # {}
         /\ Cardinality(Children(tree, list)) < MaxItems
         /\ Rebuild(grown, Append(list, Cardinality(Children(grown, list)))) /\ Small(tree')
  /\ Unmoved

\* removeItem: the cursor stays where it is, and the next item comes up under it.
DropItem ==
  /\ Browsing /\ IsItem(tree, Here)
  /\ Rebuild(RemoveItem(tree, Here), << >>)
  /\ Unmoved

\* toggle: picking a value folds the list of values away, and goes back to its row.
ToggleHere ==
  Rebuild(Toggle(tree, Here), IF tree[Here].kind = "choice" THEN Parent(Here) ELSE Here)

Space ==
  /\ Browsing
  /\ ToggleHere /\ Small(tree')
  /\ Unmoved

\* selectRow: enter edits a value, picks one, or opens what the row holds.
Enter ==
  /\ Browsing
  /\ \/ /\ Editable(tree[Here])
        /\ editing' = TRUE
        /\ UNCHANGED <<tree, rows, cursor, offset, fieldErrs, resolver, selected>>
     \/ /\ ~Editable(tree[Here]) /\ (Radio(tree, Here) \/ tree[Here].kind = "bool")
        /\ ToggleHere /\ Small(tree')
        /\ Unmoved
     \/ /\ Expandable(tree[Here]) /\ ~Radio(tree, Here)
        /\ ExpandRow(Here, ~tree[Here].expanded)
        /\ Unmoved

-----------------------------------------------------------------------------
(* While editing *)

\* The text input holds the row's value: it is given it by enter, and gives it
\* back at every change.  A row is touched by a change, not by being opened.
Type(text) ==
  /\ editing /\ text # tree[Here].value
  /\ tree' = SetValue(tree, Here, text) /\ Small(tree')
  /\ Shows(rows, fieldErrs, cursor)
  /\ UNCHANGED <<editing, resolver, selected>>

\* Node.Validate: a reference is checked when it is sent.
Validates(row) == row.value = Blank \/ Refers(row.value) \/ Parses(row.kind, row.value)

\* StopEditing, by esc, enter or a change of panel: the row is checked.
StopEditing ==
  /\ editing
  /\ editing' = FALSE
  /\ Shows(rows, IF Validates(tree[Here]) THEN fieldErrs \ {Here} ELSE fieldErrs \cup {Here},
           cursor)
  /\ UNCHANGED <<tree, resolver, selected>>

\* Submit, from anywhere, editing or not: every row that cannot be sent says so.
Submit ==
  /\ selected
  /\ Shows(rows, Errors(tree, Sends), cursor)
  /\ UNCHANGED <<tree, editing, resolver, selected>>

-----------------------------------------------------------------------------
Init ==
  /\ tree = NoForm /\ rows = << >> /\ cursor = 0 /\ offset = 0
  /\ editing = FALSE /\ fieldErrs = {}
  /\ resolver \in Envs /\ selected = FALSE

Next ==
  \/ \E type \in Requests : SetMethod(type)
  \/ Clear \/ Recall
  \/ \E env \in Envs : SetResolver(env)
  \/ \E c \in {cursor - 1, cursor + 1, cursor - PageSize, cursor + PageSize,
               0, Len(rows) - 1} : Move(c)
  \/ Expand \/ Collapse \/ Add \/ DropItem \/ Space \/ Enter
  \/ \E text \in Typed : Type(text)
  \/ StopEditing \/ Submit

Spec == Init /\ [][Next]_vars

-----------------------------------------------------------------------------
(* Properties *)

\* The rows on screen are those of the tree, the cursor is on one of them and in
\* the window, and what is being typed goes into a row that takes text: every
\* edit of the tree is followed by rebuild, moveTo and the layout.
CursorIsOnTheForm ==
  /\ rows = Rows(tree)
  /\ cursor = ClampIndex(cursor, Len(rows))
  /\ HasRow /\ Height > 0 => LineOf(rows, fieldErrs, cursor) \in offset..(offset + Height - 1)
  /\ editing => HasRow /\ Editable(tree[Here])

IsBuiltAs(again, m) == Errors(again, Sends) = {} /\ Message(again, Sends) = m
LoadsBack(m) ==
  \A order \in KeyOrders(m) : IsBuiltAs(LoadInto(NewForm(Request), m, order), m)

\* Load is the inverse of Build (load.go): a message built from any form, loaded
\* into a fresh one with its maps walked in any order, builds again.
LoadInvertsBuild ==
  selected /\ Errors(tree, Sends) = {} => LoadsBack(Message(tree, Sends))

InsideMap(p) == \E k \in 1..Len(p) : IsEntry(tree, Prefix(p, k))

SendsAlike(again) ==
  \A env \in Envs : /\ (Errors(again, Wire(env)) = {}) = (Errors(tree, Wire(env)) = {})
                    /\ Message(again, Wire(env)) = Message(tree, Wire(env))
Restores(record) ==
  \A order \in KeyOrders(record.message) : SendsAlike(Recalled(Request, record, order))

\* What is recorded is the request as it was typed (Form.Template): recalled, it
\* sends what the form it was recorded from would send, under the binding of then
\* and under any other.  References inside a map are left out.
RecallRestoresTheTemplate ==
  (/\ selected /\ Errors(tree, Sends) = {}
   /\ \A p \in DOMAIN tree : InsideMap(p) => ~Refers(tree[p].value))
    => Restores(Recorded(tree, resolver))

\* "The exceptions are the three ways a form says 'this, explicitly'" (build.go:81):
\* an item that was added is sent even when it is empty.
AddedItemsAreSent ==
  \A p \in DOMAIN tree :
    (/\ IsItem(tree, p)
     /\ \A k \in 1..Len(p) : IsVariant(tree, Prefix(p, k)) => IsActive(tree, Prefix(p, k)))
      => Sets(tree, p)

ReferencesOf(t) ==
  {<<Place(t, Record(resolver), v[1]), v[2]>> : v \in Values(t, Record(resolver))}
BringsBack(record) ==
  \A order \in KeyOrders(record.message) :
    ReferencesOf(Recalled(Request, record, order)) = ReferencesOf(tree)

\* LoadValues "puts a saved request's variable references back onto the rows they
\* were typed into" (load.go:33-35): the entries of a map too, which are known by
\* their key and not by their number.
ReferencesComeBack ==
  (/\ selected /\ Errors(tree, Sends) = {}
   /\ \A p, q \in DOMAIN tree : IsEntry(tree, p) /\ IsEntry(tree, q) /\ p # q =>
        ~Refers(KeyOf(tree, Record(resolver), p)) /\ ~Overwritten(tree, Sends, p))
    => BringsBack(Recorded(tree, resolver))
=============================================================================
