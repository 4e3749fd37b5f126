------------------------------ MODULE Browser ------------------------------
(***************************************************************************)
(* The saved-request browser (internal/ui/panels/requests.go): what was    *)
(* sent and what was kept in one list, narrowed by a query, and the prompt *)
(* for saving, which shares the query's text input.                        *)
(***************************************************************************)
EXTENDS Integers, Sequences, FiniteSets, SequencesExt, Scroll

CONSTANTS
  Requests,    \* the requests there are
  Sources,     \* the collections
  Texts,       \* what can be typed, the empty text among it
  Words,       \* the words of each text
  Limit,       \* bound: rows of either source
  Heights      \* the window heights a resize may give

\* What the constants may be.
ConstantsOK ==
  /\ Words \in [Texts -> SUBSET (Requests \union Sources \union {"history"})]
  /\ "" \in Texts /\ Words[""] = {}

VARIABLES
  history,      \* what was sent, newest first
  collections,  \* what was kept, in order
  visible,      \* visible: the rows of the list the query matches
  input, query,
  failed,       \* the status line says why the last save failed
  mode,         \* "closed", "list", "filter" or "save"
  cursor, offset, height,
  saving,       \* the destinations being saved to
  before        \* ghost: the query as it was when the filter was last opened

vars ==
  <<history, collections, visible, input, query, failed, mode, cursor, offset, height, saving, before>>

Entry(r, source) == [request |-> r, source |-> source]

\* rebuild: the sent ones first.
EntriesOf(h, c) == [i \in DOMAIN h |-> Entry(h[i], "history")] \o c
Entries == EntriesOf(history, collections)

\* Matcher.Match: every word is somewhere in the request or its source.
Matches(q, e) == Words[q] \subseteq {e.request, e.source}

\* filter: the indices of the entries the query matches.
Filter(es, q) ==
  LET upTo[n \in 0 .. Len(es)] ==
        IF n = 0 THEN << >>
        ELSE IF Matches(q, es[n]) THEN Append(upTo[n - 1], n) ELSE upTo[n - 1]
  IN  upTo[Len(es)]

VisibleRows(h, n) == IF h = 0 THEN (IF n = 0 THEN 1 ELSE n) ELSE h

\* filter and moveTo.
Lists(es, q, at) ==
  LET found == Filter(es, q)
      to == ClampIndex(at, Len(found))
  IN  /\ visible' = found
      /\ cursor' = to
      /\ offset' = ClampWindow(to, offset, VisibleRows(height, Len(found)), Len(found))

\* setQuery: narrowed, from the top.
SetQuery(q) == query' = q /\ Lists(Entries, q, 0)

SameList == UNCHANGED <<history, collections, visible, query, cursor, offset, height, before>>
SameSources == UNCHANGED <<history, collections, height, saving, before>>

-----------------------------------------------------------------------------
(* The root model *)

\* SetHistory, at every send.
Sent(r) ==
  /\ LET sent == <<r>> \o history
     IN  history' = IF Len(sent) > Limit THEN Front(sent) ELSE sent
  /\ Lists(EntriesOf(history', collections), query, cursor)
  /\ UNCHANGED <<collections, input, query, failed, mode, height, saving, before>>

\* Open: the filter is the one last applied.
Open ==
  /\ mode = "closed"
  /\ mode' = "list" /\ failed' = FALSE
  /\ Lists(Entries, query, 0)
  /\ SameSources /\ UNCHANGED <<input, query>>

\* OpenSave, with a suggestion.
OpenSave(text) ==
  /\ mode = "closed"
  /\ mode' = "save" /\ failed' = FALSE /\ input' = text
  /\ SameList /\ UNCHANGED saving

\* finishSave: SetCollections and SetNotice, when the save has reported.
SaveDone(s) ==
  /\ s \in saving /\ saving' = saving \ {s}
  /\ \E r \in Requests, source \in Sources :
       LET e == Entry(r, source)
       IN  collections' = IF Contains(collections, e) \/ Len(collections) = Limit
                          THEN collections ELSE Append(collections, e)
  /\ Lists(EntriesOf(history, collections'), query, cursor)
  /\ mode' = "closed" /\ failed' = FALSE
  /\ UNCHANGED <<history, input, query, height, before>>

\* SetNotice of a failure: the prompt, with whatever the input holds.
SaveFailed(s) ==
  /\ s \in saving /\ saving' = saving \ {s}
  /\ mode' = "save" /\ failed' = TRUE
  /\ SameList /\ UNCHANGED input

\* SetSize.
Resize(h) ==
  /\ height' = h
  /\ offset' = ClampWindow(cursor, offset, VisibleRows(h, Len(visible)), Len(visible))
  /\ UNCHANGED <<history, collections, visible, input, query, failed, mode, cursor, saving, before>>

-----------------------------------------------------------------------------
(* Keys *)

Move ==
  /\ mode = "list"
  /\ LET n == Len(visible)
         page == VisibleRows(height, n)
     IN  \E to \in {cursor - 1, cursor + 1, cursor - page, cursor + page, 0, n - 1} :
           /\ cursor' = ClampIndex(to, n)
           /\ offset' = ClampWindow(ClampIndex(to, n), offset, page, n)
  /\ SameSources /\ UNCHANGED <<visible, input, query, failed, mode>>

\* updateList: the filter key, with the query as it is to start from.
FilterKey ==
  /\ mode = "list"
  /\ mode' = "filter" /\ input' = query /\ before' = query
  /\ UNCHANGED <<history, collections, visible, query, failed, cursor, offset, height, saving>>

\* updateList: esc clears a filter before it closes the list.
CancelList ==
  /\ mode = "list"
  /\ IF query # "" THEN SetQuery("") /\ UNCHANGED mode
     ELSE mode' = "closed" /\ UNCHANGED <<visible, query, cursor, offset>>
  /\ SameSources /\ UNCHANGED <<input, failed>>

\* choose: the row under the cursor, and the browser closes.  ctrl+r closes too.
Leave ==
  /\ mode = "list"
  /\ mode' = "closed"
  /\ SameList /\ UNCHANGED <<input, failed, saving>>

\* updateFilter: the list narrows as it is typed.
TypeFilter(text) ==
  /\ mode = "filter" /\ text # input
  /\ input' = text
  /\ SetQuery(text)
  /\ SameSources /\ UNCHANGED <<failed, mode>>

\* updateFilter: enter settles on the query, and esc drops it.
SettleFilter ==
  /\ mode = "filter" /\ mode' = "list"
  /\ SameList /\ UNCHANGED <<input, failed, saving>>
CancelFilter ==
  /\ mode = "filter" /\ mode' = "list"
  /\ SetQuery("")
  /\ SameSources /\ UNCHANGED <<input, failed>>

\* updateSave: enter leaves the prompt as it is until the save has reported.
TypeSave(text) ==
  /\ mode = "save" /\ text # input
  /\ input' = text
  /\ SameList /\ UNCHANGED <<failed, mode, saving>>
Save ==
  /\ mode = "save" /\ saving = {}
  /\ saving' = {input}
  /\ SameList /\ UNCHANGED <<input, failed, mode>>
CancelSave ==
  /\ mode = "save" /\ mode' = "closed"
  /\ SameList /\ UNCHANGED <<input, failed, saving>>

Init ==
  /\ history = << >> /\ collections = << >> /\ visible = << >>
  /\ input = "" /\ query = "" /\ failed = FALSE /\ mode = "closed"
  /\ cursor = 0 /\ offset = 0 /\ height = 0
  /\ saving = {} /\ before = ""

Next ==
  \/ (\E r \in Requests : Sent(r))
  \/ Open \/ (\E text \in Texts : OpenSave(text))
  \/ (\E s \in saving : SaveDone(s) \/ SaveFailed(s))
  \/ (\E h \in Heights : Resize(h))
  \/ Move \/ FilterKey \/ CancelList \/ Leave
  \/ (\E text \in Texts : TypeFilter(text) \/ TypeSave(text))
  \/ SettleFilter \/ CancelFilter \/ Save \/ CancelSave

Spec == Init /\ [][Next]_vars

-----------------------------------------------------------------------------
(* Properties *)

\* The list is what the query matches of all that was sent and kept, with the
\* cursor on a row of it in the window, whatever was sent, saved, typed, cleared
\* or resized meanwhile: enter loads a row the user can see.
CursorOnScreen ==
  LET n == Len(visible) IN
  /\ visible = Filter(Entries, query)
  /\ cursor = ClampIndex(cursor, n)
  /\ n > 0 => cursor \in offset .. (offset + VisibleRows(height, n) - 1)

\* "esc abandons it, restoring what it was before" (requests.go:291-292).
EscRestoresTheFilter ==
  [][CancelFilter => query' = before]_vars

\* "leaves the browser open on a failure so the name can be corrected"
\* (requests.go:196-198): a prompt a late failure brings back holds that name, and
\* not what was being typed as a filter.
PromptKeepsTheName ==
  [][\A s \in saving : SaveFailed(s) /\ mode # "save" => input' = s]_vars
=============================================================================
