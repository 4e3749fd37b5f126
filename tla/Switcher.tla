------------------------------ MODULE Switcher ------------------------------
(***************************************************************************)
(* The three choosers, of profiles, environments and themes                *)
(* (internal/ui/panels/profiles.go, environments.go, themes.go), and what  *)
(* the root model does with a choice.  A choice is a message: it lands     *)
(* after keys pressed since, and out of order with others.                 *)
(***************************************************************************)
EXTENDS Integers, FiniteSets, Bags, BagsExt, Scroll

CONSTANTS
  Entries,   \* how many there are to choose from
  Heights,   \* the window heights a resize may give
  MaxAsked   \* bound: choices on their way

VARIABLES
  kind,      \* which of the three this is
  active,    \* active, or None
  cursor, offset, height,
  open,
  asked,     \* the choices on their way, in no order
  looked     \* ghost: where a key last put the cursor

switcher == <<kind, active, cursor, offset, height, open, asked, looked>>

None == -1    \* noEnvironment
Indices == 0 .. Entries - 1

\* visibleRows.
VisibleRows(h) == IF h = 0 THEN Entries ELSE h

\* moveTo, and the clampOffset that follows it.
MoveTo(i) ==
  /\ cursor' = ClampIndex(i, Entries)
  /\ offset' = ClampWindow(ClampIndex(i, Entries), offset, VisibleRows(height), Entries)

Ask(i) == BagCardinality(asked) < MaxAsked /\ asked' = BagAdd(asked, i)

\* SetActive: the entry in use, with the cursor on it.
SetActive(i) == active' = i /\ MoveTo(i)

\* Open: with the cursor on the entry in use, if there is one.
Open ==
  /\ ~open /\ open' = TRUE
  /\ MoveTo(IF active = None THEN cursor ELSE active)
  /\ looked' = cursor'
  /\ UNCHANGED <<kind, active, height, asked>>

\* moveCursor; a theme is asked for as the cursor comes to it.
Move ==
  /\ open
  /\ \E to \in {cursor - 1, cursor + 1, 0, Entries - 1} : MoveTo(to)
  /\ looked' = cursor'
  /\ IF kind = "themes" THEN Ask(cursor') ELSE UNCHANGED asked
  /\ UNCHANGED <<kind, active, height, open>>

\* esc, or the key that opened it.
Close == open /\ open' = FALSE /\ UNCHANGED <<kind, active, cursor, offset, height, asked, looked>>

\* choose, and preview by enter.
Choose ==
  /\ open /\ open' = FALSE
  /\ Ask(cursor)
  /\ UNCHANGED <<kind, active, cursor, offset, height, looked>>

\* SetSize.
Resize(h) ==
  /\ height' = h
  /\ offset' = ClampWindow(cursor, offset, VisibleRows(h), Entries)
  /\ UNCHANGED <<kind, active, cursor, open, asked, looked>>

\* switchTheme and switchEnvironment, and the finishConnect a choice of profile
\* ends in; a dial that fails, or is superseded, makes nothing active.
Chosen(i) ==
  /\ BagIn(i, asked) /\ asked' = BagRemove(asked, i)
  /\ \/ SetActive(i)
     \/ kind = "profiles" /\ UNCHANGED <<active, cursor, offset>>
  /\ UNCHANGED <<kind, height, open, looked>>

Init ==
  /\ kind \in {"profiles", "environments", "themes"}
  /\ active \in Indices \union (IF kind = "environments" THEN {None} ELSE {})
  /\ cursor = ClampIndex(active, Entries) /\ offset = 0 /\ height = 0
  /\ open = FALSE /\ asked = [i \in {} |-> 0] /\ looked = cursor

Next ==
  \/ Open \/ Move \/ Close \/ Choose
  \/ \E h \in Heights : Resize(h)
  \/ \E i \in Indices : Chosen(i)

Spec == Init /\ [][Next]_switcher

-----------------------------------------------------------------------------
(* Properties *)

\* The cursor is in the window, so that enter chooses something on screen, while
\* choices land under it and the terminal is resized.
CursorOnScreen ==
  /\ cursor \in Indices
  /\ cursor \in offset .. (offset + VisibleRows(height) - 1)

\* "esc leaves whatever the cursor last landed on in place, which is what the user
\* has been looking at" (themes.go:112-114): once nothing is on its way, the theme
\* in use is the one the keys went to.
ThemeIsTheOneLookedAt ==
  kind = "themes" /\ ~open /\ asked = EmptyBag => active = looked
=============================================================================
