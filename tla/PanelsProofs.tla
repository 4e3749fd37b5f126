---------------------------- MODULE PanelsProofs ----------------------------
(***************************************************************************)
(* The parts of the screen, for any lists, messages and heights: five of   *)
(* the lists keep the cursor in sight, the tree and the traffic keep their *)
(* reader in place, a row of the traffic is its own call's, nothing        *)
(* crosses from one environment to another, a refused send is where the    *)
(* user looks, and one panel has the keys.  Each part has an invariant of  *)
(* its own; a behaviour of Panels is one of one part.                      *)
(***************************************************************************)
EXTENDS Panels, LayoutProofs, FiniteSetTheorems, WellFoundedInduction, TLAPS

-----------------------------------------------------------------------------
(* A behaviour is one of one part. *)

\* A behaviour starts as its part does.
LEMMA Starts ==
  ASSUME Init
  PROVE  /\ part = "tree" => Tree!Init
         /\ part = "headers" => Panel!Init
         /\ part = "variables" => Vars!Init
         /\ part = "browser" => List!Init
         /\ part = "routing" => Routing!Init
         /\ part = "chooser" => Chooser!Init
         /\ part = "traffic" => Log!Init
BY DEF Init

\* The part never changes, and each step is one of its own.
LEMMA Steps ==
  ASSUME [Next]_vars
  PROVE  /\ part' = part
         /\ part = "tree" => [Tree!Next]_(Tree!tree)
         /\ part = "headers" => [Panel!Next]_(Panel!vars)
         /\ part = "variables" => [Vars!Next]_(Vars!vars)
         /\ part = "browser" => [List!Next]_(List!vars)
         /\ part = "routing" => [Routing!Next]_(Routing!screen)
         /\ part = "chooser" => [Chooser!Next]_(Chooser!switcher)
         /\ part = "traffic" => [Log!Next]_(<<Log!panel, told>>)
<1>1. CASE Next
  BY <1>1 DEF Next, Stays
<1>2. CASE UNCHANGED vars
  BY <1>2 DEF vars, Tree!tree, Panel!vars, Vars!vars, Vars!panel, List!vars, Routing!screen,
              Chooser!switcher, Log!panel
<1>3. QED BY <1>1, <1>2

\* The cursor arithmetic of each part is Scroll's.
LEMMA OneArithmetic ==
  /\ \A i, n : /\ Tree!ClampIndex(i, n) = ClampIndex(i, n)
               /\ Panel!ClampIndex(i, n) = ClampIndex(i, n)
               /\ Vars!ClampIndex(i, n) = ClampIndex(i, n)
               /\ List!ClampIndex(i, n) = ClampIndex(i, n)
               /\ Chooser!ClampIndex(i, n) = ClampIndex(i, n)
               /\ Log!ClampIndex(i, n) = ClampIndex(i, n)
  /\ \A t, o, h, n : /\ Tree!ClampWindow(t, o, h, n) = ClampWindow(t, o, h, n)
                     /\ Panel!ClampWindow(t, o, h, n) = ClampWindow(t, o, h, n)
                     /\ Vars!ClampWindow(t, o, h, n) = ClampWindow(t, o, h, n)
                     /\ List!ClampWindow(t, o, h, n) = ClampWindow(t, o, h, n)
                     /\ Chooser!ClampWindow(t, o, h, n) = ClampWindow(t, o, h, n)
                     /\ Log!ClampWindow(t, o, h, n) = ClampWindow(t, o, h, n)
BY DEF ClampIndex, Tree!ClampIndex, Panel!ClampIndex, Vars!ClampIndex, List!ClampIndex,
       Chooser!ClampIndex, Log!ClampIndex, ClampWindow, Tree!ClampWindow, Panel!ClampWindow,
       Vars!ClampWindow, List!ClampWindow, Chooser!ClampWindow, Log!ClampWindow

-----------------------------------------------------------------------------
(* The choosers. *)

\* What the cursor's place rests on: a window over the list, and choices on their
\* way that are all entries of it.
ChooserInv ==
  /\ active \in Chooser!Indices \union {Chooser!None}
  /\ height \in Nat /\ offset \in Int
  /\ DOMAIN asked \subseteq Chooser!Indices
  /\ Chooser!CursorOnScreen

\* A choice added to those on their way, or taken from them, leaves entries.
LEMMA ChoicesAreEntries ==
  ASSUME NEW b, NEW i, NEW S, DOMAIN b \subseteq S
  PROVE  /\ i \in S => DOMAIN Chooser!BagAdd(b, i) \subseteq S
         /\ DOMAIN Chooser!BagRemove(b, i) \subseteq S
BY DEF Chooser!BagAdd, Chooser!BagRemove

\* A window over the entries that shows the cursor is what the chooser promises.
LEMMA ChooserShows ==
  ASSUME NEW lines, lines = Chooser!VisibleRows(height'), height' \in Nat,
         InWindow(cursor', offset', lines, Choices)
  PROVE  Chooser!CursorOnScreen' /\ offset' \in Int
<1>1. Choices \in Nat /\ Choices > 0
  BY PanelsAssumption
<1>2. lines \in Nat /\ lines > 0
  BY <1>1 DEF Chooser!VisibleRows
<1>3. /\ offset' \in Int /\ cursor' \in 0 .. (Choices - 1)
      /\ cursor' \in offset' .. (offset' + lines - 1)
  BY <1>1, <1>2 DEF InWindow
<1>4. QED
  BY <1>3 DEF Chooser!CursorOnScreen, Chooser!Indices

\* moveTo leaves the cursor on an entry and in sight, from anywhere to anywhere.
LEMMA ChooserMoves ==
  ASSUME NEW i \in Int, height \in Nat, height' = height, offset \in Int, Chooser!MoveTo(i)
  PROVE  Chooser!CursorOnScreen' /\ offset' \in Int
<1>1. Choices \in Nat /\ Chooser!VisibleRows(height) \in Nat
  BY PanelsAssumption DEF Chooser!VisibleRows
<1>2. InWindow(cursor', offset', Chooser!VisibleRows(height), Choices)
  BY <1>1, MoveShows, OneArithmetic DEF Chooser!MoveTo
<1>3. QED BY <1>2, ChooserShows

\* A chooser starts with its cursor on an entry.
LEMMA ChooserStarts == Chooser!Init => ChooserInv
<1> SUFFICES ASSUME Chooser!Init PROVE ChooserInv
  OBVIOUS
<1>1. /\ active \in Chooser!Indices \union {Chooser!None} /\ height = 0 /\ offset = 0
      /\ asked = [i \in {} |-> 0]
  BY DEF Chooser!Init
<1>a. Choices \in Nat \ {0}
  BY PanelsAssumption
<1>2. cursor \in Chooser!Indices
  BY <1>1, <1>a DEF Chooser!Init, Chooser!ClampIndex, Chooser!Indices, Chooser!None
<1>3. Chooser!CursorOnScreen
  BY <1>1, <1>2, <1>a DEF Chooser!CursorOnScreen, Chooser!Indices, Chooser!VisibleRows
<1>4. DOMAIN asked \subseteq Chooser!Indices
  BY <1>1
<1>5. QED BY <1>1, <1>3, <1>4 DEF ChooserInv

\* Whatever lands under the cursor, it is on an entry and in sight.
LEMMA ChooserStep == ChooserInv /\ [Chooser!Next]_(Chooser!switcher) => ChooserInv'
<1> SUFFICES ASSUME ChooserInv, [Chooser!Next]_(Chooser!switcher) PROVE ChooserInv'
  OBVIOUS
<1>1. /\ active \in Chooser!Indices \union {Chooser!None} /\ cursor \in Chooser!Indices
      /\ height \in Nat /\ offset \in Int /\ DOMAIN asked \subseteq Chooser!Indices
  BY DEF ChooserInv, Chooser!CursorOnScreen
<1>2. CASE Chooser!Open
  <2>1. PICK i \in Int : Chooser!MoveTo(i)
    BY <1>1, <1>2 DEF Chooser!Open, Chooser!Indices
  <2>2. QED BY <1>1, <1>2, <2>1, ChooserMoves DEF Chooser!Open, ChooserInv
<1>3. CASE Chooser!Move
  <2>1. PICK i \in Int : Chooser!MoveTo(i)
    BY <1>1, <1>3, PanelsAssumption DEF Chooser!Move, Chooser!Indices
  <2>2. Chooser!CursorOnScreen' /\ offset' \in Int
    BY <1>1, <1>3, <2>1, ChooserMoves DEF Chooser!Move
  <2>3. DOMAIN asked' \subseteq Chooser!Indices
    BY <1>1, <1>3, <2>2, ChoicesAreEntries DEF Chooser!Move, Chooser!Ask, Chooser!CursorOnScreen
  <2>4. QED BY <1>1, <1>3, <2>2, <2>3 DEF Chooser!Move, ChooserInv
<1>4. CASE Chooser!Close
  BY <1>1, <1>4 DEF Chooser!Close, ChooserInv, Chooser!CursorOnScreen
<1>5. CASE Chooser!Choose
  <2>1. DOMAIN asked' \subseteq Chooser!Indices
    BY <1>1, <1>5, ChoicesAreEntries DEF Chooser!Choose, Chooser!Ask
  <2>2. QED BY <1>1, <1>5, <2>1 DEF Chooser!Choose, ChooserInv, Chooser!CursorOnScreen
<1>6. ASSUME NEW h \in Heights, Chooser!Resize(h)
      PROVE  ChooserInv'
  <2>1. /\ Chooser!VisibleRows(h) \in Nat /\ Choices \in Nat
        /\ height' = h /\ h \in Nat /\ cursor' = cursor /\ cursor = ClampIndex(cursor, Choices)
        /\ offset' = ClampWindow(cursor, offset, Chooser!VisibleRows(h), Choices)
    BY <1>1, <1>6, PanelsAssumption, OneArithmetic
    DEF Chooser!Resize, Chooser!VisibleRows, Chooser!Indices, ClampIndex
  <2>a. cursor \in Int /\ offset \in Int
    BY <1>1, <2>1 DEF Chooser!Indices
  <2>2. InWindow(cursor', offset', Chooser!VisibleRows(h), Choices)
    BY <2>a, <2>1, ResizeShows, Zenon
  <2>3. QED BY <1>1, <1>6, <2>1, <2>2, ChooserShows DEF ChooserInv, Chooser!Resize
<1>7. ASSUME NEW i \in Chooser!Indices, Chooser!Chosen(i)
      PROVE  ChooserInv'
  <2>1. i \in Chooser!Indices /\ i \in Int
    BY PanelsAssumption DEF Chooser!Indices
  <2>2. DOMAIN asked' \subseteq Chooser!Indices
    BY <1>1, <1>7, ChoicesAreEntries DEF Chooser!Chosen
  <2>3. CASE Chooser!SetActive(i)
    <3>1. Chooser!CursorOnScreen' /\ offset' \in Int
      BY <1>1, <1>7, <2>1, <2>3, ChooserMoves DEF Chooser!Chosen, Chooser!SetActive
    <3>2. QED
      BY <1>1, <1>7, <2>1, <2>2, <2>3, <3>1 DEF Chooser!Chosen, Chooser!SetActive, ChooserInv
  <2>4. CASE UNCHANGED <<active, cursor, offset>>
    BY <1>1, <1>7, <2>2, <2>4 DEF Chooser!Chosen, ChooserInv, Chooser!CursorOnScreen
  <2>5. QED BY <1>7, <2>3, <2>4 DEF Chooser!Chosen
<1>8. CASE UNCHANGED Chooser!switcher
  BY <1>1, <1>8 DEF Chooser!switcher, ChooserInv, Chooser!CursorOnScreen
<1>9. QED
  BY <1>2, <1>3, <1>4, <1>5, <1>6, <1>7, <1>8 DEF Chooser!Next

-----------------------------------------------------------------------------
(* The variables. *)

\* An environment's own bindings were all made under it.
LEMMA OwnIsItsOwn ==
  ASSUME NEW env \in DOMAIN Environments
  PROVE  /\ \A n \in DOMAIN Vars!Own(env) : Vars!Own(env)[n].env = env
         /\ IsFiniteSet(DOMAIN Vars!Own(env))
<1>1. IsFiniteSet(DOMAIN Environments[env])
  BY PanelsAssumption
<1>2. QED BY <1>1 DEF Vars!Own, Vars!Binding

\* Binding a name under the environment in force keeps every binding its own.
LEMMA WithKeepsEnvironment ==
  ASSUME NEW s, NEW n, NEW env, NEW value, IsFiniteSet(DOMAIN s),
         \A x \in DOMAIN s : s[x].env = env
  PROVE  LET t == Vars!With(s, n, Vars!Binding(value, env)) IN
         IsFiniteSet(DOMAIN t) /\ \A x \in DOMAIN t : t[x].env = env
<1>1. IsFiniteSet(DOMAIN s \union {n})
  BY FS_AddElement
<1>2. QED BY <1>1 DEF Vars!With, Vars!Binding

\* Taking a binding away leaves the others as they are.
LEMMA WithoutKeepsEnvironment ==
  ASSUME NEW s, NEW n, NEW env, IsFiniteSet(DOMAIN s), \A x \in DOMAIN s : s[x].env = env
  PROVE  LET t == Vars!Without(s, n) IN
         IsFiniteSet(DOMAIN t) /\ \A x \in DOMAIN t : t[x].env = env
<1>1. IsFiniteSet(DOMAIN s \ {n})
  BY FS_Subset
<1>2. QED BY <1>1 DEF Vars!Without

\* The cardinality of a part is the library's.
LEMMA SameCardinality == \A S : Vars!Cardinality(S) = Cardinality(S)
BY DEF Vars!Cardinality, Cardinality

\* Set.Len is a number.
LEMMA CountIsNat ==
  ASSUME NEW s, IsFiniteSet(DOMAIN s)
  PROVE  Vars!Count(s) \in Nat
BY FS_CardinalityType, SameCardinality DEF Vars!Count

\* Finitely many bindings, each its environment's, and a window that shows the cursor.
VarsInv ==
  /\ IsFiniteSet(DOMAIN set) /\ Vars!NothingCrossesEnvironments
  /\ cursor \in Nat /\ offset \in Int /\ height \in Nat
  /\ Vars!CursorOnScreen

\* A window over the bindings that shows the cursor is what the panel promises.
LEMMA VarsShows ==
  ASSUME NEW n \in Nat, n = Vars!Count(set)', height' \in Nat,
         InWindow(cursor', offset', Vars!VisibleRows(height', n), n)
  PROVE  Vars!CursorOnScreen' /\ cursor' \in Nat /\ offset' \in Int
<1>1. Vars!VisibleRows(height', n) > 0
  BY DEF Vars!VisibleRows
<1>2. /\ cursor' \in Nat /\ offset' \in Int /\ cursor' = ClampIndex(cursor', n)
      /\ n > 0 => cursor' \in offset' .. (offset' + Vars!VisibleRows(height', n) - 1)
  BY <1>1 DEF InWindow
<1>3. QED BY <1>2, OneArithmetic DEF Vars!CursorOnScreen

\* moveTo over however many bindings there come to be.
LEMMA VarsMove ==
  ASSUME NEW i \in Int, NEW n \in Nat, n = Vars!Count(set)', offset \in Int,
         height \in Nat, height' = height, Vars!MoveTo(i, n)
  PROVE  Vars!CursorOnScreen' /\ cursor' \in Nat /\ offset' \in Int
<1>1. Vars!VisibleRows(height, n) \in Nat
  BY DEF Vars!VisibleRows
<1>2. InWindow(cursor', offset', Vars!VisibleRows(height, n), n)
  BY <1>1, MoveShows, OneArithmetic DEF Vars!MoveTo
<1>3. QED BY <1>2, VarsShows

\* What the root model installs is shown and is the environment's own.
LEMMA VarsInstall ==
  ASSUME VarsInv, NEW s, Vars!Install(s), height' = height,
         IsFiniteSet(DOMAIN s), \A n \in DOMAIN s : s[n].env = active'
  PROVE  VarsInv'
<1>1. cursor \in Nat /\ offset \in Int /\ height \in Nat
  BY DEF VarsInv
<1>2. set' = s /\ resolver' = s /\ Vars!MoveTo(cursor, Vars!Count(s))
  BY DEF Vars!Install
<1>3. Vars!Count(s) \in Nat
  BY CountIsNat
<1>4. Vars!CursorOnScreen' /\ cursor' \in Nat /\ offset' \in Int
  BY <1>1, <1>2, <1>3, VarsMove
<1>5. QED
  BY <1>1, <1>2, <1>4 DEF VarsInv, Vars!NothingCrossesEnvironments

\* What the panel does before a message reaches the root model installs nothing.
LEMMA PanelInstallsNothing ==
  ASSUME \/ Vars!Open \/ Vars!StartCapture \/ Vars!Prompt \/ Vars!Cancel \/ Vars!Type
         \/ Vars!Submit \/ Vars!Unbind
         \/ \E r \in {"none", "text", "json"} : Vars!Answer(r)
         \/ UNCHANGED Vars!vars
  PROVE  UNCHANGED <<active, set, resolver, cursor, offset, height>>
BY DEF Vars!Open, Vars!StartCapture, Vars!Prompt, Vars!Cancel, Vars!Type, Vars!Submit,
       Vars!Unbind, Vars!Answer, Vars!Session, Vars!NotMoved, Vars!panel, Vars!vars

\* The first environment's bindings are its own, under a cursor at the top.
LEMMA VarsStarts == Vars!Init => VarsInv
<1> SUFFICES ASSUME Vars!Init PROVE VarsInv
  OBVIOUS
<1>1. /\ IsFiniteSet(DOMAIN set) /\ Vars!NothingCrossesEnvironments
      /\ cursor = 0 /\ offset = 0 /\ height = 0
  BY OwnIsItsOwn DEF Vars!Init, Vars!NothingCrossesEnvironments
<1>2. Vars!Count(set) \in Nat
  BY <1>1, CountIsNat
<1>3. Vars!CursorOnScreen
  <2>1. ASSUME NEW n \in Nat
        PROVE  /\ 0 = Vars!ClampIndex(0, n)
               /\ n > 0 => 0 \in 0 .. (0 + Vars!VisibleRows(0, n) - 1)
    BY DEF Vars!ClampIndex, Vars!VisibleRows
  <2>2. QED BY <1>1, <1>2, <2>1 DEF Vars!CursorOnScreen
<1>4. QED BY <1>1, <1>3 DEF VarsInv

\* Whatever is typed, captured, unbound or switched, the bindings stay their
\* environment's and the cursor in the window.
LEMMA VarsStep == VarsInv /\ [Vars!Next]_(Vars!vars) => VarsInv'
<1> SUFFICES ASSUME VarsInv, [Vars!Next]_(Vars!vars) PROVE VarsInv'
  OBVIOUS
<1>1. /\ IsFiniteSet(DOMAIN set) /\ Vars!NothingCrossesEnvironments
      /\ cursor \in Nat /\ offset \in Int /\ height \in Nat /\ Vars!CursorOnScreen
      /\ Vars!Count(set) \in Nat
  BY CountIsNat DEF VarsInv
<1>2. CASE Vars!Move
  <2>1. /\ UNCHANGED <<active, set, resolver, height>>
        /\ Vars!VisibleRows(height, Vars!Count(set)) \in Int
    BY <1>1, <1>2 DEF Vars!Move, Vars!Session, Vars!VisibleRows
  <2>2. PICK to \in Int : Vars!MoveTo(to, Vars!Count(set))
    BY <1>1, <1>2, <2>1 DEF Vars!Move
  <2>3. Vars!CursorOnScreen' /\ cursor' \in Nat /\ offset' \in Int
    BY <1>1, <2>1, <2>2, VarsMove
  <2>4. QED BY <1>1, <2>1, <2>3 DEF VarsInv, Vars!NothingCrossesEnvironments
<1>3. ASSUME NEW h \in Heights, Vars!Resize(h)
      PROVE  VarsInv'
  <2> DEFINE n == Vars!Count(set)
  <2>1. /\ UNCHANGED <<active, set, resolver, cursor>> /\ height' = h /\ h \in Nat
        /\ n \in Nat /\ Vars!VisibleRows(h, n) \in Nat
        /\ offset' = ClampWindow(cursor, offset, Vars!VisibleRows(h, n), n)
        /\ cursor = ClampIndex(cursor, n)
    BY <1>1, <1>3, PanelsAssumption, OneArithmetic
    DEF Vars!Resize, Vars!Session, Vars!VisibleRows, Vars!CursorOnScreen
  <2>2. Vars!Count(set)' = n
    BY <2>1 DEF Vars!Count
  <2> HIDE DEF n
  <2>a. cursor \in Int
    BY <1>1
  <2>3. InWindow(cursor', offset', Vars!VisibleRows(h, n), n)
    BY <1>1, <2>a, <2>1, ResizeShows, Zenon
  <2>4. QED
    BY <1>1, <2>1, <2>2, <2>3, VarsShows DEF VarsInv, Vars!NothingCrossesEnvironments
<1>4. ASSUME NEW m \in pending, Vars!Bound(m)
      PROVE  VarsInv'
  <2>1. /\ active' = active /\ height' = height
        /\ Vars!Install(Vars!With(set, m.name, Vars!Binding(m.rest, active)))
    BY <1>4 DEF Vars!Bound
  <2>2. QED
    BY <1>1, <2>1, WithKeepsEnvironment, VarsInstall DEF Vars!NothingCrossesEnvironments
<1>5. ASSUME NEW m \in pending, Vars!Captured(m)
      PROVE  VarsInv'
  <2>1. CASE UNCHANGED <<active, set, resolver, cursor, offset, height>>
    BY <1>1, <2>1
    DEF VarsInv, Vars!NothingCrossesEnvironments, Vars!CursorOnScreen, Vars!Count
  <2>2. ASSUME NEW value \in Found, active' = active, height' = height,
               Vars!Install(Vars!With(set, m.name, Vars!Binding(value, active)))
        PROVE  VarsInv'
    BY <1>1, <2>2, WithKeepsEnvironment, VarsInstall DEF Vars!NothingCrossesEnvironments
  <2>3. QED BY <1>5, <2>1, <2>2 DEF Vars!Captured
<1>6. ASSUME NEW m \in pending, Vars!Unbound(m)
      PROVE  VarsInv'
  <2>1. /\ active' = active /\ height' = height
        /\ Vars!Install(Vars!Without(set, m.name))
    BY <1>6 DEF Vars!Unbound
  <2>2. QED
    BY <1>1, <2>1, WithoutKeepsEnvironment, VarsInstall DEF Vars!NothingCrossesEnvironments
<1>7. ASSUME NEW env \in DOMAIN Environments, Vars!Switch(env)
      PROVE  VarsInv'
  <2>1. active' = env /\ height' = height /\ Vars!Install(Vars!Own(env))
    BY <1>7 DEF Vars!Switch
  <2>2. QED BY <2>1, OwnIsItsOwn, VarsInstall
<1>8. CASE UNCHANGED <<active, set, resolver, cursor, offset, height>>
  BY <1>1, <1>8
  DEF VarsInv, Vars!NothingCrossesEnvironments, Vars!CursorOnScreen, Vars!Count
<1>9. QED
  BY <1>2, <1>3, <1>4, <1>5, <1>6, <1>7, <1>8, PanelInstallsNothing DEF Vars!Next

-----------------------------------------------------------------------------
(* The routing of keys. *)

\* syncFocus blurs every panel but the one it lights.
LEMMA SyncFocusLightsOne ==
  ASSUME NEW p, Routing!SyncFocus(p)
  PROVE  Routing!EditingIsFocused'
BY DEF Routing!SyncFocus, Routing!EditingIsFocused

\* What leaves the focus and the lit panel alone, and starts no edit outside it,
\* keeps the edit in the panel with the focus.
LEMMA EditStaysInside ==
  ASSUME Routing!EditingIsFocused, UNCHANGED <<focus, lit>>, editing' \subseteq editing \union lit
  PROVE  Routing!EditingIsFocused'
BY DEF Routing!EditingIsFocused

\* The keys that move the focus.
LEMMA FocusKeys ==
  ASSUME Routing!Send \/ Routing!MovePanel
  PROVE  Routing!EditingIsFocused'
BY SyncFocusLightsOne DEF Routing!Send, Routing!MovePanel, Routing!RefuseHeaders

\* The keys that leave it where it is; only a key the lit panel reads starts an edit.
LEMMA OtherKeys ==
  ASSUME Routing!EditingIsFocused,
         \/ Routing!Quit \/ Routing!ModalKey \/ Routing!OpenAnywhere \/ Routing!OpenByLetter
         \/ Routing!QuitByLetter \/ Routing!StepHistory \/ Routing!Retry \/ Routing!PanelKey
  PROVE  Routing!EditingIsFocused'
<1>1. UNCHANGED <<focus, lit>> /\ editing' \subseteq editing \union lit
  BY DEF Routing!Quit, Routing!ModalKey, Routing!OpenAnywhere, Routing!OpenByLetter,
         Routing!QuitByLetter, Routing!StepHistory, Routing!Retry, Routing!PanelKey,
         Routing!SameFocus
<1> QED
  BY <1>1, EditStaysInside

\* The messages: a request that is loaded and refused moves the focus to the
\* headers, and the others end edits or leave them.
LEMMA Messages ==
  ASSUME Routing!EditingIsFocused,
         \/ Routing!Discovered \/ Routing!StartConnect \/ Routing!FinishConnect
         \/ Routing!SetForm \/ Routing!LoadRefused \/ Routing!SaveRequest
         \/ Routing!FinishSave \/ Routing!Bound \/ Routing!Settle
  PROVE  Routing!EditingIsFocused'
<1>1. CASE Routing!LoadRefused
  BY <1>1, SyncFocusLightsOne DEF Routing!LoadRefused, Routing!RefuseHeaders
<1>2. CASE ~Routing!LoadRefused
  <2>1. UNCHANGED <<focus, lit>> /\ editing' \subseteq editing \union lit
    BY <1>2 DEF Routing!Discovered, Routing!StartConnect, Routing!FinishConnect,
                Routing!SetForm, Routing!SaveRequest, Routing!FinishSave, Routing!Bound,
                Routing!Settle, Routing!SameFocus
  <2> QED
    BY <2>1, EditStaysInside
<1> QED
  BY <1>1, <1>2

\* One panel has the focus to begin with, and no edit is open.
LEMMA RoutingStarts == Routing!Init => Routing!EditingIsFocused
BY DEF Routing!Init, Routing!EditingIsFocused

\* Every key and every message keeps the edit in the panel with the focus.
LEMMA RoutingStep ==
  Routing!EditingIsFocused /\ [Routing!Next]_(Routing!screen) => Routing!EditingIsFocused'
<1>1. Routing!EditingIsFocused /\ UNCHANGED Routing!screen => Routing!EditingIsFocused'
  BY DEF Routing!EditingIsFocused, Routing!screen
<1> QED
  BY <1>1, FocusKeys, OtherKeys, Messages DEF Routing!Next

-----------------------------------------------------------------------------
(* The traffic. *)

\* The index of the rows is right, and no call has two of them.
RowType == [id : Calls, sent : Nat, received : Nat, request : Nat, done : BOOLEAN,
            hasStatus : BOOLEAN]
Indexed ==
  /\ rows \in Seq(RowType) /\ Len(rows) <= MaxTrafficCalls
  /\ \A c \in DOMAIN at : /\ c \in Calls /\ at[c] \in Nat
                          /\ at[c] + 1 \in DOMAIN rows /\ rows[at[c] + 1].id = c
  /\ \A i \in DOMAIN rows : rows[i].id \in DOMAIN at /\ at[rows[i].id] = i - 1

\* A row is what the events say of its call, its request the first of those sent.
EventType == [call : Calls, kind : Log!Kinds, arg : Nat]
Of(events, c, what) == {e \in events : e.call = c /\ e.kind = what}
Faithful(row, events) ==
  /\ \E e \in events : e.call = row.id
  /\ row.sent = Cardinality(Of(events, row.id, "sent"))
  /\ row.received = Cardinality(Of(events, row.id, "received"))
  /\ row.done <=> Of(events, row.id, "ended") # {}
  /\ row.request = 0 => Of(events, row.id, "sent") = {}
  /\ row.request # 0 => /\ \A e \in Of(events, row.id, "sent") : row.request <= e.arg
                        /\ \E e \in Of(events, row.id, "sent") : e.arg = row.request

LogInv ==
  /\ IsFiniteSet(told)
  /\ told \subseteq EventType
  /\ Indexed
  /\ \A i \in DOMAIN rows : Faithful(rows[i], told)
  /\ offset \in Int /\ height \in Nat
  /\ cursor \in Nat /\ cursor = ClampIndex(cursor, Len(rows))
  /\ Log!CursorOnScreen

\* A window over the rows that shows the cursor is what the panel promises.
LEMMA LogShows ==
  ASSUME NEW n \in Nat, n = Len(rows'), height' \in Nat, rows' \in Seq(RowType),
         InWindow(cursor', offset', Log!VisibleRows(height', n), n)
  PROVE  /\ Log!CursorOnScreen' /\ cursor' \in Nat /\ offset' \in Int
         /\ cursor' = ClampIndex(cursor', Len(rows'))
<1>1. Log!VisibleRows(height', n) \in Nat /\ Log!VisibleRows(height', n) > 0
  BY DEF Log!VisibleRows
<1>2. /\ cursor' \in Nat /\ offset' \in Int /\ cursor' = ClampIndex(cursor', n)
      /\ n > 0 => /\ cursor' < n /\ offset' <= cursor'
                  /\ cursor' < offset' + Log!VisibleRows(height', n)
  BY <1>1 DEF InWindow
<1>3. rows' # << >> => n > 0
  OBVIOUS
<1>4. QED BY <1>2, <1>3 DEF Log!CursorOnScreen

\* moveTo over however many rows there come to be.
LEMMA LogMoves ==
  ASSUME NEW i \in Int, NEW n \in Nat, n = Len(rows'), rows' \in Seq(RowType), offset \in Int,
         height \in Nat, height' = height, Log!MoveTo(i, n)
  PROVE  /\ Log!CursorOnScreen' /\ cursor' \in Nat /\ offset' \in Int
         /\ cursor' = ClampIndex(cursor', Len(rows'))
<1>1. Log!VisibleRows(height, n) \in Nat
  BY DEF Log!VisibleRows
<1>2. InWindow(cursor', offset', Log!VisibleRows(height, n), n)
  BY <1>1, MoveShows, OneArithmetic DEF Log!MoveTo
<1>3. QED BY <1>2, LogShows

\* The rows after a call has started: the last row is its own, and the oldest may have
\* fallen off, which moves the others and the cursor alike.
LEMMA RowsGrow ==
  ASSUME Indexed, NEW c \in Calls, Log!Start(c)
  PROVE  \E drop \in {0, 1} :
           /\ drop = 1 => Len(rows) = MaxTrafficCalls
           /\ drop = 0 => Len(rows) < MaxTrafficCalls
           /\ rows' \in Seq(RowType) /\ Len(rows') = Len(rows) + 1 - drop
           /\ \A i \in 1 .. Len(rows') :
                rows'[i] = IF i + drop = Len(rows) + 1 THEN Log!Row(c) ELSE rows[i + drop]
           /\ at' = Log!Index(c, Append(rows, Log!Row(c)), drop)
           /\ Log!MoveTo(IF cursor >= Len(rows) - 1 THEN Len(rows') - 1 ELSE cursor - drop,
                         Len(rows'))
<1> DEFINE n == Len(rows)
           log == Append(rows, Log!Row(c))
           drop == IF Len(log) > MaxTrafficCalls THEN Len(log) - MaxTrafficCalls ELSE 0
<1>1. /\ rows \in Seq(RowType) /\ n \in Nat /\ DOMAIN rows = 1 .. n /\ n <= MaxTrafficCalls
      /\ MaxTrafficCalls \in Nat \ {0}
  BY PanelsAssumption DEF Indexed
<1>2. Log!Row(c) \in RowType
  BY DEF Log!Row, RowType
<1>3. /\ log \in Seq(RowType) /\ Len(log) = n + 1 /\ log[n + 1] = Log!Row(c)
      /\ \A i \in 1 .. n : log[i] = rows[i]
  BY <1>1, <1>2
<1>4. /\ rows' = SubSeq(log, drop + 1, n + 1) /\ at' = Log!Index(c, log, drop)
      /\ Log!MoveTo(IF cursor >= n - 1 THEN Len(rows') - 1 ELSE cursor - drop, Len(rows'))
  BY <1>3 DEF Log!Start
<1> HIDE DEF n, log
<1>5. drop \in {0, 1} /\ (drop = 1 => n = MaxTrafficCalls) /\ (drop = 0 => n < MaxTrafficCalls)
  BY <1>1, <1>3
<1> HIDE DEF drop
<1>6. /\ rows' \in Seq(RowType) /\ Len(rows') = n + 1 - drop /\ DOMAIN rows' = 1 .. n + 1 - drop
      /\ \A i \in 1 .. n + 1 - drop : rows'[i] = log[i + drop]
  <2>1. \A i \in drop + 1 .. n + 1 : log[i] \in RowType
    BY <1>1, <1>3, <1>5
  <2>2. SubSeq(log, drop + 1, n + 1) = [i \in 1 .. n + 1 - drop |-> log[i + drop]]
    BY <1>1, <1>3, <1>5
  <2>3. \A i \in 1 .. n + 1 - drop : i + drop \in drop + 1 .. n + 1
    BY <1>1, <1>5
  <2>4. n + 1 - drop \in Nat
    BY <1>1, <1>5
  <2>5. rows' \in [1 .. n + 1 - drop -> RowType]
    BY <1>4, <2>1, <2>2, <2>3
  <2>6. rows' \in Seq(RowType)
    BY ONLY <2>4, <2>5
  <2>7. DOMAIN rows' = 1 .. n + 1 - drop /\ \A i \in 1 .. n + 1 - drop : rows'[i] = log[i + drop]
    BY ONLY <1>4, <2>2
  <2>8. Len(rows') = n + 1 - drop
    BY ONLY <2>4, <2>6, <2>7
  <2>9. QED BY <2>6, <2>7, <2>8
<1>7. \A i \in 1 .. n + 1 - drop :
        rows'[i] = IF i + drop = n + 1 THEN Log!Row(c) ELSE rows[i + drop]
  <2>1. ASSUME NEW i \in 1 .. n + 1 - drop
        PROVE  rows'[i] = IF i + drop = n + 1 THEN Log!Row(c) ELSE rows[i + drop]
    <3>1. i + drop \in 1 .. n + 1
      BY <1>1, <1>5
    <3>2. QED BY <1>1, <1>3, <1>6, <3>1
  <2>2. QED BY <2>1
<1>8. QED
  BY <1>4, <1>5, <1>6, <1>7 DEF n, log

\* Rebuilt or added to, the index finds every row there is.
LEMMA RowsAreFound ==
  ASSUME Indexed, NEW c \in Calls, c \notin DOMAIN at, NEW drop \in {0, 1},
         drop = 1 => Len(rows) = MaxTrafficCalls, drop = 0 => Len(rows) < MaxTrafficCalls,
         rows' \in Seq(RowType), Len(rows') = Len(rows) + 1 - drop,
         \A i \in 1 .. Len(rows') :
           rows'[i] = IF i + drop = Len(rows) + 1 THEN Log!Row(c) ELSE rows[i + drop],
         at' = Log!Index(c, Append(rows, Log!Row(c)), drop)
  PROVE  Indexed'
<1> DEFINE n == Len(rows)
           log == Append(rows, Log!Row(c))
           there == (DOMAIN at \union {c}) \ {log[i].id : i \in 1 .. drop}
<1>1. /\ rows \in Seq(RowType) /\ n \in Nat /\ DOMAIN rows = 1 .. n /\ n <= MaxTrafficCalls
      /\ MaxTrafficCalls \in Nat \ {0}
  BY PanelsAssumption DEF Indexed
<1>2. Log!Row(c) \in RowType /\ Log!Row(c).id = c
  BY DEF Log!Row, RowType
<1>3. /\ Len(log) = n + 1 /\ log[n + 1] = Log!Row(c)
      /\ \A i \in 1 .. n : log[i] = rows[i]
  BY <1>1, <1>2
<1>4. /\ at' = Log!Index(c, log, drop)
      /\ Len(rows') = n + 1 - drop /\ DOMAIN rows' = 1 .. n + 1 - drop
      /\ drop \in {0, 1} /\ (drop = 0 => n < MaxTrafficCalls)
  OBVIOUS
<1>5. \A i \in 1 .. n + 1 - drop : rows'[i] = log[i + drop]
  <2>1. ASSUME NEW i \in 1 .. n + 1 - drop PROVE rows'[i] = log[i + drop]
    <3>1. i + drop \in 1 .. n + 1 /\ (i + drop = n + 1 \/ i + drop \in 1 .. n)
      BY ONLY <1>1, <1>4, <2>1
    <3>2. QED BY <1>3, <1>4, <3>1
  <2>2. QED BY <2>1
<1> HIDE DEF n, log
<1>7. \A i \in 1 .. n + 1 : \A k :
        log[i].id = k <=> (i = n + 1 /\ k = c) \/ (i <= n /\ k \in DOMAIN at /\ at[k] = i - 1)
  <2>1. \A i \in 1 .. n : rows[i].id \in DOMAIN at /\ at[rows[i].id] = i - 1
    BY <1>1 DEF Indexed
  <2>2. \A k \in DOMAIN at : at[k] + 1 \in 1 .. n /\ rows[at[k] + 1].id = k /\ at[k] \in Nat
    BY <1>1 DEF Indexed
  <2>3. ASSUME NEW i \in 1 .. n, NEW k PROVE log[i].id = k <=> k \in DOMAIN at /\ at[k] = i - 1
    <3>1. log[i] = rows[i] /\ i - 1 + 1 = i
      BY <1>1, <1>3
    <3>2. QED BY <2>1, <2>2, <3>1
  <2>4. QED BY <1>1, <1>2, <1>3, <2>3
<1>8. there = IF drop = 0 THEN DOMAIN at \union {c} ELSE (DOMAIN at \union {c}) \ {log[1].id}
  OBVIOUS
<1>9. \A k \in there : \E i \in drop + 1 .. n + 1 : log[i].id = k
  <2>1. ASSUME NEW k \in there, k # c PROVE \E i \in drop + 1 .. n + 1 : log[i].id = k
    <3>1. k \in DOMAIN at /\ at[k] + 1 \in 1 .. n /\ at[k] \in Nat
      BY <1>1, <2>1 DEF Indexed
    <3>2. log[at[k] + 1].id = k
      BY <1>1, <1>7, <3>1
    <3>3. at[k] + 1 \in drop + 1 .. n + 1
      BY <1>1, <1>8, <2>1, <3>1, <3>2
    <3>4. QED BY <3>2, <3>3
  <2>2. log[n + 1].id = c /\ n + 1 \in drop + 1 .. n + 1
    <3>1. drop = 1 => n >= 1
      BY <1>1 DEF n
    <3>2. QED BY <1>1, <1>7, <3>1
  <2>3. QED BY <2>1, <2>2
<1>10. DOMAIN at' = there /\ \A k \in there :
         at'[k] = IF drop > 0 THEN (CHOOSE i \in drop + 1 .. n + 1 : log[i].id = k) - 1 - drop
                  ELSE IF k = c THEN n ELSE at[k]
  <2>1. at' = [k \in there |-> IF drop > 0 THEN (CHOOSE i \in drop + 1 .. n + 1 : log[i].id = k) - 1 - drop
                               ELSE IF k = c THEN n ELSE at[k]]
    <3>1. Len(log) - 1 = n
      BY <1>1, <1>3
    <3>2. QED BY ONLY <1>3, <1>4, <3>1 DEF Log!Index
  <2>2. QED BY <2>1
<1>11. ASSUME NEW k \in there
       PROVE  /\ at'[k] \in Nat /\ at'[k] + drop + 1 \in drop + 1 .. n + 1
              /\ log[at'[k] + drop + 1].id = k
  <2>1. CASE drop > 0
    <3> DEFINE i == CHOOSE i \in drop + 1 .. n + 1 : log[i].id = k
    <3>1. i \in drop + 1 .. n + 1 /\ log[i].id = k
      BY <1>9
    <3>2. at'[k] = i - 1 - drop
      BY <1>10, <2>1
    <3> HIDE DEF i
    <3>3. at'[k] + drop + 1 = i /\ at'[k] \in Nat
      BY <1>1, <3>1, <3>2
    <3>4. QED BY <3>1, <3>3
  <2>2. CASE drop = 0 /\ k = c
    <3>1. at'[k] = n
      BY <1>10, <2>2
    <3>2. QED BY <1>1, <1>7, <2>2, <3>1
  <2>3. CASE drop = 0 /\ k # c
    <3>1. k \in DOMAIN at /\ at[k] \in Nat /\ at[k] + 1 \in 1 .. n /\ at'[k] = at[k]
      BY <1>1, <1>10, <2>3 DEF Indexed
    <3>2. QED BY <1>1, <1>7, <2>3, <3>1
  <2>4. QED BY <2>1, <2>2, <2>3
<1>12. ASSUME NEW k \in there
       PROVE  at'[k] \in Nat /\ at'[k] + 1 \in DOMAIN rows' /\ rows'[at'[k] + 1].id = k
  <2>1. at'[k] + 1 \in 1 .. n + 1 - drop /\ at'[k] + 1 + drop = at'[k] + drop + 1
    BY <1>1, <1>11
  <2>2. QED BY <1>4, <1>5, <1>11, <2>1
<1>13. \A i \in DOMAIN rows' : rows'[i].id \in DOMAIN at' /\ at'[rows'[i].id] = i - 1
  <2>1. ASSUME NEW i \in 1 .. n + 1 - drop
        PROVE  rows'[i].id \in there /\ at'[rows'[i].id] = i - 1
    <3> DEFINE k == log[i + drop].id
    <3>1. i + drop \in drop + 1 .. n + 1 /\ i + drop \in 1 .. n + 1
      BY <1>1
    <3>2. k \in DOMAIN at \union {c}
      BY <1>7, <3>1
    <3>3. \A x, y \in 1 .. n + 1 : log[x].id = log[y].id => x = y
      <4>1. SUFFICES ASSUME NEW x \in 1 .. n + 1, NEW y \in 1 .. n + 1, log[x].id = log[y].id
                     PROVE  x = y
        OBVIOUS
      <4> DEFINE id == log[x].id
      <4>2. /\ (x = n + 1 /\ id = c) \/ (x <= n /\ id \in DOMAIN at /\ at[id] = x - 1)
            /\ (y = n + 1 /\ id = c) \/ (y <= n /\ id \in DOMAIN at /\ at[id] = y - 1)
        BY <1>7, <4>1
      <4> HIDE DEF id
      <4>3. QED BY <1>1, <4>1, <4>2
    <3>4. k \in there
      BY <1>1, <1>8, <3>1, <3>2, <3>3
    <3>5. at'[k] \in Nat /\ at'[k] + drop + 1 \in 1 .. n + 1 /\ log[at'[k] + drop + 1].id = k
      <4>1. /\ at'[k] \in Nat /\ at'[k] + drop + 1 \in drop + 1 .. n + 1
            /\ log[at'[k] + drop + 1].id = k
        BY <1>11, <3>4
      <4>2. drop + 1 .. n + 1 \subseteq 1 .. n + 1
        BY ONLY <1>1, <1>4
      <4>3. QED BY <4>1, <4>2
    <3>6. at'[k] + drop + 1 = i + drop
      BY <3>1, <3>3, <3>5
    <3> HIDE DEF k
    <3>8. at'[k] = i - 1
      BY <3>5, <3>6
    <3>9. rows'[i].id = k
      BY <1>5 DEF k
    <3>10. QED BY <3>4, <3>8, <3>9
  <2>2. QED BY <1>4, <1>10, <2>1
<1>14. Len(rows') <= MaxTrafficCalls
  BY ONLY <1>1, <1>4
<1>15. \A k \in DOMAIN at' : k \in Calls
  BY <1>10 DEF Indexed
<1>16. QED BY <1>10, <1>12, <1>13, <1>14, <1>15 DEF Indexed

\* An event that is new, in its turn, is one more of its call and kind, and none of any
\* other.
LEMMA EventIsOneMore ==
  ASSUME NEW events, IsFiniteSet(events), NEW e, e \notin Of(events, e.call, e.kind)
  PROVE  /\ IsFiniteSet(events \union {e})
         /\ Of(events \union {e}, e.call, e.kind) = Of(events, e.call, e.kind) \union {e}
         /\ Cardinality(Of(events \union {e}, e.call, e.kind))
              = Cardinality(Of(events, e.call, e.kind)) + 1
         /\ \A c, what : c # e.call \/ what # e.kind =>
              Of(events \union {e}, c, what) = Of(events, c, what)
<1>1. IsFiniteSet(Of(events, e.call, e.kind)) /\ IsFiniteSet(events \union {e})
  BY FS_Subset, FS_AddElement DEF Of
<1>2. Of(events \union {e}, e.call, e.kind) = Of(events, e.call, e.kind) \union {e}
  BY DEF Of
<1>3. Cardinality(Of(events, e.call, e.kind) \union {e})
        = Cardinality(Of(events, e.call, e.kind)) + 1
  BY <1>1, FS_AddElement
<1>4. \A c, what : c # e.call \/ what # e.kind =>
        Of(events \union {e}, c, what) = Of(events, c, what)
  BY DEF Of
<1>5. QED BY <1>1, <1>2, <1>3, <1>4

\* An event of another call leaves a row faithful.
LEMMA OthersAreFaithful ==
  ASSUME NEW events, NEW e, NEW row, Faithful(row, events), row.id # e.call
  PROVE  Faithful(row, events \union {e})
<1>1. \A what : Of(events \union {e}, row.id, what) = Of(events, row.id, what)
  BY DEF Of
<1>2. QED BY <1>1 DEF Faithful

\* An event of its own call, folded in, leaves a row faithful.
LEMMA FoldIsFaithful ==
  ASSUME NEW events, IsFiniteSet(events), events \subseteq EventType,
         NEW e \in EventType, e.kind # "started",
         e.kind = "ended" => Of(events, e.call, "ended") = {},
         \A x \in Of(events, e.call, e.kind) : x.arg < e.arg,
         e.kind = "sent" => e.arg # 0,
         NEW row \in RowType, row.id = e.call, Faithful(row, events)
  PROVE  /\ Faithful(Log!Fold(row, e), events \union {e})
         /\ Log!Fold(row, e) \in RowType /\ Log!Fold(row, e).id = row.id
<1>1. /\ e \notin Of(events, e.call, e.kind)
      /\ e.kind \in {"sent", "received", "ended"} /\ e.arg \in Nat
  BY DEF EventType, Log!Kinds
<1>2. /\ Of(events \union {e}, e.call, e.kind) = Of(events, e.call, e.kind) \union {e}
      /\ Cardinality(Of(events \union {e}, e.call, e.kind))
           = Cardinality(Of(events, e.call, e.kind)) + 1
      /\ \A c, what : c # e.call \/ what # e.kind =>
           Of(events \union {e}, c, what) = Of(events, c, what)
  BY ONLY <1>1, IsFiniteSet(events), EventIsOneMore
<1>3. \E x \in events \union {e} : x.call = row.id
  OBVIOUS
<1>4. CASE e.kind = "sent"
  <2> DEFINE request == IF row.request = 0 THEN e.arg ELSE row.request
  <2>1. Log!Fold(row, e) = [row EXCEPT !.sent = @ + 1, !.request = request]
    BY <1>4 DEF Log!Fold
  <2>2. request \in Nat /\ row.sent + 1 \in Nat
    BY <1>1 DEF RowType
  <2> HIDE DEF request
  <2>3. /\ Log!Fold(row, e) \in RowType
        /\ Log!Fold(row, e).id = row.id /\ Log!Fold(row, e).sent = row.sent + 1
        /\ Log!Fold(row, e).received = row.received /\ Log!Fold(row, e).done = row.done
        /\ Log!Fold(row, e).request = request
    BY <2>1, <2>2 DEF RowType
  <2>4. Of(events, row.id, "sent") = {} \/ row.request # 0
    BY DEF Faithful
  <2>5. /\ \A x \in Of(events, row.id, "sent") \union {e} : request <= x.arg
        /\ \E x \in Of(events, row.id, "sent") \union {e} : x.arg = request
        /\ request # 0
    <3>1. CASE row.request = 0
      BY <1>1, <1>4, <2>4, <3>1 DEF request
    <3>2. CASE row.request # 0
      <4>1. PICK y \in Of(events, row.id, "sent") : y.arg = row.request
        BY <3>2 DEF Faithful
      <4>2. row.request < e.arg
        BY <1>4, <4>1
      <4>3. row.request \in Nat
        BY DEF RowType
      <4>4. row.request <= e.arg
        BY <1>1, <4>2, <4>3
      <4>5. QED BY <3>2, <4>1, <4>4 DEF Faithful, request
    <3>3. QED BY <3>1, <3>2
  <2>6. /\ row.sent = Cardinality(Of(events, row.id, "sent"))
        /\ row.received = Cardinality(Of(events, row.id, "received"))
        /\ row.done <=> Of(events, row.id, "ended") # {}
    BY DEF Faithful
  <2>7. QED BY <1>2, <1>3, <1>4, <2>3, <2>5, <2>6 DEF Faithful
<1>5. CASE e.kind = "received"
  <2>1. Log!Fold(row, e) = [row EXCEPT !.received = @ + 1]
    BY <1>5 DEF Log!Fold
  <2>2. /\ Log!Fold(row, e) \in RowType
        /\ Log!Fold(row, e).id = row.id /\ Log!Fold(row, e).sent = row.sent
        /\ Log!Fold(row, e).received = row.received + 1 /\ Log!Fold(row, e).done = row.done
        /\ Log!Fold(row, e).request = row.request
    BY <2>1 DEF RowType
  <2>3. QED BY <1>2, <1>3, <1>5, <2>2 DEF Faithful
<1>6. CASE e.kind = "ended"
  <2>1. PICK f \in BOOLEAN : f = (e.arg = Log!HasStatus)
    OBVIOUS
  <2>2. Log!Fold(row, e) = [row EXCEPT !.done = TRUE, !.hasStatus = f]
    BY <1>6, <2>1 DEF Log!Fold
  <2>3. /\ Log!Fold(row, e) \in RowType
        /\ Log!Fold(row, e).id = row.id /\ Log!Fold(row, e).sent = row.sent
        /\ Log!Fold(row, e).received = row.received /\ Log!Fold(row, e).done = TRUE
        /\ Log!Fold(row, e).request = row.request
    BY <2>2 DEF RowType
  <2>4. Of(events \union {e}, row.id, "ended") # {}
    BY <1>2, <1>6
  <2>5. QED BY <1>2, <1>3, <1>6, <2>3, <2>4 DEF Faithful
<1>7. QED BY <1>1, <1>4, <1>5, <1>6

\* A call of which nothing was told has no row.
LEMMA NoRowUntold ==
  ASSUME LogInv, NEW c, \A e \in told : e.call # c
  PROVE  c \notin DOMAIN at /\ \A i \in DOMAIN rows : rows[i].id # c
<1>1. \A i \in DOMAIN rows : \E e \in told : e.call = rows[i].id
  BY DEF LogInv, Faithful
<1>2. \A d \in DOMAIN at : at[d] + 1 \in DOMAIN rows /\ rows[at[d] + 1].id = d
  BY DEF LogInv, Indexed
<1>3. QED BY <1>1, <1>2

\* What a turn of the proxy's events gives the panel.
LEMMA Turns ==
  ASSUME LogInv, NEW c \in Calls, NEW what \in Log!Kinds, NEW arg \in Log!Args(what),
         Log!Feed(c, what, arg)
  PROVE  LET e == Log!Event(c, what, arg) IN
         /\ e \in EventType /\ e.call = c /\ e.kind = what /\ e.arg = arg
         /\ told' = told \union {e} /\ Log!Record(e)
         /\ what = "started" => \A x \in told : x.call # c
         /\ what = "ended" => Of(told, c, "ended") = {}
         /\ \A x \in Of(told, c, what) : x.arg < arg
         /\ what = "sent" => arg # 0
<1>1. arg \in Nat /\ (what = "sent" => arg # 0)
  BY PanelsAssumption DEF Log!Args, Log!Kinds, Log!NoStatus, Log!HasStatus
<1>2. Log!Event(c, what, arg) = [call |-> c, kind |-> what, arg |-> arg]
  BY DEF Log!Event
<1>3. QED
  BY <1>1, <1>2 DEF Log!Feed, Log!Due, Log!Told, Of, EventType

\* A call that starts: its row is the last, and the others are as they were.
LEMMA StartStep ==
  ASSUME LogInv, NEW e \in EventType, e.kind = "started", \A x \in told : x.call # e.call,
         told' = told \union {e}, Log!Record(e)
  PROVE  LogInv' /\ Log!IsNotDragged
<1> DEFINE c == e.call
<1>1. /\ IsFiniteSet(told) /\ told \subseteq EventType /\ Indexed
      /\ \A i \in DOMAIN rows : Faithful(rows[i], told)
      /\ offset \in Int /\ height \in Nat
      /\ cursor \in Nat /\ cursor = ClampIndex(cursor, Len(rows))
      /\ rows \in Seq(RowType) /\ Len(rows) \in Nat /\ DOMAIN rows = 1 .. Len(rows)
  BY DEF LogInv, Indexed
<1>2. c \in Calls /\ Log!Start(c) /\ height' = height
  BY DEF Log!Record, EventType
<1>3. c \notin DOMAIN at /\ \A i \in DOMAIN rows : rows[i].id # c
  BY NoRowUntold
<1> HIDE DEF c
<1>4. PICK drop \in {0, 1} :
        /\ drop = 1 => Len(rows) = MaxTrafficCalls
        /\ drop = 0 => Len(rows) < MaxTrafficCalls
        /\ rows' \in Seq(RowType) /\ Len(rows') = Len(rows) + 1 - drop
        /\ \A i \in 1 .. Len(rows') :
             rows'[i] = IF i + drop = Len(rows) + 1 THEN Log!Row(c) ELSE rows[i + drop]
        /\ at' = Log!Index(c, Append(rows, Log!Row(c)), drop)
        /\ Log!MoveTo(IF cursor >= Len(rows) - 1 THEN Len(rows') - 1 ELSE cursor - drop, Len(rows'))
  BY <1>1, <1>2, RowsGrow
<1>5. Indexed'
  BY <1>1, <1>2, <1>3, <1>4, RowsAreFound
<1>6. DOMAIN rows' = 1 .. Len(rows') /\ Len(rows') \in Nat
  BY <1>4
<1>7. Log!Row(c).id = c
  BY DEF Log!Row
<1>8. Faithful(Log!Row(c), told \union {e})
  <2>1. \A what : what # "started" => Of(told \union {e}, c, what) = {}
    BY DEF Of, c
  <2>2. \E x \in told \union {e} : x.call = c
    BY DEF c
  <2>3. Of(told \union {e}, c, "sent") = {} /\ Of(told \union {e}, c, "received") = {}
        /\ Of(told \union {e}, c, "ended") = {}
    BY <2>1
  <2>4. QED BY <1>7, <2>2, <2>3, FS_EmptySet DEF Faithful, Log!Row
<1>9. ASSUME NEW i \in 1 .. Len(rows')
      PROVE  Faithful(rows'[i], told')
  <2>1. CASE i + drop = Len(rows) + 1
    BY <1>4, <1>8, <2>1
  <2>2. CASE i + drop # Len(rows) + 1
    <3>1. i + drop \in 1 .. Len(rows)
      BY <1>1, <1>4, <2>2
    <3>2. Faithful(rows[i + drop], told) /\ rows[i + drop].id # e.call
      BY <1>1, <1>3, <3>1 DEF c
    <3>3. QED BY <1>4, <2>2, <3>2, OthersAreFaithful
  <2>3. QED BY <2>1, <2>2
<1>10. IsFiniteSet(told') /\ told' \subseteq EventType
  BY <1>1, FS_AddElement
<1>11. /\ Log!CursorOnScreen' /\ cursor' \in Nat /\ offset' \in Int
       /\ cursor' = ClampIndex(cursor', Len(rows'))
  <2>1. (IF cursor >= Len(rows) - 1 THEN Len(rows') - 1 ELSE cursor - drop) \in Int
    BY <1>1, <1>6
  <2>2. QED BY <1>1, <1>2, <1>4, <1>6, <2>1, LogMoves
<1>12. LogInv'
  BY <1>1, <1>2, <1>5, <1>6, <1>9, <1>10, <1>11 DEF LogInv
<1>13. Log!IsNotDragged
  <2> SUFFICES ASSUME cursor < Len(rows) - 1, rows[cursor + 1].id \in Log!Ids'
               PROVE  rows'[cursor' + 1].id = rows[cursor + 1].id
    BY DEF Log!IsNotDragged, Log!Reading, Log!Under
  <2>a. /\ cursor \in Nat /\ Len(rows) \in Nat /\ Len(rows') = Len(rows) + 1 - drop
        /\ drop \in {0, 1} /\ cursor < Len(rows) - 1
    BY <1>1, <1>4
  <2>1. cursor' = ClampIndex(cursor - drop, Len(rows'))
    BY <1>1, <1>4, OneArithmetic DEF Log!MoveTo
  <2>2. CASE cursor - drop >= 0
    <3>1. cursor' = cursor - drop
      BY ONLY <2>a, <2>1, <2>2 DEF ClampIndex
    <3>2. cursor' + 1 \in 1 .. Len(rows') /\ cursor' + 1 + drop = cursor + 1
          /\ cursor + 1 # Len(rows) + 1
      BY ONLY <2>a, <2>2, <3>1
    <3>3. QED BY <1>4, <3>2
  <2>3. CASE cursor = 0 /\ drop = 1
    <3>1. PICK i \in 1 .. Len(rows') : rows'[i].id = rows[1].id
      BY <1>1, <1>6, <2>3 DEF Log!Ids
    <3>2. 1 \in DOMAIN rows
      BY <1>1, <2>3
    <3>3. rows'[i] # Log!Row(c)
      BY <1>3, <1>7, <3>1, <3>2
    <3>4. rows'[i] = rows[i + 1] /\ i + 1 \in DOMAIN rows
      BY <1>1, <1>4, <2>3, <3>3
    <3>5. \A j \in DOMAIN rows : at[rows[j].id] = j - 1
      BY <1>1 DEF Indexed
    <3>6. i + 1 - 1 = 1 - 1
      BY <3>1, <3>2, <3>4, <3>5
    <3>7. QED BY <3>1, <3>6
  <2>4. QED BY <1>1, <2>2, <2>3
<1>14. QED BY <1>12, <1>13

\* An event of a call that has a row is counted there and nowhere else.
LEMMA CountStep ==
  ASSUME LogInv, NEW e \in EventType, e.kind # "started",
         e.kind = "ended" => Of(told, e.call, "ended") = {},
         \A x \in Of(told, e.call, e.kind) : x.arg < e.arg,
         e.kind = "sent" => e.arg # 0,
         told' = told \union {e}, Log!Record(e)
  PROVE  LogInv' /\ Log!Ids' = Log!Ids
<1>1. /\ IsFiniteSet(told) /\ told \subseteq EventType /\ Indexed
      /\ \A i \in DOMAIN rows : Faithful(rows[i], told)
      /\ offset \in Int /\ height \in Nat
      /\ cursor \in Nat /\ cursor = ClampIndex(cursor, Len(rows))
      /\ rows \in Seq(RowType) /\ Log!CursorOnScreen
  BY DEF LogInv, Indexed
<1>2. UNCHANGED <<at, cursor, offset, height>>
  BY DEF Log!Record
<1>3. IsFiniteSet(told') /\ told' \subseteq EventType
  BY <1>1, FS_AddElement
<1>4. CASE e.call \in DOMAIN at
  <2> DEFINE p == at[e.call] + 1
  <2>1. p \in DOMAIN rows /\ rows[p].id = e.call /\ rows[p] \in RowType /\ Faithful(rows[p], told)
    BY <1>1, <1>4 DEF Indexed
  <2>2. rows' = [rows EXCEPT ![p] = Log!Fold(rows[p], e)]
    BY <1>4, <2>1 DEF Log!Record
  <2>3. /\ Faithful(Log!Fold(rows[p], e), told')
        /\ Log!Fold(rows[p], e) \in RowType /\ Log!Fold(rows[p], e).id = rows[p].id
    BY <1>1, <2>1, FoldIsFaithful
  <2>4. \A i \in DOMAIN rows : i # p => rows[i].id # e.call
    <3>1. \A i \in DOMAIN rows : rows[i].id = e.call => at[e.call] = i - 1
      BY <1>1 DEF Indexed
    <3>2. \A i \in DOMAIN rows : i \in Int
      BY <1>1
    <3>3. QED BY <3>1, <3>2
  <2> HIDE DEF p
  <2>5. /\ rows' \in Seq(RowType) /\ Len(rows') = Len(rows) /\ DOMAIN rows' = DOMAIN rows
        /\ \A i \in DOMAIN rows : rows'[i].id = rows[i].id
        /\ \A i \in DOMAIN rows : i # p => rows'[i] = rows[i]
        /\ rows'[p] = Log!Fold(rows[p], e)
    BY <1>1, <2>1, <2>2, <2>3
  <2>6. ASSUME NEW i \in DOMAIN rows PROVE Faithful(rows'[i], told')
    <3>1. CASE i = p
      BY <2>3, <2>5, <3>1
    <3>2. CASE i # p
      <4>1. Faithful(rows[i], told) /\ rows[i].id # e.call
        BY <1>1, <2>4, <3>2
      <4>2. QED BY <2>5, <3>2, <4>1, OthersAreFaithful
    <3>3. QED BY <3>1, <3>2
  <2>7. Indexed'
    BY <1>1, <1>2, <2>5 DEF Indexed
  <2>8. Log!CursorOnScreen'
    <3>1. rows' # << >> => rows # << >>
      BY <1>1, <2>5
    <3>2. QED BY <1>1, <1>2, <2>5, <3>1 DEF Log!CursorOnScreen
  <2>9. Log!Ids' = Log!Ids
    BY <2>5 DEF Log!Ids
  <2>10. QED BY <1>1, <1>2, <1>3, <2>5, <2>6, <2>7, <2>8, <2>9 DEF LogInv
<1>5. CASE e.call \notin DOMAIN at
  <2>1. rows' = rows
    BY <1>5 DEF Log!Record
  <2>2. ASSUME NEW i \in DOMAIN rows PROVE Faithful(rows[i], told')
    <3>1. rows[i].id # e.call
      BY <1>1, <1>5 DEF Indexed
    <3>2. QED BY <1>1, <3>1, OthersAreFaithful
  <2>3. QED BY <1>1, <1>2, <1>3, <2>1, <2>2 DEF LogInv, Indexed, Log!CursorOnScreen, Log!Ids
<1>6. QED BY <1>4, <1>5

\* The panel's own keys leave the rows, and bring the cursor into the window.
LEMMA KeyStep ==
  ASSUME LogInv, Log!Keys \/ UNCHANGED Log!panel, UNCHANGED told
  PROVE  LogInv' /\ UNCHANGED rows
<1>1. /\ Indexed /\ rows \in Seq(RowType) /\ Len(rows) \in Nat
      /\ offset \in Int /\ height \in Nat
      /\ cursor \in Nat /\ cursor = ClampIndex(cursor, Len(rows))
      /\ Log!CursorOnScreen
  BY DEF LogInv, Indexed
<1>2. UNCHANGED <<rows, at, told>>
  BY DEF Log!Keys, Log!Open, Log!Move, Log!Replay, Log!Hide, Log!Resize, Log!panel
<1>3. /\ Log!CursorOnScreen' /\ cursor' \in Nat /\ offset' \in Int /\ height' \in Nat
      /\ cursor' = ClampIndex(cursor', Len(rows'))
  <2>1. CASE Log!Open
    <3>1. Log!MoveTo(cursor, Len(rows)) /\ height' = height /\ cursor \in Int
      BY <1>1, <2>1 DEF Log!Open
    <3>2. QED BY <1>1, <1>2, <3>1, LogMoves
  <2>2. CASE Log!Move
    <3>1. height' = height /\ Log!VisibleRows(height, Len(rows)) \in Int
      BY <1>1, <2>2 DEF Log!Move, Log!VisibleRows
    <3>2. PICK to \in Int : Log!MoveTo(to, Len(rows))
      BY <1>1, <2>2, <3>1 DEF Log!Move
    <3>3. QED BY <1>1, <1>2, <3>1, <3>2, LogMoves
  <2>3. ASSUME NEW h \in Heights, Log!Resize(h)
        PROVE  /\ Log!CursorOnScreen' /\ cursor' \in Nat /\ offset' \in Int /\ height' \in Nat
               /\ cursor' = ClampIndex(cursor', Len(rows'))
    <3>1. /\ height' = h /\ h \in Nat /\ cursor' = cursor /\ cursor \in Int
          /\ Log!VisibleRows(h, Len(rows)) \in Nat
          /\ offset' = ClampWindow(cursor, offset, Log!VisibleRows(h, Len(rows)), Len(rows))
      BY <1>1, <2>3, PanelsAssumption, OneArithmetic DEF Log!Resize, Log!VisibleRows
    <3>2. InWindow(cursor', offset', Log!VisibleRows(h, Len(rows)), Len(rows))
      BY <1>1, <3>1, ResizeShows, Zenon
    <3>3. QED BY <1>1, <1>2, <3>1, <3>2, LogShows
  <2>4. CASE UNCHANGED <<cursor, offset, height>>
    BY <1>1, <1>2, <2>4 DEF Log!CursorOnScreen
  <2>5. QED
    BY <2>1, <2>2, <2>3, <2>4 DEF Log!Keys, Log!Replay, Log!Hide, Log!panel
<1>4. QED BY <1>2, <1>3 DEF LogInv, Indexed

\* The log starts with no rows.
LEMMA LogStarts == Log!Init => LogInv
<1> SUFFICES ASSUME Log!Init PROVE LogInv
  OBVIOUS
<1>1. /\ rows = << >> /\ DOMAIN at = {} /\ cursor = 0 /\ offset = 0 /\ height = 0 /\ told = {}
  BY DEF Log!Init, Log!InitPanel
<1>2. rows \in Seq(RowType) /\ Len(rows) = 0 /\ DOMAIN rows = {}
  BY <1>1
<1>3. 0 = ClampIndex(0, 0)
  BY DEF ClampIndex
<1>4. Indexed
  BY <1>1, <1>2, PanelsAssumption DEF Indexed
<1>5. QED
  BY <1>1, <1>2, <1>3, <1>4, FS_EmptySet DEF LogInv, Log!CursorOnScreen

\* Every step leaves the rows faithful and found, and the reader where it was.
LEMMA LogStep ==
  LogInv /\ [Log!Next]_(<<Log!panel, told>>) => LogInv' /\ Log!IsNotDragged
<1> SUFFICES ASSUME LogInv, [Log!Next]_(<<Log!panel, told>>) PROVE LogInv' /\ Log!IsNotDragged
  OBVIOUS
<1>1. Log!Ids' = Log!Ids => Log!IsNotDragged
  BY DEF Log!IsNotDragged
<1>2. ASSUME NEW c \in Calls, NEW what \in Log!Kinds, NEW arg \in Log!Args(what),
             Log!Feed(c, what, arg)
      PROVE  LogInv' /\ Log!IsNotDragged
  <2> DEFINE e == Log!Event(c, what, arg)
  <2>1. /\ e \in EventType /\ e.call = c /\ e.kind = what /\ e.arg = arg
        /\ told' = told \union {e} /\ Log!Record(e)
        /\ what = "started" => \A x \in told : x.call # c
        /\ what = "ended" => Of(told, c, "ended") = {}
        /\ \A x \in Of(told, c, what) : x.arg < arg
        /\ what = "sent" => arg # 0
    BY <1>2, Turns
  <2> HIDE DEF e
  <2>2. CASE what = "started"
    BY <2>1, <2>2, StartStep
  <2>3. CASE what # "started"
    BY <1>1, <2>1, <2>3, CountStep
  <2>4. QED BY <2>2, <2>3
<1>3. CASE (Log!Keys \/ UNCHANGED Log!panel) /\ UNCHANGED told
  <2>1. LogInv' /\ UNCHANGED rows
    BY <1>3, KeyStep
  <2>2. Log!Ids' = Log!Ids
    BY <2>1 DEF Log!Ids
  <2>3. QED BY <1>1, <2>1, <2>2
<1>4. QED BY <1>2, <1>3 DEF Log!Next

\* What the invariant says of the rows is what the panel promises of them.
LEMMA LogPromises == LogInv => Log!RowsAreFaithful /\ Log!AtIsRight
<1> SUFFICES ASSUME LogInv PROVE Log!RowsAreFaithful /\ Log!AtIsRight
  OBVIOUS
<1>1. \A c, what : Log!Told(c, what) = Of(told, c, what)
  BY DEF Log!Told, Of
<1>2. \A S : Log!Cardinality(S) = Cardinality(S)
  BY DEF Log!Cardinality, Cardinality
<1>3. ASSUME NEW i \in DOMAIN rows
      PROVE  /\ rows[i].sent = Cardinality(Of(told, rows[i].id, "sent"))
             /\ rows[i].received = Cardinality(Of(told, rows[i].id, "received"))
             /\ rows[i].done = (Of(told, rows[i].id, "ended") # {})
             /\ rows[i].request # 0 =>
                  \A e \in Of(told, rows[i].id, "sent") : rows[i].request <= e.arg
  <2>a. rows \in Seq(RowType) /\ Faithful(rows[i], told)
    BY DEF LogInv, Indexed
  <2>b. rows[i] \in RowType
    BY <2>a
  <2>1. Faithful(rows[i], told) /\ rows[i].done \in BOOLEAN
    BY <2>a, <2>b DEF RowType
  <2>2. QED BY <2>1 DEF Faithful
<1>4. Log!RowsAreFaithful
  BY <1>1, <1>2, <1>3 DEF Log!RowsAreFaithful
<1>5. Log!AtIsRight
  <2>1. Indexed
    BY DEF LogInv
  <2>2. DOMAIN at = Log!Ids
    BY <2>1 DEF Indexed, Log!Ids
  <2>3. QED BY <2>1, <2>2 DEF Indexed, Log!AtIsRight
<1>6. QED BY <1>4, <1>5

-----------------------------------------------------------------------------
(* The saved requests. *)

\* What a query narrows a list to is a list.
LEMMA FilterIsAList ==
  ASSUME NEW es, NEW q, NEW N \in Nat, N = Len(es)
  PROVE  List!Filter(es, q) \in Seq(Nat) /\ (N = 0 => List!Filter(es, q) = << >>)
<1> DEFINE step == [x \in (1 .. N) \X Seq(Nat) |->
                      IF List!Matches(q, es[x[1]]) THEN Append(x[2], x[1]) ELSE x[2]]
           Up(f) == [n \in 0 .. N |->
                       IF n = 0 THEN << >>
                       ELSE IF List!Matches(q, es[n]) THEN Append(f[n - 1], n) ELSE f[n - 1]]
           G(f) == {n \in Nat : n <= N => f[n] \in Seq(Nat)}
<1>1. step \in [(1 .. N) \X Seq(Nat) -> Seq(Nat)]
  OBVIOUS
<1>a. PICK f : Recurs(f, Seq(Nat), << >>, N, step)
  <2> HIDE DEF step
  <2>1. << >> \in Seq(Nat)
    OBVIOUS
  <2>2. QED BY <1>1, <2>1, Recursion
<1>2. /\ f \in [0 .. N -> Seq(Nat)]
      /\ f[0] = << >> /\ \A n \in 1 .. N : f[n] = step[<<n, f[n - 1]>>]
  <2> HIDE DEF step
  <2>1. QED BY <1>a DEF Recurs
<1>3. f = Up(f)
  <2>1. ASSUME NEW n \in 1 .. N
        PROVE  f[n] = IF List!Matches(q, es[n]) THEN Append(f[n - 1], n) ELSE f[n - 1]
    <3>1. n - 1 \in 0 .. N
      OBVIOUS
    <3>2. f[n - 1] \in Seq(Nat) /\ <<n, f[n - 1]>> \in (1 .. N) \X Seq(Nat)
      BY <1>2, <3>1
    <3>3. QED BY <1>2, <3>2
  <2>2. ASSUME NEW n \in 0 .. N
        PROVE  f[n] = IF n = 0 THEN << >>
                      ELSE IF List!Matches(q, es[n]) THEN Append(f[n - 1], n) ELSE f[n - 1]
    <3>1. CASE n = 0
      BY <1>2, <3>1
    <3>2. CASE n # 0
      <4>1. n \in 1 .. N
        BY <3>2
      <4>2. QED BY <2>1, <3>2, <4>1
    <3>3. QED BY <3>1, <3>2
  <2>3. f = [n \in 0 .. N |-> f[n]]
    BY <1>2
  <2>4. QED BY <2>2, <2>3
<1> DEFINE g == CHOOSE f_ : f_ = Up(f_)
<1>4. g = Up(g)
  <2> HIDE DEF Up
  <2>1. QED BY <1>3
<1>5. List!Filter(es, q) = g[N]
  BY DEF List!Filter
<1> HIDE DEF g
<1>b. g[0] = << >>
  BY <1>4
<1>6. 0 \in G(g)
  <2>1. << >> \in Seq(Nat)
    OBVIOUS
  <2>2. QED BY <1>b, <2>1
<1>7. ASSUME NEW n \in Nat, n \in G(g) PROVE n + 1 \in G(g)
  <2> SUFFICES ASSUME n + 1 <= N PROVE g[n + 1] \in Seq(Nat)
    OBVIOUS
  <2>1. g[n] \in Seq(Nat) /\ n + 1 \in Nat
    BY <1>7
  <2>a. n + 1 \in 0 .. N /\ n + 1 # 0 /\ n + 1 - 1 = n
    OBVIOUS
  <2>b. ASSUME NEW k \in 0 .. N, k # 0
        PROVE  g[k] = IF List!Matches(q, es[k]) THEN Append(g[k - 1], k) ELSE g[k - 1]
    BY <1>4, <2>b
  <2> HIDE DEF Up
  <2>2. g[n + 1] = IF List!Matches(q, es[n + 1]) THEN Append(g[n], n + 1) ELSE g[n]
    BY <2>a, <2>b
  <2> HIDE DEF Up
  <2>3. QED BY <2>1, <2>2
<1>8. N \in G(g)
  <2> HIDE DEF G
  <2>1. QED BY <1>6, <1>7, Inductive
<1>9. QED BY <1>5, <1>8, <1>b

\* A list with its cursor in the window.
ListShown(n) ==
  /\ cursor \in Nat /\ offset \in Int /\ height \in Nat
  /\ cursor = ClampIndex(cursor, n)
  /\ n > 0 => cursor \in offset .. (offset + List!VisibleRows(height, n) - 1)

\* Two lists of rows, and on screen what the query matches of both.
EntryType == [request : Requests, source : Sources]
ListInv ==
  /\ history \in Seq(Requests) /\ collections \in Seq(EntryType)
  /\ visible = List!Filter(List!Entries, query)
  /\ ListShown(Len(visible))

\* The entries on screen are a list, of the two it is narrowed from.
LEMMA EntriesAreAList ==
  ASSUME NEW h \in Seq(Requests), NEW c \in Seq(EntryType)
  PROVE  Len(List!EntriesOf(h, c)) \in Nat
<1> DEFINE AnyType == [request : Requests, source : Sources \union {"history"}]
           sent == [i \in DOMAIN h |-> List!Entry(h[i], "history")]
<1>1. sent \in Seq(AnyType)
  <2>1. DOMAIN h = 1 .. Len(h) /\ Len(h) \in Nat
    OBVIOUS
  <2>2. \A i \in DOMAIN h : List!Entry(h[i], "history") \in AnyType
    BY DEF List!Entry
  <2>3. QED BY <2>1, <2>2
<1>2. c \in Seq(AnyType)
  <2>1. c \in [1 .. Len(c) -> EntryType] /\ Len(c) \in Nat
    OBVIOUS
  <2>2. EntryType \subseteq AnyType
    BY DEF EntryType
  <2> HIDE DEF AnyType
  <2>3. c \in [1 .. Len(c) -> AnyType]
    BY <2>1, <2>2
  <2>4. QED BY <2>1, <2>3
<1> HIDE DEF AnyType, sent
<1>3. sent \o c \in Seq(AnyType)
  BY <1>1, <1>2
<1>4. QED BY <1>3 DEF List!EntriesOf, sent

\* A window over the rows that shows the cursor is what the browser promises.
LEMMA ListShows ==
  ASSUME NEW n \in Nat, n = Len(visible'), height' \in Nat,
         InWindow(cursor', offset', List!VisibleRows(height', n), n)
  PROVE  ListShown(Len(visible))'
<1>1. List!VisibleRows(height', n) \in Nat /\ List!VisibleRows(height', n) > 0
  BY DEF List!VisibleRows
<1>2. /\ cursor' \in Nat /\ offset' \in Int /\ cursor' = ClampIndex(cursor', n)
      /\ n > 0 => cursor' \in offset' .. (offset' + List!VisibleRows(height', n) - 1)
  BY <1>1 DEF InWindow
<1>3. QED BY <1>2 DEF ListShown

\* moveTo over the rows there come to be, from anywhere to anywhere.
LEMMA ListMoves ==
  ASSUME NEW i \in Int, NEW n \in Nat, n = Len(visible'), offset \in Int,
         height \in Nat, height' = height, cursor' = ClampIndex(i, n),
         offset' = ClampWindow(ClampIndex(i, n), offset, List!VisibleRows(height, n), n)
  PROVE  ListShown(Len(visible))'
<1>1. List!VisibleRows(height, n) \in Nat
  BY DEF List!VisibleRows
<1>2. InWindow(cursor', offset', List!VisibleRows(height, n), n)
  BY <1>1, MoveShows
<1>3. QED BY <1>2, ListShows

\* filter and moveTo, over any rows and for any query.
LEMMA ListsShow ==
  ASSUME ListInv, NEW h \in Seq(Requests), NEW c \in Seq(EntryType), NEW q, NEW i \in Int,
         List!Lists(List!EntriesOf(h, c), q, i),
         history' = h, collections' = c, query' = q, height' = height
  PROVE  ListInv'
<1> DEFINE es == List!EntriesOf(h, c)
<1>1. offset \in Int /\ height \in Nat
  BY DEF ListInv, ListShown
<1>2. List!Filter(es, q) \in Seq(Nat)
  BY EntriesAreAList, FilterIsAList
<1>3. /\ visible' = List!Filter(es, q)
      /\ cursor' = ClampIndex(i, Len(visible'))
      /\ offset' = ClampWindow(cursor', offset, List!VisibleRows(height, Len(visible')),
                               Len(visible'))
  BY OneArithmetic DEF List!Lists
<1>4. es = List!Entries'
  BY DEF List!Entries, List!EntriesOf
<1> HIDE DEF es
<1>5. Len(visible') \in Nat
  BY <1>2, <1>3
<1>6. ListShown(Len(visible))'
  BY <1>1, <1>3, <1>5, ListMoves
<1>7. QED BY <1>3, <1>4, <1>6 DEF ListInv

\* The browser starts with nothing saved.
LEMMA ListStarts == List!Init => ListInv
<1> SUFFICES ASSUME List!Init PROVE ListInv
  OBVIOUS
<1>1. /\ history = << >> /\ collections = << >> /\ visible = << >>
      /\ cursor = 0 /\ offset = 0 /\ height = 0
  BY DEF List!Init
<1>2. List!Entries = << >>
  BY <1>1 DEF List!Entries, List!EntriesOf
<1>3. List!Filter(<< >>, query) = << >>
  BY FilterIsAList
<1>4. QED
  BY <1>1, <1>2, <1>3 DEF ListInv, ListShown, ClampIndex

\* Whatever was sent, saved, typed, cleared or resized, the list is what the query
\* matches, with the cursor on a row in sight.
LEMMA ListStep == ListInv /\ [List!Next]_(List!vars) => ListInv'
<1> SUFFICES ASSUME ListInv, [List!Next]_(List!vars) PROVE ListInv'
  OBVIOUS
<1>1. /\ history \in Seq(Requests) /\ collections \in Seq(EntryType)
      /\ visible = List!Filter(List!Entries, query)
      /\ cursor \in Nat /\ offset \in Int /\ height \in Nat
      /\ cursor = ClampIndex(cursor, Len(visible))
      /\ ListShown(Len(visible))
      /\ List!Entries = List!EntriesOf(history, collections)
      /\ cursor \in Int /\ 0 \in Int
  BY DEF ListInv, ListShown, List!Entries
<1>2. Len(visible) \in Nat
  <2>1. List!Filter(List!Entries, query) \in Seq(Nat)
    BY <1>1, EntriesAreAList, FilterIsAList
  <2>2. QED BY <1>1, <2>1
<1>3. ASSUME NEW r \in Requests, List!Sent(r)
      PROVE  ListInv'
  <2> DEFINE sent == << r >> \o history
  <2>1. sent \in Seq(Requests)
    BY <1>1
  <2>2. history' = IF Len(sent) > Limit THEN SubSeq(sent, 1, Len(sent) - 1) ELSE sent
    BY <1>3 DEF List!Sent, List!Front
  <2> HIDE DEF sent
  <2>3. SubSeq(sent, 1, Len(sent) - 1) \in Seq(Requests)
    <3>1. Len(sent) \in Nat /\ \A i \in 1 .. Len(sent) : sent[i] \in Requests
      BY <2>1
    <3>2. SubSeq(sent, 1, Len(sent) - 1) = [i \in 1 .. Len(sent) - 1 |-> sent[i]]
      BY <2>1, <3>1
    <3>3. CASE Len(sent) = 0
      BY <3>2, <3>3
    <3>4. CASE Len(sent) # 0
      <4>1. Len(sent) - 1 \in Nat /\ \A i \in 1 .. Len(sent) - 1 : i \in 1 .. Len(sent)
        BY <3>1, <3>4
      <4>2. [i \in 1 .. Len(sent) - 1 |-> sent[i]] \in [1 .. Len(sent) - 1 -> Requests]
        BY <3>1, <4>1
      <4>3. QED BY <3>2, <4>1, <4>2
    <3>5. QED BY <3>3, <3>4
  <2>4. history' \in Seq(Requests)
    BY <2>1, <2>2, <2>3
  <2>5. /\ List!Lists(List!EntriesOf(history', collections), query, cursor)
        /\ UNCHANGED <<collections, query, height>>
    BY <1>3 DEF List!Sent
  <2>6. QED BY <1>1, <2>4, <2>5, ListsShow
<1>4. ASSUME NEW q, List!Lists(List!Entries, q, 0), query' = q,
             UNCHANGED <<history, collections, height>>
      PROVE  ListInv'
  BY <1>1, <1>4, ListsShow
<1>5. ASSUME NEW s \in saving, List!SaveDone(s)
      PROVE  ListInv'
  <2>1. PICK r \in Requests, source \in Sources :
          LET e == List!Entry(r, source)
          IN  collections' = IF List!Contains(collections, e) \/ Len(collections) = Limit
                             THEN collections ELSE Append(collections, e)
    BY <1>5 DEF List!SaveDone
  <2>2. collections' \in Seq(EntryType)
    <3>1. List!Entry(r, source) \in EntryType
      BY DEF List!Entry, EntryType
    <3>2. Append(collections, List!Entry(r, source)) \in Seq(EntryType)
      BY <1>1, <3>1
    <3>3. QED BY <1>1, <2>1, <3>2
  <2>3. /\ List!Lists(List!EntriesOf(history, collections'), query, cursor)
        /\ UNCHANGED <<history, query, height>>
    BY <1>5 DEF List!SaveDone
  <2>4. QED BY <1>1, <2>2, <2>3, ListsShow
<1>6. ASSUME NEW h \in Heights, List!Resize(h)
      PROVE  ListInv'
  <2>1. /\ UNCHANGED <<history, collections, visible, query, cursor>> /\ height' = h /\ h \in Nat
        /\ List!VisibleRows(h, Len(visible)) \in Nat
        /\ offset' = ClampWindow(cursor, offset, List!VisibleRows(h, Len(visible)), Len(visible))
    BY <1>2, <1>6, PanelsAssumption, OneArithmetic DEF List!Resize, List!VisibleRows
  <2>2. InWindow(cursor', offset', List!VisibleRows(h, Len(visible)), Len(visible))
    BY <1>1, <1>2, <2>1, ResizeShows, Zenon
  <2>3. ListShown(Len(visible))'
    BY <1>2, <2>1, <2>2, ListShows
  <2>4. QED BY <1>1, <2>1, <2>3 DEF ListInv, List!Entries
<1>7. CASE List!Move
  <2>1. /\ UNCHANGED <<history, collections, visible, query, height>>
        /\ List!VisibleRows(height, Len(visible)) \in Int
    BY <1>1, <1>2, <1>7 DEF List!Move, List!SameSources, List!VisibleRows
  <2>2. PICK to \in Int :
          /\ cursor' = ClampIndex(to, Len(visible))
          /\ offset' = ClampWindow(ClampIndex(to, Len(visible)), offset,
                                   List!VisibleRows(height, Len(visible)), Len(visible))
    BY <1>1, <1>2, <1>7, <2>1, OneArithmetic DEF List!Move
  <2>3. ListShown(Len(visible))'
    BY <1>1, <1>2, <2>1, <2>2, ListMoves
  <2>4. QED BY <1>1, <2>1, <2>3 DEF ListInv, List!Entries
<1>8. CASE UNCHANGED <<history, collections, visible, query, cursor, offset, height>>
  BY <1>1, <1>8 DEF ListInv, ListShown, List!Entries
<1>9. CASE List!Open
  BY <1>4, <1>9 DEF List!Open, List!SameSources
<1>10. CASE List!CancelList
  <2>1. CASE query # ""
    BY <1>4, <1>10, <2>1 DEF List!CancelList, List!SetQuery, List!SameSources
  <2>2. CASE query = ""
    BY <1>8, <1>10, <2>2 DEF List!CancelList, List!SameSources
  <2>3. QED BY <2>1, <2>2
<1>11. ASSUME NEW text \in Filters, List!TypeFilter(text)
       PROVE  ListInv'
  BY <1>4, <1>11 DEF List!TypeFilter, List!SetQuery, List!SameSources
<1>12. CASE List!CancelFilter
  BY <1>4, <1>12 DEF List!CancelFilter, List!SetQuery, List!SameSources
<1>13. ASSUME NEW text \in Filters, List!OpenSave(text) \/ List!TypeSave(text)
       PROVE  ListInv'
  BY <1>8, <1>13 DEF List!OpenSave, List!TypeSave, List!SameList
<1>14. ASSUME NEW s \in saving, List!SaveFailed(s)
       PROVE  ListInv'
  BY <1>8, <1>14 DEF List!SaveFailed, List!SameList
<1>15. CASE List!FilterKey \/ List!Leave \/ List!SettleFilter \/ List!Save \/ List!CancelSave
  BY <1>8, <1>15
  DEF List!FilterKey, List!Leave, List!SettleFilter, List!Save, List!CancelSave, List!SameList
<1>16. CASE UNCHANGED List!vars
  BY <1>8, <1>16 DEF List!vars
<1>17. QED
  BY <1>3, <1>5, <1>6, <1>7, <1>9, <1>10, <1>11, <1>12, <1>13, <1>14, <1>15, <1>16 DEF List!Next

\* What the invariant says of the list is what the browser promises of it.
LEMMA ListPromises == ListInv => List!CursorOnScreen
BY OneArithmetic DEF ListInv, ListShown, List!CursorOnScreen

-----------------------------------------------------------------------------
(* The service tree. *)

\* The rows of the services up to each one, with some of them open.
BlockLength(ss, shown, i) == 1 + (IF i \in shown THEN Len(ss[i]) ELSE 0)
Block(ss, shown, i) == [k \in 1 .. BlockLength(ss, shown, i) |-> <<i, k - 1>>]
Prefixes(F, ss, shown) ==
  /\ F \in [0 .. Len(ss) -> Seq(Nat \X Nat)]
  /\ F[0] = << >>
  /\ \A i \in 1 .. Len(ss) : F[i] = F[i - 1] \o Block(ss, shown, i)
  /\ Tree!RowsOf(ss, shown) = F[Len(ss)]

\* A sequence of sequences end to end is what adding one after another gives.
AddsUp(F, R, N, seqs) ==
  /\ F \in [0 .. N -> Seq(R)]
  /\ F[0] = << >>
  /\ \A i \in 1 .. N : F[i] = F[i - 1] \o seqs[i]

\* The library's FlattenSeq gives that.
LEMMA FlattenAddsUp ==
  ASSUME NEW R, NEW N \in Nat, NEW seqs \in Seq(Seq(R)), N = Len(seqs)
  PROVE  \E F : AddsUp(F, R, N, seqs) /\ Tree!FlattenSeq(seqs) = F[N]
<1> DEFINE step == [x \in (1 .. N) \X Seq(R) |-> x[2] \o seqs[x[1]]]
           Up(f) == [i \in 1 .. N |-> IF i = 1 THEN seqs[i] ELSE f[i - 1] \o seqs[i]]
<1>1. \A i \in 1 .. N : seqs[i] \in Seq(R)
  OBVIOUS
<1>2. step \in [(1 .. N) \X Seq(R) -> Seq(R)]
  BY <1>1
<1>3. PICK F : Recurs(F, Seq(R), << >>, N, step)
  <2> HIDE DEF step
  <2>1. << >> \in Seq(R)
    OBVIOUS
  <2>2. QED BY <1>2, <2>1, Recursion
<1>4. /\ F \in [0 .. N -> Seq(R)] /\ F[0] = << >>
      /\ \A i \in 1 .. N : F[i] = F[i - 1] \o seqs[i]
  <2>1. /\ F \in [0 .. N -> Seq(R)] /\ F[0] = << >>
        /\ \A n \in 1 .. N : F[n] = step[<<n, F[n - 1]>>]
    <3> HIDE DEF step
    <3>1. QED BY <1>3 DEF Recurs
  <2>2. ASSUME NEW i \in 1 .. N PROVE F[i] = F[i - 1] \o seqs[i]
    <3>1. i - 1 \in 0 .. N
      OBVIOUS
    <3>2. <<i, F[i - 1]>> \in (1 .. N) \X Seq(R)
      BY <2>1, <3>1
    <3>3. QED BY <2>1, <3>2
  <2>3. QED BY <2>1, <2>2
<1>5. CASE N = 0
  <2>a. \A S : \A q \in Seq(S) : Len(q) = 0 => q = << >>
    BY ONLY TRUE
  <2>1. seqs = << >> /\ Len(seqs) = 0
    BY <1>5, <2>a
  <2>2. Tree!FlattenSeq(seqs) = << >>
    BY <2>1, Zenon DEF Tree!FlattenSeq
  <2>3. QED BY <1>4, <1>5, <2>2 DEF AddsUp
<1>6. CASE N > 0
  <2> DEFINE h == [i \in 1 .. N |-> F[i]]
             g == CHOOSE f_ : f_ = Up(f_)
  <2>1. h = Up(h)
    <3>1. ASSUME NEW i \in 1 .. N
          PROVE  h[i] = IF i = 1 THEN seqs[i] ELSE h[i - 1] \o seqs[i]
      <4>1. CASE i = 1
        <5>1. 1 \in 1 .. N /\ 1 - 1 = 0
          BY <1>6
        <5>2. F[1] = << >> \o seqs[1] /\ seqs[1] \in Seq(R)
          BY <1>1, <1>4, <5>1
        <5>3. F[1] = seqs[1]
          BY <5>2
        <5>4. QED BY <4>1, <5>1, <5>3
      <4>2. CASE i # 1
        <5>1. i - 1 \in 1 .. N
          BY <4>2
        <5>2. QED BY <1>4, <4>2, <5>1
      <4>3. QED BY <4>1, <4>2
    <3>2. h = [i \in 1 .. N |-> h[i]]
      OBVIOUS
    <3> HIDE DEF h
    <3>3. QED BY <3>1, <3>2
  <2>2. g = Up(g)
    <3> HIDE DEF Up, h
    <3>1. QED BY <2>1
  <2>3. Tree!FlattenSeq(seqs) = g[N]
    BY <1>6 DEF Tree!FlattenSeq
  <2> DEFINE G == {n \in Nat : n \in 1 .. N => g[n] = F[n]}
  <2> HIDE DEF g
  <2> USE DEF G
  <2>4. 0 \in G
    OBVIOUS
  <2>5. ASSUME NEW n \in Nat, n \in G PROVE n + 1 \in G
    <3> DEFINE k == n + 1
    <3> SUFFICES ASSUME k \in 1 .. N PROVE g[k] = F[k]
      OBVIOUS
    <3>0. k - 1 = n
      OBVIOUS
    <3> HIDE DEF k
    <3>1. g[k] = IF k = 1 THEN seqs[k] ELSE g[n] \o seqs[k]
      BY <2>2, <3>0
    <3>2. F[k] = F[n] \o seqs[k]
      BY <1>4, <3>0
    <3>3. CASE n = 0
      <4>1. k = 1
        BY <3>3 DEF k
      <4>2. F[k] = << >> \o seqs[k] /\ seqs[k] \in Seq(R)
        BY <1>1, <1>4, <3>2, <3>3
      <4>3. QED BY <3>1, <4>1, <4>2
    <3>4. CASE n # 0
      <4>1. n \in 1 .. N /\ k # 1
        BY <3>4 DEF k
      <4>2. g[n] = F[n]
        BY <2>5, <4>1
      <4>3. QED BY <3>1, <3>2, <4>1, <4>2
    <3>5. QED BY <3>3, <3>4
  <2>6. N \in G
    <3> HIDE DEF G
    <3>1. QED BY <2>4, <2>5, Inductive
  <2>7. g[N] = F[N]
    BY <1>6, <2>6
  <2>8. QED BY <1>4, <2>3, <2>7 DEF AddsUp
<1>7. N = 0 \/ N > 0
  OBVIOUS
<1>8. QED BY <1>5, <1>6, <1>7

\* The rows of a schema, however it is folded, are its services' one after another.
LEMMA PrefixesAre ==
  ASSUME NEW ss \in Seq(Seq(STRING)), NEW shown
  PROVE  \E F : Prefixes(F, ss, shown)
<1> DEFINE N == Len(ss)
           R == Nat \X Nat
           seqs == [s \in DOMAIN ss |->
                      << <<s, 0>> >>
                        \o (IF s \in shown THEN [m \in DOMAIN ss[s] |-> <<s, m>>] ELSE << >>)]
<1>1. N \in Nat /\ DOMAIN ss = 1 .. N
  OBVIOUS
<1>2. ASSUME NEW s \in 1 .. N PROVE seqs[s] = Block(ss, shown, s) /\ Block(ss, shown, s) \in Seq(R)
  <2>1. ss[s] \in Seq(STRING) /\ s \in Nat
    OBVIOUS
  <2>2. Len(ss[s]) \in Nat /\ DOMAIN ss[s] = 1 .. Len(ss[s])
    BY <2>1
  <2> DEFINE L == Len(ss[s])
  <2>3. seqs[s] = << <<s, 0>> >> \o (IF s \in shown THEN [m \in 1 .. L |-> <<s, m>>] ELSE << >>)
    BY <1>1, <2>2
  <2> HIDE DEF L, seqs
  <2>a. L \in Nat
    BY <2>2 DEF L
  <2>4. CASE s \in shown
    <3> DEFINE t == [m \in 1 .. L |-> <<s, m>>]
               u == << <<s, 0>> >> \o t
    <3>1. t \in Seq(R) /\ Len(t) = L /\ << <<s, 0>> >> \in Seq(R) /\ Len(<< <<s, 0>> >>) = 1
      BY <2>1, <2>a
    <3>2. u = [k \in 1 .. L + 1 |-> IF k <= 1 THEN << <<s, 0>> >>[k] ELSE t[k - 1]]
      BY <3>1, <2>a
    <3>3. ASSUME NEW k \in 1 .. L + 1
          PROVE  (IF k <= 1 THEN << <<s, 0>> >>[k] ELSE t[k - 1]) = <<s, k - 1>>
      BY <2>a
    <3> HIDE DEF t
    <3>4. u = [k \in 1 .. L + 1 |-> <<s, k - 1>>]
      BY <3>2, <3>3
    <3>5. u \in Seq(R)
      BY <3>1
    <3>6. BlockLength(ss, shown, s) = L + 1
      BY <2>4, <2>a DEF BlockLength, L
    <3>7. seqs[s] = u
      BY <2>3, <2>4 DEF t
    <3> HIDE DEF u
    <3>8. Block(ss, shown, s) = u
      BY <3>4, <3>6 DEF Block
    <3>9. QED BY <3>5, <3>7, <3>8
  <2>5. CASE s \notin shown
    <3>1. seqs[s] = << <<s, 0>> >>
      BY <2>1, <2>3, <2>5
    <3>2. Block(ss, shown, s) = << <<s, 0>> >>
      BY <2>5 DEF Block, BlockLength
    <3>3. QED BY <2>1, <3>1, <3>2
  <2>6. QED BY <2>4, <2>5
<1>3. seqs \in Seq(Seq(R)) /\ Len(seqs) = N
  <2>1. seqs = [s \in 1 .. N |-> seqs[s]]
    BY <1>1
  <2> HIDE DEF seqs
  <2>2. seqs \in [1 .. N -> Seq(R)]
    BY <1>2, <2>1
  <2>3. QED BY <1>1, <2>2
<1>4. Tree!RowsOf(ss, shown) = Tree!FlattenSeq(seqs)
  BY DEF Tree!RowsOf
<1> HIDE DEF seqs
<1>5. PICK F : AddsUp(F, R, N, seqs) /\ Tree!FlattenSeq(seqs) = F[N]
  BY <1>1, <1>3, FlattenAddsUp
<1>6. Prefixes(F, ss, shown)
  BY <1>1, <1>2, <1>4, <1>5 DEF Prefixes, AddsUp
<1>7. QED BY <1>6

\* The rows rs are those of the first i services: each is one of theirs and is
\* there once, and none is missing.
Shows(shown, rs, ss, i) ==
  /\ rs \in Seq(Nat \X Nat)
  /\ \A k \in DOMAIN rs : /\ rs[k][1] \in 1 .. i /\ rs[k][2] \in 0 .. Len(ss[rs[k][1]])
                          /\ rs[k][2] # 0 => rs[k][1] \in shown
  /\ \A s \in 1 .. i : \A m \in 0 .. Len(ss[s]) :
       (m = 0 \/ s \in shown) => \E k \in DOMAIN rs : rs[k] = <<s, m>>
  /\ \A k, l \in DOMAIN rs : rs[k] = rs[l] => k = l

\* One more service adds its rows, under those there.
LEMMA BlockShows ==
  ASSUME NEW ss \in Seq(Seq(STRING)), NEW shown, NEW i \in Nat, i + 1 \in DOMAIN ss,
         NEW rs, Shows(shown, rs, ss, i)
  PROVE  Shows(shown, rs \o Block(ss, shown, i + 1), ss, i + 1)
<1> DEFINE s == i + 1
           M == BlockLength(ss, shown, s)
           b == Block(ss, shown, s)
           L == Len(rs)
           R == rs \o b
<1>1. s \in Nat /\ s \in DOMAIN ss /\ i < s /\ s > 0
  OBVIOUS
<1> HIDE DEF s
<1>2. Len(ss[s]) \in Nat
  <2>1. ss[s] \in Seq(STRING)
    BY <1>1
  <2>2. QED BY <2>1
<1>3. M \in Nat /\ M > 0 /\ M <= Len(ss[s]) + 1 /\ (s \in shown => M = Len(ss[s]) + 1)
      /\ (s \notin shown => M = 1)
  BY <1>2 DEF BlockLength
<1> HIDE DEF M
<1>4. b = [k \in 1 .. M |-> <<s, k - 1>>]
  BY DEF Block, M
<1> HIDE DEF b
<1>5. rs \in Seq(Nat \X Nat) /\ L \in Nat
  BY DEF Shows
<1>6. b \in Seq(Nat \X Nat) /\ Len(b) = M
  BY <1>1, <1>3, <1>4
<1>7. /\ R \in Seq(Nat \X Nat) /\ DOMAIN R = 1 .. L + M
      /\ \A k \in 1 .. L : R[k] = rs[k]
      /\ \A k \in 1 .. M : R[L + k] = <<s, k - 1>>
  <2>a. R \in Seq(Nat \X Nat) /\ Len(R) = Len(rs) + Len(b)
    <3>1. \A S : \A p, q \in Seq(S) : p \o q \in Seq(S) /\ Len(p \o q) = Len(p) + Len(q)
      BY ONLY TRUE
    <3>2. QED BY <1>5, <1>6, <3>1
  <2>1. R \in Seq(Nat \X Nat) /\ DOMAIN R = 1 .. L + M
    BY <1>6, <2>a
  <2>2. \A k \in 1 .. L : R[k] = rs[k]
    BY <1>3, <1>5, <1>6
  <2>3. ASSUME NEW k \in 1 .. M PROVE R[L + k] = <<s, k - 1>>
    <3>1. L + k \in 1 .. L + M /\ ~(L + k <= L) /\ L + k - L = k
      BY <1>3, <1>5
    <3>2. R[L + k] = b[k]
      BY <1>3, <1>5, <1>6, <3>1
    <3>3. QED BY <1>4, <3>2
  <2>4. QED BY <2>1, <2>2, <2>3
<1> HIDE DEF R
<1>8. \A k \in DOMAIN R : k \in 1 .. L \/ \E j \in 1 .. M : k = L + j
  <2>1. ASSUME NEW k \in 1 .. L + M, k \notin 1 .. L PROVE k - L \in 1 .. M /\ k = L + (k - L)
    BY <1>3, <1>5, <2>1
  <2>2. QED BY <1>7, <2>1
<1>9. DOMAIN rs = 1 .. L
  BY <1>5
<1> HIDE DEF L
<1>10. ASSUME NEW k \in DOMAIN R
       PROVE  /\ R[k][1] \in 1 .. s /\ R[k][2] \in 0 .. Len(ss[R[k][1]])
              /\ R[k][2] # 0 => R[k][1] \in shown
  <2>1. CASE k \in 1 .. L
    <3>1. /\ rs[k][1] \in 1 .. i /\ rs[k][2] \in 0 .. Len(ss[rs[k][1]])
          /\ rs[k][2] # 0 => rs[k][1] \in shown
      BY <1>9, <2>1 DEF Shows
    <3>2. rs[k][1] \in 1 .. s
      BY <1>1, <3>1
    <3>3. QED BY <1>7, <2>1, <3>1, <3>2
  <2>2. ASSUME NEW j \in 1 .. M, k = L + j
        PROVE  /\ R[k][1] \in 1 .. s /\ R[k][2] \in 0 .. Len(ss[R[k][1]])
               /\ R[k][2] # 0 => R[k][1] \in shown
    <3>1. R[k][1] = s /\ R[k][2] = j - 1
      BY <1>7, <2>2
    <3>2. j - 1 \in 0 .. Len(ss[s]) /\ s \in 1 .. s /\ (j - 1 # 0 => s \in shown)
      BY <1>1, <1>2, <1>3
    <3>3. QED BY <3>1, <3>2
  <2>3. QED BY <1>8, <2>1, <2>2
<1>11. ASSUME NEW t \in 1 .. s, NEW m \in 0 .. Len(ss[t]), m = 0 \/ t \in shown
       PROVE  \E k \in DOMAIN R : R[k] = <<t, m>>
  <2>1. CASE t \in 1 .. i
    <3>1. PICK k \in DOMAIN rs : rs[k] = <<t, m>>
      BY <1>11, <2>1 DEF Shows
    <3>2. k \in 1 .. L /\ k \in 1 .. L + M
      BY <1>3, <1>5, <1>9 DEF L
    <3>3. QED BY <1>7, <3>1, <3>2
  <2>2. CASE t \notin 1 .. i
    <3>1. t = s
      BY <1>1, <2>2 DEF s
    <3>2. m + 1 \in 1 .. M /\ L + (m + 1) \in 1 .. L + M /\ m + 1 - 1 = m
      BY <1>2, <1>3, <1>5, <1>11, <3>1 DEF L
    <3>3. QED BY <1>7, <3>1, <3>2
  <2>3. QED BY <2>1, <2>2
<1>12. ASSUME NEW k \in DOMAIN R, NEW l \in DOMAIN R, R[k] = R[l]
       PROVE  k = l
  <2>1. CASE k \in 1 .. L /\ l \in 1 .. L
    BY <1>7, <1>9, <1>12, <2>1 DEF Shows
  <2>2. ASSUME NEW a \in 1 .. L, NEW j \in 1 .. M, R[a] = R[L + j] PROVE FALSE
    <3>1. R[a][1] = s
      BY <1>7, <2>2
    <3>2. R[a][1] \in 1 .. i
      BY <1>7, <1>9 DEF Shows
    <3>3. QED BY <1>1, <3>1, <3>2
  <2>3. ASSUME NEW j \in 1 .. M, NEW h \in 1 .. M, R[L + j] = R[L + h] PROVE j = h
    <3>1. R[L + j] = <<s, j - 1>> /\ R[L + h] = <<s, h - 1>>
      BY <1>7
    <3>2. R[L + j][2] = j - 1 /\ R[L + h][2] = h - 1
      BY <3>1
    <3>3. QED BY <2>3, <3>2
  <2>4. QED BY <1>8, <1>12, <2>1, <2>2, <2>3
<1>13. Shows(shown, R, ss, s)
  BY <1>7, <1>10, <1>11, <1>12 DEF Shows
<1>14. QED BY <1>13 DEF R, b, s

\* The rows of each prefix are those of its services.
LEMMA PrefixShows ==
  ASSUME NEW ss \in Seq(Seq(STRING)), NEW shown, NEW F, Prefixes(F, ss, shown)
  PROVE  \A i \in 0 .. Len(ss) : Shows(shown, F[i], ss, i)
<1> DEFINE N == Len(ss)
           G == {i \in Nat : i <= N => Shows(shown, F[i], ss, i)}
<1>1. N \in Nat /\ DOMAIN ss = 1 .. N
  OBVIOUS
<1>2. 0 \in G
  <2>1. F[0] = << >> /\ << >> \in Seq(Nat \X Nat) /\ DOMAIN << >> = {} /\ 1 .. 0 = {}
    BY DEF Prefixes
  <2>2. QED BY <2>1 DEF Shows
<1>3. ASSUME NEW i \in Nat, i \in G PROVE i + 1 \in G
  <2> SUFFICES ASSUME i + 1 <= N PROVE Shows(shown, F[i + 1], ss, i + 1)
    OBVIOUS
  <2>1. Shows(shown, F[i], ss, i) /\ i + 1 \in DOMAIN ss
    BY <1>1, <1>3
  <2>2. F[i + 1] = F[i] \o Block(ss, shown, i + 1)
    <3> DEFINE k == i + 1
    <3>1. k \in 1 .. Len(ss) /\ k - 1 = i
      BY <1>1
    <3> HIDE DEF k
    <3>2. F[k] = F[i] \o Block(ss, shown, k)
      BY <3>1 DEF Prefixes
    <3>3. QED BY <3>2 DEF k
  <2>3. Shows(shown, F[i] \o Block(ss, shown, i + 1), ss, i + 1)
    BY <2>1, BlockShows
  <2>4. QED BY <2>2, <2>3
<1>4. Nat \subseteq G
  <2> HIDE DEF G
  <2>1. QED BY <1>2, <1>3, Inductive
<1>5. ASSUME NEW i \in 0 .. N PROVE Shows(shown, F[i], ss, i)
  BY <1>1, <1>4
<1>6. QED BY <1>5

\* A service's own row comes right after those of the services before it.
LEMMA PlaceOfService ==
  ASSUME NEW ss \in Seq(Seq(STRING)), NEW shown, NEW F, Prefixes(F, ss, shown),
         NEW s \in 1 .. Len(ss)
  PROVE  LET k == Len(F[s - 1]) + 1
             rs == Tree!RowsOf(ss, shown)
         IN  k \in DOMAIN rs /\ rs[k] = <<s, 0>>
<1> DEFINE N == Len(ss)
           k == Len(F[s - 1]) + 1
           Here(i) == k \in DOMAIN F[i] /\ F[i][k] = <<s, 0>>
           G == {i \in Nat : s + i <= N => Here(s + i)}
<1>1. N \in Nat /\ DOMAIN ss = 1 .. N /\ s \in Nat
  OBVIOUS
<1>2. /\ F \in [0 .. N -> Seq(Nat \X Nat)]
      /\ \A i \in 1 .. N : F[i] = F[i - 1] \o Block(ss, shown, i)
  BY DEF Prefixes
<1>3. F[s - 1] \in Seq(Nat \X Nat)
  <2>1. s - 1 \in 0 .. N
    BY <1>1
  <2>2. QED BY <1>2, <2>1
<1>b. \A i \in 1 .. N : /\ Block(ss, shown, i) \in Seq(Nat \X Nat)
                        /\ Len(Block(ss, shown, i)) \in Nat \ {0}
                        /\ Block(ss, shown, i)[1] = <<i, 0>>
  <2>1. ASSUME NEW i \in 1 .. N
        PROVE  BlockLength(ss, shown, i) \in Nat \ {0}
    <3>1. ss[i] \in Seq(STRING)
      OBVIOUS
    <3>2. QED BY <3>1 DEF BlockLength
  <2>2. ASSUME NEW i \in 1 .. N, NEW M \in Nat \ {0}
        PROVE  LET b == [k_ \in 1 .. M |-> <<i, k_ - 1>>]
               IN  b \in Seq(Nat \X Nat) /\ Len(b) \in Nat \ {0} /\ b[1] = <<i, 0>>
    <3> DEFINE b == [k_ \in 1 .. M |-> <<i, k_ - 1>>]
    <3>1. b \in [1 .. M -> Nat \X Nat]
      BY <1>1
    <3>2. b[1] = <<i, 0>>
      OBVIOUS
    <3> HIDE DEF b
    <3>3. b \in Seq(Nat \X Nat) /\ Len(b) = M
      BY <3>1
    <3>4. QED BY <3>2, <3>3 DEF b
  <2>3. QED BY <2>1, <2>2 DEF Block
<1>4. 0 \in G
  <2>1. F[s] = F[s - 1] \o Block(ss, shown, s)
    BY <1>2
  <2> DEFINE b == Block(ss, shown, s)
  <2>a. b \in Seq(Nat \X Nat) /\ Len(b) \in Nat \ {0} /\ b[1] = <<s, 0>>
    BY <1>b
  <2> HIDE DEF b
  <2>b. \A p, q \in Seq(Nat \X Nat) :
          /\ DOMAIN (p \o q) = 1 .. Len(p) + Len(q)
          /\ Len(q) > 0 => (p \o q)[Len(p) + 1] = q[1]
    BY ONLY TRUE
  <2>c. Len(F[s - 1]) \in Nat
    BY <1>3
  <2>2. Here(s)
    BY <1>3, <2>1, <2>a, <2>b, <2>c DEF b
  <2>3. QED BY <1>1, <2>2
<1>5. ASSUME NEW i \in Nat, i \in G PROVE i + 1 \in G
  <2> DEFINE j == s + (i + 1)
  <2> SUFFICES ASSUME j <= N PROVE Here(j)
    OBVIOUS
  <2>1. j \in 1 .. N /\ j - 1 = s + i /\ j - 1 \in 0 .. N /\ s + i <= N
    BY <1>1
  <2>2. Here(j - 1)
    BY <1>5, <2>1
  <2> HIDE DEF j
  <2>3. F[j] = F[j - 1] \o Block(ss, shown, j) /\ F[j - 1] \in Seq(Nat \X Nat)
    BY <1>2, <2>1
  <2>4. Block(ss, shown, j) \in Seq(Nat \X Nat)
    BY <1>b, <2>1
  <2> HIDE DEF k
  <2>5. QED BY <2>2, <2>3, <2>4
<1>6. Here(N)
  <2>1. N - s \in G /\ s + (N - s) = N
    <3> HIDE DEF G
    <3>1. Nat \subseteq G
      BY <1>4, <1>5, Inductive
    <3>2. QED BY <1>1, <3>1
  <2>2. QED BY <1>1, <2>1
<1>7. QED BY <1>6 DEF Prefixes

\* What the rows of a schema are, as it is folded.
LEMMA RowsShow ==
  ASSUME NEW ss \in Seq(Seq(STRING)), NEW shown
  PROVE  Shows(shown, Tree!RowsOf(ss, shown), ss, Len(ss))
<1>1. PICK F : Prefixes(F, ss, shown)
  BY PrefixesAre
<1>2. Len(ss) \in 0 .. Len(ss)
  OBVIOUS
<1>3. QED BY <1>1, <1>2, PrefixShows DEF Prefixes

\* A service opened or folded keeps its own row where it is: what changes is under it.
LEMMA FoldKeepsTheRow ==
  ASSUME NEW ss \in Seq(Seq(STRING)), NEW shown, NEW to,
         NEW s \in DOMAIN ss, shown \ {s} = to \ {s},
         NEW k \in DOMAIN Tree!RowsOf(ss, shown), Tree!RowsOf(ss, shown)[k] = <<s, 0>>
  PROVE  k \in DOMAIN Tree!RowsOf(ss, to) /\ Tree!RowsOf(ss, to)[k] = <<s, 0>>
<1> DEFINE N == Len(ss)
<1>1. N \in Nat /\ s \in 1 .. N /\ s \in Nat
  OBVIOUS
<1>2. PICK F : Prefixes(F, ss, shown)
  BY PrefixesAre
<1>3. PICK H : Prefixes(H, ss, to)
  BY PrefixesAre
<1> DEFINE G == {i \in Nat : i < s => F[i] = H[i]}
<1>4. 0 \in G
  BY <1>2, <1>3 DEF Prefixes
<1>5. ASSUME NEW i \in Nat, i \in G PROVE i + 1 \in G
  <2> DEFINE j == i + 1
  <2> SUFFICES ASSUME j < s PROVE F[j] = H[j]
    OBVIOUS
  <2>1. j \in 1 .. N /\ j - 1 = i /\ j # s /\ F[i] = H[i]
    BY <1>1, <1>5
  <2> HIDE DEF j
  <2>2. F[j] = F[i] \o Block(ss, shown, j) /\ H[j] = H[i] \o Block(ss, to, j)
    BY <1>2, <1>3, <2>1 DEF Prefixes
  <2>3. Block(ss, shown, j) = Block(ss, to, j)
    BY <2>1 DEF Block, BlockLength
  <2>4. QED BY <2>1, <2>2, <2>3
<1>6. F[s - 1] = H[s - 1]
  <2>1. Nat \subseteq G
    <3> HIDE DEF G
    <3>1. QED BY <1>4, <1>5, Inductive
  <2>2. QED BY <1>1, <2>1
<1> DEFINE p == Len(F[s - 1]) + 1
<1>7. p \in DOMAIN Tree!RowsOf(ss, shown) /\ Tree!RowsOf(ss, shown)[p] = <<s, 0>>
  BY <1>1, <1>2, PlaceOfService
<1>8. p \in DOMAIN Tree!RowsOf(ss, to) /\ Tree!RowsOf(ss, to)[p] = <<s, 0>>
  BY <1>1, <1>3, <1>6, PlaceOfService
<1> HIDE DEF p
<1>9. k = p
  BY <1>7, RowsShow DEF Shows
<1>10. QED BY <1>8, <1>9

\* What the cursor's place in the tree rests on.
TreeInv ==
  /\ services \in Seq(Seq(STRING))
  /\ rows = Tree!RowsOf(services, expanded)
  /\ height \in Nat
  /\ InWindow(cursor, offset, height, Len(rows))

\* What the invariant says of the tree is what the tree promises of it.
LEMMA TreePromises == TreeInv => Tree!CursorOnScreen
<1> SUFFICES ASSUME TreeInv PROVE Tree!CursorOnScreen
  OBVIOUS
<1>1. rows \in Seq(Nat \X Nat)
  BY RowsShow DEF TreeInv, Shows
<1>2. QED
  BY <1>1, OneArithmetic DEF TreeInv, InWindow, Tree!CursorOnScreen, Tree!HasRow

\* moveTo in the tree, from anywhere to anywhere.
LEMMA TreeMoves ==
  ASSUME NEW i \in Int, NEW rs \in Seq(Nat \X Nat), offset \in Int, height \in Nat,
         Tree!MoveTo(i, rs)
  PROVE  InWindow(cursor', offset', height, Len(rs))
<1>1. Len(rs) \in Nat
  OBVIOUS
<1>2. /\ cursor' = ClampIndex(i, Len(rs))
      /\ offset' = ClampWindow(ClampIndex(i, Len(rs)), offset, height, Len(rs))
  BY OneArithmetic DEF Tree!MoveTo
<1>3. QED BY <1>1, <1>2, MoveShows

\* A row that is there is found, and is where the index says.
LEMMA RowIsFound ==
  ASSUME NEW rs \in Seq(Nat \X Nat), NEW row, \E k \in DOMAIN rs : rs[k] = row
  PROVE  LET i == Tree!RowIndex(rs, row)
         IN  i \in Nat /\ i < Len(rs) /\ i + 1 \in DOMAIN rs /\ rs[i + 1] = row
<1> DEFINE k == CHOOSE k_ \in DOMAIN rs : rs[k_] = row
<1>1. k \in DOMAIN rs /\ rs[k] = row
  OBVIOUS
<1>2. Tree!RowIndex(rs, row) = k - 1
  BY DEF Tree!RowIndex
<1> HIDE DEF k
<1>3. DOMAIN rs = 1 .. Len(rs) /\ Len(rs) \in Nat
  OBVIOUS
<1>4. k \in Nat /\ k - 1 \in Nat /\ k - 1 < Len(rs) /\ k - 1 + 1 = k
  BY <1>1, <1>3
<1>5. QED BY <1>1, <1>2, <1>4

\* The tree starts empty.
LEMMA TreeStarts == Tree!Init => TreeInv
<1> SUFFICES ASSUME Tree!Init PROVE TreeInv
  OBVIOUS
<1>1. /\ services = << >> /\ rows = << >> /\ cursor = 0 /\ offset = 0 /\ height = 0
      /\ expanded = {}
  BY DEF Tree!Init
<1>2. << >> \in Seq(Seq(STRING)) /\ Len(<< >>) = 0
  OBVIOUS
<1>3. InWindow(cursor, offset, height, Len(rows))
  BY <1>1, <1>2 DEF InWindow, ClampIndex
<1>4. Shows(expanded, Tree!RowsOf(services, expanded), services, Len(services))
  BY <1>1, <1>2, RowsShow
<1>5. Tree!RowsOf(services, expanded) = << >>
  <2> DEFINE rs == Tree!RowsOf(services, expanded)
  <2>1. rs \in Seq(Nat \X Nat) /\ \A k \in DOMAIN rs : rs[k][1] \in 1 .. 0
    BY <1>1, <1>2, <1>4 DEF Shows
  <2> HIDE DEF rs
  <2>a. 1 .. 0 = {}
    OBVIOUS
  <2>2. DOMAIN rs = {}
    BY <2>1, <2>a
  <2>3. \A S : \A q \in Seq(S) : DOMAIN q = {} => q = << >>
    BY ONLY TRUE
  <2>4. rs = << >>
    BY <2>1, <2>2, <2>3
  <2>5. QED BY <2>4 DEF rs
<1>6. QED BY <1>1, <1>2, <1>3, <1>5 DEF TreeInv

\* Opening or folding a service, from any row.
LEMMA SetExpandedShows ==
  ASSUME TreeInv, NEW s, NEW shown, Tree!SetExpanded(s, shown)
  PROVE  TreeInv'
<1> DEFINE to == IF shown THEN expanded \union {s} ELSE expanded \ {s}
<1>1. /\ expanded' = to /\ rows' = Tree!RowsOf(services, to)
      /\ Tree!MoveTo(cursor, Tree!RowsOf(services, to))
      /\ services' = services /\ height' = height
  BY DEF Tree!SetExpanded
<1> HIDE DEF to
<1>2. Tree!RowsOf(services, to) \in Seq(Nat \X Nat)
  BY RowsShow DEF TreeInv, Shows
<1>3. cursor \in Int /\ offset \in Int /\ height \in Nat
  BY DEF TreeInv, InWindow
<1>4. InWindow(cursor', offset', height, Len(Tree!RowsOf(services, to)))
  BY <1>1, <1>2, <1>3, TreeMoves
<1>5. QED BY <1>1, <1>4 DEF TreeInv

\* Whatever opens, folds, is recalled or comes with a new schema, the cursor is on a
\* row and in the window.
LEMMA TreeStep == TreeInv /\ [Tree!Next]_(Tree!tree) => TreeInv'
<1> SUFFICES ASSUME TreeInv, [Tree!Next]_(Tree!tree) PROVE TreeInv'
  OBVIOUS
<1>1. /\ cursor \in Int /\ offset \in Int /\ height \in Nat
      /\ services \in Seq(Seq(STRING)) /\ rows = Tree!RowsOf(services, expanded)
  BY DEF TreeInv, InWindow
<1>2. rows \in Seq(Nat \X Nat) /\ Shows(expanded, rows, services, Len(services))
  BY <1>1, RowsShow DEF Shows
<1>3. ASSUME NEW ss \in Schemas, Tree!SetServices(ss) PROVE TreeInv'
  <2>1. ss \in Seq(Seq(STRING))
    BY PanelsAssumption
  <2>2. Tree!RowsOf(ss, DOMAIN ss) \in Seq(Nat \X Nat)
    BY <2>1, RowsShow DEF Shows
  <2>3. Len(Tree!RowsOf(ss, DOMAIN ss)) \in Nat
    BY <2>2
  <2>4. InWindow(0, 0, height, Len(Tree!RowsOf(ss, DOMAIN ss)))
    BY <1>1, <2>3 DEF InWindow, ClampIndex
  <2>5. QED BY <1>1, <1>3, <2>1, <2>4 DEF Tree!SetServices, TreeInv
<1>4. ASSUME NEW name, NEW decodes, Tree!SelectMethod(name, decodes) PROVE TreeInv'
  <2>0. PICK s \in DOMAIN services : \E m \in DOMAIN services[s] :
          LET rs == Tree!RowsOf(services, expanded \union {s})
              rebuilt == Tree!ClampWindow(Tree!ClampIndex(cursor, Len(rs)), offset, height, Len(rs))
          IN  /\ expanded' = expanded \union {s}
              /\ rows' = rs
              /\ cursor' = Tree!RowIndex(rs, <<s, m>>)
              /\ offset' = Tree!ClampWindow(Tree!RowIndex(rs, <<s, m>>), rebuilt, height, Len(rs))
              /\ UNCHANGED <<services, height>>
    BY <1>4 DEF Tree!SelectMethod
  <2>1. PICK m \in DOMAIN services[s] :
          LET rs == Tree!RowsOf(services, expanded \union {s})
              rebuilt == Tree!ClampWindow(Tree!ClampIndex(cursor, Len(rs)), offset, height, Len(rs))
          IN  /\ expanded' = expanded \union {s}
              /\ rows' = rs
              /\ cursor' = Tree!RowIndex(rs, <<s, m>>)
              /\ offset' = Tree!ClampWindow(Tree!RowIndex(rs, <<s, m>>), rebuilt, height, Len(rs))
              /\ UNCHANGED <<services, height>>
    BY <2>0
  <2> DEFINE rs == Tree!RowsOf(services, expanded \union {s})
             rebuilt == ClampWindow(ClampIndex(cursor, Len(rs)), offset, height, Len(rs))
             i == Tree!RowIndex(rs, <<s, m>>)
  <2>2. /\ expanded' = expanded \union {s} /\ rows' = rs
        /\ cursor' = i /\ offset' = ClampWindow(i, rebuilt, height, Len(rs))
        /\ services' = services /\ height' = height
    BY <2>1, OneArithmetic
  <2>3. Shows(expanded \union {s}, rs, services, Len(services))
    BY <1>1, RowsShow
  <2> HIDE DEF rs
  <2>4. s \in 1 .. Len(services) /\ m \in 0 .. Len(services[s])
    <3>1. services[s] \in Seq(STRING)
      BY <1>1
    <3>2. QED BY <1>1, <3>1
  <2>5. \E k \in DOMAIN rs : rs[k] = <<s, m>>
    BY <2>3, <2>4 DEF Shows
  <2>6. rs \in Seq(Nat \X Nat)
    BY <2>3 DEF Shows
  <2>7. i \in Nat /\ i < Len(rs)
    BY <2>5, <2>6, RowIsFound
  <2>8. Len(rs) \in Nat
    BY <2>6
  <2>9. rebuilt \in Int
    BY <1>1, <2>8 DEF ClampWindow, ClampIndex
  <2> HIDE DEF i, rebuilt
  <2>10. i = ClampIndex(i, Len(rs))
    BY <2>7, <2>8 DEF ClampIndex
  <2>11. InWindow(i, ClampWindow(i, rebuilt, height, Len(rs)), height, Len(rs))
    <3>1. i \in Int
      BY <2>7
    <3>2. QED BY <1>1, <2>8, <2>9, <2>10, <3>1, ResizeShows, Zenon
  <2>12. QED BY <1>1, <2>2, <2>11 DEF TreeInv, rs
<1>5. ASSUME NEW h \in TreeHeights, Tree!Resize(h) PROVE TreeInv'
  <2>1. h \in Nat /\ Len(rows) \in Nat /\ cursor = ClampIndex(cursor, Len(rows))
    BY <1>2, PanelsAssumption DEF TreeInv, InWindow
  <2>2. InWindow(cursor, ClampWindow(cursor, offset, h, Len(rows)), h, Len(rows))
    BY <1>1, <2>1, ResizeShows, Zenon
  <2>3. QED BY <1>1, <1>5, <2>1, <2>2, OneArithmetic DEF Tree!Resize, TreeInv
<1>6. ASSUME NEW i \in Int, Tree!MoveTo(i, rows), UNCHANGED <<services, expanded, rows, height>>
      PROVE  TreeInv'
  BY <1>1, <1>2, <1>6, TreeMoves DEF TreeInv
<1>7. CASE Tree!Move
  <2>1. Len(rows) \in Nat /\ Tree!PageSize \in Int
    BY <1>1, <1>2 DEF Tree!PageSize
  <2>2. PICK i \in Int : Tree!MoveTo(i, rows)
    BY <1>1, <1>7, <2>1 DEF Tree!Move
  <2>3. QED BY <1>6, <1>7, <2>2 DEF Tree!Move
<1>8. CASE Tree!Expand
  BY <1>8, SetExpandedShows DEF Tree!Expand
<1>9. CASE Tree!Collapse
  <2>1. CASE Tree!SetExpanded(Tree!Here[1], FALSE)
    BY <2>1, SetExpandedShows
  <2>2. CASE /\ Tree!HasRow
             /\ Tree!MoveTo(Tree!RowIndex(rows, <<Tree!Here[1], 0>>), rows)
             /\ UNCHANGED <<services, expanded, rows, height>>
    <3>1. Tree!Here[1] \in 1 .. Len(services)
      BY <1>2, <2>2 DEF Tree!HasRow, Tree!Here, Shows
    <3>2. 0 \in 0 .. Len(services[Tree!Here[1]])
      <4>1. services[Tree!Here[1]] \in Seq(STRING)
        BY <1>1, <3>1
      <4>2. QED BY <4>1
    <3>3. \E k \in DOMAIN rows : rows[k] = <<Tree!Here[1], 0>>
      BY <1>2, <3>1, <3>2 DEF Shows
    <3>4. Tree!RowIndex(rows, <<Tree!Here[1], 0>>) \in Int
      BY <1>2, <3>3, RowIsFound
    <3>5. QED BY <1>6, <2>2, <3>4
  <2>3. QED BY <1>9, <2>1, <2>2 DEF Tree!Collapse
<1>10. CASE Tree!Select
  <2>1. CASE Tree!SetExpanded(Tree!Here[1], Tree!Here[1] \notin expanded)
    BY <2>1, SetExpandedShows
  <2>2. CASE UNCHANGED <<services, expanded, rows, cursor, offset, height>>
    BY <2>2 DEF TreeInv
  <2>3. QED BY <1>10, <2>1, <2>2 DEF Tree!Select
<1>11. ASSUME NEW name \in picks, Tree!MethodSelected(name) PROVE TreeInv'
  BY <1>11 DEF Tree!MethodSelected, TreeInv
<1>12. CASE UNCHANGED Tree!tree
  BY <1>12 DEF Tree!tree, TreeInv
<1>13. QED
  BY <1>3, <1>4, <1>5, <1>7, <1>8, <1>9, <1>10, <1>11, <1>12 DEF Tree!Next

\* A service folded or opened from its own row leaves the cursor on that row.
LEMMA FoldStays ==
  ASSUME TreeInv, Tree!HasRow, Tree!Here[2] = 0,
         NEW shown, Tree!SetExpanded(Tree!Here[1], shown)
  PROVE  Tree!Under' = Tree!Under
<1> DEFINE s == Tree!Here[1]
           to == IF shown THEN expanded \union {s} ELSE expanded \ {s}
           k == cursor + 1
<1>1. services \in Seq(Seq(STRING)) /\ rows = Tree!RowsOf(services, expanded) /\ cursor \in Nat
  BY DEF TreeInv, InWindow
<1>2. Shows(expanded, rows, services, Len(services)) /\ rows \in Seq(Nat \X Nat)
  BY <1>1, RowsShow DEF Shows
<1>3. k \in DOMAIN rows /\ rows[k] = <<s, 0>> /\ s \in DOMAIN services
  <2>1. k \in DOMAIN rows /\ rows[k] = Tree!Here
    BY DEF Tree!HasRow, Tree!Here
  <2>2. rows[k] \in Nat \X Nat /\ s \in 1 .. Len(services)
    BY <1>2, <2>1 DEF Shows
  <2>3. QED BY <1>1, <2>1, <2>2
<1>4. /\ rows' = Tree!RowsOf(services, to)
      /\ cursor' = ClampIndex(cursor, Len(Tree!RowsOf(services, to)))
  BY OneArithmetic DEF Tree!SetExpanded, Tree!MoveTo
<1>5. expanded \ {s} = to \ {s}
  OBVIOUS
<1> HIDE DEF s, to
<1>6. k \in DOMAIN Tree!RowsOf(services, to) /\ Tree!RowsOf(services, to)[k] = <<s, 0>>
  BY <1>1, <1>3, <1>5, FoldKeepsTheRow
<1>7. cursor' = cursor
  <2>1. Tree!RowsOf(services, to) \in Seq(Nat \X Nat)
    BY <1>1, RowsShow DEF Shows
  <2>2. cursor < Len(Tree!RowsOf(services, to)) /\ Len(Tree!RowsOf(services, to)) \in Nat
    BY <1>1, <1>6, <2>1
  <2>3. QED BY <1>1, <1>4, <2>2 DEF ClampIndex
<1>8. QED BY <1>3, <1>4, <1>6, <1>7 DEF Tree!Under

\* Folding leaves the cursor on its row, and a recalled request takes it to the method
\* that the form is given.
LEMMA TreeStays == TreeInv /\ [Tree!Next]_(Tree!tree) => Tree!StaysPut
<1> SUFFICES ASSUME TreeInv, [Tree!Next]_(Tree!tree) PROVE Tree!StaysPut
  OBVIOUS
<1>1. /\ services \in Seq(Seq(STRING)) /\ rows = Tree!RowsOf(services, expanded)
      /\ cursor \in Nat
  BY DEF TreeInv, InWindow
<1>2. Shows(expanded, rows, services, Len(services))
  BY <1>1, RowsShow
<1>3. ASSUME Tree!Folds PROVE Tree!Under' = Tree!Under
  <2>1. CASE Tree!Expand /\ expanded' # expanded
    <3>1. Tree!HasRow /\ Tree!Here[1] \notin expanded /\ Tree!SetExpanded(Tree!Here[1], TRUE)
      BY <2>1 DEF Tree!Expand
    <3>2. Tree!Here[2] = 0
      BY <1>2, <3>1 DEF Shows, Tree!HasRow, Tree!Here
    <3>3. QED BY <3>1, <3>2, FoldStays
  <2>2. CASE Tree!Collapse /\ expanded' # expanded
    <3>1. Tree!HasRow /\ Tree!Here[2] = 0 /\ Tree!SetExpanded(Tree!Here[1], FALSE)
      BY <2>2 DEF Tree!Collapse
    <3>2. QED BY <3>1, FoldStays
  <2>3. CASE Tree!Select /\ expanded' # expanded
    <3>1. /\ Tree!HasRow /\ Tree!Here[2] = 0
          /\ Tree!SetExpanded(Tree!Here[1], Tree!Here[1] \notin expanded)
      BY <2>3 DEF Tree!Select
    <3>2. QED BY <3>1, FoldStays
  <2>4. QED BY <1>3, <2>1, <2>2, <2>3 DEF Tree!Folds
<1> DEFINE There == /\ cursor' + 1 \in DOMAIN rows' /\ Tree!Under'[2] # 0
                    /\ services'[Tree!Under'[1]][Tree!Under'[2]] = chosen'
<1>4. ASSUME chosen' # chosen, chosen' # Tree!None, picks' = picks
      PROVE  There
  <2>1. CASE \E ss \in Schemas : Tree!SetServices(ss)
    BY <1>4, <2>1 DEF Tree!SetServices
  <2>2. ASSUME NEW name, NEW decodes, Tree!SelectMethod(name, decodes)
        PROVE  There
    <3>0. PICK s \in DOMAIN services : \E m \in DOMAIN services[s] :
            LET rs == Tree!RowsOf(services, expanded \union {s})
            IN  /\ services[s][m] = name
                /\ rows' = rs
                /\ cursor' = Tree!RowIndex(rs, <<s, m>>)
                /\ chosen' = IF decodes THEN name ELSE chosen
                /\ services' = services
      BY <2>2 DEF Tree!SelectMethod
    <3> DEFINE rs == Tree!RowsOf(services, expanded \union {s})
    <3>1. PICK m \in DOMAIN services[s] :
            /\ services[s][m] = name
            /\ rows' = rs
            /\ cursor' = Tree!RowIndex(rs, <<s, m>>)
            /\ chosen' = IF decodes THEN name ELSE chosen
            /\ services' = services
      BY <3>0
    <3>2. Shows(expanded \union {s}, rs, services, Len(services))
      BY <1>1, RowsShow
    <3> HIDE DEF rs
    <3>3. s \in 1 .. Len(services) /\ m \in 1 .. Len(services[s]) /\ m \in 0 .. Len(services[s])
      <4>1. services[s] \in Seq(STRING)
        BY <1>1
      <4>2. QED BY <1>1, <4>1
    <3>4. rs \in Seq(Nat \X Nat) /\ \E k \in DOMAIN rs : rs[k] = <<s, m>>
      BY <3>2, <3>3 DEF Shows
    <3>5. LET i == Tree!RowIndex(rs, <<s, m>>) IN i + 1 \in DOMAIN rs /\ rs[i + 1] = <<s, m>>
      BY <3>4, RowIsFound
    <3>6. /\ cursor' + 1 \in DOMAIN rows' /\ rows'[cursor' + 1] = <<s, m>>
          /\ chosen' = name /\ services' = services
      BY <1>4, <3>1, <3>5
    <3>7. Tree!Under' = <<s, m>>
      BY <3>6 DEF Tree!Under
    <3>8. QED BY <3>1, <3>3, <3>6, <3>7
  <2>3. CASE Tree!Select
    <3>1. CASE Tree!SetExpanded(Tree!Here[1], Tree!Here[1] \notin expanded)
      BY <1>4, <3>1 DEF Tree!SetExpanded, Tree!form
    <3>2. CASE UNCHANGED chosen
      BY <1>4, <3>2
    <3>3. QED BY <2>3, <3>1, <3>2 DEF Tree!Select
  <2>4. CASE \E h \in TreeHeights : Tree!Resize(h)
    BY <1>4, <2>4 DEF Tree!Resize, Tree!form
  <2>5. CASE Tree!Move \/ Tree!Expand \/ Tree!Collapse
    BY <1>4, <2>5 DEF Tree!Move, Tree!Expand, Tree!Collapse, Tree!SetExpanded, Tree!form
  <2>6. ASSUME NEW name \in picks, Tree!MethodSelected(name) PROVE There
    BY <1>4, <2>6 DEF Tree!MethodSelected
  <2>7. CASE UNCHANGED Tree!tree
    BY <1>4, <2>7 DEF Tree!tree
  <2>8. QED BY <2>1, <2>2, <2>3, <2>4, <2>5, <2>6, <2>7 DEF Tree!Next
<1>5. QED BY <1>3, <1>4 DEF Tree!StaysPut, Tree!Recalled

-----------------------------------------------------------------------------
(* The headers. *)

\* A header, and how high the panel would be with nothing of it being typed into:
\* what it is at the least once a send is refused.
CellText == STRING \union Panel!Cells.key \union Panel!Cells.value
HeaderType == [key : CellText, value : CellText, disabled : BOOLEAN]
Room(hs, note, tall) ==
  Panel!HeightOf(hs, Panel!LineCount(hs, FALSE, 0, note), TRUE, tall)
PanelInv ==
  /\ headers \in Seq(HeaderType) /\ total \in Nat
  /\ column \in {"key", "value"} /\ notice \in BOOLEAN
  /\ cursor \in Nat /\ (headers # << >> => cursor < Len(headers))
  /\ offset \in Int /\ height \in Nat
  /\ headers # << >> =>
       height <= Room(headers, notice, total) /\ (height = 0 => Room(headers, notice, total) = 0)

\* The complaints of a panel are counted, and typing into a row hides its own.
LEMMA ComplaintsAreCounted ==
  ASSUME NEW hs \in Seq(HeaderType), NEW ed, NEW onrow, NEW any
  PROVE  /\ IsFiniteSet(Panel!Complaints(hs, ed, onrow))
         /\ Panel!Cardinality(Panel!Complaints(hs, ed, onrow)) \in Nat
         /\ Panel!Complaints(hs, FALSE, onrow) = Panel!Complaints(hs, FALSE, any)
         /\ Panel!Cardinality(Panel!Complaints(hs, ed, onrow))
              <= Panel!Cardinality(Panel!Complaints(hs, FALSE, any))
<1>1. \A S : Panel!Cardinality(S) = Cardinality(S)
  BY DEF Panel!Cardinality, Cardinality
<1>2. DOMAIN hs = 1 .. Len(hs) /\ Len(hs) \in Nat
  OBVIOUS
<1>3. IsFiniteSet(DOMAIN hs)
  BY <1>2, FS_Interval
<1>4. /\ Panel!Complaints(hs, ed, onrow) \subseteq DOMAIN hs
      /\ Panel!Complaints(hs, FALSE, any) \subseteq DOMAIN hs
      /\ Panel!Complaints(hs, FALSE, onrow) = Panel!Complaints(hs, FALSE, any)
      /\ Panel!Complaints(hs, ed, onrow) \subseteq Panel!Complaints(hs, FALSE, any)
  BY DEF Panel!Complaints, Panel!Invalid
<1>5. /\ IsFiniteSet(Panel!Complaints(hs, ed, onrow))
      /\ IsFiniteSet(Panel!Complaints(hs, FALSE, any))
  BY <1>3, <1>4, FS_Subset
<1>6. /\ Cardinality(Panel!Complaints(hs, ed, onrow)) \in Nat
      /\ Cardinality(Panel!Complaints(hs, ed, onrow))
           <= Cardinality(Panel!Complaints(hs, FALSE, any))
  BY <1>4, <1>5, FS_Subset, FS_CardinalityType
<1>7. QED BY <1>1, <1>4, <1>5, <1>6

\* A panel is at least a line high, never higher for a row being typed into, and the
\* line of each of its headers is one of its lines.
LEMMA LinesAreCounted ==
  ASSUME NEW hs \in Seq(HeaderType), NEW ed, NEW onrow, NEW note
  PROVE  /\ Panel!LineCount(hs, ed, onrow, note) \in Nat \ {0}
         /\ Panel!LineCount(hs, FALSE, onrow, note) = Panel!LineCount(hs, FALSE, 0, note)
         /\ Panel!LineCount(hs, ed, onrow, note) <= Panel!LineCount(hs, FALSE, 0, note)
         /\ \A i \in 0 .. (Len(hs) - 1) :
              /\ Panel!LineOf(hs, ed, onrow, i) \in Nat
              /\ Panel!LineOf(hs, ed, onrow, i) < Panel!LineCount(hs, ed, onrow, note)
<1> DEFINE C == Panel!Complaints(hs, ed, onrow)
           c == Panel!Cardinality(C)
           D == Panel!Complaints(hs, FALSE, 0)
           d == Panel!Cardinality(D)
           l == IF hs = << >> THEN 1 ELSE Len(hs)
           n == IF note THEN 1 ELSE 0
<1>1. /\ IsFiniteSet(C) /\ c \in Nat /\ c <= d
      /\ Panel!Complaints(hs, FALSE, onrow) = D
  BY ComplaintsAreCounted
<1>a. d \in Nat
  BY ComplaintsAreCounted
<1>2. l \in Nat \ {0} /\ l >= Len(hs) /\ n \in Nat /\ Len(hs) \in Nat
  <2>1. \A S : \A q \in Seq(S) : Len(q) \in Nat /\ (Len(q) = 0 => q = << >>)
    BY ONLY TRUE
  <2>2. Len(<< >>) = 0
    OBVIOUS
  <2>3. QED BY <2>1, <2>2
<1>3. /\ Panel!LineCount(hs, ed, onrow, note) = l + c + n
      /\ Panel!LineCount(hs, FALSE, 0, note) = l + d + n
      /\ Panel!LineCount(hs, FALSE, onrow, note) = l + d + n
  BY <1>1 DEF Panel!LineCount
<1>4. ASSUME NEW i \in 0 .. (Len(hs) - 1)
      PROVE  /\ Panel!LineOf(hs, ed, onrow, i) \in Nat
             /\ Panel!LineOf(hs, ed, onrow, i) < l + c + n
  <2> DEFINE B == {j \in C : j <= i}
  <2>1. \A S : Panel!Cardinality(S) = Cardinality(S)
    BY DEF Panel!Cardinality, Cardinality
  <2>2. Cardinality(B) \in Nat /\ Cardinality(B) <= Cardinality(C)
    <3>1. B \subseteq C
      OBVIOUS
    <3> HIDE DEF B, C
    <3>2. IsFiniteSet(B) /\ Cardinality(B) <= Cardinality(C)
      BY <1>1, <3>1, FS_Subset
    <3>3. QED BY <3>2, FS_CardinalityType
  <2>3. Panel!LineOf(hs, ed, onrow, i) = i + Cardinality(B)
    BY <2>1 DEF Panel!LineOf
  <2>4. Cardinality(C) = c
    BY <2>1
  <2> HIDE DEF B, C, l, n, c
  <2>5. QED BY <1>1, <1>2, <2>2, <2>3, <2>4
<1> HIDE DEF c, d, l, n, C, D
<1>5. l + c + n \in Nat \ {0} /\ l + c + n <= l + d + n
  BY <1>1, <1>a, <1>2
<1>6. ASSUME NEW i \in 0 .. (Len(hs) - 1)
      PROVE  /\ Panel!LineOf(hs, ed, onrow, i) \in Nat
             /\ Panel!LineOf(hs, ed, onrow, i) < Panel!LineCount(hs, ed, onrow, note)
  BY <1>3, <1>4
<1>7. QED BY <1>3, <1>5, <1>6

\* The more lines, the higher the panel; and it is nothing high only in a column
\* that leaves it nothing, whatever is in it.
LEMMA HeightGrows ==
  ASSUME NEW hs, NEW a \in Nat \ {0}, NEW b \in Nat \ {0}, a <= b, NEW tall \in Nat,
         NEW foc
  PROVE  /\ Panel!HeightOf(hs, a, foc, tall) \in Nat
         /\ hs # << >> =>
              /\ Panel!HeightOf(hs, a, foc, tall) <= Panel!HeightOf(hs, b, TRUE, tall)
              /\ Panel!HeightOf(hs, a, foc, tall) = 0 => Panel!HeightOf(hs, b, TRUE, tall) = 0
<1> DEFINE want(n) == (IF n < 8 THEN n ELSE 8) + 3
           middle(w) == IF w <= 0 THEN 0
                        ELSE IF tall < 9 THEN tall \div 3
                        ELSE LET most == IF w > 3 THEN w ELSE 3
                             IN  IF most < tall - 6 THEN most ELSE tall - 6
           inner(m) == IF m - 3 > 0 THEN m - 3 ELSE 0
<1>1. \A n, f : Panel!HeightOf(hs, n, f, tall)
                  = inner(middle(IF hs # << >> \/ f THEN want(n) ELSE 0))
  BY DEF Panel!HeightOf, Panel!SplitColumn, Panel!SplitMiddle, Panel!MaxMetadataHeight,
         Panel!Chrome, Panel!MinPanelHeight, Panel!Inner, Panel!Least, Panel!Greatest
<1>2. inner(middle(want(a))) \in Nat /\ inner(middle(0)) \in Nat
  OBVIOUS
<1>3. /\ inner(middle(want(a))) <= inner(middle(want(b)))
      /\ inner(middle(want(a))) = 0 => inner(middle(want(b))) = 0
  OBVIOUS
<1> HIDE DEF want, middle, inner
<1>4. QED BY <1>1, <1>2, <1>3

\* A layout gives the panel no more room than a refused send would, and none only
\* when that would have none.
LEMMA LayoutLeavesRoom ==
  ASSUME headers' \in Seq(HeaderType), total' \in Nat,
         height' = Panel!HeightOf(headers', Panel!LineCount(headers', editing', cursor', notice'),
                                  focused', total')
  PROVE  /\ height' \in Nat
         /\ headers' # << >> =>
              /\ height' <= Room(headers', notice', total')
              /\ height' = 0 => Room(headers', notice', total') = 0
<1> DEFINE a == Panel!LineCount(headers', editing', cursor', notice')
           b == Panel!LineCount(headers', FALSE, 0, notice')
<1>1. a \in Nat \ {0} /\ b \in Nat \ {0} /\ a <= b
  BY LinesAreCounted
<1> HIDE DEF a, b
<1>2. /\ Panel!HeightOf(headers', a, focused', total') \in Nat
      /\ headers' # << >> =>
           /\ Panel!HeightOf(headers', a, focused', total')
                <= Panel!HeightOf(headers', b, TRUE, total')
           /\ Panel!HeightOf(headers', a, focused', total') = 0
                => Panel!HeightOf(headers', b, TRUE, total') = 0
  BY <1>1, HeightGrows
<1>3. QED BY <1>2 DEF a, b, Room

\* The cursor after moveTo is on a header, if there is one.
LEMMA PanelMoves ==
  ASSUME NEW i \in Int, NEW hs \in Seq(HeaderType), offset \in Int, height \in Nat,
         Panel!MoveTo(i, hs)
  PROVE  cursor' \in Nat /\ (hs # << >> => cursor' < Len(hs)) /\ offset' \in Int
<1> DEFINE to == ClampIndex(i, Len(hs))
<1> DEFINE line == Panel!LineOf(hs, FALSE, to, to)
           lines == Panel!LineCount(hs, FALSE, to, notice)
<1>1. Len(hs) \in Nat /\ (hs # << >> => Len(hs) > 0)
  <2>1. \A S : \A q \in Seq(S) : Len(q) \in Nat /\ (Len(q) = 0 => q = << >>)
    BY ONLY TRUE
  <2>2. QED BY <2>1
<1>2. to \in Nat /\ (hs # << >> => to < Len(hs))
  BY <1>1 DEF ClampIndex
<1>3. /\ cursor' = to
      /\ offset' = ClampWindow(line, offset, height, lines)
  BY OneArithmetic DEF Panel!MoveTo
<1> HIDE DEF to
<1>4. lines \in Nat
  BY LinesAreCounted
<1>5. line \in Int
  <2>1. CASE hs # << >>
    <3>1. to \in 0 .. (Len(hs) - 1)
      BY <1>1, <1>2, <2>1
    <3>2. \A k \in 0 .. (Len(hs) - 1) : Panel!LineOf(hs, FALSE, to, k) \in Nat
      BY LinesAreCounted
    <3>3. line \in Nat
      BY <3>1, <3>2, Zenon
    <3> HIDE DEF line
    <3>4. QED BY <3>3
  <2>2. CASE hs = << >>
    <3>1. Panel!Complaints(hs, FALSE, to) = {}
      BY <2>2 DEF Panel!Complaints, Panel!Invalid
    <3> DEFINE B == {j \in Panel!Complaints(hs, FALSE, to) : j <= to}
    <3>2. B = {}
      BY <3>1
    <3>3. Panel!Cardinality(B) = 0
      BY <3>2, FS_EmptySet DEF Panel!Cardinality, Cardinality
    <3>4. line = to + Panel!Cardinality(B)
      BY DEF Panel!LineOf
    <3> HIDE DEF B, line
    <3>5. QED BY <1>2, <3>3, <3>4
  <2>3. QED BY <2>1, <2>2
<1> HIDE DEF line, lines
<1>6. ClampWindow(line, offset, height, lines) \in Int
  <2>1. \A t, o, h, n \in Int : ClampWindow(t, o, h, n) \in Int
    BY ONLY TRUE DEF ClampWindow
  <2>2. QED BY <1>4, <1>5, <2>1
<1>7. QED BY <1>2, <1>3, <1>6

\* A profile holds headers.
LEMMA ProfilesAreHeaders == Profiles \subseteq Seq(HeaderType)
<1>1. Profiles \subseteq Seq([key : STRING, value : STRING, disabled : BOOLEAN])
  BY PanelsAssumption
<1>2. STRING \subseteq CellText
  BY Zenon DEF CellText
<1>3. [key : STRING, value : STRING, disabled : BOOLEAN] \subseteq HeaderType
  BY <1>2 DEF HeaderType
<1>4. \A S, T : S \subseteq T => Seq(S) \subseteq Seq(T)
  BY ONLY TRUE
<1>5. QED BY <1>1, <1>3, <1>4, Zenon

\* The panel starts with a profile's headers, laid out.
LEMMA PanelStarts == Panel!Init => PanelInv
<1> SUFFICES ASSUME Panel!Init PROVE PanelInv
  OBVIOUS
<1>1. headers \in Seq(HeaderType) /\ total \in Nat
  BY PanelsAssumption, ProfilesAreHeaders DEF Panel!Init
<1>2. /\ cursor = 0 /\ column = "key" /\ notice = FALSE /\ offset = 0
      /\ height = Panel!HeightOf(headers, Panel!LineCount(headers, FALSE, 0, FALSE), FALSE, total)
  BY DEF Panel!Init
<1> DEFINE a == Panel!LineCount(headers, FALSE, 0, FALSE)
<1>3. a \in Nat \ {0} /\ a <= a
  BY <1>1, LinesAreCounted
<1> HIDE DEF a
<1>4. /\ Panel!HeightOf(headers, a, FALSE, total) \in Nat
      /\ headers # << >> =>
           /\ Panel!HeightOf(headers, a, FALSE, total) <= Panel!HeightOf(headers, a, TRUE, total)
           /\ Panel!HeightOf(headers, a, FALSE, total) = 0
                => Panel!HeightOf(headers, a, TRUE, total) = 0
  BY <1>1, <1>3, HeightGrows
<1>5. /\ height \in Nat
      /\ headers # << >> =>
           /\ height <= Room(headers, notice, total)
           /\ height = 0 => Room(headers, notice, total) = 0
  BY <1>2, <1>4 DEF a, Room
<1>6. headers # << >> => cursor < Len(headers)
  <2>1. \A S : \A q \in Seq(S) : Len(q) \in Nat /\ (Len(q) = 0 => q = << >>)
    BY ONLY TRUE
  <2>2. QED BY <1>1, <1>2, <2>1
<1>a. column \in {"key", "value"} /\ notice \in BOOLEAN
  BY <1>2, Zenon
<1>b. cursor = 0 /\ offset = 0
  BY <1>2, Zenon
<1>7. column \in {"key", "value"} /\ notice \in BOOLEAN /\ cursor \in Nat /\ offset \in Int
  BY <1>a, <1>b
<1>8. QED BY <1>1, <1>5, <1>6, <1>7, Zenon DEF PanelInv

\* Every key of the panel ends with a layout.
LEMMA RelayoutKeeps ==
  ASSUME headers' \in Seq(HeaderType), total' \in Nat, column' \in {"key", "value"},
         notice' \in BOOLEAN, cursor' \in Nat, headers' # << >> => cursor' < Len(headers'),
         offset' \in Int, Panel!Relayout
  PROVE  PanelInv'
<1>1. height' = Panel!HeightOf(headers', Panel!LineCount(headers', editing', cursor', notice'),
                               focused', total')
  BY DEF Panel!Relayout
<1>2. /\ height' \in Nat
      /\ headers' # << >> =>
           /\ height' <= Room(headers', notice', total')
           /\ height' = 0 => Room(headers', notice', total') = 0
  BY <1>1, LayoutLeavesRoom
<1>3. QED BY <1>2, Zenon DEF PanelInv

\* A header taken out, one switched on or off and one typed into leave headers.
LEMMA HeadersStayHeaders ==
  ASSUME NEW hs \in Seq(HeaderType), NEW k \in DOMAIN hs
  PROVE  /\ Panel!RemoveAt(hs, k) \in Seq(HeaderType)
         /\ [hs EXCEPT ![k].disabled = ~@] \in Seq(HeaderType)
         /\ Len([hs EXCEPT ![k].disabled = ~@]) = Len(hs)
         /\ \A c \in {"key", "value"}, t \in CellText :
              /\ [hs EXCEPT ![k][c] = t] \in Seq(HeaderType)
              /\ Len([hs EXCEPT ![k][c] = t]) = Len(hs)
<1>1. Panel!RemoveAt(hs, k) \in Seq(HeaderType)
  <2>1. Panel!RemoveAt(hs, k) = SubSeq(hs, 1, k - 1) \o SubSeq(hs, k + 1, Len(hs))
    BY DEF Panel!RemoveAt
  <2>2. SubSeq(hs, 1, k - 1) \in Seq(HeaderType) /\ SubSeq(hs, k + 1, Len(hs)) \in Seq(HeaderType)
    OBVIOUS
  <2>3. QED BY <2>1, <2>2
<1>2. ASSUME NEW h \in HeaderType
      PROVE  [hs EXCEPT ![k] = h] \in Seq(HeaderType) /\ Len([hs EXCEPT ![k] = h]) = Len(hs)
  OBVIOUS
<1>3. hs[k] \in HeaderType
  OBVIOUS
<1>4. [hs[k] EXCEPT !.disabled = ~@] \in HeaderType
  BY <1>3 DEF HeaderType
<1>5. ASSUME NEW c \in {"key", "value"}, NEW t \in CellText
      PROVE  [hs[k] EXCEPT ![c] = t] \in HeaderType
  BY <1>3 DEF HeaderType
<1>6. [hs EXCEPT ![k].disabled = ~@] = [hs EXCEPT ![k] = [hs[k] EXCEPT !.disabled = ~@]]
  OBVIOUS
<1>7. ASSUME NEW c \in {"key", "value"}, NEW t \in CellText
      PROVE  [hs EXCEPT ![k][c] = t] = [hs EXCEPT ![k] = [hs[k] EXCEPT ![c] = t]]
  OBVIOUS
<1>8. QED BY <1>1, <1>2, <1>4, <1>5, <1>6, <1>7, Zenon

\* Moving among the headers, over any of them.
LEMMA MoveKeeps ==
  ASSUME PanelInv, headers' \in Seq(HeaderType), total' \in Nat, column' \in {"key", "value"},
         notice' \in BOOLEAN, NEW i \in Int, Panel!MoveTo(i, headers'), Panel!Relayout
  PROVE  PanelInv'
<1>1. offset \in Int /\ height \in Nat
  BY DEF PanelInv
<1>2. cursor' \in Nat /\ (headers' # << >> => cursor' < Len(headers')) /\ offset' \in Int
  BY <1>1, PanelMoves
<1>3. QED BY <1>2, RelayoutKeeps

\* Laid out with the same headers under the same cursor.
LEMMA LayoutKeeps ==
  ASSUME PanelInv, headers' \in Seq(HeaderType), Len(headers') = Len(headers),
         total' \in Nat, column' \in {"key", "value"}, notice' \in BOOLEAN,
         cursor' = cursor, offset' = offset, Panel!Relayout
  PROVE  PanelInv'
<1>1. /\ headers \in Seq(HeaderType) /\ cursor \in Nat /\ offset \in Int
      /\ headers # << >> => cursor < Len(headers)
  BY DEF PanelInv
<1>2. headers' # << >> => headers # << >>
  <2>1. \A S : \A q \in Seq(S) : Len(q) = 0 <=> q = << >>
    BY ONLY TRUE
  <2>2. QED BY <1>1, <2>1
<1>3. cursor' \in Nat /\ (headers' # << >> => cursor' < Len(headers')) /\ offset' \in Int
  BY <1>1, <1>2
<1>4. QED BY <1>3, RelayoutKeeps

\* Whatever is typed, moved, switched or resized, the panel has its cursor on a
\* header and no more room than a refused send would give it.
LEMMA PanelStep == PanelInv /\ [Panel!Next]_(Panel!vars) => PanelInv'
<1> SUFFICES ASSUME PanelInv, [Panel!Next]_(Panel!vars) PROVE PanelInv'
  OBVIOUS
<1>1. /\ headers \in Seq(HeaderType) /\ total \in Nat /\ column \in {"key", "value"}
      /\ notice \in BOOLEAN
      /\ cursor \in Nat /\ (headers # << >> => cursor < Len(headers))
      /\ offset \in Int /\ height \in Nat
  BY DEF PanelInv
<1>2. Len(headers) \in Nat /\ (headers # << >> => cursor + 1 \in DOMAIN headers)
  BY <1>1
<1>3. CASE Panel!Move
  <2>1. Panel!PageSize \in Int
    <3> DEFINE shown == {i \in 0 .. Len(headers) - 1 :
                           Panel!OnScreen(Panel!LineOf(headers, editing, cursor, i))}
               c == Panel!Cardinality(shown)
    <3>1. \A S : Panel!Cardinality(S) = Cardinality(S)
      BY DEF Panel!Cardinality, Cardinality
    <3>2. shown \subseteq 0 .. Len(headers) - 1
      OBVIOUS
    <3> HIDE DEF shown
    <3>a. Len(headers) - 1 \in Int /\ 0 \in Int
      BY <1>2
    <3>b. IsFiniteSet(0 .. (Len(headers) - 1))
      BY <3>a, FS_Interval
    <3>3. IsFiniteSet(shown)
      BY <3>2, <3>b, FS_Subset
    <3>4. c \in Nat
      BY <3>1, <3>3, FS_CardinalityType
    <3>5. Panel!PageSize = IF c > 2 THEN c - 1 ELSE 1
      BY DEF Panel!PageSize, shown
    <3> HIDE DEF c
    <3>6. QED BY <3>4, <3>5
  <2>2. PICK i \in {cursor - 1, cursor + 1, cursor - Panel!PageSize, cursor + Panel!PageSize,
                    0, Len(headers) - 1} : Panel!MoveTo(i, headers)
    BY <1>3 DEF Panel!Move
  <2>3. i \in Int
    BY <1>1, <1>2, <2>1, <2>2
  <2>4. /\ headers' = headers /\ column' = column /\ notice' = notice /\ total' = total
        /\ Panel!Relayout
    BY <1>3 DEF Panel!Move, Panel!Still
  <2>5. Panel!MoveTo(i, headers')
    BY <2>2, <2>4
  <2> HIDE DEF PanelInv
  <2>6. QED BY <1>1, <2>3, <2>4, <2>5, MoveKeeps
<1>4. CASE Panel!MoveColumn \/ Panel!Edit \/ Panel!StopEditing
  <2>1. column' \in {"key", "value"}
    BY <1>1, <1>4 DEF Panel!MoveColumn, Panel!Edit, Panel!StopEditing
  <2>2. /\ headers' = headers /\ cursor' = cursor /\ offset' = offset
        /\ notice' = notice /\ total' = total /\ Panel!Relayout
    BY <1>4 DEF Panel!MoveColumn, Panel!Edit, Panel!StopEditing, Panel!Still
  <2>3. QED BY <1>1, <2>1, <2>2, LayoutKeeps
<1>5. CASE Panel!Add
  <2>1. /\ headers' = Append(headers, Panel!Header("", ""))
        /\ column' = "key" /\ Panel!MoveTo(Len(headers), headers')
        /\ notice' = notice /\ total' = total /\ Panel!Relayout
    BY <1>5 DEF Panel!Add, Panel!Still
  <2> DEFINE empty == ""
             h == Panel!Header(empty, empty)
  <2>2. empty \in CellText
    BY Zenon DEF CellText, Panel!Cells
  <2> HIDE DEF empty
  <2>3. h \in HeaderType
    BY <2>2 DEF Panel!Header, HeaderType
  <2>4. headers' = Append(headers, h)
    BY <2>1, Zenon DEF empty
  <2> HIDE DEF h
  <2>5. headers' \in Seq(HeaderType)
    BY <1>1, <2>3, <2>4
  <2>6. /\ column' \in {"key", "value"} /\ notice' = notice /\ total' = total
        /\ Panel!MoveTo(Len(headers), headers') /\ Panel!Relayout
    BY <2>1, Zenon
  <2>7. QED BY <1>1, <1>2, <2>5, <2>6, MoveKeeps
<1>6. CASE Panel!Drop
  <2>1. /\ headers # << >> /\ headers' = Panel!RemoveAt(headers, cursor + 1)
        /\ Panel!MoveTo(cursor, headers')
        /\ column' = column /\ notice' = notice /\ total' = total /\ Panel!Relayout
    BY <1>6 DEF Panel!Drop, Panel!Still
  <2>2. headers' \in Seq(HeaderType)
    BY <1>1, <1>2, <2>1, HeadersStayHeaders
  <2>3. QED BY <1>1, <2>1, <2>2, MoveKeeps
<1>7. CASE Panel!Toggle
  <2>1. /\ headers # << >> /\ headers' = [headers EXCEPT ![cursor + 1].disabled = ~@]
        /\ cursor' = cursor /\ offset' = offset
        /\ column' = column /\ notice' = notice /\ total' = total /\ Panel!Relayout
    BY <1>7 DEF Panel!Toggle, Panel!Still
  <2>2. headers' \in Seq(HeaderType) /\ Len(headers') = Len(headers)
    BY <1>1, <1>2, <2>1, HeadersStayHeaders
  <2>3. QED BY <1>1, <2>1, <2>2, LayoutKeeps
<1>8. CASE Panel!Type
  <2>1. /\ cursor' = cursor /\ offset' = offset
        /\ column' = column /\ notice' = notice /\ total' = total /\ Panel!Relayout
    BY <1>8 DEF Panel!Type, Panel!Still
  <2>2. PICK text \in Panel!Cells[column] : headers' = [headers EXCEPT ![cursor + 1][column] = text]
    BY <1>8 DEF Panel!Type
  <2>3. text \in CellText
    <3>1. text \in Panel!Cells.key \/ text \in Panel!Cells.value
      BY <1>1, <2>2
    <3>2. QED BY <3>1, Zenon DEF CellText
  <2>4. headers' \in Seq(HeaderType) /\ Len(headers') = Len(headers)
    <3>1. CASE headers # << >>
      <4>0. \A c \in {"key", "value"}, t \in CellText :
              /\ [headers EXCEPT ![cursor + 1][c] = t] \in Seq(HeaderType)
              /\ Len([headers EXCEPT ![cursor + 1][c] = t]) = Len(headers)
        BY <1>1, <1>2, <3>1, HeadersStayHeaders
      <4>1. /\ [headers EXCEPT ![cursor + 1][column] = text] \in Seq(HeaderType)
            /\ Len([headers EXCEPT ![cursor + 1][column] = text]) = Len(headers)
        BY <1>1, <2>3, <4>0, Zenon
      <4>2. QED BY <2>2, <4>1
    <3>2. CASE headers = << >>
      <4>1. headers' = headers
        BY <1>1, <2>2, <3>2
      <4>2. QED BY <1>1, <4>1
    <3>3. QED BY <3>1, <3>2
  <2>5. QED BY <1>1, <2>1, <2>4, LayoutKeeps
<1>9. CASE Panel!SwitchPanel
  BY <1>9 DEF Panel!SwitchPanel, PanelInv
<1>10. ASSUME NEW tall \in Totals, Panel!Elsewhere(tall) PROVE PanelInv'
  <2>1. /\ headers' = headers /\ cursor' = cursor /\ offset' = offset
        /\ column' = column /\ notice' = notice /\ total' = tall /\ Panel!Relayout
    BY <1>10 DEF Panel!Elsewhere
  <2>2. tall \in Nat
    BY PanelsAssumption
  <2>3. QED BY <1>1, <2>1, <2>2, LayoutKeeps
<1>11. ASSUME NEW hs \in Profiles, Panel!SwitchProfile(hs) PROVE PanelInv'
  <2>1. /\ headers' = hs /\ notice' = FALSE /\ cursor' = 0 /\ column' = "key" /\ offset' = 0
        /\ total' = total /\ Panel!Relayout
    BY <1>11 DEF Panel!SwitchProfile
  <2>2. headers' \in Seq(HeaderType)
    BY <2>1, ProfilesAreHeaders
  <2>3. headers' # << >> => 0 < Len(headers')
    <3>1. \A S : \A q \in Seq(S) : Len(q) \in Nat /\ (Len(q) = 0 => q = << >>)
      BY ONLY TRUE
    <3>2. QED BY <2>2, <3>1
  <2>4. column' \in {"key", "value"} /\ notice' \in BOOLEAN
    BY <2>1, Zenon
  <2>5. cursor' \in Nat /\ (headers' # << >> => cursor' < Len(headers')) /\ offset' \in Int
    BY <2>1, <2>3
  <2>6. QED BY <1>1, <2>1, <2>2, <2>4, <2>5, RelayoutKeeps, Zenon
<1>12. CASE Panel!Refuse
  <2> DEFINE bad == Panel!Invalid(headers)
             i == (CHOOSE k \in bad : \A j \in bad : k <= j) - 1
  <2>1. /\ headers' = headers /\ column' = column /\ notice' = notice /\ total' = total
        /\ Panel!MoveTo(i, headers) /\ Panel!Relayout
    BY <1>12 DEF Panel!Refuse
  <2>2. i \in Int
    <3>1. Panel!Invalid(headers) \subseteq Nat /\ Panel!Invalid(headers) # {}
      BY <1>1, <1>12 DEF Panel!Refuse, Panel!Invalid
    <3>2. \E k \in Panel!Invalid(headers) : \A j \in Panel!Invalid(headers) : k <= j
      BY <3>1, Least1
    <3>3. QED BY <3>1, <3>2
  <2> HIDE DEF i
  <2>3. Panel!MoveTo(i, headers')
    BY <2>1
  <2>4. QED BY <1>1, <2>1, <2>2, <2>3, MoveKeeps
<1>13. CASE \E bound \in BOOLEAN : Panel!Dispatch(bound)
  <2>1. /\ headers' = headers /\ cursor' = cursor /\ offset' = offset
        /\ column' = column /\ total' = total /\ Panel!Relayout
    BY <1>13 DEF Panel!Dispatch, Panel!RefuseReference, Panel!GoOut
  <2>2. notice' \in BOOLEAN
    BY <1>13, Zenon DEF Panel!Dispatch, Panel!RefuseReference, Panel!GoOut
  <2>3. QED BY <1>1, <2>1, <2>2, LayoutKeeps, Zenon
<1>14. CASE UNCHANGED Panel!vars
  BY <1>14 DEF Panel!vars, PanelInv
<1>15. QED
  BY <1>3, <1>4, <1>5, <1>6, <1>7, <1>8, <1>9, <1>10, <1>11, <1>12, <1>13, <1>14
  DEF Panel!Next, Panel!Send, Panel!LoadAndSend

\* A send that a reference refuses leaves the user in the headers.
LEMMA ReferenceShows == Panel!RefusedForAReference => focused' /\ ~editing'
<1> SUFFICES ASSUME Panel!RefusedForAReference PROVE focused' /\ ~editing'
  OBVIOUS
<1>1. notice' /\ \E bound \in BOOLEAN : Panel!Dispatch(bound)
  BY DEF Panel!RefusedForAReference, Panel!LoadAndSend
<1>2. Panel!RefuseReference
  BY <1>1, Zenon DEF Panel!Dispatch, Panel!GoOut
<1>3. QED BY <1>2, Zenon DEF Panel!RefuseReference

\* A send that is refused leaves the cursor on the first header that refuses it, in a
\* window that shows it: moveTo scrolled the window the panel had, and the one it gets
\* is no smaller.
LEMMA RefusalShows == PanelInv => Panel!RefusedOnTheRow
<1> SUFFICES ASSUME PanelInv, Panel!RefusedForAHeader
             PROVE  /\ cursor' + 1 \in Panel!Invalid(headers')
                    /\ \A j \in Panel!Invalid(headers') : cursor' + 1 <= j
                    /\ focused' /\ ~editing'
                    /\ height' > 0 => Panel!CursorLine' \in offset' .. (offset' + height' - 1)
  BY ReferenceShows, Zenon DEF Panel!RefusedOnTheRow
<1> DEFINE bad == Panel!Invalid(headers)
           f == CHOOSE k \in bad : \A j \in bad : k <= j
           line == Panel!LineOf(headers, FALSE, f - 1, f - 1)
           lines == Panel!LineCount(headers, FALSE, f - 1, notice)
<1>1. /\ headers \in Seq(HeaderType) /\ total \in Nat /\ offset \in Int /\ height \in Nat
      /\ headers # << >> =>
           /\ height <= Room(headers, notice, total)
           /\ height = 0 => Room(headers, notice, total) = 0
  BY DEF PanelInv
<1>2. Panel!Refuse
  BY DEF Panel!RefusedForAHeader, Panel!Send
<1>3. /\ headers' = headers /\ notice' = notice /\ total' = total
      /\ editing' = FALSE /\ focused' = TRUE
      /\ Panel!MoveTo(f - 1, headers) /\ Panel!Relayout
  BY <1>2 DEF Panel!Refuse
<1>4. bad \subseteq 1 .. Len(headers) /\ bad # {} /\ Len(headers) \in Nat
  BY <1>1, <1>2 DEF Panel!Refuse, Panel!Invalid
<1> HIDE DEF bad
<1>5. f \in bad /\ \A j \in bad : f <= j
  <2>1. bad \subseteq Nat
    BY <1>4
  <2>2. QED BY <1>4, <2>1, Least1
<1> HIDE DEF f
<1>6. f - 1 \in 0 .. (Len(headers) - 1) /\ f - 1 + 1 = f /\ headers # << >>
  BY <1>4, <1>5
<1>7. /\ cursor' = f - 1
      /\ offset' = ClampWindow(line, offset, height, lines)
  <2>1. ClampIndex(f - 1, Len(headers)) = f - 1
    BY <1>4, <1>6 DEF ClampIndex
  <2>2. QED BY <1>3, <2>1, OneArithmetic DEF Panel!MoveTo
<1>8. lines \in Nat \ {0} /\ line \in Nat /\ line < lines
  <2>1. /\ lines \in Nat \ {0}
        /\ \A k \in 0 .. (Len(headers) - 1) :
             Panel!LineOf(headers, FALSE, f - 1, k) \in Nat
             /\ Panel!LineOf(headers, FALSE, f - 1, k) < lines
    BY <1>1, LinesAreCounted
  <2>2. line \in Nat /\ line < lines
    BY <1>6, <2>1, Zenon
  <2>3. QED BY <2>1, <2>2, Zenon
<1>9. Panel!CursorLine' = line
  BY <1>3, <1>7 DEF Panel!CursorLine
<1>10. height' = Room(headers, notice, total)
  <2>1. height' = Panel!HeightOf(headers, Panel!LineCount(headers, FALSE, f - 1, notice),
                                 TRUE, total)
    BY <1>3, <1>7 DEF Panel!Relayout
  <2>2. Panel!LineCount(headers, FALSE, f - 1, notice) = Panel!LineCount(headers, FALSE, 0, notice)
    BY <1>1, LinesAreCounted
  <2>3. QED BY <2>1, <2>2, Zenon DEF Room
<1>11. height <= height' /\ (height = 0 => height' = 0)
  BY <1>1, <1>6, <1>10
<1> HIDE DEF line, lines
<1>12. ASSUME height' > 0 PROVE line \in offset' .. (offset' + height' - 1)
  <2>1. height > 0 /\ height' \in Int
    <3> DEFINE room == Room(headers, notice, total)
    <3>1. room \in Nat
      <4> DEFINE n == Panel!LineCount(headers, FALSE, 0, notice)
      <4>1. n \in Nat \ {0}
        BY <1>1, LinesAreCounted
      <4> HIDE DEF n
      <4>2. n \in Nat \ {0} /\ n <= n
        BY <4>1
      <4>3. Panel!HeightOf(headers, n, TRUE, total) \in Nat
        BY <1>1, <4>2, HeightGrows
      <4>4. QED BY <4>3 DEF n, Room
    <3> HIDE DEF room
    <3>2. height' = room
      BY <1>10 DEF room
    <3>3. QED BY <1>1, <1>11, <1>12, <3>1, <3>2
  <2>2. line = ClampIndex(line, lines)
    BY <1>8 DEF ClampIndex
  <2>3. InWindow(line, offset', height, lines)
    <3>1. line \in Int /\ lines \in Nat
      BY <1>8
    <3>2. QED BY <1>1, <1>7, <2>2, <3>1, ResizeShows, Zenon
  <2>4. line \in offset' .. (offset' + height - 1) /\ offset' \in Nat
    BY <1>8, <2>1, <2>3 DEF InWindow
  <2>5. ASSUME NEW l \in Nat, NEW o \in Nat, NEW a \in Nat, NEW b \in Int, a <= b,
               l \in o .. (o + a - 1)
        PROVE  l \in o .. (o + b - 1)
    BY ONLY <2>5
  <2>6. QED
    BY <1>1, <1>8, <1>11, <2>1, <2>4, <2>5, Zenon
<1>13. /\ cursor' + 1 \in Panel!Invalid(headers')
       /\ \A j \in Panel!Invalid(headers') : cursor' + 1 <= j
  BY <1>3, <1>5, <1>6, <1>7 DEF bad
<1>14. focused' /\ ~editing'
  BY <1>3, Zenon
<1>15. QED BY <1>9, <1>12, <1>13, <1>14, Zenon

-----------------------------------------------------------------------------
(* The screen. *)

\* The invariant of the part a behaviour is about.
PartInv ==
  /\ part = "tree" => TreeInv
  /\ part = "headers" => PanelInv
  /\ part = "variables" => VarsInv
  /\ part = "browser" => ListInv
  /\ part = "routing" => Routing!EditingIsFocused
  /\ part = "chooser" => ChooserInv
  /\ part = "traffic" => LogInv

\* Each part starts with its invariant, and each of its steps keeps it.
THEOREM PartsKeepTheirs == Spec => []PartInv
<1>1. Init => PartInv
  BY Starts, TreeStarts, PanelStarts, VarsStarts, ListStarts, RoutingStarts, ChooserStarts,
     LogStarts
  DEF PartInv
<1>2. PartInv /\ [Next]_vars => PartInv'
  <2> SUFFICES ASSUME PartInv, [Next]_vars PROVE PartInv'
    OBVIOUS
  <2>1. part' = part
    BY Steps
  <2>2. part = "tree" => TreeInv'
    BY Steps, TreeStep DEF PartInv
  <2>3. part = "headers" => PanelInv'
    BY Steps, PanelStep DEF PartInv
  <2>4. part = "variables" => VarsInv'
    BY Steps, VarsStep DEF PartInv
  <2>5. part = "browser" => ListInv'
    BY Steps, ListStep DEF PartInv
  <2>6. part = "routing" => Routing!EditingIsFocused'
    BY Steps, RoutingStep DEF PartInv
  <2>7. part = "chooser" => ChooserInv'
    BY Steps, ChooserStep DEF PartInv
  <2>8. part = "traffic" => LogInv'
    BY Steps, LogStep DEF PartInv
  <2>9. QED BY <2>1, <2>2, <2>3, <2>4, <2>5, <2>6, <2>7, <2>8 DEF PartInv
<1>3. QED BY <1>1, <1>2, PTL DEF Spec

\* In the tree, the variables, the browser, the choosers and the traffic log, for any
\* contents and any height, the cursor is on a row and the row in the window, whatever
\* lands, folds, is filtered or resized under it (panels/scroll.go, and tree.go,
\* variables.go, requests.go, profiles.go, traffic.go).
THEOREM CursorsStayOnScreen == Spec => []CursorsAreOnScreen
<1>1. PartInv => CursorsAreOnScreen
  BY TreePromises, ListPromises
  DEF PartInv, VarsInv, ChooserInv, LogInv, CursorsAreOnScreen
<1>2. QED BY <1>1, PartsKeepTheirs, PTL

\* A tree that folds and a log that grows, and drops its oldest rows, leave the reader
\* on the row being read; a recalled request takes the cursor to the method it gives the
\* form, whatever was picked before and lands later (tree.go:108-111, traffic.go:197-199).
THEOREM ReadersStayPut == Spec => PlacesAreKept
<1>1. PartInv /\ [Next]_vars =>
        [/\ part = "tree" => Tree!StaysPut
         /\ part = "traffic" => Log!IsNotDragged]_vars
  BY Steps, TreeStays, LogStep DEF PartInv
<1>2. QED BY <1>1, PartsKeepTheirs, PTL DEF Spec, PlacesAreKept

\* However the calls' events are told, a row's counts are its own call's, its request
\* the first that was sent, and the index finds it (traffic.go).
THEOREM RowsStayFaithful == Spec => []RowsAreFaithful
<1>1. PartInv => RowsAreFaithful
  BY LogPromises DEF PartInv, RowsAreFaithful
<1>2. QED BY <1>1, PartsKeepTheirs, PTL

\* Whatever is typed, captured or switched, and in whatever order the captures land, a
\* binding in force was made under the environment in force, and the resolver of the
\* form and the headers holds the same bindings (ui/variables.go:21-23).
THEOREM VariablesStayHome == Spec => []NothingCrossesEnvironments
<1>1. PartInv => NothingCrossesEnvironments
  BY DEF PartInv, VarsInv, NothingCrossesEnvironments
<1>2. QED BY <1>1, PartsKeepTheirs, PTL

\* A send refused for a malformed header leaves the user on the first that refuses it, in
\* a window that shows it, however many there are and however high the terminal
\* (call.go:29-33); one refused for a reference, also of a request loaded to be sent with
\* malformed headers beside it, leaves the user in the headers (call.go:65-71).
THEOREM RefusalLeadsToTheRow == Spec => RefusalIsOnTheRow
<1>1. PartInv /\ [Next]_vars => [part = "headers" => Panel!RefusedOnTheRow]_vars
  BY RefusalShows DEF PartInv
<1>2. QED BY <1>1, PartsKeepTheirs, PTL DEF Spec, RefusalIsOnTheRow

\* Whatever key or message comes next, one panel has the focus and only it takes what
\* is typed (update.go, syncFocus).
THEOREM OnePanelReadsKeys == Spec => []EditingIsFocused
<1>1. PartInv => EditingIsFocused
  BY DEF PartInv, EditingIsFocused
<1>2. QED BY <1>1, PartsKeepTheirs, PTL
=============================================================================
