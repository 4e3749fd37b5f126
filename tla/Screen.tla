------------------------------- MODULE Screen -------------------------------
(***************************************************************************)
(* The root model's routing (internal/ui/update.go, view.go): which part   *)
(* of the screen a key goes to, which part is drawn, and where the focus   *)
(* and the text cursor are, while the messages the parts and the commands  *)
(* send land in any order, and after keys pressed since.                   *)
(***************************************************************************)
EXTENDS Integers, Sequences, FiniteSets, SequencesExt, BagsExt

CONSTANT MaxPending   \* bound: messages on their way

VARIABLES
  state,    \* "connecting", "ready", "failed" or "quit"
  focus,    \* focus
  lit,      \* the panels whose focused is set
  editing,  \* the panels whose editing is set
  opened,   \* the modals that are open
  pending   \* the messages on their way, in no order

screen == <<state, focus, lit, editing, opened, pending>>

Panels == <<"tree", "request", "metadata", "response">>
Typed == {"request", "metadata"}

\* handleModalKey's order, and View's.  The prompt is the browser asking for a name.
KeyOrder ==
  <<"profiles", "environments", "themes", "browser", "prompt", "variables", "traffic", "export">>
DrawOrder ==
  <<"profiles", "environments", "variables", "browser", "prompt", "traffic", "export", "themes">>
First(order, modals) == SelectSeq(order, LAMBDA m : m \in modals)[1]

\* What a modal sends as it closes on a choice, and what it sends and stays.
OnChoice ==
  [profiles |-> {"profile"}, environments |-> {"environment"}, themes |-> {"theme"},
   browser |-> {"load"}, prompt |-> {}, variables |-> {}, traffic |-> {"replay"}, export |-> {}]
OnSubmit ==
  [profiles |-> {}, environments |-> {}, themes |-> {"theme"}, browser |-> {},
   prompt |-> {"save"}, variables |-> {"bind", "unbind", "capture"}, traffic |-> {}, export |-> {}]

Ask(kind) == BagCardinality(pending) < MaxPending /\ pending' = BagAdd(pending, kind)
Land(kind) == BagIn(kind, pending) /\ pending' = BagRemove(pending, kind)
\* A message lands, and a command that will send another is started.
LandAsking(kind, next) == BagIn(kind, pending) /\ pending' = BagAdd(BagRemove(pending, kind), next)

\* Mutated SyncFocus: what was being typed into is not blurred.
SyncFocusOnly(panel) == focus' = panel /\ lit' = {panel} /\ UNCHANGED editing

\* syncFocus, once focus is set: every panel is blurred, which ends its edit.
SyncFocus(panel) == focus' = panel /\ lit' = {panel} /\ editing' = {}

SameFocus == UNCHANGED <<focus, lit, editing>>

\* A refused send: a malformed header, or a reference in one that nothing binds.
RefuseHeaders == SyncFocus("metadata")

-----------------------------------------------------------------------------
(* Keys *)

\* ctrl+c, before everything; q, unless it is a character.
Quit == state' = "quit" /\ SameFocus /\ UNCHANGED <<opened, pending>>

\* handleModalKey: the first open modal has the key.
ModalKey ==
  LET modal == First(KeyOrder, opened) IN
  /\ opened # {}
  /\ \/ opened' = opened \ {modal} /\ UNCHANGED pending
     \/ opened' = opened \ {modal} /\ \E kind \in OnChoice[modal] : Ask(kind)
     \/ opened' = opened /\ \E kind \in OnSubmit[modal] : Ask(kind)
  /\ SameFocus /\ UNCHANGED state

\* The keys that are read from inside a field too.
Send ==
  /\ opened = {} /\ state = "ready"
  /\ RefuseHeaders /\ UNCHANGED <<state, opened, pending>>
OpenAnywhere ==
  /\ opened = {} /\ opened' \in {{"browser"}, {"variables"}}
  /\ SameFocus /\ UNCHANGED <<state, pending>>
\* movePanel.
MovePanel ==
  /\ opened = {} /\ state = "ready"
  /\ \E to \in Range(Panels), step \in {1, 3} :
       /\ Panels[1 + ((IndexFirstSubSeq(<<focus>>, Panels) - 1 + step) % 4)] = to
       /\ SyncFocus(to)
  /\ UNCHANGED <<state, opened, pending>>

\* The letters, which are characters while a field is being edited.
Letters == opened = {} /\ editing = {}
OpenByLetter ==
  /\ Letters
  /\ \E modal \in {"profiles", "environments", "variables", "traffic", "themes"}
                    \union (IF state = "ready" THEN {"prompt", "export"} ELSE {}) :
       opened' = {modal}
  /\ SameFocus /\ UNCHANGED <<state, pending>>
QuitByLetter == Letters /\ Quit
\* stepHistory: a recalled request goes to the form.
StepHistory ==
  /\ Letters /\ state = "ready"
  /\ editing' = editing \ {"request"}
  /\ UNCHANGED <<state, focus, lit, opened, pending>>
Retry ==
  /\ Letters /\ state = "failed"
  /\ state' = "connecting" /\ Ask("discovered")
  /\ SameFocus /\ UNCHANGED opened

\* updatePanels: a key nothing above consumed goes to the panels that are lit.
PanelKey ==
  /\ opened = {} /\ state = "ready"
  /\ \/ /\ editing = {}
        /\ editing' = lit \intersect Typed /\ UNCHANGED pending
     \/ editing' = editing \ lit /\ UNCHANGED pending
     \/ /\ editing = {} /\ "tree" \in lit
        /\ Ask("method") /\ UNCHANGED editing
  /\ UNCHANGED <<state, focus, lit, opened>>

-----------------------------------------------------------------------------
(* Messages *)

\* servicesDiscoveredMsg, of any connection's sweep, and discoveryFailedMsg.
Discovered ==
  /\ Land("discovered")
  /\ \/ state' = "ready" /\ editing' = editing \ {"request"}
     \/ state' = "failed" /\ UNCHANGED editing
  /\ UNCHANGED <<focus, lit, opened>>

\* startConnect, for a profile, or an environment that points somewhere else.
StartConnect ==
  /\ \E kind \in {"profile", "environment"} : LandAsking(kind, "dialed")
  /\ state' = "connecting"
  /\ SameFocus /\ UNCHANGED opened

\* finishConnect: a stale dial is dropped, a failed one keeps the panels.
FinishConnect ==
  \/ Land("dialed") /\ SameFocus /\ UNCHANGED <<state, opened>>
  \/ Land("dialed") /\ state' = "failed" /\ SameFocus /\ UNCHANGED opened
  \/ /\ LandAsking("dialed", "discovered")
     /\ state' = "connecting" /\ editing' = {}
     /\ UNCHANGED <<focus, lit, opened>>

\* MethodSelectedMsg, LoadRequestMsg and TrafficReplayMsg: the form is rebuilt.
SetForm ==
  /\ \/ Land("method")
     \/ state = "ready" /\ (Land("load") \/ Land("replay"))
  /\ editing' = editing \ {"request"}
  /\ UNCHANGED <<state, focus, lit, opened>>

\* LoadRequestMsg, to be sent too, with a reference in a header that nothing binds.
LoadRefused ==
  /\ state = "ready" /\ Land("load")
  /\ RefuseHeaders /\ UNCHANGED <<state, opened>>

\* saveRequest; requestSavedMsg closes the browser, or makes a prompt of it.
SaveRequest ==
  /\ LandAsking("save", "saved")
  /\ SameFocus /\ UNCHANGED <<state, opened>>
FinishSave ==
  /\ Land("saved")
  /\ \/ opened' = opened \ {"browser", "prompt"}
     \/ opened' = (opened \ {"browser"}) \union {"prompt"}
  /\ SameFocus /\ UNCHANGED state

\* VariableBoundMsg, and VariableCapturedMsg when the path leads somewhere.
Bound ==
  /\ Land("bind") \/ Land("capture")
  /\ opened' = opened \union {"variables"}
  /\ SameFocus /\ UNCHANGED state

\* What changes nothing here: an environment of the same target, a theme, a
\* binding taken away, a capture that fails, and a request that is not loaded.
Settle ==
  /\ \/ Land("environment") \/ Land("theme") \/ Land("unbind") \/ Land("capture")
     \/ Land("load") \/ Land("replay")
  /\ SameFocus /\ UNCHANGED <<state, opened>>

Init ==
  /\ state = "connecting"
  /\ focus = "tree" /\ lit = {"tree"} /\ editing = {}
  /\ opened = {}
  /\ pending = SetToBag({"discovered"})

Next ==
  /\ state # "quit"
  /\ \/ Quit \/ ModalKey \/ Send \/ OpenAnywhere \/ MovePanel
     \/ OpenByLetter \/ QuitByLetter \/ StepHistory \/ Retry \/ PanelKey
     \/ Discovered \/ StartConnect \/ FinishConnect \/ SetForm \/ LoadRefused
     \/ SaveRequest \/ FinishSave \/ Bound \/ Settle

Spec == Init /\ [][Next]_screen

-----------------------------------------------------------------------------
(* Properties *)

\* One panel has the focus, and only it can be typed into, whatever was being
\* typed when a send was refused, a connection replaced or a request recalled:
\* each panel reads keys by its own flag, so two lit ones would both take a key.
EditingIsFocused == lit = {focus} /\ editing \subseteq lit

\* "A modal owns every remaining key while it is up" (update.go:296-297): the one
\* on screen is the one that gets them.
KeysGoToWhatIsDrawn ==
  opened # {} => First(KeyOrder, opened) = First(DrawOrder, opened)

\* The failed screen offers r (view.go:218): it is not a character
\* for a field nobody can see.
RetryAnswers == state = "failed" /\ opened = {} => editing = {}
=============================================================================
