# A verification of grpctui

grpctui is a terminal client for gRPC: it connects to a server, discovers its
services by reflection, builds request forms from their schemas, makes unary and
streaming calls, keeps a history and collections of requests, and can sit between
a client and a server as a passive proxy. This directory holds TLA+ models of the
parts of it that have behaviour of their own, the TLC configurations that check
them, and proofs about what must hold at any size: the call in flight and its
streams, the connection, the passive proxy and its log, the history and the
collections, the request form, the variables, the focus, the choosers and the
layout, the command line and the headless runner. Paths below are relative to `src/`.

    tlc -workers 2 -config Calls.cfg MCCalls.tla     # a run
    tlapm CallsProofs.tla                            # the proofs of a module

`PROJECT.json` lists the components, the runs with their properties, a mutant of
the code for every property (and the run that catches it), the source lines of
every definition, the hazards, the divergences and the theorems.

## 1. Inventory

The program is a bubbletea application. One goroutine runs `Update`, which takes
a message, changes the model and returns commands (`tea.Cmd`). Every command runs
on a goroutine of its own and its result comes back as a message, in no
particular order. Almost every hard question about grpctui is one about a message
that arrives late: what it was asked for is no longer what is on screen. The
code's answers are sequence numbers (`callSeq`, `connSeq`), cancelled contexts,
and state that is cleared when something else starts. The models ask whether
those answers are enough, everywhere.

| Component | State | Operations | Interacts with | Hard part | Correct when |
|---|---|---|---|---|---|
| The call in flight: `internal/ui/call.go`, `stream.go` | `callSeq`, `cancelCall`, `stream`, `sendQueue`, `sending`, `closeAfterQueue`, `responses` | `send`, `startCall`, `startStream`, `sendOnStream`, `nextSend`, `endSending`, `abortCall`, `retireCall`, and the handlers of five messages | response panel, transport stream, history | late and reordered messages; a queue fed one send at a time; cancel racing the answer | one call runs; esc reaches it while it is shown; nothing stale is drawn; messages go out whole and in order; no spinner for ever |
| Response panel: `panels/response*.go` | the state of the verdict, the stream log, the previous body | `SetInFlight`, `SetStreaming`, `SetSuccess`, `SetFailure`, `FinishStream`, `Append*`, `Clear`, views, search | the call | two sources of log lines | the log says what the wire carried |
| Transport stream: `internal/grpcclient/stream.go` | two locks, `sendClosed`, captured header and trailer, timing | `Send`, `CloseSend`, `Recv`, `Close` | grpc-go | one sender and one receiver at a time | its contract is kept by its user |
| Connection: `internal/ui/connection.go`, `variables.go`, `panels/profiles.go`, `environments.go` | `state`, `client`, `connSeq`, `ownsClient`, the active profile and environment | `startConnect`, `finishConnect`, `switchEnvironment`, `installEnvironment`, discovery and its retry | the call, tree, form, history | overlapping dials; sweeps that land after a switch; partial failure of a switch | no client leaks; the last choice wins; headers, services and variables belong to the server called |
| Passive proxy: `internal/proxy/proxy.go` | the call counter, the bounded event channel, the drop counter | `handle`, `pumpRequests`, `pumpResponses`, `emit`, `finish`, `Stop` | two gRPC peers; the traffic panel | two goroutines per call against Stop; a full channel; an error without a status | it forwards exactly what it is given, never waits on the UI, and stops |
| Traffic panel: `panels/traffic.go`, `ui/traffic.go` | rows, their index, how many fell off, cursor and window | `Record`, `start`, movement, `replay`, the chain of `watchTraffic` | the proxy, the form | indices under a sliding window; lost events | each event lands in its own row; the log admits what it lost |
| History: `internal/requests/history.go`, `file.go`, `ui/history.go` | entries newest first, `historyAt`, the file | `Add`, `Save`, `LoadHistory`, `stepHistory`, `load` | call, connection, form | saves running at once; kills; a walk over a list that changes | it is the recent past; the walk is where the form is; a kill loses nothing saved |
| Collections: `internal/requests/collections.go`, `panels/requests.go` | the set in memory, the browser's mode, one file each | the save prompt, `Save`, `finishSave` | form, files shared with a person and a repository | a save computed from a snapshot | entries are added or replaced, never lost |
| Root routing: `ui/update.go`, `layout.go`, `view.go` | state, focus, each panel's `focused` and `editing`, which modals are open, the height of each panel | `Update`, `handleKey`, `handleModalKey`, `syncFocus`, `movePanel`, `splitColumn` | everything | messages that move the focus or open a modal while a key is on its way to another | one reader for each key; a column filled exactly |
| Service tree: `panels/tree.go` | services, expansion, flattened rows, cursor, window | movement, `setExpanded`, `SelectMethod`, `SetServices` | form, browser, traffic | rows that appear and go above the cursor; a recall that is refused | the selected row is on screen; a fold leaves it there; a recall puts the cursor on the method it gives the form |
| Request form and headers: `panels/form*.go`, `metadata.go`, `grpcclient/metadata.go` | the form tree as rows, errors by path, what is being typed; header rows, column, complaint, window | edit, add, remove, toggle, submit, recall; add, drop, toggle, refuse | schema, call, variables | rows appear and disappear under the cursor; complaints change the number of lines and so the layout | what is sent is what is shown, and a refusal is where the user looks |
| Schema: `internal/protoschema`, `protofiles` | the form tree, built messages | `NewForm`, `Build`, `Validate`, `Template`, `Load`, `LoadValues`, `Wire` | form, history, collections | oneofs, presence, maps, items left out and renumbered | load is the inverse of build |
| Variables: `internal/vars`, `panels/variables.go`, `ui/variables.go` | the bindings, held by panel, form and headers; the prompt | bind, unbind, capture, switch of environment | form, headers, runner, responses | a binding that lands after a switch | nothing of one environment is sent under another |
| Configuration: `internal/config`, `cmd/grpctui` flags, connections, environments, `security.go` | profiles, environments, key overrides | `splitCommand`, `record`, `applyFlags`, `Validate`, selection | connection, runner | three layers that may contradict one another | what was asked for on the command line is what the session has, or it does not start |
| Headless runner: `internal/runner`, `cmd/grpctui/headless.go` | a report, the captured variables | `Run`, `call`, `drain`, the exit code | transport, collections, variables | a watch that never ends; skips; an interrupt | zero only if everything was answered |
| Diff: `internal/diff` | none | `Lines`, `Collapse` | response panel | common ends that overlap; a table cut short; context of nothing | it is between these two texts, is shortest, and hides no change |
| Choosers: `panels/profiles.go`, `environments.go`, `themes.go` | the entry in use, cursor, window | `Open`, movement, `choose`, preview, `SetActive` | connection, variables, styles | a choice that lands under a moved cursor | enter chooses something on screen |
| Key map, styles; render; export; format; logging; completion; demo server | none to speak of | formatting and wiring | | | presentation, not modelled |

## 2. The modules

An arrow is EXTENDS or INSTANCE.

    MCCalls -> Calls -> CallContract          MCConnection -> Connection
    Passive -> Proxy, Traffic -> Scroll       MCRequests -> KeptRequests -> History, Collections
    MCForm -> FormPanel -> FormTree, Scroll   MCHeadless -> Headless -> Startup -> CommandLine
    MCPanels -> Panels -> ServiceTree, Headers, Variables, Browser, Diff, Screen, Switcher,
                          MCTraffic -> Traffic      (Headers -> Layout; the lists -> Scroll)

    CallsProofs, ConnectionProofs and HeadlessProofs extend the module of that name,
    ProxyProofs Passive, KeptProofs KeptRequests, LayoutProofs Layout and Scroll,
    PanelsProofs Panels and LayoutProofs, and FormProofs FormPanel and LayoutProofs.

**Conventions.** A variable has the name of the field it stands for. An action is
one handler of `Update`, whole; where a goroutine of the program can be overtaken
between two of its steps (the proxy, a file save) the steps are actions. Commands
in flight, and messages a panel sends the root model, are a bag or set from which
any may land next, so that every order is a behaviour. Data is reduced to what is
compared: a call, its stream and its context are the sequence number; a connection
is the `connSeq` of the dial that opened it; a message is its number; a text is one
of a few. Indices count from 0 as in the code. Definitions whose comment begins with
*Mutated* are not part of a model: each is a plausible mistake in the definition
below it, which PROJECT.json uses to show that a property can fail.

**Calls** models `call.go` and `stream.go`, the panel they draw on and the part of
`clientStream` they can observe. `cmds` is the bag of commands. `released` holds
the calls whose context is cancelled or whose RPC has returned; a call made and
not in it is running. `SendOutcomes` is all that `Send` and `CloseSend` may
return: `io.EOF` only once a call is over, success only while the half is open,
any other error at any time. Two things are shaped by the code and easy to miss:
`retireCall` does nothing when `cancelCall` is nil, which it is after esc, so
`LoadAndSend` spends one number or two; and `nextSend` is a tail of four
handlers, never an action of its own. The server's end of a stream is kept only
for the latest call, because whatever a message of another one carries is dropped.
`ServicesDiscovered` is a sweep that ends while a call runs: it empties the form and
the panel and retires nothing, so the call runs on with esc no longer offered for it
(`SweptAway`), until it ends by itself or something is picked or recalled.

**CallContract** is what a user is promised: numbers are issued in order, a call
begun ends every other one, each is owed at most one outcome, and an outcome
shown belongs to the latest call. `Calls!ImplementsContract` maps `callSeq` to the
number issued, the running calls to `live`, the three commands that can end a
call to `owed`, and the panel's `from` to the verdict.

**Connection** models dialling, discovery and the switch of environment, with the
call reduced to the connection it runs on, whether its outcome is still owed and
whether the panel shows it. `picks` holds `MethodSelectedMsg` still on its way: a
row chosen in a tree that a sweep may replace before it is handled.

**Proxy** models a call as the two goroutines that forward it. `counting` holds a
goroutine that has found the channel full and not yet incremented the counter:
the `select` and the `Add` are two steps. Emitting on a closed channel panics
even in a `select` with a default, and the model panics too. The client and the
server may do anything a gRPC peer may, including nothing. A call ends with OK, with an
error that has a gRPC status, or with a "bare" one that has none (`HeaderRefused`); its
event says only whether there was a status, and that is all a row has to go by. **Traffic** is the
panel, **Scroll** the arithmetic every list panel shares, and **Passive** the proxy
and the panel joined by the chain of `watchTraffic` commands. **MCTraffic** feeds the
panel alone with any events a proxy may hand it, some lost.

**History** keeps an entry as a request, the server it went to and the moment it was
sent; two entries are the same call when request and server are. `saves` are
the running commands, each with the list as it was when it was recorded and
whether its temporary file is written; a crash may fall between any two steps,
and a restart loads what the file holds. `log` is a ghost: all that was sent since
the file was loaded, over what it held; `reported` and `settled` are ghosts too, the
latest send whose save has reported, and the latest to do so with no older save still
running. **Collections** keeps an entry as a name
and the save that wrote it; `written` and `raced` are ghosts, the last save that wrote
each entry and the saves that were under way together with another, and `comments` are the entries a
person has commented by hand. **Browser** is the panel that lists both: its filter,
its window, and the one text input that a query and a name share.

**FormTree** is the schema package. A tree maps the address of each materialised row
to the row; a message is the set of the places it carries with their values, where
the entry of a map goes by its key. `Build`, `Validate`, `Template`, `Load`
and `LoadValues` are operators over trees, with labels (one, list, map), presence,
required fields, oneofs, enums and nested messages, so the same definitions serve
any schema put into `Fields`. The order a map is read back in is an argument,
because Go's is random. A message, or a set of references, is put back row by row in
that order; a place that the tree does not have is passed over. **FormPanel** is the panel over such a tree: rows, cursor,
window, the text input and the errors by path; it materialises a row when the code
does, which is when it is first unfolded or loaded.

**Headers** is the metadata panel with the layout that grants it lines (`Relayout`
is what the root model's `layout` and the panel's `SetSize` do after every change
of its line count), and the two ways a send is refused: for a malformed header, which
`send` checks, and for a reference nothing binds, which `dispatch` finds. A request
loaded to be sent goes straight to `dispatch` (`LoadAndSend`), so malformed headers do
not stop it. **Layout** is `layout.go`'s
division of the column.

**Variables** has the three holders of the bindings that the root model keeps in
step, `set` and `resolver`, each binding tagged with the environment it was made
under (a ghost of its provenance). **ServiceTree** sends the method it is on and goes
on: `picks` holds the message until the form is given the method. **Switcher** (profiles,
environments and themes, which the code writes three times) and **Diff** are one
source file each, like the tree. **Screen** keeps of every panel its `focused` and `editing`, of
every modal whether it is open, and which messages are on their way; what a message
does to other state is in the other modules. It says who reads a key.

**Panels** puts the parts of the screen side by side, so that one run and one
invariant speak of all of them: `part` says which of them a behaviour is about, a
variable is the field of that name of that part, and None in a part without one.

**CommandLine** reads words as `flags.go` does, twice over: `SplitCommand` to find
the subcommand, then the flag package's parse of what is left. **Startup** lays file
and flags over one another into a session. **Headless** runs from the words
to the exit code: the sweep, each request in turn, its timeout, an interrupt; and for
a session with a screen, what it starts on and may switch to.

## 3. The runs

| Run | Question | Bounds and why they are enough | States |
|---|---|---|---|
| `calls` | Do a call's number, `cancelCall`, the stream reference and the panel stay together over every order of keystrokes, sweeps and late messages; does it implement the contract; do spinners end? | Three calls: one running, one replaced and one replacing it. Two unary methods with a cache of one, so that a body is evicted and answered again; a bidi method with one message. | 0.80 M |
| `streams` | Do messages reach the wire whole and in order, with one send at a time, the close last, and a log that agrees with the wire? | Three messages: one going out, two queued, the fewest with an order to lose. Two calls, so that messages of a dead stream arrive during the next. `MaxLog` stops ctrl+e being pressed for ever. | 2.9 M |
| `passive` | What is forwarded and in what order, what status the client is told, whether the log is complete, whether every goroutine and the watch end. | One call, two messages one way and one the other, a buffer of two, so that it fills with a pump and a handler both reporting. Calls share nothing but the channel, the counter and Stop. | 0.23 M |
| `connection` | Do overlapping dials leak a client, does the last one win, are the headers the connection's, does a waiting screen wait for something? | Three dials (one in use, two in flight), two sweeps per connection, two servers, an environment for each and one without a target. | 4.1 M |
| `requests` | Is the history the recent past over restarts, is the walk on the form, does a kill lose a saved send; do the browser and the files agree, and does a save leave the other entries in place? | A history of three with a file of four, so that loading truncates; three more sends, two saves at once; two requests over two servers, one of which lacks one. Four saves over two files and three names, one refused, two under way at once: the fewest that can overtake one another and be followed by one that has none beside it. | 0.80 M |
| `form` | Is the cursor on a row, and what is typed in a row that takes text; does a built message load back; does a recalled template send the same under any binding? | Three requests: a oneof with a required enum; a list in a nested message; a map from texts to numbers. Lists of two items, up to four changes in any order with submits and recalls between: an item added, filled, another added, the first dropped. The window of six lines is shorter than any of the forms unfolded. | 52 k |
| `panels` | Does every list but the headers keep its cursor on screen; do folds, recalls and events that fall off leave the reader in place; are events in their rows; does nothing cross environments; does a send refused for a header leave the user on it; is the diff exact; does one panel read the keys? | Eight parts of the screen, each by itself: a behaviour is one of one part (they share no state). Lists of two to six rows in windows of one to three; messages of which up to three are on their way, and a method picked and not yet in the form; diffs of all bodies of up to four lines over two texts, with a table small enough to be refused; five events of four calls in a log of three. | 1.8 M |
| `headless` | Does exit code zero mean that everything was answered as asked; is the session what the command line says; does the order of words matter; does a run end? | Every line of up to three units over sixteen words and flags with their values, and sensible lines with one or two flags over four files: a top-level target, two profiles, two environments, nothing. A collection of a unary request, a watch and an upload. | 15 k |
| `proxy_closing`, `wrong_server`, `shuffled_map`, `file_default` | Divergences; section 5. | | |

Where a cfg says `CHECK_DEADLOCK FALSE` the system may really stop: a proxy that has
been stopped, a command that has exited, a session whose numbers are used up (the
model's bound on `callSeq`), the diff (two answers are all it takes).

**Fairness.** `Calls!FairSpec`: a unary command reports (its context has the call
timeout or is cancelled), opening a stream reports, and the pending receive
reports *when it can*: a message has arrived, the server has ended the stream, or
the context is cancelled, which gRPC answers with an error. A send gets none: flow
control may hold it for ever. The user and the server get none either. That is
enough for `UnaryAnswered` and for `EscEndsStream`, which is about a cancelled
stream and not about one that a quiet server keeps open. `Passive!FairPassive`:
each of the proxy's goroutines runs while it can, bubbletea runs the watch
commands and handles their messages, and `server.Stop` returns when its handlers
have. The observed client and the server may fall silent at any point; `WatchEnds`
holds all the same because Stop cancels their contexts. `Headless!FairSpec`: the
runner's own steps are taken, and the timeout of a call passes if one is set; the
server may stay silent, and a watch may go on for ever. Every fairness condition is
weak and is on a step of the program or on its clock, none on its environment.

## 4. The proofs

TLC checks the bounds above; the proofs hold for every set of methods, profiles,
environments, schemas, requests, files, command lines, entries and heights, any number of calls
and messages, and every bound. They assume only

- the named assumptions of the modules (`MethodsAssumption`, `BoundsAssumption`,
  `ConnectionAssumption`, `ProxyAssumption`, `PassiveAssumption`, `RequestsAssumption`,
  `PanelsAssumption`, `HeadlessAssumption`, `FlagsAssumption`, `FormAssumption`,
  `PanelAssumption`), which say that the constants are sets and numbers of the right
  kind, that a schema is a list of field descriptors for each type, each message field of
  a type it has and each map of entries with a key and a value (it may be recursive), that `None` is none of them, that
  an environment binds finitely many names, that a chooser has an entry (one without is
  never opened, `environments.go:91-94`), that no window is asked to be of negative
  height, that a command line is a list of words and a file or a collection what it is
  read into, that a flag takes a value or does not and that `--` is none, and that a
  history file of an earlier session is one a session could have left: newest first, no
  two neighbours alike;
- the hypotheses of the theorem itself: those of LayoutProofs are about the arguments of
  an operator, and `GivenIsUnique`, in `BrowserAndFilesAgree`, says that a collection a
  person wrote by hand has no name twice, which
  `LoadCollections` does not check.

**CallsProofs.** `OneCallLive`, `EscReachesLiveCall`, `LatestAnswer` and
`SpinnerHasACall` are not inductive, alone or together. That a live call is the one
`cancelCall` would cancel survives a late `callFinishedMsg` only if the message of
the latest call cannot come twice; that needs `OneOutcome`, the latest call having
one command at most that can end it; and that survives `startCall` only if no
command exists under a number not given out yet (`NumbersInUse`). The stream's part
needs `stream` and `cancelCall` to be the latest call's or nil
(`StreamIsCurrent`), and a receive on the latest call to imply its stream is
installed. `CallInv` is their conjunction with `TypeOK`. The steps fall into four
shapes, each a lemma: *quiet* steps leave what the invariant reads alone, *retiring*
steps move to a number nobody has used, *starting* steps launch one command under
it, *settling* steps consume the last command of the latest call. `nextSend` has
one lemma saying that it issues sends and nothing else.

That Calls implements the contract is proved handler by handler: each is a step of
`CallContract` under the mapping of section 2, or changes nothing there. `CallInv` is
not enough for two of them: `Begin` needs that no context has been released before its
call is made, and esc that `cancelCall` is never left behind by a call that is over
(`ContractInv`). The diff needs that the body a method has left is an answer to it from
before the call still waiting, and that a waiting panel has nothing to compare yet
(`DiffInv`).

| Theorem | Says |
|---|---|
| `InvHolds`, `TypeCorrect` | `CallInv`, and with it `TypeOK`, always holds |
| `OneCallAtATime` | one call runs, it is the one esc ends, and the panel offers esc until a sweep empties form and panel under it (`CallWithinReach`) |
| `StaleAnswersDropped` | what the panel draws is the latest call's outcome (`LatestAnswer`) |
| `NoSpinnerWithoutACall` | a panel that waits has a message to come (`SpinnerHasACall`) |
| `CallsKeepTheContract` | Calls implements CallContract (`ImplementsContract`) |
| `DiffIsSound` | an answer is compared with an earlier one to the same method, and no more than `MaxDiffMethods` bodies are kept (`DiffIsAgainstPrevious`) |

The second half of the module goes on from `CallInv` to what the commands of a stream are. A call has
one message at most that can end it, one send at most, and no send before its stream is
installed (`BagOK`); the flag `sending` says whether a send is under way, and one is
while the queue holds anything (`HandOver`). Together (`StreamInv`) they are inductive,
and the queue and the two locks follow. Order needs more: the wire, the message in
flight and the queue of a healthy stream are the messages submitted, one after the other
(`Carrying`), a stream still opening has carried nothing (`Fresh`), and the form holds
the method of the running call (`FormIsLive`), because it is the form's method that
decides whether a send joins the queue. `LogIsTruthful` is inductive beside `CallInv`.

| Theorem | Says |
|---|---|
| `QueueNeverJams` | what waits in a queue waits for a send that is under way (`QueueIsDraining`) |
| `StreamHasOneUser` | one sender and one receiver at a time (`StreamContract`) |
| `MessagesGoOutInOrder` | until a send fails, the call is over or a sweep clears it, no message is lost, repeated or overtaken, and the close is last (`NothingLost`) |
| `LogTellsTheTruth` | a "sent" line for each message the wire took, a "received" line for each response taken off it (`LogIsTruthful`) |

**ConnectionProofs.** `OneOpenClient` needs to know that a dial still out has opened
nothing and that nothing is swept or closed that was not opened (`DialsAreFresh`),
or a late client could be one already closed. With it the six properties are
inductive as `ConnInv`.

| Theorem | Says |
|---|---|
| `ConnInvHolds` | `ConnInv` always holds |
| `NoClientLeaks` | every connection opened and not in use is closed (`OneOpenClient`) |
| `LastDialIsKept` | the client in use is the last one dialled, unless that dial is out or has failed (`LaterDialWins`) |
| `HeadersBelongToTheConnection` | the profile shown is the one the connection was dialled with (`MarkerIsTruthful`) |
| `NoScreenWaitsForNothing` | a connecting screen has a dial or a sweep to come, and a spinner an answer (`WaitsAreAnswered`) |

**ProxyProofs.** `ProxyInv` says what each goroutine of a call has in hand: the pump
one request taken and not passed on, the handler one reply (`RequestsInHand`,
`RepliesInHand`), by their program counters; an outcome of OK is reached with nothing
left to pass on (`CleanEnd`), and the end of a call is on the channel once, and last
(`EndsInOrder`). The panel is no part of it: every behaviour of the two together is one
of the proxy's own. The log needs both. Its invariant is about `Way`, the event the
panel has in hand followed by the channel: each direction's messages are numbered
upwards there, from what the row has counted to what was reported (`InTurn`), a call's
start comes first (`StartedFirst`), its end is the one it had (`EndAsItWas`), and while
nothing was lost whatever was told of a call is in its row or on the way (`Whole`). The
index must be right for that (`Indexed`), through the rows that fall off.

| Theorem | Says |
|---|---|
| `ProxyInvHolds` | `ProxyInv` holds, for any number of calls and any buffer |
| `PassiveModeIsTheProxy` | every behaviour of passive mode is one of `Proxy!Spec` |
| `NothingIsInvented` | nothing is passed on that was not given (`Proxy!Passive`) |
| `CleanCallsAreWhole` | a call ended with OK had everything passed on that the server said (`CleanCallIsWhole`) |
| `EndedIsTheLastWord` | no event of a call follows its clean end (`CleanEndIsLast`) |
| `LogTellsWhatWasForwarded` | with nothing dropped the log counts what was forwarded, and never more; a row that has ended has a status exactly when the call's error had one (`LogIsHonest`) |
| `RowsAreFound` | the index of a call leads to its own row (`Traffic!AtIsRight`) |

**KeptProofs.** The history's list is compared with `log`, all that was ever sent, so
the invariant says of both, of the file and of every list on its way to it that they are
dated downwards with no two neighbours alike (`RecentInv`); that `Add` keeps the newest
of each run of equal requests is then a matter of what a step does to the front. The
file survives a kill, however many saves run at once, because every one still on its
way is later than the last that was renamed with no older one running, so whatever it
puts in the file's place has that send too, or newer ones (`SavedInv`). For the
collections there are many versions of a file about: the browser's, the disk's and one
for every save under way. What a save without another beside it wrote is *settled*: every
version has its entry in one place (`SettledIsEverywhere`), with its content unless that
name was written again (`LastIsThere`), and all versions are one if it was the last to
write the file (`OneVersion`). Saves that were under way together may differ about each
other's entries and about nothing else (`CollectionsInv`).

| Theorem | Says |
|---|---|
| `HistoryIsThePast` | the history is the recent past of what was sent, over failed saves, kills and restarts (`HistoryIsRecent`) |
| `WalkFollowsTheForm` | the walk is at the entry the form shows, unless it was edited since (`WalkIsOnTheForm`) |
| `SavesSurviveKills` | a send whose save has reported, with no older one running, stays in the file until newer ones push it out (`SavedSurvives`) |
| `BrowserAndFilesAgree` | no name twice: browser, files and last saves agree, but for files and entries last written by saves that were under way together (`BrowserShowsTheFiles`) |
| `SavesLeaveTheRestAlone` | a save leaves every other entry in place, but for entries that saves under way together wrote (`EntriesStay`) |

**PanelsProofs.** A behaviour of Panels is one of one part, so its invariant
(`PartInv`) is one invariant for each, and the proof has a section for each.
`EditingIsFocused` is inductive as it stands, `NothingCrossesEnvironments` beside the
window of its panel (`VarsInv`): every handler restores them by itself. The others are
not. A cursor in its window stays there only if the rows are the ones the panel has
drawn from its data: what the query matches of history and collections (`ListInv`), what
the expanded services unfold to (`TreeInv`), entries that exist for every choice on its
way (`ChooserInv`). The tree needs most: its rows are a recursive function of the
services, and a fold redraws them under the cursor. They are the services and, of those
unfolded, the methods, each once (`Shows`, `RowsShow`); the row of a service is the one
after the rows of those before it (`PlaceOfService`), so that folding or unfolding it
leaves it where it was (`FoldKeepsTheRow`). The log's rows are compared with `told`,
all that was said of calls: `RowsAreFaithful` says nothing of a first request not yet
told, and is inductive only with it, with the index right (`Indexed`) through the rows
that fall off (`LogInv`).

The headers are the one panel whose window depends on what is in it. A refusal unfocuses
the field, adds complaints, lets the root model divide the column anew and then scrolls;
that the cursor's line ends up in the window needs a bound on what the layout had granted
before: no more than a refused send would give it, and none only if that gives none
either (`Room` in `PanelInv`). That holds of every layout (`LayoutLeavesRoom`), because
more lines asked for, and the focus, never cost the panel any (`HeightGrows`).

| Theorem | Says |
|---|---|
| `PartsKeepTheirs` | `PartInv` always holds |
| `CursorsStayOnScreen` | in the tree, variables, browser, choosers and log the cursor is on a row and the row in the window (`CursorsAreOnScreen`) |
| `ReadersStayPut` | rows that fold, come or fall off leave the reader on the row being read, and a recall leaves the tree on the recalled method (`PlacesAreKept`) |
| `RowsStayFaithful` | an event told is counted once, in its own call's row (`RowsAreFaithful`) |
| `VariablesStayHome` | every binding in force was made under the environment in force, and the form refers to the same (`NothingCrossesEnvironments`) |
| `RefusalLeadsToTheRow` | a send refused for its headers, submitted or loaded, leaves the user in their panel with nothing being typed; for a malformed one, on the first that is, in the window (`RefusalIsOnTheRow`) |
| `OnePanelReadsKeys` | one panel is lit, it has the focus, and only it is typed into (`EditingIsFocused`) |
| `LayoutProofs!ColumnIsFilled` | the three panels fill the column exactly, and each has its least height if there is room |
| `LayoutProofs!ClampWindowShows` | `clampWindow` shows its target from anywhere, with no empty line below a list that fills the window |

**FormProofs.** `CursorIsOnTheForm` is about rows that every handler draws anew from a
tree it has just changed, so it needs to know what a tree is. It is one through every
unfolding, pick, item and load (`Trees`): its rows are at finitely many addresses, each
with the row that holds it, and each is made from a descriptor of the schema, a message
row from a message field. One lemma for each operation of the schema package says that
it yields such a tree (`ToggleIsTree`, `RemoveItemIsTree`, `ReachIsTree`, ...). What has
no bound is the text in it, so `Trees` is over a set of texts, which grows with what is
typed and loaded. A form has a message for its root as well (`Forms`), or recalling it
would ask the schema for a type there is none of. The rows of such a tree come out in
walking order, each once (`SortedDraws`), for that order is total and strict
(`BeforeIsTotal`, `BeforeIsTransitive`), and an error above the cursor's row moves its
line by one each (`LineIsDrawn`); that line `clampWindow` brings into the window. What is
typed stays in a row that takes text because typing changes no row's kind, and the
steps that could move the rows under it end the typing. `FormInv` is inductive.

Unfolding needs no induction: a type may hold itself, but a field's own children are
made when it is first unfolded (`ensureChildren`), one level at a time. Loading is a walk over the message, each row upon the tree
that the ones before it left, and is an induction along the walk (`RuleStays`).

| Theorem | Says |
|---|---|
| `FormInvHolds` | `FormInv` always holds, whatever the schema |
| `CursorStaysOnTheForm` | the rows shown are the tree's, the cursor is on one and in the window, and only a row that takes text is typed into (`CursorIsOnTheForm`) |

**HeadlessProofs.** `SessionIsAsAsked` speaks of a session that has started, and rests
on it being what `prepare` makes of the job and on nothing having touched it since but
the two choosers, which pick among what it has (`SessionInv`); what `prepare` keeps,
overlays and refuses is then a matter of its steps, taken in their order.
`GreenMeansAnswered` speaks of the exit alone, and needs the whole run: that there is a
result for each entry gone through, in their order, that each says what became of its
entry (`Told`), that only what the session's environment can read was ever sent
(`Sends`), and that while a call is being read the last send is that of the entry at
hand (`RunInv`). A refusal of one entry does not end the run, so an exit of zero needs
each of them to have been looked at.

`WordsInAnyOrder` compares the line with the line sorted, and is about two passes over
the words: `SplitCommand` looks for a command, skipping each flag with its value, and
`flag.Parse` takes the flags up to the first word that is none, again and again. A line
is *woven* of its bare words and its flags (`Woven`) and its words stand where those
spell them (`Spelled`); leaving one unit out, the command, leaves a line that is woven
and spelled (`LessIsWoven`, `LessIsSpelled`). Whatever the weave, the split finds the
first bare word (`SplitOfWeave`), and the parse yields the bare words in their order
and the flags in theirs (`ParseOfWeave`), up to the first that it cannot read; so two
lines of the same weave read the same (`LineReadsAs`, `ReadTheSame`). It says nothing
of a line with `--` or a call for help, of `keys` with another bare word (it parses
once, up to that word, and refuses what is left), or of two flags changing places: of
two of one name the last counts.

| Theorem | Says |
|---|---|
| `SessionsStartAsAsked` | a session that starts has the address, the TLS options and, in every environment it may switch to, the `-V` bindings that were asked for (`SessionIsAsAsked`) |
| `GreenRunsWereAnswered` | a run that exits with zero sent every entry it could, as its environment reads it, and each was answered (`GreenMeansAnswered`) |
| `WordsComeInAnyOrder` | where the flags stand among the other words makes no difference (`WordsInAnyOrder`) |

**Induction.** The library's induction theorems take a predicate as a parameter, which
these provers cannot instantiate. Where a property rests on what a recursive function
computes (the tree's rows, what a filter keeps, what a load leaves in a form, what a line of
words is read as) the proof takes the predicate as a set of numbers: `Inductive` says that a set which holds
0 and the successor of each of its members has every number, from the well-foundedness
of `<`, and `Recursion` that there is a function with a given first value and each next
one by a rule (both in LayoutProofs). HeadlessProofs has the same as `UpFromZero`, and for a list read from
its end or its head `ReadFromBehind` and `ReadFromFront`.

**Only model-checked.** Liveness (out of the prover's reach, like ENABLED); `DiffIsExact`;
that load is the inverse of build (`LoadInvertsBuild`, `RecallRestoresTheTemplate`). For
these two it is not enough that what is loaded is a tree: which row each place of the
message comes from, past oneofs, items left out and maps in any order, must be followed
through build and through load, row by row. That the diff's table finds the longest
common part is about every path through two texts, and is checked for all texts of up
to four lines.

## 5. Known divergences

Four disagreements between the code and what its comments or documentation say
have a run that exhibits them:

| Run | What happens | What is said |
|---|---|---|
| `proxy_closing` | The response half of a call fails, its handler returns, `Stop` closes the channel, and the request pump, which nothing waits for, reports a message on it: a panic. | `internal/proxy/proxy.go:219-222` |
| `wrong_server` | The dial an environment asked for fails and r reconnects the old client, or the environment is switched back while the dial is out: variables of one environment go to the server of another. | `README.md:396-398` |
| `shuffled_map` | A reference in one of two map entries comes back, after a recall, on the other: entries are read in Go's map order and references put back by place. | `protoschema/load.go:31-35`, `build.go:271-273` |
| `file_default` | `profile:` and `env:` of the file are never read: a session starts on the first of each. | `config/config.go:68,74`, `README.md:223,401` |

The others are stated as properties in the last part of their modules and are not
runs. TLC refutes each within seconds in the cfg named, in place of its properties;
for a part of Panels or KeptRequests, in a cfg of its own that gives the constants the
values `Panels.cfg` or `Requests.cfg` gives them.

| Property | With | What happens | What is said |
|---|---|---|---|
| `Calls!SecondSendQueues` | `Streams.cfg` | ctrl+s twice before a client-streaming call has opened: the first call is thrown away with its message. | `ui/model.go:213-216` |
| `Calls!AnswerUnderItsMethod` | `Calls.cfg` | esc, then another method before the cancelled call reports: nothing is retired and the verdict appears under the new method. | `ui/update.go:55-60` |
| `Calls!VerdictIsLast` | `Streams.cfg` | A send that reports after the stream has ended still writes to its log. | `panels/response_stream.go:92` |
| `Calls!SendIsNeverSwallowed` | `Streams.cfg` | esc, a recall, and ctrl+s queues on the dead stream. | `ui/call.go:24-27` |
| `Proxy!EndIsForwarded` | `ProxyClosing.cfg`, `FairSpec` | The server ends a call OK while the client keeps its half open: the client is not told. | `proxy.go:142-143` |
| `Passive!CleanRowIsClean` | `Passive.cfg` | The client goes away before the server's header is passed on: the call fails with an error that has no gRPC status (`proxy.go:383`, `:408-412`), and its row is drawn as "OK". | `panels/traffic.go:57-58` |
| `Passive!RequestIsFirst` | `Passive.cfg`, `Buffer = 1` | The first message's event is dropped: the row keeps a later one as the request. | `panels/traffic.go:50-52` |
| `Connection!ServicesAreTheConnections` | `WrongServer.cfg` | A retried sweep of the old server lands after a switch: its services are shown on the new connection. | `README.md:196-197` |
| `Connection!ReconnectStays` | `WrongServer.cfg` | After an environment has moved the session, picking the active profile dials the address in the file. | `README.md:197-198` |
| `Connection!LiveCallIsShown` | `WrongServer.cfg` | A late sweep clears the panel of a running call. | `ui/update.go:55-60` |
| `KeptRequests!EverySaveSurvives` | `Requests.cfg` | Two saves at once, the older list renamed last: the newer send, whose save has reported, is not in the file. | `requests/file.go:80-81` |
| `KeptRequests!EveryEntryStays` | `Requests.cfg` | Two saves into one collection, the second begun before the first has been handed back: the one written last takes the other's entry out of the file. | `README.md:362-363` |
| `History!EmptiedFormStartsOver` | History | A retried sweep empties the form and leaves the walk where it was. | `ui/connection.go:128-131` |
| `History!WalkGoesOn` | History | An entry this connection does not have stops `[` for good. | `README.md:322-323` |
| `Collections!CommentsSurvive` | Collections | Any save drops the comments of its file. | `README.md:363-364` |
| `Browser!EscRestoresTheFilter` | Browser | A request sent or saved, or the prompt opened, while a filter is typed: esc leaves another filter than before. | `panels/requests.go:291-292` |
| `Browser!PromptKeepsTheName` | Browser | A save fails after the browser has gone on: the prompt opens on the filter's text. | `panels/requests.go:196-198` |
| `FormPanel!AddedItemsAreSent` | `Form.cfg` | An empty item added inside a message nobody wrote into is left out. | `protoschema/build.go:81-86` |
| `Screen!KeysGoToWhatIsDrawn` | Screen | A binding or a late save opens a modal over another, and the order of keys is not that of drawing: keys go to one the user cannot see. | `ui/update.go:296-297` |
| `Screen!RetryAnswers` | Screen | A connection fails while a field is edited: r is a character for that field. | `ui/view.go:218` |
| `Headers!HeadersThatFitAreShown` | Headers, `Totals = {20}`, `MaxHeaders = 2` | A complaint makes the panel grow after its offset was settled: the first line stays out of sight with room for it. | `panels/scroll.go:53-54` |
| `Headers!RefusalIsExplained` | Headers, as above | The complaint of the row the refusal leaves the cursor on is not drawn, or is below the window. | `panels/metadata.go:115-117` |
| `Headers!CursorStaysInSight` | Headers | The terminal shrinks with the cursor on the last header: the window stays where it was, above it. | `panels/scroll.go:32-33` |
| `Variables!AskedHereBoundHere` | Variables | A binding asked for under one environment lands after a switch, and is bound under the next. | `ui/variables.go:21-22` |
| `ServiceTree!PickedIsUnderTheCursor` | ServiceTree | A recall moves the tree, or a sweep replaces it, before a method picked in it reaches the form. | `panels/tree.go:108-111` |
| `ServiceTree!RefusedRecallLeavesTheTree` | ServiceTree | A recall the form refuses has moved the cursor to its method already. | `panels/tree.go:108-111` |
| `Switcher!ThemeIsTheOneLookedAt` | Switcher | Two previews land in the other order: the older theme stays. | `panels/themes.go:112-114` |
| `Headless!UnusableIsRefused` | `Headless.cfg` | An environment naming an unset variable is refused when chosen in a session, and not when it is the one started in. | `cmd/grpctui/environments.go:20-22` |
| `CommandLine!DashesEndFlags` | `Headless.cfg`, of `Flatten(job.line)` in phase "start" | A flag after `--` and a bare word is read as a flag. | `cmd/grpctui/flags.go:68` |

Met on the way, and smaller than a property: required fields of a message that is
the untouched value of a map entry are not asked for; two entries of a map with one
key become one when sent; a form's complaints are kept by path and stay behind when
an item before them is removed; a `-bin` header with a reference is refused on its
unresolved text; `run` without a target exits with 1 and not with 2
(`main.go:60-63`); a dial that lands while the profile chooser is open moves its
cursor.

## 6. What is abstracted, and what is not modelled

- Bodies, names, durations, notices and drawing, except where a property is about
  them. In Calls a form is taken to build and headers to resolve when `Send` is
  enabled; FormPanel and Headers have the refusals, and Screen where they put the
  focus. The panels are checked one by one: what one tells another is an input any
  behaviour may take at any time, which allows more than the program does.
- The ticking of the spinner and of the stream's clock; the logger.
- The syntax of a text: numbers, references and words come in tables (`Number`,
  `Refs`, `Words`). bytes and the several widths of integers are one kind each.
- `MaxCalls`, `MaxMsgs`, `MaxResponses`, `MaxLog`, `MaxConns`, `MaxSweeps`,
  `MaxSends`, `MaxSaves`, `MaxWrites`, `MaxOverlap`, `MaxPicks`, `MaxTold`, `MaxPending`, `MaxAsked`,
  `MaxHeaders`, `MaxItems`, `MaxChanged`, `MaxLines`, `MaxBodies`, `MaxUnits` and
  Browser's `Limit` are bounds of the models. `MaxDiffMethods`, `Buffer`,
  `MaxTrafficCalls`, `MaxCells` and History's `Limit` are constants of the code with
  small values.
- One grpctui process; one proxy; a history file nobody else writes.

Not modelled, and why: the wire decoder (`protoschema/wire.go`), a function of bytes
that loops over an index it always moves forward; `protofiles`, which hands
`.proto` files to a compiler; `render`, `export` and the response's views, which
format one value; `completion.go`, `reference.go` and `keys`, which print tables;
`format`, one comparison; TLS, credentials and timing in `grpcclient`, which are
gRPC's; the response log's bound of 500 lines and its search; the demo server,
logging and test support. PROJECT.json has the reason for each component.

## 7. Plan

Done: the call and its contract, the connection, the proxy and its panel, what is
kept of requests, the form and its schema, every list panel, the headers, the
variables, the routing of keys, the diff, start-up and the headless runner. Left:

1. **Proofs**: that what a form builds loads back; that the browser's filter keeps what
   matches; that a diff shows both of its texts
   whole.
2. **Session**: Calls and Connection composed, to say what a switch of connection
   does to a stream with messages queued, and to replace Connection's reduced call.
3. **ResponseLog**: the bounded log, its tail and the last message a diff takes.
