---------------------------- MODULE KeptRequests ----------------------------
(***************************************************************************)
(* What is kept of the requests a session sends: the history and the       *)
(* collections.  They share no state, so a behaviour is one of either, and *)
(* what belongs to the other is None.                                      *)
(***************************************************************************)
EXTENDS Integers, Sequences

CONSTANTS
  \* as in History
  Requests, Servers, Serves, Limit, Before, MaxSends, MaxSaves,
  \* as in Collections
  Files, Names, Invalid, Given, MaxWrites, MaxOverlap

VARIABLES
  kept,   \* "history" or "collections"
  \* as in History
  entries, historyAt, form, state, server, file, running, sends, log, reported, settled,
  \* as in Collections
  collections, mode, asked, results, disk, comments, begun, written, raced,
  \* in either
  saves

historyOnly == <<entries, historyAt, form, state, server, file, running, sends, log, reported,
                 settled>>
collectionsOnly == <<collections, mode, asked, results, disk, comments, begun, written, raced>>

None == "none"

H == INSTANCE History
C == INSTANCE Collections WITH MaxSaves <- MaxWrites

ASSUME RequestsAssumption == H!ConstantsOK /\ C!ConstantsOK

Init ==
  \/ /\ kept = "history" /\ H!Init
     /\ collections = None /\ mode = None /\ asked = None /\ results = None
     /\ disk = None /\ comments = None /\ begun = None /\ written = None /\ raced = None
  \/ /\ kept = "collections" /\ C!Init
     /\ entries = None /\ historyAt = None /\ form = None /\ state = None /\ server = None
     /\ file = None /\ running = None /\ sends = None /\ log = None /\ reported = None /\ settled = None

Next ==
  \/ kept = "history" /\ H!Next /\ UNCHANGED <<kept, collectionsOnly>>
  \/ kept = "collections" /\ C!Next /\ UNCHANGED <<kept, historyOnly>>

vars == <<kept, historyOnly, collectionsOnly, saves>>
Spec == Init /\ [][Next]_vars

-----------------------------------------------------------------------------
(* The properties, of the half a behaviour is about. *)

\* The history is the requests last sent, newest first and each once, over any
\* session (history.go:94-100; History!HistoryIsRecent).
HistoryIsRecent == kept = "history" => H!HistoryIsRecent

\* The walk's position is the entry the form shows, so [ goes on from what is on
\* screen (History!WalkIsOnTheForm).
WalkIsOnTheForm == kept = "history" => H!WalkIsOnTheForm

\* A crash between any two steps of saves that overlap costs nothing that was saved
\* with no older save still on its way (file.go:80-81; History!SavedSurvives).
SavedSurvives == kept = "history" => H!SavedSurvives

\* The browser, the files and the last saves agree, but for what saves that overlapped
\* wrote (Collections!BrowserShowsTheFiles).
BrowserShowsTheFiles == kept = "collections" => C!BrowserShowsTheFiles

\* A save leaves the other entries of its file alone, in place, but for those saves that
\* overlapped wrote (README.md:362; Collections!EntryStays).
EntriesStay == [][kept = "collections" => C!EntryStays]_vars

-----------------------------------------------------------------------------
(* What the docs promise and the code does not keep. *)

\* file.go:80-81, of every save that has reported (History!EverySaveSurvives).
EverySaveSurvives == kept = "history" => H!EverySaveSurvives

\* README.md:362: "grpctui only ever adds or replaces a whole entry"
\* (Collections!EveryEntryStays).
EveryEntryStays == [][kept = "collections" => C!EveryEntryStays]_vars
=============================================================================
