------------------------------ MODULE History ------------------------------
(***************************************************************************)
(* The history of sent requests: the list in memory, the walk [ and ] take *)
(* through it, and the file every send rewrites off the Update goroutine   *)
(* (internal/requests/history.go, file.go; internal/ui/history.go).        *)
(*                                                                         *)
(* An entry is a request, the server it was sent to and the moment it was  *)
(* sent.  Saves are commands: they run concurrently with one another, each *)
(* with the history as it was when it was recorded, and the process may be *)
(* killed at any point.                                                    *)
(***************************************************************************)
EXTENDS Integers, Sequences, FiniteSets, SequencesExt

CONSTANTS
  Requests,   \* the requests a user may build
  Servers,    \* the servers connections may reach
  Serves,     \* the requests whose method and schema each server still has
  Limit,      \* History.Limit
  Before,     \* the file an earlier session left, which may have had another limit
  MaxSends,   \* bound: sends in all
  MaxSaves    \* bound: saves running at once

\* What sameRequest compares: everything but the moment.
Call(e) == <<e.req, e.target>>

\* What the constants may be.
ConstantsOK ==
  /\ Serves \in [Servers -> SUBSET Requests]
  /\ Limit \in Nat \ {0} /\ MaxSends \in Nat /\ MaxSaves \in Nat \ {0}
  /\ Before \in Seq([req : Requests, at : 1 .. MaxSends, target : Servers])
  /\ \A i, j \in DOMAIN Before : i < j => Before[i].at > Before[j].at
  /\ \A i \in 2 .. Len(Before) : Call(Before[i - 1]) # Call(Before[i])

NoHistory == -1
Blank == [req |-> "blank", at |-> 0, target |-> "none"]
\* (A moment of 0 is the form's own: built or edited, and not sent since.)

VARIABLES
  entries,    \* History.entries, newest first
  historyAt,  \* historyAt, counted from 0 as in the code
  form,       \* what the request form holds
  state,      \* "connecting", "ready" or "failed"
  server,     \* the server the connection reaches
  saves,      \* saves running: the entries to write and whether the temporary file is there
  file,       \* the history file
  running,    \* whether the process runs
  sends,      \* the moment of the last send
  log,        \* every send since the file was loaded, newest first, over what it held
  reported,   \* ghost: the latest moment whose save has reported success, 0 before any
  settled     \* ghost: the latest whose save did so with no older save still running

ui == <<entries, historyAt, form, log>>
disk == <<saves, file, reported, settled>>
vars == <<ui, state, server, disk, running, sends>>

At(i) == entries[i + 1]

-----------------------------------------------------------------------------
(* The history. *)

\* truncate.
Truncate(s, n) == IF Len(s) <= n THEN s ELSE SubSeq(s, 1, n)

\* Mutated Add: identical sends collapse wherever they are in the list.
AddOnce(e) ==
  LET others == SelectSeq(entries, LAMBDA x : Call(x) # Call(e))
  IN <<e>> \o Truncate(others, Limit - 1)

\* Add: the newest entry, in place of one for the same call just before it.
Add(e) ==
  IF entries # <<>> /\ Call(entries[1]) = Call(e)
  THEN <<e>> \o Tail(entries)
  ELSE <<e>> \o Truncate(entries, Limit - 1)

\* Mutated record: the walk is left where it was.
RecordOnly(e) ==
  /\ entries' = Add(e)
  /\ saves' = saves \union {[entries |-> entries', written |-> FALSE]}
  /\ UNCHANGED historyAt

\* record: the entry, the walk put on it, and a save of the list as it is now.
Record(e) ==
  /\ entries' = Add(e)
  /\ saves' = saves \union {[entries |-> entries', written |-> FALSE]}
  /\ historyAt' = 0

\* load: the form filled from an entry this connection can rebuild.
Loads(e) == e.req \in Serves[server]

-----------------------------------------------------------------------------
(* The user. *)

\* A method chosen in the tree: an empty form of its own, the walk back at its start.
Select(r) ==
  /\ running /\ state = "ready" /\ r \in Serves[server]
  /\ form' = [req |-> r, at |-> 0, target |-> server]
  /\ historyAt' = NoHistory
  /\ UNCHANGED <<entries, log, state, server, disk, running, sends>>

\* A field edited: another request of the same form.
Edit(r) ==
  /\ running /\ form # Blank /\ form.req # r /\ r \in Serves[server]
  /\ form' = [form EXCEPT !.req = r, !.at = 0]
  /\ UNCHANGED <<entries, historyAt, log, state, server, disk, running, sends>>

\* ctrl+s.
Send ==
  /\ running /\ state = "ready" /\ form # Blank
  /\ sends < MaxSends /\ Cardinality(saves) < MaxSaves
  /\ sends' = sends + 1
  /\ form' = [form EXCEPT !.at = sends', !.target = server]
  /\ Record(form')
  /\ log' = <<form'>> \o log
  /\ UNCHANGED <<state, server, file, reported, settled, running>>

\* stepHistory: [ with 1 and ] with -1.
Step(delta) ==
  LET next == IF historyAt = NoHistory THEN 0 ELSE historyAt + delta
  IN /\ running /\ state = "ready" /\ entries # <<>>
     /\ historyAt = NoHistory => delta > 0
     /\ next \in 0 .. Len(entries) - 1
     /\ Loads(At(next))
     /\ historyAt' = next
     /\ form' = At(next)
     /\ UNCHANGED <<entries, log, state, server, disk, running, sends>>

\* loadRequest: a row of the browser.
Choose(e) ==
  /\ running /\ state = "ready" /\ Loads(e)
  /\ historyAt' = NoHistory
  /\ form' = e
  /\ UNCHANGED <<entries, log, state, server, disk, running, sends>>

-----------------------------------------------------------------------------
(* The connection, as far as the form goes. *)

\* finishConnect: an empty form, and the walk back at its start.
Connect(s) ==
  /\ running
  /\ server' = s /\ state' = "connecting"
  /\ form' = Blank /\ historyAt' = NoHistory
  /\ UNCHANGED <<entries, log, disk, running, sends>>

\* A dial or a sweep that failed, and r on the screen that says so.
Fail ==
  /\ running /\ state # "failed"
  /\ state' = "failed"
  /\ UNCHANGED <<ui, server, disk, running, sends>>
Retry ==
  /\ running /\ state = "failed"
  /\ state' = "connecting"
  /\ UNCHANGED <<ui, server, disk, running, sends>>

\* servicesDiscoveredMsg: an empty form, the walk left where it was.
Discovered ==
  /\ running /\ state = "connecting"
  /\ state' = "ready"
  /\ form' = Blank
  /\ UNCHANGED <<entries, historyAt, log, server, disk, running, sends>>

-----------------------------------------------------------------------------
(* The file. *)

\* Mutated writeYAML: the file itself is opened for writing.
WriteInPlace(s) ==
  /\ s \in saves /\ ~s.written
  /\ saves' = (saves \ {s}) \union {[s EXCEPT !.written = TRUE]}
  /\ file' = <<>>
  /\ UNCHANGED <<ui, state, server, reported, settled, running, sends>>

\* writeYAML up to the temporary file...
Write(s) ==
  /\ s \in saves /\ ~s.written
  /\ saves' = (saves \ {s}) \union {[s EXCEPT !.written = TRUE]}
  /\ UNCHANGED <<ui, state, server, file, reported, settled, running, sends>>

\* The moment of the send a save was started by.
Moment(s) == s.entries[1].at

\* ...which is renamed over the file, and historySavedMsg...
Rename(s) ==
  /\ s \in saves /\ s.written
  /\ saves' = saves \ {s}
  /\ file' = s.entries
  /\ reported' = IF Moment(s) > reported THEN Moment(s) ELSE reported
  /\ settled' = IF \A t \in saves : Moment(t) >= Moment(s) THEN Moment(s) ELSE settled
  /\ UNCHANGED <<ui, state, server, running, sends>>

\* ...or removed, when anything before that failed.
WriteFails(s) ==
  /\ s \in saves
  /\ saves' = saves \ {s}
  /\ UNCHANGED <<ui, state, server, file, reported, settled, running, sends>>

\* The process is killed, or quits: a command that has not ended never does.
Crash ==
  /\ running
  /\ running' = FALSE
  /\ saves' = {}
  /\ UNCHANGED <<ui, state, server, file, reported, settled, sends>>

\* LoadHistory, on the connection the next session starts with.
Restart(s) ==
  /\ ~running
  /\ running' = TRUE
  /\ entries' = Truncate(file, Limit) /\ log' = entries'
  /\ historyAt' = NoHistory /\ form' = Blank
  /\ state' = "connecting" /\ server' = s
  /\ UNCHANGED <<disk, sends>>

\* Before the first session, with a file or without.
Init ==
  /\ entries = <<>> /\ historyAt = NoHistory /\ form = Blank /\ log = <<>>
  /\ state = "connecting" /\ server \in Servers
  /\ saves = {} /\ file \in {<<>>, Before} /\ reported = 0 /\ settled = 0
  /\ running = FALSE
  /\ sends = IF Before = <<>> THEN 0 ELSE Before[1].at

Next ==
  \/ \E r \in Requests : Select(r) \/ Edit(r)
  \/ Send
  \/ \E delta \in {-1, 1} : Step(delta)
  \/ \E i \in DOMAIN entries : Choose(entries[i])
  \/ \E s \in Servers : Connect(s) \/ Restart(s)
  \/ Fail \/ Retry \/ Discovered
  \/ \E s \in saves : Write(s) \/ Rename(s) \/ WriteFails(s)
  \/ Crash

Spec == Init /\ [][Next]_vars

-----------------------------------------------------------------------------

\* Of every run of equal calls in the log, the newest.
Newest == {log[i] : i \in {j \in DOMAIN log : j > 1 => Call(log[j - 1]) # Call(log[j])}}

\* "Consecutive identical sends collapse into one" and only those, and the oldest
\* drop out "once the limit is reached" (history.go:94-100): over any session,
\* restarts included, the list is the recent past of what was sent, newest first.
HistoryIsRecent ==
  /\ Len(entries) <= Limit /\ \A i \in DOMAIN entries : entries[i] \in Newest
  /\ \A i, j \in DOMAIN entries : i < j => entries[i].at > entries[j].at
  /\ \A e \in Newest : e \in Range(entries) \/ (Len(entries) = Limit /\ e.at < entries[Limit].at)

\* historyAt is where the form is in the history, unless it has been edited
\* since: [ goes to the entry before the one on screen, never past it.
WalkIsOnTheForm ==
  historyAt # NoHistory /\ form.at # 0 => form = At(historyAt)

\* "A crash during the tenth call of the day must not cost the first nine"
\* (file.go:80-81), with as many saves running as there have been sends and a kill
\* between any two of their steps: once a save has reported with no older one still
\* running, its send is in the file or older than one that is, for good.
SavedSurvives == settled # 0 => file # <<>> /\ file[1].at >= settled

-----------------------------------------------------------------------------

\* The same of every save that has reported: an older save that is renamed after it
\* puts its own, shorter history over the newer one's.
EverySaveSurvives == reported # 0 => file # <<>> /\ file[1].at >= reported

\* connection.go:128-131: "the form has just been emptied, so [ starts again from
\* the newest entry".
EmptiedFormStartsOver == form = Blank => historyAt = NoHistory

\* README.md:322-323: "[ steps back through them": from the newest entry or any
\* other, [ gets to an older one that can be shown.
WalkGoesOn ==
  \A i \in 0 .. Len(entries) - 1 :
    running /\ state = "ready" /\ i > historyAt /\ Loads(At(i)) => Loads(At(historyAt + 1))
=============================================================================
