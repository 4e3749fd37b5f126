---------------------------- MODULE Collections ----------------------------
(***************************************************************************)
(* Saving the form's request into a collection: the prompt, the command    *)
(* that rewrites the collection's file, and the set it hands back for the  *)
(* browser to show (internal/requests/collections.go, file.go;             *)
(* internal/ui/history.go; panels/requests.go).                            *)
(*                                                                         *)
(* A collection is a sequence of entries, each a name and the save that    *)
(* wrote it, 0 when it was in the file from the start.  What a person has  *)
(* written above an entry by hand is a comment; the memory of a collection *)
(* holds none.                                                             *)
(***************************************************************************)
EXTENDS Integers, Sequences, FiniteSets, SequencesExt

CONSTANTS
  Files,      \* collection names
  Names,      \* request names
  Invalid,    \* what ValidateName refuses, among both
  Given,      \* the collections found at the start: the names in each, in order
  MaxSaves,   \* bound: saves in all
  MaxOverlap  \* bound: saves begun and not yet reported

\* What the constants may be.
ConstantsOK ==
  /\ \A f \in DOMAIN Given : f \in Files \ Invalid /\ Given[f] \in Seq(Names)
  /\ MaxSaves \in Nat /\ MaxOverlap \in Nat \ {0}

VARIABLES
  collections,  \* Collections.list as the browser holds it
  mode,         \* the browser: "closed", "list" or "save"
  asked,        \* SaveRequestMsg on their way
  saves,        \* saves running, each with the collections it was given
  results,      \* requestSavedMsg on their way
  disk,         \* the collection files
  comments,     \* the entries of the files that have a comment
  begun,        \* saves begun
  written,      \* ghost: the last save that wrote each entry of each file
  raced         \* ghost: the saves that were under way together with another

memory == <<collections, mode>>
files == <<disk, comments, written>>
vars == <<memory, asked, saves, results, files, begun, raced>>

Unwritten == [f \in Files |-> [n \in Names |-> 0]]

Index(seq, n) == {i \in DOMAIN seq : seq[i].name = n}

-----------------------------------------------------------------------------

\* Mutated Save: the entry is appended, whether or not its name is taken.
PutLast(seq, n, k) == SelectSeq(seq, LAMBDA e : e.name # n) \o <<[name |-> n, by |-> k]>>

\* Save's entry list: in place of the entry with its name, or at the end.
Put(seq, n, k) ==
  IF Index(seq, n) = {}
  THEN Append(seq, [name |-> n, by |-> k])
  ELSE [i \in DOMAIN seq |-> IF i \in Index(seq, n) THEN [name |-> n, by |-> k] ELSE seq[i]]

-----------------------------------------------------------------------------
(* The browser. *)

Open(m) ==
  /\ mode = "closed" /\ mode' = m
  /\ UNCHANGED <<collections, asked, saves, results, files, begun, raced>>

\* esc.
Close ==
  /\ mode # "closed" /\ mode' = "closed"
  /\ UNCHANGED <<collections, asked, saves, results, files, begun, raced>>

\* enter in the prompt, which stays as it is until the save has reported.
Submit(f, n) ==
  /\ mode = "save" /\ begun + Cardinality(asked) < MaxSaves
  /\ asked' = asked \union {[file |-> f, name |-> n]}
  /\ UNCHANGED <<memory, saves, results, files, begun, raced>>

\* The saves under way: begun, and not yet finished with by the browser.
Pending == {s.by : s \in saves \union results}

\* saveRequest: a save of its own, over the collections the browser has now.
SaveRequest(a) ==
  /\ a \in asked
  /\ Cardinality(saves \union results) < MaxOverlap
  /\ begun' = begun + 1
  /\ asked' = asked \ {a}
  /\ saves' = saves \union
       {[file |-> a.file, name |-> a.name, by |-> begun', given |-> collections]}
  /\ raced' = IF Pending = {} THEN raced ELSE raced \union Pending \union {begun'}
  /\ UNCHANGED <<memory, results, files>>

\* Save that writes nothing: a name that is none, a write that failed.
SaveFails(s) ==
  /\ s \in saves
  /\ saves' = saves \ {s}
  /\ results' = results \union
       {[file |-> s.file, by |-> s.by, ok |-> FALSE, given |-> s.given]}
  /\ UNCHANGED <<memory, asked, files, begun, raced>>

\* Save: the one file, written whole from the set the save was given.
Save(s) ==
  /\ s \in saves
  /\ s.file \notin Invalid /\ s.name \notin Invalid
  /\ LET given == [s.given EXCEPT ![s.file] = Put(@, s.name, s.by)]
     IN /\ disk' = [disk EXCEPT ![s.file] = given[s.file]]
        /\ results' = results \union {[file |-> s.file, by |-> s.by, ok |-> TRUE, given |-> given]}
  /\ comments' = {c \in comments : c.file # s.file}
  /\ written' = [written EXCEPT ![s.file][s.name] = s.by]
  /\ saves' = saves \ {s}
  /\ UNCHANGED <<memory, asked, begun, raced>>

\* Mutated finishSave: the set the save hands back is not installed.
FinishSaveForgetting(r) ==
  /\ r \in results
  /\ results' = results \ {r}
  /\ mode' = IF r.ok THEN "closed" ELSE "save"
  /\ UNCHANGED <<collections, asked, saves, files, begun, raced>>

\* finishSave: the set the save made is the browser's, and the prompt is left
\* open on a failure, whatever the browser shows by now.
FinishSave(r) ==
  /\ r \in results
  /\ results' = results \ {r}
  /\ collections' = IF r.ok THEN r.given ELSE collections
  /\ mode' = IF r.ok THEN "closed" ELSE "save"
  /\ UNCHANGED <<asked, saves, files, begun, raced>>

\* LoadCollections: what the files hold, of which a person commented every entry.
Init ==
  /\ collections = [f \in Files |->
       IF f \in DOMAIN Given
       THEN [i \in DOMAIN Given[f] |-> [name |-> Given[f][i], by |-> 0]]
       ELSE <<>>]
  /\ disk = collections
  /\ comments = {c \in [file : Files, name : Names] : Index(collections[c.file], c.name) # {}}
  /\ mode = "closed"
  /\ asked = {} /\ saves = {} /\ results = {}
  /\ begun = 0 /\ written = Unwritten /\ raced = {}

Next ==
  \/ \E m \in {"list", "save"} : Open(m)
  \/ Close
  \/ \E f \in Files, n \in Names : Submit(f, n)
  \/ \E a \in asked : SaveRequest(a)
  \/ \E s \in saves : Save(s) \/ SaveFails(s)
  \/ \E r \in results : FinishSave(r)

Spec == Init /\ [][Next]_vars

-----------------------------------------------------------------------------

\* With no save under way the browser shows what a file holds, also after saves that
\* failed, once the last save written to it had none beside it: the next save, which
\* writes the file from the browser's set, loses nothing.  And a file holds, once and
\* under its name, the last save of a request that was written ("two entries with one
\* name would make the second unreachable", collections.go:132-135), unless that save
\* had another beside it.
BrowserShowsTheFiles ==
  /\ Pending = {} =>
       \A f \in Files : \A n \in Names :
         written[f][n] \notin raced /\ (\A m \in Names : written[f][m] <= written[f][n]) =>
           collections[f] = disk[f]
  /\ \A f \in Files : \A n \in Names :
       /\ Cardinality(Index(disk[f], n)) <= 1
       /\ written[f][n] \notin raced \union {0} =>
            \E i \in Index(disk[f], n) : disk[f][i].by = written[f][n]

Stays(f, i) ==
  i \in DOMAIN disk'[f] /\ disk'[f][i].name = disk[f][i].name

\* "grpctui only ever adds or replaces a whole entry" (README.md:362): a save, also one
\* that overlaps others, leaves every entry of its file there, in the order the person
\* put them, but for those that saves under way together wrote.
EntryStays ==
  \A f \in Files : \A i \in DOMAIN disk[f] : disk[f][i].by \notin raced' => Stays(f, i)
EntriesStay == [][EntryStays]_vars

-----------------------------------------------------------------------------

\* The same of every entry: of two saves under way together, each writes the file from
\* the set the browser had when it began, and the one that is written last takes the
\* other's entry out again.
EveryEntryStays == \A f \in Files : \A i \in DOMAIN disk[f] : Stays(f, i)

\* README.md:363-364: "a comment you wrote above a request survives being edited
\* from the TUI" (and collections.go:28-29): the comments above the entries a save
\* does not replace are still in the file it writes.
CommentsSurvive ==
  [][\A c \in comments :
       written'[c.file][c.name] = written[c.file][c.name] => c \in comments']_vars
=============================================================================
