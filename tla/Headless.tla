----------------------------- MODULE Headless ------------------------------
(***************************************************************************)
(* A session from its start: cmd/grpctui main.go and headless.go, and the  *)
(* replay of a collection without a screen (internal/runner), with its     *)
(* server, its call timeout and an interrupt.  A session with a screen is  *)
(* followed as far as what it starts on and may switch to.                 *)
(***************************************************************************)
EXTENDS Startup

CONSTANTS
  Jobs,         \* what may be started: the words, and the files they meet
  Subjects,     \* splitTarget: the collection, and the request in it, a word names
  Collections,  \* the saved requests, by collection
  Kinds,        \* each method's shape: "unary", "watch", or one that takes a queue
  MaxBodies     \* bound of the model: the messages of a watch

VARIABLES
  job,         \* what was started
  command,     \* what its words say: the subcommand, its arguments, and the options
  phase,       \* where the command is
  session,     \* prepare's result
  chosen,      \* the environment in force, 0 for none, and the profile in use
  found,       \* the methods discovery found
  report,      \* the results so far
  bodies,      \* of the watch being drained
  expired,     \* the timeout of the call has passed
  interrupted, \* SIGINT
  wire,        \* ghost: what the server was sent, and whether it answered all of it
  exit         \* the exit code, -1 before

vars == <<job, command, phase, session, chosen, found, report, bodies, expired, interrupted, wire, exit>>

\* A line is made of words; a file is read into structs, and so is a collection.
ASSUME HeadlessAssumption ==
  /\ \A j \in Jobs : j.line \in Seq(Seq(STRING))
  /\ \A j \in Jobs : LET file == j.file IN
       /\ IsProfile(file.top)
       /\ file.profiles \in Seq({file.profiles[i] : i \in DOMAIN file.profiles})
       /\ \A i \in DOMAIN file.profiles : IsProfile(file.profiles[i])
       /\ file.envs \in Seq({file.envs[i] : i \in DOMAIN file.envs})
       /\ \A i \in DOMAIN file.envs : {"name", "target", "vars"} \subseteq DOMAIN file.envs[i]
  /\ \A c \in DOMAIN Collections :
       Collections[c] \in Seq({Collections[c][i] : i \in DOMAIN Collections[c]})

Asked == command.opts
Subject == Subjects[command.bare[1]]
Entries == Pick(Collections, Subject.collection, Subject.request)
At == Len(report) + 1
Entry == Entries[At]
Bound(i) == DOMAIN Bindings(session, i)
Calling == phase \in {"unary", "open", "send", "close", "drain"}
Over == expired \/ interrupted

Init ==
  /\ job \in Jobs
  /\ LET c == Dispatch(Flatten(job.line))
     IN  command = [does |-> c.does, bare |-> c.bare, opts |-> Options(c)]
  /\ phase = "start" /\ session = << >> /\ chosen = [env |-> 0, profile |-> 0]
  /\ found = {} /\ report = << >> /\ bodies = 0
  /\ expired = FALSE /\ interrupted = FALSE /\ wire = << >> /\ exit = -1

Exit(code) == phase' = "exited" /\ exit' = code

-----------------------------------------------------------------------------
(* Starting *)

\* main, run: what is answered before anything is read, but for the key map.
Answer ==
  /\ phase = "start" /\ command.does \notin {"run", "explore"}
  /\ Exit(CASE command.does = "usage" -> 2
            [] command.does = "keys" -> IF ValidNames(job.file) /\ "look" \notin job.broken THEN 0 ELSE 1
            [] OTHER -> 0)
  /\ UNCHANGED <<job, command, session, chosen, found, report, bodies, expired, interrupted, wire>>

\* prepare; then start, or runCollection up to the call of Run: the collection, the
\* dial, which reads the files of its certificates, and the headers, whose
\* references have to be bound.
Start ==
  /\ phase = "start" /\ command.does \in {"run", "explore"}
  /\ LET s == Prepare(job.file, Asked, job.broken)
         ready == s.code = 0
         Usable == Entries # << >> /\ job.headers \subseteq DOMAIN Bindings(s, s.envs.active)
     IN  \/ /\ ~ready /\ UNCHANGED <<session, chosen>>
            /\ Exit(IF command.does = "run" THEN 1 ELSE s.code)
         \/ /\ ready
            /\ session' = s
            /\ chosen' = [env |-> s.envs.active, profile |-> s.startup.active]
            /\ \/ Profile(s).settings \cap {"cacert", "cert", "key"} # {} /\ Exit(1)
               \/ command.does = "explore" /\ phase' = "explore" /\ exit' = exit
               \/ command.does = "run" /\ ~Usable /\ Exit(1)
               \/ command.does = "run" /\ Usable /\ phase' = "discover" /\ exit' = exit
  /\ UNCHANGED <<job, command, found, report, bodies, expired, interrupted, wire>>

\* switchEnvironment: the list is given to the screen, its problems are not.
SwitchEnvironment(i) ==
  /\ phase = "explore" /\ chosen' = [chosen EXCEPT !.env = i]
  /\ UNCHANGED <<job, command, phase, session, found, report, bodies, expired, interrupted, wire, exit>>

\* dialer: a profile that could not be read is refused by name.
SwitchProfile(i) ==
  /\ phase = "explore"
  /\ ~Unset(Connections(job.file)[i])
  /\ chosen' = [chosen EXCEPT !.profile = i]
  /\ UNCHANGED <<job, command, phase, session, found, report, bodies, expired, interrupted, wire, exit>>

-----------------------------------------------------------------------------
(* Running (internal/runner) *)

\* ListServices: no timeout of its own.
Discover ==
  /\ phase = "discover"
  /\ \/ /\ ~interrupted
        /\ \E methods \in SUBSET DOMAIN Kinds :
             /\ Cardinality(DOMAIN Kinds \ methods) <= 1
             /\ found' = methods
        /\ phase' = "next" /\ exit' = exit
     \/ Exit(1) /\ found' = found
  /\ UNCHANGED <<job, command, session, chosen, report, bodies, expired, interrupted, wire>>

Result(status, error, skipped) ==
  [name |-> Entry.name, status |-> status, error |-> error, skipped |-> skipped]

\* What run returns for the entry: the call, if there was one, is over.
Returns(result) ==
  /\ report' = Append(report, result)
  /\ phase' = "next" /\ bodies' = 0 /\ expired' = FALSE
  /\ UNCHANGED <<job, command, session, chosen, found, interrupted, exit>>

\* run: the ways in which a request never reaches the wire.
NotSent ==
  /\ phase = "next" /\ At <= Len(Entries)
  /\ \/ Entry.method \notin found /\ Returns(Result(Blank, TRUE, FALSE))
     \/ /\ Entry.method \in found /\ Kinds[Entry.method] \notin {"unary", "watch"}
        /\ Returns(Result(Blank, TRUE, TRUE))
     \/ /\ Entry.method \in found /\ Kinds[Entry.method] \in {"unary", "watch"}
        /\ ~(Entry.needs \subseteq Bound(chosen.env))
        /\ Returns(Result(Blank, TRUE, FALSE))
  /\ UNCHANGED wire

\* build succeeds: the message is the request with its references expanded.
Begin ==
  /\ phase = "next" /\ At <= Len(Entries)
  /\ Entry.method \in found /\ Entry.needs \subseteq Bound(chosen.env)
  /\ \/ Kinds[Entry.method] = "unary" /\ phase' = "unary"
     \/ Kinds[Entry.method] = "watch" /\ phase' = "open"
  /\ UNCHANGED <<job, command, session, chosen, found, report, bodies, expired, interrupted, wire, exit>>

Sent(answered) ==
  wire' = Append(wire, [entry |-> At, answered |-> answered,
                        said |-> [x \in Entry.needs |-> Bindings(session, chosen.env)[x]]])

\* The call, whichever step it is at, fails: with a status, or before the wire.
\* It may at any time, and does when its context is over.
CallFails ==
  /\ Calling
  /\ \E status \in {Blank, "NotFound"} : Returns(Result(status, TRUE, FALSE))
  /\ UNCHANGED wire

\* An answer that came in time, which then can be written out or not.
Answered ==
  /\ phase = "unary"
  /\ \E written \in BOOLEAN : Returns(Result("OK", ~written, FALSE))
  /\ Sent(TRUE)

Advance(from, to) ==
  /\ phase = from /\ phase' = to
  /\ UNCHANGED <<job, command, session, chosen, found, report, bodies, expired, interrupted, exit>>

\* drain: an end of the stream met while sending is left for Recv to explain.
Open == Advance("open", "send") /\ UNCHANGED wire
SendRequest == Advance("send", "close") /\ Sent(FALSE)
CloseSend == Advance("close", "drain") /\ UNCHANGED wire

Recv ==
  /\ phase = "drain"
  /\ \/ /\ bodies < MaxBodies /\ bodies' = bodies + 1
        /\ UNCHANGED <<job, command, phase, session, chosen, found, report, expired, interrupted, wire, exit>>
     \/ Returns(Result("OK", TRUE, FALSE)) /\ UNCHANGED wire
     \/ Returns(Result("OK", FALSE, FALSE)) /\ wire' = [wire EXCEPT ![Len(wire)].answered = TRUE]

\* Mutated Bounded: only a unary call has a timeout.
BoundedUnary == phase = "unary" /\ job.timeout

\* withTimeout: any call, unless there is to be no timeout.
Bounded == Calling /\ job.timeout

Expire ==
  /\ Bounded /\ ~expired /\ expired' = TRUE
  /\ UNCHANGED <<job, command, phase, session, chosen, found, report, bodies, interrupted, wire, exit>>

Interrupt ==
  /\ phase \notin {"start", "explore", "exited"} /\ ~interrupted
  /\ interrupted' = TRUE
  /\ UNCHANGED <<job, command, phase, session, chosen, found, report, bodies, expired, wire, exit>>

\* Mutated Failed: what the server said decides.
FailedByStatus(results) == Cardinality({i \in DOMAIN results : results[i].status \notin {Blank, "OK"}})

\* Report.Failed: attempted, and not a success.
Failed(results) == Cardinality({i \in DOMAIN results : ~results[i].skipped /\ results[i].error})

\* write, and the exit code, which follows the failures alone.
Write ==
  /\ phase = "next" /\ At > Len(Entries)
  /\ \E written \in BOOLEAN : Exit(IF written /\ Failed(report) = 0 THEN 0 ELSE 1)
  /\ UNCHANGED <<job, command, session, chosen, found, report, bodies, expired, interrupted, wire>>

Next ==
  \/ Answer \/ Start
  \/ \E i \in DOMAIN job.file.envs : SwitchEnvironment(i)
  \/ \E i \in DOMAIN Connections(job.file) : SwitchProfile(i)
  \/ Discover \/ NotSent \/ Begin
  \/ Answered \/ CallFails \/ Open \/ SendRequest \/ CloseSend \/ Recv
  \/ Expire \/ Interrupt \/ Write

\* The command runs; gRPC returns from a call whose context is over.  Whether the
\* server ever answers is its own affair.
Fairness ==
  /\ WF_vars(Answer) /\ WF_vars(Start) /\ WF_vars(NotSent) /\ WF_vars(Begin) /\ WF_vars(Write)
  /\ WF_vars(Expire) /\ WF_vars(Over /\ CallFails)

Spec == Init /\ [][Next]_vars
FairSpec == Spec /\ Fairness

-----------------------------------------------------------------------------
(* Properties *)

\* A green run means that what it was to check was checked (runner.go): each entry
\* has its result, in order, and is one that a saved request cannot express or was
\* sent as the session's environment reads it and answered to the end.
GreenMeansAnswered ==
  exit = 0 /\ command.does = "run" =>
    /\ Entries # << >> /\ Len(report) = Len(Entries)
    /\ \A i \in DOMAIN Entries :
         /\ report[i].name = Entries[i].name
         /\ \/ Entries[i].method \in found /\ Kinds[Entries[i].method] \notin {"unary", "watch"}
            \/ \E k \in DOMAIN wire :
                 /\ wire[k].entry = i /\ wire[k].answered
                 /\ \A x \in Entries[i].needs :
                      wire[k].said[x] = IF x \in DOMAIN Asked.binds THEN Asked.binds[x]
                                        ELSE Bindings(session, session.envs.active)[x]

\* What was asked for on the command line is what the session has, or it does not
\* start: TLS as soon as a setting of it was given, but against -tls=false neither
\* TLS nor a setting of it; each setting as it was given; the address that was
\* typed; and a -V in every environment it may switch to.
SessionIsAsAsked ==
  session # << >> =>
    /\ Asked.tls = "-tls=false" => ~Profile(session).tls /\ Profile(session).settings = {}
    /\ Asked.tls # "-tls=false" /\ DOMAIN Asked.sets # {} => Profile(session).tls
    /\ \A s \in DOMAIN Asked.sets : (s \in Profile(session).settings) = Asked.sets[s]
    /\ Asked.target # Blank => Profile(session).target = Asked.target
    /\ chosen.env # 0 => \A x \in DOMAIN Asked.binds :
                           Bindings(session, chosen.env)[x] = Asked.binds[x]

\* Whatever order the words come in: flags may be anywhere (main.go:38, flags.go:333).
WordsInAnyOrder == phase = "start" => FlagsGoAnywhere(job.line)

\* A run ends once its server has told its services, whatever happens after: a
\* watch that never ends is ended by the timeout, if there is one.
RunEnds == (phase = "next" /\ job.timeout) ~> (phase = "exited")

\* "Profile names the profile to start on" (config.go:68), "Env names the
\* environment to start in" (config.go:74).
StartsWhereTheFileSays ==
  (phase # "start" /\ session # << >> /\ phase # "explore") =>
    /\ Asked.profile = Blank /\ job.file.profile # Blank =>
         Profile(session).name = job.file.profile
    /\ Asked.env = Blank /\ job.file.env # Blank =>
         session.envs.list[session.envs.active].name = job.file.env

\* "An environment naming a ${VAR} nobody exported is listed and refused when it
\* is chosen" (cmd/grpctui/environments.go:20-22).
UnusableIsRefused ==
  phase = "explore" /\ chosen.env \in DOMAIN job.file.envs
    => ~UnsetEnv(job.file.envs[chosen.env])
=============================================================================
