------------------------------ MODULE Startup ------------------------------
(***************************************************************************)
(* What the configuration file and the flags decide before anything is     *)
(* dialled: cmd/grpctui (headless.go prepare, connections.go,              *)
(* environments.go), internal/config and the validation of a profile in    *)
(* internal/grpcclient.  Texts are compared with Blank and each other,     *)
(* and may name a variable of the process that nobody has exported; a      *)
(* profile's credentials and headers are one text, its secret.             *)
(***************************************************************************)
EXTENDS CommandLine

CONSTANTS
  UnsetTexts  \* the texts with a ${VAR} that the process does not have

IsProfile(p) == {"name", "target", "tls", "settings", "secret"} \subseteq DOMAIN p
NoProfile == [name |-> Blank, target |-> Blank, tls |-> FALSE, settings |-> {}, secret |-> Blank]

-----------------------------------------------------------------------------
(* The file (internal/config) *)

\* validateNames, validateEnvironmentNames.
ValidNames(file) ==
  LET Distinct(list) == \A i, j \in DOMAIN list : list[i].name = list[j].name => i = j
  IN  /\ \A i \in DOMAIN file.profiles : file.profiles[i].name \notin {Blank, "default"}
      /\ \A i \in DOMAIN file.envs : file.envs[i].name # Blank
      /\ Distinct(file.profiles) /\ Distinct(file.envs)

\* expand: a text is left as it is written when what it names is not set.
Unset(p) == p.target \in UnsetTexts \/ p.secret \in UnsetTexts
UnsetEnv(e) == e.target \in UnsetTexts \/ \E x \in DOMAIN e.vars : e.vars[x] \in UnsetTexts

\* Connections: the top-level settings lead the list if they have a target, TLS, or
\* credentials or headers; other settings of TLS alone are dropped.
Connections(file) ==
  IF file.top.target # Blank \/ file.top.tls \/ file.top.secret # Blank
  THEN <<[file.top EXCEPT !.name = "default"]>> \o file.profiles
  ELSE file.profiles

\* Select, SelectEnvironment: the first when no name is given, 0 when there is none.
Named(list, name) ==
  IF name = Blank THEN (IF list = << >> THEN 0 ELSE 1)
  ELSE IF \E i \in DOMAIN list : list[i].name = name
       THEN CHOOSE i \in DOMAIN list : list[i].name = name
       ELSE 0

-----------------------------------------------------------------------------
(* The command line over the file (cmd/grpctui) *)

\* A -V goes over every environment, and wins.
Overlaid(vars, binds) ==
  [x \in DOMAIN binds \union DOMAIN vars |-> IF x \in DOMAIN binds THEN binds[x] ELSE vars[x]]
Laid(envs, binds) == [i \in DOMAIN envs |-> [envs[i] EXCEPT !.vars = Overlaid(@, binds)]]

commandLineEnvironment == "command line"
CommandLineOnly == [name |-> commandLineEnvironment, target |-> Blank, vars |-> << >>]

\* environments: with none in the file, the command line's bindings are one.
Environments(file, opts) ==
  LET none == file.envs = << >> /\ DOMAIN opts.binds # {}
      list == IF none THEN <<CommandLineOnly>> ELSE file.envs
      active == IF none THEN 1 ELSE Named(file.envs, opts.env)
  IN  [list |-> Laid(list, opts.binds),
       active |-> active,
       failed |-> \/ opts.env # Blank /\ Named(file.envs, opts.env) = 0
                  \/ file.envs # << >> /\ UnsetEnv(file.envs[active])]

\* Mutated ApplyFlags: a setting asks for TLS whatever -tls says.
ApplyFlagsEager(p, opts) ==
  [p EXCEPT !.target = IF opts.target # Blank THEN opts.target ELSE @,
            !.settings = (@ \cup {s \in DOMAIN opts.sets : opts.sets[s]})
                           \ {s \in DOMAIN opts.sets : ~opts.sets[s]},
            !.tls = @ \/ opts.tls = "-tls" \/ DOMAIN opts.sets # {}]

\* applyFlags: a setting that was given, to whatever value, implies TLS, and -tls
\* itself has the last word.
ApplyFlags(p, opts) ==
  [p EXCEPT !.target = IF opts.target # Blank THEN opts.target ELSE @,
            !.settings = (@ \cup {s \in DOMAIN opts.sets : opts.sets[s]})
                           \ {s \in DOMAIN opts.sets : ~opts.sets[s]},
            !.tls = IF opts.tls # Blank THEN opts.tls = "-tls" ELSE @ \/ DOMAIN opts.sets # {}]

\* Security.Validate, and Profile.Validate for all but the target.
Valid(p) ==
  /\ ~p.tls => p.settings = {}
  /\ ("cert" \in p.settings) = ("key" \in p.settings)
  /\ p.secret # "bad"

\* connections: the target of the profile, over it the environment's, over that
\* the one that was typed.
Startups(file, opts, envTarget) ==
  LET listed == Connections(file)
      list == IF listed = << >> THEN <<NoProfile>> ELSE listed
      active == IF opts.profile = Blank THEN 1 ELSE Named(list, opts.profile)
      moved == IF envTarget = Blank THEN list[active]
               ELSE [list[active] EXCEPT !.target = envTarget]
      profile == ApplyFlags(moved, opts)
  IN  IF active = 0 \/ Unset(list[active])
      THEN [list |-> list, active |-> active, failed |-> TRUE]
      ELSE [list |-> [list EXCEPT ![active] = profile], active |-> active,
            failed |-> profile.target # Blank /\ ~Valid(profile)]

EnvTarget(envs) == IF envs.active = 0 THEN Blank ELSE envs.list[envs.active].target

\* prepare, in the order of dependency: the first step that fails decides, and
\* only a missing target is an error of usage.  broken are the steps, of those
\* that read other files, that fail.
Prepare(file, opts, broken) ==
  LET envs == Environments(file, opts)
      startup == Startups(file, opts, EnvTarget(envs))
      Step(name, fails) == [name |-> name, fails |-> fails]
      steps == << Step("config", ~ValidNames(file)),
                  Step("environments", envs.failed),
                  Step("connections", startup.failed),
                  Step("target", ~startup.failed /\ startup.list[startup.active].target = Blank),
                  Step("requests", "requests" \in broken),
                  Step("look", "look" \in broken),
                  Step("log", "log" \in broken),
                  Step("schema", "schema" \in broken) >>
      failures == {i \in DOMAIN steps : steps[i].fails}
      first == CHOOSE i \in failures : \A j \in failures : i <= j
  IN  IF failures = {}
      THEN [code |-> 0, envs |-> envs, startup |-> startup]
      ELSE [code |-> IF steps[first].name = "target" THEN 2 ELSE 1]

\* What the session starts on.
Profile(session) == session.startup.list[session.startup.active]
Bindings(session, i) == IF i = 0 THEN << >> ELSE session.envs.list[i].vars

\* pick: a whole collection, or one request of it; nothing to run is an error.
Pick(collections, name, request) ==
  IF name \notin DOMAIN collections THEN << >>
  ELSE IF request = Blank THEN collections[name]
  ELSE LET at == {i \in DOMAIN collections[name] : collections[name][i].name = request}
       IN  IF at = {} THEN << >> ELSE <<collections[name][CHOOSE i \in at : \A j \in at : i <= j]>>
=============================================================================
