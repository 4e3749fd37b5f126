----------------------------- MODULE Connection -----------------------------
(***************************************************************************)
(* The connection of grpctui's root model: dialling a profile, following   *)
(* an environment to its target, sweeping a server for its services, and   *)
(* what each does to the call in flight (internal/ui/connection.go,        *)
(* variables.go, update.go, panels/profiles.go, panels/environments.go).   *)
(*                                                                         *)
(* A connection goes by the connSeq of the dial that opened it, 0 for the  *)
(* client New was given.  As in Calls, an action is a message handled by   *)
(* Update; dials and sweeps run as commands and report in any order.  The  *)
(* call is reduced to what a change of connection does to it: which        *)
(* connection it runs on and whether the panel still shows it.             *)
(***************************************************************************)
EXTENDS Integers, FiniteSets

CONSTANTS
  Profiles,       \* the connection profiles
  Targets,        \* the addresses they and the environments name
  ProfileTarget,  \* the address of each profile
  Environments,   \* the environments
  EnvTarget,      \* the address of each environment, or None
  First,          \* the profile the session starts on
  None,           \* no address, no environment
  MaxConns,       \* bound: dials
  MaxSweeps       \* bound: sweeps in flight on one connection

ASSUME ConnectionAssumption ==
  /\ None \notin Targets /\ None \notin Environments
  /\ ProfileTarget \in [Profiles -> Targets]
  /\ EnvTarget \in [Environments -> Targets \union {None}]
  /\ First \in Profiles
  /\ MaxConns \in Nat /\ MaxSweeps \in Nat \ {0}

ConnId == 0 .. MaxConns
NoConn == -1

VARIABLES
  state,      \* state: "connecting", "ready" or "failed"
  client,     \* client
  connSeq,    \* connSeq
  profile,    \* the switcher's active profile, whose headers are on screen
  env,        \* the environment in force, whose variables are bound
  services,   \* the connection whose services the tree shows, or NoConn
  form,       \* the connection whose services the form's method came from
  \* the call
  live,       \* the connection of the call cancelCall would cancel, or NoConn
  owed,       \* whether the latest call's outcome is still to come
  active,     \* Response.Active: the panel shows a call in flight
  \* commands and connections
  dials,      \* dials in flight
  sweeps,     \* sweeps in flight on each connection
  picks,      \* MethodSelectedMsg on their way, by the tree they came from
  dialled,    \* what each connection was dialled with
  opened,     \* connections a dial has returned
  closed,     \* connections closed
  \* what the user last did
  asked       \* the switcher last used: "profile" or "environment"

call == <<live, owed, active>>
conns == <<dialled, opened, closed>>
vars == <<state, client, connSeq, profile, env, services, form, call, dials, sweeps, picks,
          conns, asked>>

Target(c) == dialled[c].target

-----------------------------------------------------------------------------

\* retireCall, as in Calls: nothing when there is no call to cancel.
RetireCall ==
  IF live = NoConn
  THEN UNCHANGED <<live, owed>>
  ELSE live' = NoConn /\ owed' = FALSE

\* Mutated startConnect: the switcher's marker moves before the dial is back.
StartConnectMarked(p, t) ==
  /\ connSeq < MaxConns
  /\ connSeq' = connSeq + 1
  /\ RetireCall
  /\ state' = "connecting"
  /\ profile' = p
  /\ dials' = dials \union {connSeq'}
  /\ dialled' = [dialled EXCEPT ![connSeq'] = [profile |-> p, target |-> t]]
  /\ UNCHANGED <<client, services, form, active, sweeps, picks, opened, closed>>

\* startConnect: the call is retired, its panel left as it is behind the
\* connecting screen.
StartConnect(p, t) ==
  /\ connSeq < MaxConns
  /\ connSeq' = connSeq + 1
  /\ RetireCall
  /\ state' = "connecting"
  /\ dials' = dials \union {connSeq'}
  /\ dialled' = [dialled EXCEPT ![connSeq'] = [profile |-> p, target |-> t]]
  /\ UNCHANGED <<client, profile, services, form, active, sweeps, picks, opened, closed>>

\* ProfileSelectedMsg: the profile as it is saved, whatever is connected now.
ChooseProfile(p) ==
  /\ StartConnect(p, ProfileTarget[p])
  /\ asked' = "profile"
  /\ UNCHANGED env

\* switchEnvironment: the variables at once, the connection when the target is
\* not the current client's.
ChooseEnvironment(e) ==
  /\ env' = e
  /\ asked' = "environment"
  /\ IF EnvTarget[e] \in {None, Target(client)}
     THEN UNCHANGED <<state, client, connSeq, profile, services, form, call, dials, sweeps,
                      picks, conns>>
     ELSE StartConnect(profile, EnvTarget[e])

\* Mutated finishConnect: a client nobody wants any more is dropped, not closed.
DialSucceedsLeaking(s) ==
  /\ s \in dials
  /\ dials' = dials \ {s}
  /\ opened' = opened \union {s}
  /\ IF s # connSeq
     THEN UNCHANGED <<state, client, profile, services, form, active, sweeps, closed>>
     ELSE /\ closed' = closed \union ({client} \ {0})
          /\ client' = s
          /\ profile' = dialled[s].profile
          /\ services' = NoConn /\ form' = NoConn
          /\ active' = FALSE
          /\ state' = "connecting"
          /\ sweeps' = [sweeps EXCEPT ![s] = @ + 1]
  /\ UNCHANGED <<connSeq, env, live, owed, picks, dialled, asked>>

\* Mutated finishConnect: the sequence number of the dial is not looked at.
DialSucceedsAnyway(s) ==
  /\ s \in dials
  /\ dials' = dials \ {s}
  /\ opened' = opened \union {s}
  /\ closed' = closed \union ({client} \ {0})
  /\ client' = s
  /\ profile' = dialled[s].profile
  /\ services' = NoConn /\ form' = NoConn
  /\ active' = FALSE
  /\ state' = "connecting"
  /\ sweeps' = [sweeps EXCEPT ![s] = @ + 1]
  /\ UNCHANGED <<connSeq, env, live, owed, picks, dialled, asked>>

\* clientConnectedMsg with a client: installed in place of the one before it,
\* which is closed when the model opened it, and swept; closed when stale.
DialSucceeds(s) ==
  /\ s \in dials
  /\ dials' = dials \ {s}
  /\ opened' = opened \union {s}
  /\ IF s # connSeq
     THEN /\ closed' = closed \union {s}
          /\ UNCHANGED <<state, client, profile, services, form, active, sweeps>>
     ELSE /\ closed' = closed \union ({client} \ {0})
          /\ client' = s
          /\ profile' = dialled[s].profile
          /\ services' = NoConn /\ form' = NoConn
          /\ active' = FALSE
          /\ state' = "connecting"
          /\ sweeps' = [sweeps EXCEPT ![s] = @ + 1]
  /\ UNCHANGED <<connSeq, env, live, owed, picks, dialled, asked>>

\* Mutated finishConnect: a dial that failed leaves the screen as it was.
DialFailsSilently(s) ==
  /\ s \in dials
  /\ dials' = dials \ {s}
  /\ UNCHANGED <<state, client, connSeq, profile, env, services, form, call, sweeps, picks,
                 conns, asked>>

\* clientConnectedMsg with an error: the connection there was stays.
DialFails(s) ==
  /\ s \in dials
  /\ dials' = dials \ {s}
  /\ state' = IF s = connSeq THEN "failed" ELSE state
  /\ UNCHANGED <<client, connSeq, profile, env, services, form, call, sweeps, picks, conns,
                 asked>>

\* servicesDiscoveredMsg: nothing in it says which connection was swept.
Discovered(c) ==
  /\ sweeps[c] > 0
  /\ sweeps' = [sweeps EXCEPT ![c] = @ - 1]
  /\ state' = "ready"
  /\ services' = c
  /\ form' = NoConn
  /\ active' = FALSE
  /\ UNCHANGED <<client, connSeq, profile, env, live, owed, dials, picks, conns, asked>>

\* discoveryFailedMsg: the sweep timed out, or its connection was closed.
DiscoveryFails(c) ==
  /\ sweeps[c] > 0
  /\ sweeps' = [sweeps EXCEPT ![c] = @ - 1]
  /\ state' = "failed"
  /\ UNCHANGED <<client, connSeq, profile, env, services, form, call, dials, picks, conns, asked>>

\* r on the failure screen.
Retry ==
  /\ state = "failed"
  /\ sweeps[client] < MaxSweeps
  /\ state' = "connecting"
  /\ sweeps' = [sweeps EXCEPT ![client] = @ + 1]
  /\ UNCHANGED <<client, connSeq, profile, env, services, form, call, dials, picks, conns, asked>>

-----------------------------------------------------------------------------
(* The call. *)

\* A method row chosen in the tree, which reports by message...
PickMethod ==
  /\ state = "ready" /\ services # NoConn
  /\ picks' = picks \union {services}
  /\ UNCHANGED <<state, client, connSeq, profile, env, services, form, call, dials, sweeps, conns,
                 asked>>

\* ...MethodSelectedMsg, handled in any state.
MethodSelected(c) ==
  /\ c \in picks
  /\ picks' = picks \ {c}
  /\ RetireCall
  /\ form' = c
  /\ active' = FALSE
  /\ UNCHANGED <<state, client, connSeq, profile, env, services, dials, sweeps, conns, asked>>

\* A request recalled, or replayed from the proxy, onto a method of the tree.
Recall ==
  /\ state = "ready" /\ services # NoConn
  /\ RetireCall
  /\ form' = services
  /\ active' = FALSE
  /\ UNCHANGED <<state, client, connSeq, profile, env, services, dials, sweeps, picks, conns,
                 asked>>

\* ctrl+s: the call replaces the one before it.
Send ==
  /\ state = "ready" /\ form # NoConn
  /\ live' = client /\ owed' = TRUE /\ active' = TRUE
  /\ UNCHANGED <<state, client, connSeq, profile, env, services, form, dials, sweeps, picks, conns,
                 asked>>

\* esc.
Cancel ==
  /\ active /\ live # NoConn
  /\ live' = NoConn
  /\ UNCHANGED <<state, client, connSeq, profile, env, services, form, owed, active, dials, sweeps,
                 picks, conns, asked>>

\* The latest call's outcome.
Answered ==
  /\ owed
  /\ owed' = FALSE /\ live' = NoConn /\ active' = FALSE
  /\ UNCHANGED <<state, client, connSeq, profile, env, services, form, dials, sweeps, picks, conns,
                 asked>>

-----------------------------------------------------------------------------

Init ==
  /\ state = "connecting"
  /\ client = 0
  /\ connSeq = 0
  /\ profile = First
  \* connections() writes the starting environment's target into the profile
  /\ env \in {None} \union {e \in Environments : EnvTarget[e] \in {None, ProfileTarget[First]}}
  /\ services = NoConn /\ form = NoConn
  /\ live = NoConn /\ owed = FALSE /\ active = FALSE
  /\ dials = {}
  /\ sweeps = [c \in ConnId |-> IF c = 0 THEN 1 ELSE 0]
  /\ picks = {}
  /\ dialled = [c \in ConnId |-> [profile |-> First, target |-> ProfileTarget[First]]]
  /\ opened = {0} /\ closed = {}
  /\ asked = "environment"

Next ==
  \/ \E p \in Profiles : ChooseProfile(p)
  \/ \E e \in Environments : ChooseEnvironment(e)
  \/ \E s \in ConnId : DialSucceeds(s) \/ DialFails(s)
  \/ \E c \in ConnId : Discovered(c) \/ DiscoveryFails(c)
  \/ Retry
  \/ PickMethod \/ \E c \in ConnId : MethodSelected(c)
  \/ Recall \/ Send \/ Cancel \/ Answered

Spec == Init /\ [][Next]_vars

-----------------------------------------------------------------------------
(* Safety. *)

\* Every reference is to a connection that could have been dialled, every dial is
\* to a real address, and no connection is swept more often than asked for.
TypeOK ==
  /\ state \in {"connecting", "ready", "failed"}
  /\ client \in ConnId /\ connSeq \in ConnId
  /\ profile \in Profiles
  /\ env \in Environments \union {None}
  /\ services \in ConnId \union {NoConn} /\ form \in ConnId \union {NoConn}
  /\ live \in ConnId \union {NoConn}
  /\ owed \in BOOLEAN /\ active \in BOOLEAN
  /\ dials \subseteq ConnId /\ picks \subseteq ConnId
  /\ sweeps \in [ConnId -> 0 .. MaxSweeps]
  /\ dialled \in [ConnId -> [profile : Profiles, target : Targets]]
  /\ opened \subseteq ConnId /\ closed \subseteq ConnId
  /\ asked \in {"profile", "environment"}

\* However dials overlap, every connection the model opened is closed but the one
\* in use, which is open; the one New was given is never closed (ownsClient).
OneOpenClient ==
  /\ client \in opened \ closed
  /\ opened \ closed \subseteq {client, 0}
  /\ 0 \notin closed

\* connSeq: "two quick presses in the switcher leave two dials in flight, and only
\* the later one's client may be kept" (model.go:200-201): the connection in use
\* is the last one dialled, unless that dial is still out or has failed.
LaterDialWins ==
  client # connSeq => connSeq \notin opened

\* "The headers belong to the connection" (connection.go:117-119): the switcher's
\* marker and the headers on screen are those of the connection in use, also
\* while another is dialled and after it has failed.
MarkerIsTruthful == profile = dialled[client].profile

\* The connecting screen is waiting for something: a dial that is out, or a
\* sweep.  Otherwise only a switch of connection would get the user off it.
ConnectingIsProgressing ==
  state = "connecting" => connSeq \in dials \/ sweeps[client] > 0

\* startConnect leaves the panel of the call it retires spinning; by the time the
\* panels are back on screen it has been cleared, or its call will still answer.
SpinnerIsAnswered == state = "ready" /\ active => owed

\* Neither screen waits for nothing.
WaitsAreAnswered == ConnectingIsProgressing /\ SpinnerIsAnswered

\* A dial still out has opened nothing, under a number that has been given out,
\* and nothing is swept or closed that was not opened.
DialsAreFresh ==
  /\ \A s \in dials \union opened : s <= connSeq
  /\ \A s \in dials : s # 0 /\ s \notin opened
  /\ \A c \in ConnId : sweeps[c] # 0 => c \in opened
  /\ closed \subseteq opened

\* The inductive invariant behind the properties above.
ConnInv ==
  /\ TypeOK
  /\ DialsAreFresh
  /\ OneOpenClient
  /\ LaterDialWins
  /\ MarkerIsTruthful
  /\ ConnectingIsProgressing
  /\ SpinnerIsAnswered

-----------------------------------------------------------------------------
(* What the docs and the comments promise and the code does not keep. *)

\* README.md:196-197: "enter connects, which re-runs discovery and swaps in that
\* connection's headers": a session that is ready shows the services of the
\* connection it would call.
ServicesAreTheConnections == state = "ready" => services = client

\* README.md:396-398: switching environment "changes both what {{tenant}} means and
\* which server hears about it": once the session is ready again with no dial out,
\* the last switch having been of environment, its server is the one that hears.
EnvironmentIsFollowed ==
  state = "ready" /\ dials = {} /\ asked = "environment" /\ env # None =>
    EnvTarget[env] \in {None, Target(client)}

\* README.md:197-198: "Picking the one you are already on reconnects": the dial goes
\* to the address the session is on.
ReconnectStays ==
  [][state = "ready" /\ ChooseProfile(profile) => dialled'[connSeq'].target = Target(client)]_vars

\* update.go:55-60: a call whose panel has moved on is one "esc has stopped being
\* able to cancel": a running call keeps its panel.
LiveCallIsShown == state = "ready" /\ live # NoConn => active
=============================================================================
