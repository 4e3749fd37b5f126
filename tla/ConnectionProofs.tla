-------------------------- MODULE ConnectionProofs --------------------------
(***************************************************************************)
(* ConnInv is an invariant of Connection: however many dials overlap, and  *)
(* whenever sweeps land, one connection is kept open and it is the last    *)
(* one dialled that came up.                                               *)
(***************************************************************************)
EXTENDS Connection, TLAPS

\* Every connection of the initial state is client 0 on the first profile.
LEMMA InitInv == Init => ConnInv
<1> SUFFICES ASSUME Init PROVE ConnInv
  OBVIOUS
<1> USE ConnectionAssumption DEF Init, ConnId, NoConn
<1>1. TypeOK
  <2>1. 0 \in ConnId /\ 1 \in 0 .. MaxSweeps /\ 0 \in 0 .. MaxSweeps
    OBVIOUS
  <2>2. sweeps \in [ConnId -> 0 .. MaxSweeps]
    BY <2>1
  <2>3. dialled \in [ConnId -> [profile : Profiles, target : Targets]]
    BY <2>1
  <2>4. env \in Environments \union {None}
    OBVIOUS
  <2> QED
    BY <2>1, <2>2, <2>3, <2>4 DEF TypeOK
<1>2. DialsAreFresh /\ OneOpenClient /\ LaterDialWins
  BY DEF DialsAreFresh, OneOpenClient, LaterDialWins
<1>3. MarkerIsTruthful /\ ConnectingIsProgressing /\ SpinnerIsAnswered
  BY DEF MarkerIsTruthful, ConnectingIsProgressing, SpinnerIsAnswered
<1> QED
  BY <1>1, <1>2, <1>3 DEF ConnInv

\* A dial takes a number no connection has: what is open stays, and the
\* connecting screen waits for it.
LEMMA StartKeepsInv ==
  ASSUME ConnInv, NEW p \in Profiles, NEW t \in Targets, StartConnect(p, t),
         env' \in Environments \union {None}, asked' \in {"profile", "environment"}
  PROVE  ConnInv'
<1> USE ConnectionAssumption DEF ConnInv
<1>1. connSeq' = connSeq + 1 /\ connSeq' \in ConnId
  BY DEF StartConnect, TypeOK, ConnId
<1>2. TypeOK'
  <2>1. live' \in ConnId \union {NoConn} /\ owed' \in BOOLEAN
    BY DEF StartConnect, RetireCall, TypeOK
  <2>2. dials' \subseteq ConnId /\ dialled' \in [ConnId -> [profile : Profiles, target : Targets]]
    BY <1>1 DEF StartConnect, TypeOK
  <2> QED
    BY <1>1, <2>1, <2>2 DEF StartConnect, TypeOK
<1>3. DialsAreFresh'
  <2>1. connSeq + 1 \notin opened /\ connSeq + 1 # 0
    BY DEF DialsAreFresh, TypeOK, ConnId
  <2>2. \A s \in dials' \union opened' : s <= connSeq'
    BY <1>1 DEF StartConnect, DialsAreFresh, TypeOK, ConnId
  <2> QED
    BY <1>1, <2>1, <2>2 DEF StartConnect, DialsAreFresh
<1>4. OneOpenClient'
  BY DEF StartConnect, OneOpenClient
<1>5. LaterDialWins'
  BY <1>1 DEF StartConnect, LaterDialWins, DialsAreFresh, TypeOK, ConnId
<1>6. MarkerIsTruthful'
  <2>1. client # connSeq'
    BY <1>1 DEF DialsAreFresh, OneOpenClient, TypeOK, ConnId
  <2> QED
    BY <1>1, <2>1 DEF StartConnect, MarkerIsTruthful, TypeOK
<1>7. ConnectingIsProgressing' /\ SpinnerIsAnswered'
  BY DEF StartConnect, ConnectingIsProgressing, SpinnerIsAnswered
<1> QED
  BY <1>2, <1>3, <1>4, <1>5, <1>6, <1>7

\* The connection a dial returns is closed at once when it is stale, and else
\* takes the place of the one before, which is closed unless it was New's.
LEMMA DialKeepsInv ==
  ASSUME ConnInv, NEW s \in ConnId, DialSucceeds(s)
  PROVE  ConnInv'
<1> USE ConnectionAssumption DEF ConnInv
<1>0. s \in dials /\ s \notin opened /\ s # 0 /\ s <= connSeq
  BY DEF DialSucceeds, DialsAreFresh
<1>1. TypeOK'
  <2>1. sweeps' \in [ConnId -> 0 .. MaxSweeps]
    <3>1. sweeps[s] = 0 /\ 0 + 1 \in 0 .. MaxSweeps
      BY <1>0 DEF DialsAreFresh
    <3> QED
      BY <3>1 DEF DialSucceeds, TypeOK
  <2> QED
    BY <2>1 DEF DialSucceeds, TypeOK
<1>2. DialsAreFresh'
  <2>1. \A c \in ConnId : sweeps'[c] # 0 => c \in opened'
    BY <1>0 DEF DialSucceeds, DialsAreFresh, TypeOK
  <2> QED
    BY <1>0, <2>1 DEF DialSucceeds, DialsAreFresh, OneOpenClient
<1>3. OneOpenClient'
  BY <1>0 DEF DialSucceeds, DialsAreFresh, OneOpenClient
<1>4. LaterDialWins'
  BY <1>0 DEF DialSucceeds, LaterDialWins
<1>5. MarkerIsTruthful'
  BY <1>0 DEF DialSucceeds, MarkerIsTruthful
<1>6. ConnectingIsProgressing'
  <2>1. CASE s # connSeq
    BY <2>1 DEF DialSucceeds, ConnectingIsProgressing
  <2>2. CASE s = connSeq
    <3>1. sweeps[s] = 0 /\ sweeps'[s] = sweeps[s] + 1 /\ client' = s
      BY <1>0, <2>2 DEF DialSucceeds, DialsAreFresh, TypeOK
    <3> QED
      BY <3>1 DEF ConnectingIsProgressing
  <2> QED
    BY <2>1, <2>2
<1>7. SpinnerIsAnswered'
  BY DEF DialSucceeds, SpinnerIsAnswered
<1> QED
  BY <1>1, <1>2, <1>3, <1>4, <1>5, <1>6, <1>7

\* A dial that fails while a later one is out changes nothing; else it leaves the
\* connecting screen.
LEMMA DialFailsKeepsInv ==
  ASSUME ConnInv, NEW s \in ConnId, DialFails(s)
  PROVE  ConnInv'
<1> USE DEF ConnInv
<1>1. TypeOK' /\ DialsAreFresh'
  BY DEF DialFails, conns, call, TypeOK, DialsAreFresh
<1>2. OneOpenClient' /\ LaterDialWins' /\ MarkerIsTruthful'
  BY DEF DialFails, conns, call, OneOpenClient, LaterDialWins, MarkerIsTruthful
<1>3. ConnectingIsProgressing' /\ SpinnerIsAnswered'
  BY DEF DialFails, conns, call, TypeOK, ConnectingIsProgressing, SpinnerIsAnswered
<1> QED
  BY <1>1, <1>2, <1>3

\* A sweep back, with services or without, ends the connecting screen, and r
\* starts another of the connection in use.
LEMMA SweepKeepsInv ==
  ASSUME ConnInv, (\E c \in ConnId : Discovered(c) \/ DiscoveryFails(c)) \/ Retry
  PROVE  ConnInv'
<1> USE DEF ConnInv
<1>1. /\ UNCHANGED <<client, connSeq, profile, env, live, owed, dials, picks, dialled, opened, closed, asked>>
      /\ active' \in {active, FALSE}
      /\ state' = "ready" => active' = FALSE
      /\ state' \in {"connecting", "ready", "failed"}
  BY Zenon DEF Discovered, DiscoveryFails, Retry, conns, call, TypeOK
<1>2. /\ services' \in ConnId \union {NoConn} /\ form' \in ConnId \union {NoConn}
  BY DEF Discovered, DiscoveryFails, Retry, conns, call, TypeOK
<1>3. sweeps' \in [ConnId -> 0 .. MaxSweeps]
  BY ConnectionAssumption DEF Discovered, DiscoveryFails, Retry, TypeOK
<1>4. TypeOK'
  BY <1>1, <1>2, <1>3 DEF TypeOK
<1>5. DialsAreFresh'
  <2>1. \A c \in ConnId : sweeps'[c] # 0 => sweeps[c] # 0 \/ c = client
    BY DEF Discovered, DiscoveryFails, Retry, TypeOK
  <2> QED
    BY <1>1, <2>1 DEF DialsAreFresh, OneOpenClient
<1>6. OneOpenClient' /\ LaterDialWins' /\ MarkerIsTruthful' /\ SpinnerIsAnswered'
  BY <1>1 DEF OneOpenClient, LaterDialWins, MarkerIsTruthful, SpinnerIsAnswered
<1>7. ConnectingIsProgressing'
  <2>1. state' = "connecting" => sweeps'[client] > 0
    BY DEF Discovered, DiscoveryFails, Retry, TypeOK
  <2> QED
    BY <1>1, <2>1 DEF ConnectingIsProgressing
<1> QED
  BY <1>4, <1>5, <1>6, <1>7

\* What the user does to the form and the call never shows a spinner that has
\* lost its call.
LEMMA CallKeepsInv ==
  ASSUME ConnInv,
         PickMethod \/ (\E c \in ConnId : MethodSelected(c)) \/ Recall \/ Send \/ Cancel \/ Answered
  PROVE  ConnInv'
<1> USE DEF ConnInv
<1>1. UNCHANGED <<state, client, connSeq, profile, env, services, dials, sweeps, conns, asked>>
  BY Zenon DEF PickMethod, MethodSelected, Recall, Send, Cancel, Answered, call
<1>2. /\ form' \in ConnId \union {NoConn} /\ picks' \subseteq ConnId
      /\ live' \in ConnId \union {NoConn}
  BY DEF PickMethod, MethodSelected, Recall, Send, Cancel, Answered, RetireCall, call, TypeOK
<1>3. owed' \in BOOLEAN /\ active' \in BOOLEAN /\ (active' => owed' \/ (active /\ owed' = owed))
  <2>1. CASE PickMethod \/ Cancel
    <3>1. active' = active /\ owed' = owed
      BY Zenon, <2>1 DEF PickMethod, Cancel, call
    <3>2. active \in BOOLEAN /\ owed \in BOOLEAN
      BY Zenon DEF TypeOK
    <3> QED
      BY Zenon, <3>1, <3>2
  <2>2. CASE (\E c \in ConnId : MethodSelected(c)) \/ Recall
    <3>1. active' = FALSE /\ (owed' = owed \/ owed' = FALSE)
      BY Zenon, <2>2 DEF MethodSelected, Recall, RetireCall
    <3> QED
      BY Zenon, <3>1 DEF TypeOK
  <2>3. CASE Send \/ Answered
    BY Zenon, <2>3 DEF Send, Answered
  <2> QED
    BY Zenon, <2>1, <2>2, <2>3
<1>4. TypeOK' /\ DialsAreFresh'
  BY <1>1, <1>2, <1>3 DEF conns, TypeOK, DialsAreFresh
<1>5. OneOpenClient' /\ LaterDialWins' /\ MarkerIsTruthful' /\ ConnectingIsProgressing'
  BY <1>1 DEF conns, OneOpenClient, LaterDialWins, MarkerIsTruthful, ConnectingIsProgressing
<1>6. SpinnerIsAnswered'
  BY <1>1, <1>3 DEF SpinnerIsAnswered
<1> QED
  BY <1>4, <1>5, <1>6

\* Every step keeps the invariant.
LEMMA NextKeepsInv == ConnInv /\ [Next]_vars => ConnInv'
<1> SUFFICES ASSUME ConnInv, [Next]_vars PROVE ConnInv'
  OBVIOUS
<1>1. ASSUME NEW p \in Profiles, ChooseProfile(p) PROVE ConnInv'
  <2>1. ProfileTarget[p] \in Targets /\ StartConnect(p, ProfileTarget[p]) /\ env' = env
        /\ asked' = "profile" /\ env \in Environments \union {None}
    BY <1>1, ConnectionAssumption DEF ChooseProfile, ConnInv, TypeOK
  <2> QED
    BY <2>1, StartKeepsInv
<1>2. ASSUME NEW e \in Environments, ChooseEnvironment(e) PROVE ConnInv'
  <2>1. env' \in Environments \union {None} /\ asked' \in {"profile", "environment"}
    BY <1>2 DEF ChooseEnvironment
  <2>2. CASE EnvTarget[e] \in {None, Target(client)}
    <3>1. UNCHANGED <<state, client, connSeq, profile, services, form, live, owed, active, dials, sweeps,
                      picks, dialled, opened, closed>>
      BY <1>2, <2>2 DEF ChooseEnvironment, call, conns
    <3>2. TypeOK' /\ DialsAreFresh'
      BY <2>1, <3>1 DEF ConnInv, TypeOK, DialsAreFresh
    <3>3. OneOpenClient' /\ LaterDialWins' /\ MarkerIsTruthful'
      BY <3>1 DEF ConnInv, OneOpenClient, LaterDialWins, MarkerIsTruthful
    <3>4. ConnectingIsProgressing' /\ SpinnerIsAnswered'
      BY <3>1 DEF ConnInv, ConnectingIsProgressing, SpinnerIsAnswered
    <3> QED
      BY <3>2, <3>3, <3>4 DEF ConnInv
  <2>3. CASE EnvTarget[e] \notin {None, Target(client)}
    <3>1. EnvTarget[e] \in Targets /\ StartConnect(profile, EnvTarget[e]) /\ profile \in Profiles
      BY <1>2, <2>3, ConnectionAssumption DEF ChooseEnvironment, ConnInv, TypeOK
    <3> QED
      BY <2>1, <3>1, StartKeepsInv
  <2> QED
    BY <2>2, <2>3
<1>3. ASSUME NEW s \in ConnId, DialSucceeds(s) \/ DialFails(s) PROVE ConnInv'
  BY <1>3, DialKeepsInv, DialFailsKeepsInv
<1>4. ASSUME (\E c \in ConnId : Discovered(c) \/ DiscoveryFails(c)) \/ Retry PROVE ConnInv'
  BY <1>4, SweepKeepsInv
<1>5. ASSUME PickMethod \/ (\E c \in ConnId : MethodSelected(c)) \/ Recall \/ Send \/ Cancel \/ Answered
      PROVE  ConnInv'
  BY <1>5, CallKeepsInv
<1>6. ASSUME UNCHANGED vars PROVE ConnInv'
  <2>1. UNCHANGED <<state, client, connSeq, profile, env, services, form, live, owed, active, dials, sweeps,
                    picks, dialled, opened, closed, asked>>
    BY <1>6 DEF vars, call, conns
  <2>2. TypeOK' /\ DialsAreFresh'
    BY <2>1 DEF ConnInv, TypeOK, DialsAreFresh
  <2>3. OneOpenClient' /\ LaterDialWins' /\ MarkerIsTruthful'
    BY <2>1 DEF ConnInv, OneOpenClient, LaterDialWins, MarkerIsTruthful
  <2>4. ConnectingIsProgressing' /\ SpinnerIsAnswered'
    BY <2>1 DEF ConnInv, ConnectingIsProgressing, SpinnerIsAnswered
  <2> QED
    BY <2>2, <2>3, <2>4 DEF ConnInv
<1> QED
  BY <1>1, <1>2, <1>3, <1>4, <1>5, <1>6 DEF Next

\* The inductive invariant holds in every behaviour of the connection.
THEOREM ConnInvHolds == Spec => []ConnInv
<1>1. ConnInv /\ [Next]_vars => ConnInv'
  BY NextKeepsInv
<1> QED
  BY InitInv, <1>1, PTL DEF Spec

\* Every connection the model dials is closed again but the one it uses, which
\* is open, and the client New was given is never closed (connection.go:86-168).
THEOREM NoClientLeaks == Spec => []OneOpenClient
<1>1. ConnInv => OneOpenClient
  BY DEF ConnInv
<1> QED
  BY ConnInvHolds, <1>1, PTL

\* Of overlapping dials only the last one's client is kept (model.go:200-203).
THEOREM LastDialIsKept == Spec => []LaterDialWins
<1>1. ConnInv => LaterDialWins
  BY DEF ConnInv
<1> QED
  BY ConnInvHolds, <1>1, PTL

\* The marker and the headers are those of the connection in use
\* (connection.go:113-121).
THEOREM HeadersBelongToTheConnection == Spec => []MarkerIsTruthful
<1>1. ConnInv => MarkerIsTruthful
  BY DEF ConnInv
<1> QED
  BY ConnInvHolds, <1>1, PTL

\* The connecting screen is always left by a message still to come, and a panel
\* that spins on screen has an answer coming.
THEOREM NoScreenWaitsForNothing == Spec => []WaitsAreAnswered
<1>1. ConnInv => WaitsAreAnswered
  BY DEF ConnInv, WaitsAreAnswered
<1> QED
  BY ConnInvHolds, <1>1, PTL
=============================================================================
