----------------------------- MODULE MCRequests -----------------------------
(***************************************************************************)
(* The history of two requests over two servers, and collections in two    *)
(* files.                                                                  *)
(***************************************************************************)
EXTENDS KeptRequests

CONSTANTS hello, watch, here, there, team, default, login, greet, dots

\* One of the requests is on both servers, the other on the first alone; the file
\* of an earlier session is longer than the limit is now.
TwoRequests == {hello, watch}
TwoServers == {here, there}
OneMoved == [s \in TwoServers |-> IF s = here THEN TwoRequests ELSE {hello}]
Earlier == << [req |-> hello, at |-> 4, target |-> there], [req |-> hello, at |-> 3, target |-> here],
              [req |-> watch, at |-> 2, target |-> here], [req |-> hello, at |-> 1, target |-> here] >>

\* A team collection of one request, a default one that does not exist yet, and a
\* name that is refused.
TwoFiles == {team, default}
ThreeNames == {login, greet, dots}
Refused == {dots}
TeamHasLogin == [f \in {team} |-> <<login>>]
=============================================================================
