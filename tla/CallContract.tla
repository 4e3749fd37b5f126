--------------------------- MODULE CallContract ---------------------------
(***************************************************************************)
(* What the root model promises about calls, whatever their shape: they    *)
(* are numbered, at most one runs, beginning one ends the one before it,   *)
(* each owes a single outcome, and the only outcome ever drawn is the      *)
(* latest call's.                                                          *)
(***************************************************************************)
EXTENDS Integers

CONSTANT MaxCalls

VARIABLES
  issued,   \* the number last given out
  live,     \* the calls that are running
  owed,     \* whether the call numbered "issued" has its outcome still to come
  verdict   \* the call whose outcome is on screen, or 0

vars == <<issued, live, owed, verdict>>

Init == issued = 0 /\ live = {} /\ owed = FALSE /\ verdict = 0

\* A new call takes a fresh number and the place of whatever ran before it.
Begin ==
  /\ issued' \in issued + 1 .. MaxCalls
  /\ live' = {issued'}
  /\ owed' = TRUE
  /\ verdict' = 0

\* The call is abandoned: its number goes, and its outcome with it.
Retire ==
  /\ issued' \in issued + 1 .. MaxCalls
  /\ live # {}
  /\ live' = {}
  /\ owed' = FALSE
  /\ verdict' = 0

\* esc: the call is over, its outcome still to come.
Abort ==
  /\ live # {} /\ owed
  /\ live' = {}
  /\ UNCHANGED <<issued, owed, verdict>>

\* The outcome arrives, once, and is drawn unless the screen has moved on.
Settle ==
  /\ owed
  /\ owed' = FALSE
  /\ live' = {}
  /\ verdict' \in {issued, verdict}
  /\ UNCHANGED issued

\* The panel is cleared for another method.
Clear ==
  /\ verdict' = 0
  /\ UNCHANGED <<issued, live, owed>>

Next == Begin \/ Retire \/ Abort \/ Settle \/ Clear

Spec == Init /\ [][Next]_vars
===========================================================================
