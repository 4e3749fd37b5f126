--------------------------- MODULE MCConnection ---------------------------
(***************************************************************************)
(* Two profiles on two servers, one environment for each server and one    *)
(* that has no target of its own.                                          *)
(***************************************************************************)
EXTENDS Connection

CONSTANTS local, prod, here, there, dev, staging, plain

TwoProfiles == {local, prod}
TwoTargets == {here, there}
ThreeEnvironments == {dev, staging, plain}

SavedTargets == [p \in Profiles |-> IF p = local THEN here ELSE there]
EnvironmentTargets ==
  [e \in Environments |-> IF e = dev THEN here ELSE IF e = staging THEN there ELSE None]
===========================================================================
