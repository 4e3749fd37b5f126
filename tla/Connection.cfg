SPECIFICATION Spec

CONSTANTS
  local = local
  prod = prod
  here = here
  there = there
  dev = dev
  staging = staging
  plain = plain
  None = None
  Profiles <- TwoProfiles
  Targets <- TwoTargets
  ProfileTarget <- SavedTargets
  Environments <- ThreeEnvironments
  EnvTarget <- EnvironmentTargets
  First = local
  MaxConns = 3
  MaxSweeps = 2

INVARIANTS
  OneOpenClient
  LaterDialWins
  MarkerIsTruthful
  WaitsAreAnswered
