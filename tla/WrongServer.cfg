SPECIFICATION Spec

CONSTANTS
  local = local
  prod = prod
  here = here
  there = there
  dev = dev
  staging = staging
  plain = plain
  None = None
  Profiles <- TwoProfiles
  Targets <- TwoTargets
  ProfileTarget <- SavedTargets
  Environments <- ThreeEnvironments
  EnvTarget <- EnvironmentTargets
  First = local
  MaxConns = 2
  MaxSweeps = 1

INVARIANTS
  EnvironmentIsFollowed
