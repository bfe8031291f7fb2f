SPECIFICATION Spec
CONSTANTS
  a = a
  b = b
  c = c
  shared = shared
  alone = alone
  NoLease = NoLease
  Process = {a, b, c}
  Clone = {shared, alone}
  CloneOf <- Worktrees
  Ttl = {1}
  MaxClock = 1
  MaxGeneration = 1
  MaxManifests = 1
  MaxLeases = 3
PROPERTY NoLiveTakeover
