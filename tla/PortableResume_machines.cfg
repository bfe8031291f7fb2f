SPECIFICATION Spec
CONSTANTS
  a = a
  b = b
  c = c
  shared = shared
  alone = alone
  NoLease = NoLease
  Process = {a, b}
  Clone = {a, b}
  CloneOf <- OwnClone
  Ttl = {2}
  MaxClock = 3
  MaxGeneration = 2
  MaxManifests = 2
  MaxLeases = 3
SYMMETRY MachineSymmetry
INVARIANT TypeOK
INVARIANT HolderOwnsBranch
INVARIANT GenerationFences
PROPERTY NoLiveTakeover
PROPERTY ReleaseFollowsCheckpoint
