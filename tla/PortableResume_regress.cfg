SPECIFICATION Spec
CONSTANTS
  a = a
  b = b
  c = c
  shared = shared
  alone = alone
  NoLease = NoLease
  Process = {a, b}
  Clone = {a, b}
  CloneOf <- OwnClone
  Ttl = {1}
  MaxClock = 0
  MaxGeneration = 3
  MaxManifests = 3
  MaxLeases = 0
INVARIANT CheckpointsAdvance
