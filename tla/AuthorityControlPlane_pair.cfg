SPECIFICATION Spec
CONSTANTS
  s1 = s1
  s2 = s2
  git = git
  deploy = deploy
  Servers = {s1, s2}
  Capabilities = {git, deploy}
  NoApproval = NoApproval
  NoCall = NoCall
  Faults <- Every
  MaxPending = 1
  MaxGeneration = 3
SYMMETRY Symmetry
INVARIANT ValidatorNeverRefuses
INVARIANT ApprovalMatchesItsState
INVARIANT ActiveSinceLastStart
PROPERTY ActivatesOnlyWhatWasApproved
CHECK_DEADLOCK FALSE
