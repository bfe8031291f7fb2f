SPECIFICATION FairSpec
CONSTANTS
  s1 = s1
  s2 = s2
  git = git
  deploy = deploy
  Servers = {s1}
  Capabilities = {git, deploy}
  NoApproval = NoApproval
  NoCall = NoCall
  Faults <- AuditTornDeaths
  MaxPending = 2
  MaxGeneration = 4
INVARIANT TypeOK
INVARIANT ActiveIsAudited
PROPERTY UnauditedActivationEnds
CHECK_DEADLOCK FALSE
