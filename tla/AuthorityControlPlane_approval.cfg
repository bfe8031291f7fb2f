SPECIFICATION Spec
CONSTANTS
  s1 = s1
  s2 = s2
  git = git
  deploy = deploy
  Servers = {s1}
  Capabilities = {git}
  NoApproval = NoApproval
  NoCall = NoCall
  Faults <- AuditOnly
  MaxPending = 2
  MaxGeneration = 3
INVARIANT ActiveHasAuditedApproval
CHECK_DEADLOCK FALSE
