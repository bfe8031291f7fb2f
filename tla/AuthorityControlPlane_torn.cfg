SPECIFICATION FairSpec
CONSTANTS
  s1 = s1
  s2 = s2
  git = git
  deploy = deploy
  Servers = {s1}
  Capabilities = {git}
  NoApproval = NoApproval
  NoCall = NoCall
  Faults <- AuditTornDeaths
  MaxPending = 2
  MaxGeneration = 3
PROPERTY RestartRevokesUnaudited
CHECK_DEADLOCK FALSE
