\* A host that is not linux: a deferred client finds its connection rejected
\* and dies while the closer runs and the user reads, or does not.
CONSTANTS
  r1 = r1  r2 = r2  r3 = r3
  Records = {r1, r3}
  AuditType <- LastIsHeartbeat
  ValidRecords = {r1, r3}
  Unencodable = {}
  QueueSize = 1
  NotifierCap = 2
  MaxClosers = 1
  Deferred = TRUE
  ConnType = "Socket"
  GOOS = "other"
  CloseOutcomes = {"nil", "err"}
  MaxConns = 2
SPECIFICATION FairSpec
INVARIANT DeathIsReported
INVARIANT NobodyServesMeansDead
INVARIANT NoRetryWhileClosing
PROPERTY DeathCompletes
