\* Connections the manager gives up are never closed.
CONSTANTS
  r1 = r1  r2 = r2  r3 = r3
  Records = {r1}
  AuditType <- AllControlPlane
  ValidRecords = {r1}
  Unencodable = {}
  QueueSize = 1
  NotifierCap = 2
  MaxClosers = 1
  Deferred = FALSE
  ConnType = "Socket"
  GOOS = "linux"
  CloseOutcomes = {"nil", "err"}
  MaxConns = 4
SPECIFICATION Spec
INVARIANT UnclosedConnsStopRetries
