\* A record that cannot be encoded ends a working connection.
CONSTANTS
  r1 = r1  r2 = r2  r3 = r3
  Records = {r1, r2, r3}
  AuditType <- AllControlPlane
  ValidRecords = {r1, r2, r3}
  Unencodable = {r2}
  QueueSize = 2
  NotifierCap = 2
  MaxClosers = 1
  Deferred = FALSE
  ConnType = "Socket"
  GOOS = "linux"
  CloseOutcomes = {"nil", "err"}
  MaxConns = 2
SPECIFICATION Spec
INVARIANT OnlyBrokenConnsEnd
