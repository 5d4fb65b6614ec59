\* A Send that found the client alive queues a record in a dead one.
CONSTANTS
  r1 = r1  r2 = r2  r3 = r3
  Records = {r1, r2, r3}
  AuditType <- AllControlPlane
  ValidRecords = {r1, r2, r3}
  Unencodable = {}
  QueueSize = 2
  NotifierCap = 2
  MaxClosers = 1
  Deferred = TRUE
  ConnType = "Socket"
  GOOS = "linux"
  CloseOutcomes = {"nil", "err"}
  MaxConns = 2
SPECIFICATION Spec
PROPERTY DeadAcceptsNothing
