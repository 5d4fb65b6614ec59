\* Records are settled and a deferred start ends on a linux host, while connections
\* fail again and again and a record that cannot be encoded comes back again and again.
CONSTANTS
  r1 = r1  r2 = r2  r3 = r3
  Records = {r1, r3}
  AuditType <- AllControlPlane
  ValidRecords = {r1, r3}
  Unencodable = {r3}
  QueueSize = 2
  NotifierCap = 2
  MaxClosers = 1
  Deferred = TRUE
  ConnType = "Socket"
  GOOS = "linux"
  CloseOutcomes = {"nil", "err"}
  MaxConns = 1
SPECIFICATION LiveSpec
PROPERTY AcceptedIsSettled
PROPERTY DeferredIsUpgraded
