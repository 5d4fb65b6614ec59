\* A linux host, a deferred start, connections that fail and are replaced, a record
\* that cannot be encoded.
CONSTANTS
  r1 = r1  r2 = r2  r3 = r3
  Records = {r1, r2, r3}
  AuditType <- AllControlPlane
  ValidRecords = {r1, r2, r3}
  Unencodable = {r3}
  QueueSize = 2
  NotifierCap = 2
  MaxClosers = 1
  Deferred = TRUE
  ConnType = "Socket"
  GOOS = "linux"
  CloseOutcomes = {"nil", "err"}
  MaxConns = 3
SPECIFICATION Spec
INVARIANT TypeOK
INVARIANT NoRecordLost
INVARIANT AtOnePlace
INVARIANT OneConsumer
INVARIANT RecordThenHeartbeat
PROPERTY DeadStaysDead
