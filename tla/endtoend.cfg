\* A client with a periodic heartbeat and a server that may stop listening or reset
\* the connection that brings r2.
CONSTANTS
  r1 = r1  r2 = r2  r3 = r3
  Records = {r1, r2, r3}
  AuditType <- AllControlPlane
  ValidRecords = {r1, r2, r3}
  Unencodable = {}
  QueueSize = 1
  NotifierCap = 1
  MaxClosers = 1
  Deferred = FALSE
  ConnType = "Socket"
  GOOS = "linux"
  CloseOutcomes = {"nil"}
  MaxConns = 2
  PoolLimit = 1
  BufCap = 2
  MaxWrites = 3
  MaxCloses = 1
  ResetMsgs = {r2}
SYMMETRY PlainRecords
SPECIFICATION JointSpec
INVARIANT AtMostOnce
INVARIANT CountersAreTrue
INVARIANT SentArrives
INVARIANT AgentSeesRecordFirst
INVARIANT OutlivesTheAgent
PROPERTY ImplementsLog
