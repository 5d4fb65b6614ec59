\* Two connections share the server's channel; one close fills the pool.
CONSTANTS
  c1 = c1  c2 = c2  plain = plain  reset = reset
  Conns = {c1, c2}
  Msgs = {plain, reset}
  ResetMsgs = {reset}
  PoolLimit = 1
  BufCap = 2
  MaxWrites = 2
  MaxCloses = 1
SPECIFICATION FairSpec
INVARIANT InOrder
PROPERTY AcceptedStayReadable
PROPERTY RefusalsEnd
CHECK_DEADLOCK FALSE
