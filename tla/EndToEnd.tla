------------------------------- MODULE EndToEnd -------------------------------
(***************************************************************************)
(* An audit client and the audit server it reaches over connections of     *)
(* package conn: AuditClient and AuditServer joined where the code joins   *)
(* them.  create() is the check and the dial of a new connection, what the *)
(* real sender writes is what enters the socket, and whether a Write fails *)
(* is the socket's affair; all other steps are one side's alone.           *)
(*                                                                         *)
(* Package conn never wraps exponential.ErrPermanent, and the host accepts *)
(* its connections: on such a client nothing is ever closed or given up.   *)
(***************************************************************************)
EXTENDS AuditClient

CONSTANTS PoolLimit, BufCap, MaxWrites, MaxCloses, ResetMsgs   \* as in AuditServer

VARIABLES sock, job, listening, backlog, peer, stream, written,
          up, reader, decoded, msgCh, received                 \* as in AuditServer

Server == INSTANCE AuditServer WITH Msgs <- Records \cup {HeartbeatMsg}

ASSUME JointAssumption ==
  /\ HostAccepts /\ ConnType = "Socket"
  /\ PoolLimit \in Nat \ {0} /\ BufCap \in Nat \ {0}
  /\ MaxWrites \in Nat /\ MaxCloses \in Nat
  /\ ResetMsgs \subseteq Records

serverSide == <<up, reader, decoded, msgCh, received>>
connSide   == <<sock, job, listening, backlog, peer, stream, written>>
link       == <<connSide, serverSide>>
allVars    == <<vars, link>>

\* create() looks at the close pool.
CreateChecks ==
  /\ mgr \in {"new", "dial"}
  /\ \E c \in Fresh : Server!Check(c)
  /\ UNCHANGED <<serverSide, vars>>

\* create() returns a connection, the one the client starts a sender on.
CreateConnects ==
  /\ StartConnManager \/ ReconnectDial("ok")
  /\ \E c \in Fresh : sender' = c /\ Server!Dial(c)
  /\ UNCHANGED serverSide

\* The pool is full, or the bound leaves no connection to try.
Refused == Fresh = {} \/ Server!PoolIsFull

\* create() fails, with an error that does not end the client.
CreateFails ==
  /\ StartConnManager \/ ReconnectDial("retryable")
  /\ sender' = NoConn
  /\ Deferred => mgr' # "failed"
  /\ \/ \E c \in Fresh : Server!DialFails(c)
     \/ Refused /\ UNCHANGED connSide
  /\ UNCHANGED serverSide

\* The real sender's Write is the connection's.
WriteReaches ==
  /\ WriteOk("real")
  /\ Server!Write(sender, hand["real"])
  /\ UNCHANGED serverSide

\* It fails on the connection, or before it if the record cannot be encoded.
WriteIsLost ==
  /\ WriteFails("real")
  /\ IF Encodes("real") THEN Server!WriteFails(sender, hand["real"])
                        ELSE UNCHANGED connSide
  /\ UNCHANGED serverSide

\* What the client does by itself.
ClientStep ==
  \/ mgr \notin {"new", "dial"} /\ ManagerStep
  \/ \E k \in Senders : pc[k] # "write" /\ SenderStep(k)
  \/ WriteOk("noop")
  \/ UserStep
  \/ Quiescent

JointInit == Init /\ Server!Init
JointNext == \/ CreateChecks \/ CreateConnects \/ CreateFails
             \/ WriteReaches \/ WriteIsLost
             \/ ClientStep /\ UNCHANGED link
             \/ Server!ServerStep /\ UNCHANGED vars

JointSpec == JointInit /\ [][JointNext]_allVars

-------------------------------------------------------------------------------
\* Where a message is once its Write returned nil: packets of it at the server
\* or on their way to it.
Messages(packets) == {packets[i][2] : i \in DOMAIN packets}
Arriving(m) == UNION {{<<c, p>> : p \in {q \in Range(Server!Passed(c) \o Server!Whole(c)) :
                                           q[2] = m}} : c \in Conns}

\* A record is requeued when its Write failed, and written to the next
\* connection; still no record reaches the server twice, even as a part of it
\* left on the connection that failed.
AtMostOnce == \A r \in Records : Cardinality(Arriving(r)) <= 1

\* The client's metrics agree with the server: what has arrived or will was
\* counted as sent, and nothing counted as dropped does.
CountersAreTrue == \A r \in Records : Arriving(r) # {} => r \in sent

\* A record counted as sent is received or on its way unless it was written to
\* a connection the server closed, or never accepted.
SentArrives ==
  \A r \in sent : \/ Arriving(r) # {}
                  \/ \E c \in Conns : peer[c] = "gone" /\ r \in Messages(written[c])

\* The agent's requirement as the agent sees it: the first message it receives
\* on a connection is a record and the second a heartbeat, whatever was left in
\* sockets, queue and tickers when earlier connections failed.
AgentSeesRecordFirst ==
  \A c \in Conns : \A i \in DOMAIN received[c] :
    /\ i = 1 => received[c][i][2] # HeartbeatMsg
    /\ i = 2 => received[c][i][2] = HeartbeatMsg

\* An agent that is down, refuses, resets or stalls is waited for: a client
\* that came up never dies of it.
OutlivesTheAgent == ~clientDead /\ mgr \notin {"dying", "evict", "storeDead", "exited"}
===============================================================================
