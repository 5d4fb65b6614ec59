------------------------------ MODULE AuditConn ------------------------------
(***************************************************************************)
(* Connections to an audit server (package conn and its writer): the check *)
(* of the close pool and the dial of NewDomainSocket and NewTCPConn, Write *)
(* under its deadline, and CloseSend, which hands the socket to the pool.  *)
(*                                                                         *)
(* The kernel's side of a stream socket is here too, external to the       *)
(* repository: the backlog of the listener, the bytes in flight as whole   *)
(* messages and at most one fragment, the two ends.  The server's steps on *)
(* them are AuditServer's.                                                 *)
(***************************************************************************)
EXTENDS Integers, Sequences, FiniteSets, Functions

CONSTANTS
  Conns,       \* one element per connection that is ever tried
  Msgs,        \* what is written
  PoolLimit,   \* closes under way that forbid a new connection, 10 in the code
  BufCap,      \* messages a socket holds before Write blocks
  MaxWrites,   \* bound: messages written to a connection
  MaxCloses    \* bound: calls of CloseSend on a connection

ASSUME ConnAssumption ==
  /\ PoolLimit \in Nat \ {0} /\ BufCap \in Nat \ {0}
  /\ MaxWrites \in Nat /\ MaxCloses \in Nat

VARIABLES
  sock,       \* the client's end of each connection
  job,        \* the function CloseSend submits to ClosePool, by call
  listening,  \* somebody listens at the address
  backlog,    \* connections that wait to be accepted
  peer,       \* the server's end
  stream,     \* what is in flight: packets, perhaps Cut at the end
  written     \* the packets of the Writes that returned nil (history)

linkVars == <<listening, backlog, peer>>
connVars == <<sock, job, linkVars, stream, written>>

\* A message and which of its connection's it is.
Packets      == (1..(MaxWrites + 1)) \X Msgs
Packet(c, m) == <<Len(written[c]) + 1, m>>

\* The beginning of a message whose Write failed.
Cut == <<0, "cut">>

Jobs == Conns \X (1..MaxCloses)

ConnTypeOK ==
  /\ sock \in [Conns -> {"new", "checked", "open", "failed", "closed"}]
  /\ job \in [Jobs -> {"none", "running", "hung", "done"}]
  /\ listening \in BOOLEAN
  /\ backlog \in Seq(Conns)
  /\ peer \in [Conns -> {"none", "backlog", "accepted", "gone"}]
  /\ stream \in [Conns -> Seq(Packets \cup {Cut})]
  /\ written \in [Conns -> Seq(Packets)]

ConnInit ==
  /\ sock = [c \in Conns |-> "new"]
  /\ job = [j \in Jobs |-> "none"]
  /\ listening = FALSE
  /\ backlog = <<>>
  /\ peer = [c \in Conns |-> "none"]
  /\ stream = [c \in Conns |-> <<>>]
  /\ written = [c \in Conns |-> <<>>]

-------------------------------------------------------------------------------
Hung == {j \in Jobs : job[j] = "hung"}

\* Mutant: a function that returned still counts.
Pool_NeverShrinks == {j \in Jobs : job[j] # "none"}

\* The functions ClosePool.Len() counts: those that have not returned.
Pool == {j \in Jobs : job[j] \in {"running", "hung"}}

\* The check NewDomainSocket and NewTCPConn begin with.
PoolIsFull == Cardinality(Pool) >= PoolLimit

\* A new connection passes it; if it does not an error is all there is.
Check(c) ==
  /\ sock[c] = "new"
  /\ ~PoolIsFull
  /\ sock' = [sock EXCEPT ![c] = "checked"]
  /\ UNCHANGED <<job, linkVars, stream, written>>

\* DialTimeout succeeds; the kernel queues the connection for the listener.
Dial(c) ==
  /\ sock[c] = "checked"
  /\ listening
  /\ sock' = [sock EXCEPT ![c] = "open"]
  /\ peer' = [peer EXCEPT ![c] = "backlog"]
  /\ backlog' = Append(backlog, c)
  /\ UNCHANGED <<job, listening, stream, written>>

\* DialTimeout fails: nobody listens, or ten seconds have passed.
DialFails(c) ==
  /\ sock[c] = "checked"
  /\ sock' = [sock EXCEPT ![c] = "new"]
  /\ UNCHANGED <<job, linkVars, stream, written>>

\* Somebody is, or will be, at the other end.
Connected(c) == peer[c] \in {"backlog", "accepted"}

\* Write returns nil: the socket has taken the whole message.
Write(c, m) ==
  /\ sock[c] = "open"
  /\ Connected(c)
  /\ Len(stream[c]) < BufCap
  /\ Len(written[c]) < MaxWrites
  /\ stream' = [stream EXCEPT ![c] = Append(@, Packet(c, m))]
  /\ written' = [written EXCEPT ![c] = Append(@, Packet(c, m))]
  /\ UNCHANGED <<sock, job, linkVars>>

\* Mutant: a Write that fails has sent everything.
Remains_Whole(p) == {<<>>, <<p>>}

\* What a Write that fails has sent: nothing, or a part of the message.
Remains(p) == {<<>>, <<Cut>>}

\* Write returns an error: the other end is gone, the deadline has passed or
\* the socket is broken.  The message sender, the only caller, never writes to
\* the connection again.
WriteFails(c, m) ==
  /\ sock[c] = "open"
  /\ sock' = [sock EXCEPT ![c] = "failed"]
  /\ \E rest \in Remains(Packet(c, m)) :
       stream' = [stream EXCEPT ![c] = IF Connected(c) THEN @ \o rest ELSE @]
  /\ UNCHANGED <<job, linkVars, written>>

\* CloseSend submits the close and returns nil; it may be called again.
CloseSend(c) ==
  /\ sock[c] \in {"open", "failed", "closed"}
  /\ \E n \in 1..MaxCloses :
       /\ job[<<c, n>>] = "none"
       /\ \A k \in 1..(n - 1) : job[<<c, k>>] # "none"
       /\ job' = [job EXCEPT ![<<c, n>>] = "running"]
  /\ UNCHANGED <<sock, linkVars, stream, written>>

\* conn.Close() returns, with an error if it is not the first.
CloseReturns(j) ==
  /\ job[j] = "running"
  /\ job' = [job EXCEPT ![j] = "done"]
  /\ sock' = [sock EXCEPT ![j[1]] = "closed"]
  /\ UNCHANGED <<linkVars, stream, written>>

\* conn.Close() never returns.
CloseHangs(j) ==
  /\ job[j] = "running"
  /\ job' = [job EXCEPT ![j] = "hung"]
  /\ UNCHANGED <<sock, linkVars, stream, written>>

ClientStep(c) == \/ Check(c) \/ Dial(c) \/ DialFails(c)
                 \/ \E m \in Msgs : Write(c, m) \/ WriteFails(c, m)
                 \/ CloseSend(c)
                 \/ \E n \in 1..MaxCloses :
                      CloseReturns(<<c, n>>) \/ CloseHangs(<<c, n>>)
===============================================================================
