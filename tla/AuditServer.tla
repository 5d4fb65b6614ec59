----------------------------- MODULE AuditServer -----------------------------
(***************************************************************************)
(* The test server (server.go): an accept loop, a reader goroutine for     *)
(* each accepted connection, and the channel of capacity one they share.   *)
(* Connections and their clients are AuditConn's.                          *)
(***************************************************************************)
EXTENDS AuditConn

CONSTANT ResetMsgs    \* the records whose OperationAccessLevel is "resetConn"

ASSUME ResetAssumption == ResetMsgs \subseteq Msgs

AsksReset(p) == p[2] \in ResetMsgs

MsgChCap == 1

VARIABLES
  up,         \* the server was made
  reader,     \* the reader goroutine of each connection
  decoded,       \* the record it has decoded
  msgCh,      \* AuditRecordTest.msgCh, each record with its connection
  received    \* what the user of MsgCh() took, by connection (history)

readerVars == <<reader, decoded, msgCh, received>>
vars == <<connVars, up, readerVars>>

ServerTypeOK ==
  /\ up \in BOOLEAN
  /\ reader \in [Conns -> {"none", "decode", "put", "done"}]
  /\ decoded \in [Conns -> Seq(Packets)]
  /\ msgCh \in Seq(Conns \X Packets) /\ Len(msgCh) <= MsgChCap
  /\ received \in [Conns -> Seq(Packets)]

ServerInit ==
  /\ up = FALSE
  /\ reader = [c \in Conns |-> "none"]
  /\ decoded = [c \in Conns |-> <<>>]
  /\ msgCh = <<>>
  /\ received = [c \in Conns |-> <<>>]

\* New: it listens and starts the accept loop.
Listen ==
  /\ ~up
  /\ up' = TRUE
  /\ listening' = TRUE
  /\ UNCHANGED <<sock, job, backlog, peer, stream, written, readerVars>>

\* accept: one more connection, and its reader.
Accept ==
  /\ listening /\ backlog # <<>>
  /\ backlog' = Tail(backlog)
  /\ peer' = [peer EXCEPT ![Head(backlog)] = "accepted"]
  /\ reader' = [reader EXCEPT ![Head(backlog)] = "decode"]
  /\ UNCHANGED <<sock, job, listening, stream, written, up, decoded, msgCh, received>>

\* Mutant: Close ends the accepted connections too.
Orphans_All == {c \in Conns : peer[c] # "none"}

\* The connections nobody will ever accept.
Orphans == {c \in Conns : peer[c] = "backlog"}

\* Close, or an Accept that fails, closes the listener: the accept loop ends
\* and what waits in the backlog is lost.
StopListening ==
  /\ listening
  /\ listening' = FALSE
  /\ backlog' = <<>>
  /\ peer' = [c \in Conns |-> IF c \in Orphans THEN "gone" ELSE peer[c]]
  /\ stream' = [c \in Conns |-> IF c \in Orphans THEN <<>> ELSE stream[c]]
  /\ UNCHANGED <<sock, job, written, up, readerVars>>

\* Mutant: the record that asks for a reset is passed on, the connection kept.
Read_NoReset(c) ==
  /\ reader[c] = "decode"
  /\ stream[c] # <<>> /\ Head(stream[c]) # Cut
  /\ reader' = [reader EXCEPT ![c] = "put"]
  /\ decoded' = [decoded EXCEPT ![c] = <<Head(stream[c])>>]
  /\ stream' = [stream EXCEPT ![c] = Tail(@)]
  /\ UNCHANGED <<sock, job, linkVars, written, up, msgCh, received>>

\* readMsgs decodes a record.  One that asks for a reset makes it close the
\* connection and return, with whatever else was in flight.
Read(c) ==
  /\ reader[c] = "decode"
  /\ stream[c] # <<>> /\ Head(stream[c]) # Cut
  /\ IF AsksReset(Head(stream[c]))
     THEN /\ reader' = [reader EXCEPT ![c] = "done"]
          /\ peer' = [peer EXCEPT ![c] = "gone"]
          /\ stream' = [stream EXCEPT ![c] = <<>>]
          /\ UNCHANGED decoded
     ELSE /\ reader' = [reader EXCEPT ![c] = "put"]
          /\ decoded' = [decoded EXCEPT ![c] = <<Head(stream[c])>>]
          /\ stream' = [stream EXCEPT ![c] = Tail(@)]
          /\ UNCHANGED peer
  /\ UNCHANGED <<sock, job, listening, backlog, written, up, msgCh, received>>

\* Decode fails at the end of the stream, in a fragment or after a message.
\* The reader returns and leaves its end of the connection open.
ReadFails(c) ==
  /\ reader[c] = "decode"
  /\ sock[c] = "closed"
  /\ stream[c] \in {<<>>, <<Cut>>}
  /\ reader' = [reader EXCEPT ![c] = "done"]
  /\ UNCHANGED <<connVars, up, decoded, msgCh, received>>

\* Mutant: the reader does not wait for room.
Put_Drops(c) ==
  /\ reader[c] = "put"
  /\ msgCh' = IF Len(msgCh) < MsgChCap THEN Append(msgCh, <<c, decoded[c][1]>>) ELSE msgCh
  /\ reader' = [reader EXCEPT ![c] = "decode"]
  /\ decoded' = [decoded EXCEPT ![c] = <<>>]
  /\ UNCHANGED <<connVars, up, received>>

\* readMsgs sends the record on msgCh, which has room for one.
Put(c) ==
  /\ reader[c] = "put"
  /\ Len(msgCh) < MsgChCap
  /\ msgCh' = Append(msgCh, <<c, decoded[c][1]>>)
  /\ reader' = [reader EXCEPT ![c] = "decode"]
  /\ decoded' = [decoded EXCEPT ![c] = <<>>]
  /\ UNCHANGED <<connVars, up, received>>

\* The user of MsgCh() takes a record.
Take ==
  /\ msgCh # <<>>
  /\ LET from == Head(msgCh)[1]
     IN  received' = [received EXCEPT ![from] = Append(@, Head(msgCh)[2])]
  /\ msgCh' = Tail(msgCh)
  /\ UNCHANGED <<connVars, up, reader, decoded>>

ServerStep == \/ Listen \/ Accept \/ StopListening
              \/ \E c \in Conns : Read(c) \/ ReadFails(c) \/ Put(c)
              \/ Take

ConnStep == (\E c \in Conns : ClientStep(c)) /\ UNCHANGED <<up, readerVars>>

Init == ConnInit /\ ServerInit
Next == ServerStep \/ ConnStep
Spec == Init /\ [][Next]_vars

\* Fairness.  The server's goroutines run; those that wait for room in msgCh
\* are served in turn (SF), as Go's channels do, and its user keeps reading.
\* Creators of connections try again, and a close returns or hangs.
Fairness ==
  /\ WF_vars(Take)
  /\ \A c \in Conns : /\ WF_vars(Read(c) \/ ReadFails(c))
                      /\ SF_vars(Put(c))
                      /\ WF_vars(Check(c) /\ UNCHANGED <<up, readerVars>>)
  /\ \A j \in Jobs : WF_vars((CloseReturns(j) \/ CloseHangs(j))
                               /\ UNCHANGED <<up, readerVars>>)

FairSpec == Spec /\ Fairness

-------------------------------------------------------------------------------
\* What has come from connection c, in the order it was decoded; msgCh holds
\* one record at most.
InCh(c)   == IF msgCh # <<>> /\ Head(msgCh)[1] = c THEN <<Head(msgCh)[2]>> ELSE <<>>
Passed(c) == received[c] \o InCh(c) \o decoded[c]

\* The messages in flight that are whole: all but a fragment at the end.
EndsCut(s) == s # <<>> /\ s[Len(s)] = Cut
WholeOf(s) == IF EndsCut(s) THEN SubSeq(s, 1, Len(s) - 1) ELSE s
Whole(c)   == WholeOf(stream[c])

\* Nothing is lost, repeated or overtaken between a Write that returned nil
\* and the user of MsgCh(), whichever readers compete for the channel, nor is
\* a Write that failed ever seen; once the server has reset a connection, what
\* was passed on is all that was written before the record that asked for it,
\* and that record is never passed on.
InOrder ==
  \A c \in Conns :
    /\ \A i \in DOMAIN Passed(c) : ~AsksReset(Passed(c)[i])
    /\ CASE peer[c] # "gone" -> written[c] = Passed(c) \o Whole(c)
         [] peer[c] = "gone" /\ reader[c] = "none" -> Passed(c) = <<>>
         [] OTHER -> LET n == Len(Passed(c))
                     IN  /\ n < Len(written[c])
                         /\ Passed(c) = SubSeq(written[c], 1, n)
                         /\ AsksReset(written[c][n + 1])

\* server.go:109-111: "Connections already accepted are left alone and stay
\* readable" after Close.  What is written to one is received, whatever the
\* other connections, the listener and the client's CloseSend do, unless a
\* reset was asked for before.
AcceptedStayReadable ==
  \A c \in Conns, n \in 1..MaxWrites :
    peer[c] = "accepted" /\ Len(written[c]) >= n
      ~> \/ Len(received[c]) >= n
         \/ \E i \in DOMAIN written[c] : i <= n /\ AsksReset(written[c][i])

\* The pool's limit refuses a connection for as long as closes are under way,
\* not for ever, unless as many as the limit hang.
RefusalsEnd ==
  \A c \in Conns : sock[c] = "new" ~> sock[c] # "new" \/ Cardinality(Hung) >= PoolLimit
===============================================================================
