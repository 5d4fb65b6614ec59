---------------------------- MODULE EndToEndProofs ----------------------------
(***************************************************************************)
(* What holds of a client and the server it reaches, for any records,      *)
(* connections and limits.                                                 *)
(*                                                                         *)
(* The argument: every step of the two is a step of the client, or none,   *)
(* and of the connections and the server, or none; so what is proved of    *)
(* each side holds of the two.  Joined to it are Alive, Hands and Tallied: *)
(* that the client never gives up, that it writes only messages, and that  *)
(* what was written to the connections is what the client's books say.     *)
(***************************************************************************)
EXTENDS EndToEnd, AuditClientRefinement

\* The server's theorems, of the messages a client writes.
Srv == INSTANCE AuditServerProofs WITH Msgs <- Records \cup {HeartbeatMsg}

-------------------------------------------------------------------------------
(***************************************************************************)
(* The client's side.                                                      *)
(***************************************************************************)

\* What is proved of the client.
ClientInv == TypeOK /\ Control /\ Places /\ Death /\ FirstMessages

\* What the client does with the server is one of its own steps or none.
LEMMA ClientTakesSteps == JointNext => [Next]_vars
<1> USE DEF ManagerStep, SenderStep, Senders, Outcomes
<1>1. CreateChecks => UNCHANGED vars
  BY DEF CreateChecks
<1>2. CreateConnects \/ CreateFails => ManagerStep
  BY DEF CreateConnects, CreateFails
<1>3. WriteReaches \/ WriteIsLost => \E k \in Senders : SenderStep(k)
  BY DEF WriteReaches, WriteIsLost
<1>4. ClientStep => Next
  BY DEF ClientStep, Next
<1> QED BY <1>1, <1>2, <1>3, <1>4 DEF JointNext, Next

\* A client that is joined to a server is a client.
LEMMA ClientAlways == JointSpec => Spec /\ []ClientInv
<1>1. [JointNext]_allVars => [Next]_vars
  BY ClientTakesSteps DEF allVars
<1>2. JointSpec => Spec
  BY <1>1, PTL DEF JointSpec, JointInit, Spec
<1>3. Spec => []ClientInv
  BY PlacesAlways, FirstMessagesAlways, PTL DEF ClientInv
<1> QED BY <1>2, <1>3, PTL

-------------------------------------------------------------------------------
(***************************************************************************)
(* The server's side.                                                      *)
(***************************************************************************)

\* The limits are what AuditServer assumes of them.
LEMMA SrvAssumptions == Srv!ConnAssumption /\ Srv!ResetAssumption
  BY JointAssumption DEF Srv!ConnAssumption, Srv!ResetAssumption

\* EndToEnd's instance of AuditServer, and that of its proofs, say the same: of
\* states first.
LEMMA SameStates ==
  /\ Server!Init <=> Srv!Init
  /\ \A c : Server!Passed(c) = Srv!Passed(c) /\ Server!Whole(c) = Srv!Whole(c)
<1>1. Server!Init <=> Srv!Init
  BY DEF Server!Init, Srv!Init, Server!ConnInit, Srv!ConnInit, Server!Jobs, Srv!Jobs,
         Server!ServerInit, Srv!ServerInit
<1>2. \A c : Server!Passed(c) = Srv!Passed(c) /\ Server!Whole(c) = Srv!Whole(c)
  BY DEF Server!Passed, Srv!Passed, Server!InCh, Srv!InCh, Server!Whole, Srv!Whole,
         Server!WholeOf, Srv!WholeOf, Server!EndsCut, Srv!EndsCut, Server!Cut, Srv!Cut
<1> QED BY <1>1, <1>2

\* Of the steps of a connection that a client takes.
LEMMA SameConnSteps ==
  /\ \A c : Server!Check(c) <=> Srv!Check(c)
  /\ \A c : Server!Dial(c) <=> Srv!Dial(c)
  /\ \A c : Server!DialFails(c) <=> Srv!DialFails(c)
  /\ \A c, m : Server!Write(c, m) <=> Srv!Write(c, m)
  /\ \A c, m : Server!WriteFails(c, m) <=> Srv!WriteFails(c, m)
<1> USE DEF Server!linkVars, Srv!linkVars
<1>1. \A c : Server!Check(c) <=> Srv!Check(c)
  BY DEF Server!Check, Srv!Check, Server!PoolIsFull, Srv!PoolIsFull, Server!Pool, Srv!Pool,
         Server!Jobs, Srv!Jobs, Server!Cardinality, Srv!Cardinality
<1>2. \A c : Server!Dial(c) <=> Srv!Dial(c)
  BY DEF Server!Dial, Srv!Dial
<1>3. \A c : Server!DialFails(c) <=> Srv!DialFails(c)
  BY DEF Server!DialFails, Srv!DialFails
<1>4. \A c, m : Server!Write(c, m) <=> Srv!Write(c, m)
  BY DEF Server!Write, Srv!Write, Server!Connected, Srv!Connected, Server!Packet, Srv!Packet
<1>5. \A c, m : Server!WriteFails(c, m) <=> Srv!WriteFails(c, m)
  BY DEF Server!WriteFails, Srv!WriteFails, Server!Connected, Srv!Connected,
         Server!Packet, Srv!Packet, Server!Remains, Srv!Remains, Server!Cut, Srv!Cut
<1> QED BY <1>1, <1>2, <1>3, <1>4, <1>5

\* Of the steps of the server.
LEMMA SameServerSteps == Server!ServerStep <=> Srv!ServerStep
<1> USE DEF Server!linkVars, Srv!linkVars, Server!connVars, Srv!connVars,
            Server!readerVars, Srv!readerVars
<1>1. Server!Listen <=> Srv!Listen
  BY DEF Server!Listen, Srv!Listen
<1>2. Server!Accept <=> Srv!Accept
  BY DEF Server!Accept, Srv!Accept
<1>3. Server!StopListening <=> Srv!StopListening
  BY DEF Server!StopListening, Srv!StopListening, Server!Orphans, Srv!Orphans
<1>4. \A c : Server!Read(c) <=> Srv!Read(c)
  BY DEF Server!Read, Srv!Read, Server!AsksReset, Srv!AsksReset, Server!Cut, Srv!Cut
<1>5. \A c : Server!ReadFails(c) <=> Srv!ReadFails(c)
  BY DEF Server!ReadFails, Srv!ReadFails, Server!Cut, Srv!Cut
<1>6. \A c : Server!Put(c) <=> Srv!Put(c)
  BY DEF Server!Put, Srv!Put, Server!MsgChCap, Srv!MsgChCap
<1>7. Server!Take <=> Srv!Take
  BY DEF Server!Take, Srv!Take
<1> QED BY <1>1, <1>2, <1>3, <1>4, <1>5, <1>6, <1>7 DEF Server!ServerStep, Srv!ServerStep


-------------------------------------------------------------------------------
(***************************************************************************)
(* A client that lives.                                                    *)
(***************************************************************************)

\* Nothing is closed and no error is permanent: what leads to the death of a
\* client never begins.
Alive == /\ ~clientDead
         /\ mgr \notin {"permErr", "dying", "evict", "storeDead", "exited"}
         /\ Closing = {}

\* What the real sender is about to write is a record or a heartbeat.
Hands == pc["real"] = "write" => hand["real"] \in Records \cup {HeartbeatMsg}

-------------------------------------------------------------------------------
(***************************************************************************)
(* What the client's books say of what was written.                        *)
(***************************************************************************)
\* The i-th message written to c.
MsgAt(c, i) == written[c][i][2]

\* A record was written once and is counted as sent; the first message of a
\* connection is no heartbeat and the second is one; what the client remembers of
\* a connection is the beginning of what was written to it.
Tallied ==
  /\ \A c \in Conns : \A i \in DOMAIN written[c] :
       /\ MsgAt(c, i) \in Records => MsgAt(c, i) \in sent
       /\ i = 1 => MsgAt(c, i) # HeartbeatMsg
       /\ i = 2 => MsgAt(c, i) = HeartbeatMsg
  /\ \A c, d \in Conns : \A i \in DOMAIN written[c], j \in DOMAIN written[d] :
       MsgAt(c, i) \in Records /\ MsgAt(c, i) = MsgAt(d, j) => c = d /\ i = j
  /\ \A r \in sent : \E c \in Conns : \E i \in DOMAIN written[c] : MsgAt(c, i) = r
  /\ \A c \in Conns : /\ Len(written[c]) = 0 <=> wire[c] = <<>>
                      /\ Len(written[c]) = 1 <=> wire[c] = <<"record">>

-------------------------------------------------------------------------------
(***************************************************************************)
(* Alive.                                                                  *)
(***************************************************************************)

\* create() fails or connects; nothing else ends a client, and nothing it does
\* begins a close.
LEMMA AliveStep == ClientInv /\ Alive /\ [JointNext]_allVars => Alive'
<1> SUFFICES ASSUME ClientInv, Alive, [JointNext]_allVars PROVE Alive'
  OBVIOUS
<1> USE DEF userVars, senderVars, connVars, fateVars, mgrVars, link, serverSide
<1>a. NoConn \notin Conns /\ Fresh \subseteq Conns
  BY SizeAssumption DEF NoConn, Conns, Fresh
<1>b. HostAccepts
  BY JointAssumption
<1>c. \A c \in Conns : conns[c] # "closing"
  BY DEF Alive, Closing
<1>d. conns \in [Conns -> ConnStates]
  BY DEF ClientInv, TypeOK
<1>e. ASSUME UNCHANGED <<clientDead, mgr, conns>> PROVE Alive'
  BY <1>e DEF Alive, Closing
<1>f. ASSUME NEW o \in {"ok", "retryable", "permanent"}, CreateSender(o)
      PROVE  Closing' = {} /\ (sender' = NoConn <=> o # "ok")
  <2>1. CASE o = "ok"
    BY <1>a, <1>c, <1>d, <1>f, <2>1 DEF CreateSender, Closing
  <2>2. CASE o # "ok"
    BY <1>c, <1>f, <2>2 DEF CreateSender, Closing
  <2> QED BY <2>1, <2>2
<1>g. ~CreateSender("rejected")
  BY <1>b DEF CreateSender
<1>1. ASSUME StartConnManager PROVE Alive'
  <2>1. PICK o \in {"ok", "retryable", "permanent"} :
          /\ CreateSender(o)
          /\ mgr' \in {"serving", "defer", "failed"}
    BY <1>1, <1>g DEF StartConnManager, Outcomes
  <2> QED BY <1>1, <1>f, <2>1 DEF StartConnManager, Alive
<1>2. ASSUME NEW o \in {"ok", "retryable"}, ReconnectDial(o) PROVE Alive'
  <2>1. mgr' \in {"retryErr", "stopNoop", "serving"}
    BY <1>2 DEF ReconnectDial, AfterError
  <2> QED BY <1>2, <1>f, <2>1 DEF ReconnectDial, Alive
<1>3. CASE CreateChecks
  BY <1>3, <1>e DEF CreateChecks, vars
<1>4. CASE CreateConnects \/ CreateFails
  BY <1>1, <1>2, <1>4 DEF CreateConnects, CreateFails
<1>5. ASSUME NEW k \in Senders, SenderStep(k) PROVE Alive'
  BY <1>5, <1>e DEF SenderStep, SenderLoop, SelectDone, SelectMsg, SelectTick, WriteOk,
                    WriteFails, SenderFails, TickFires
<1>6. CASE WriteReaches \/ WriteIsLost
  BY <1>5, <1>6 DEF WriteReaches, WriteIsLost, SenderStep, Senders
<1>7. CASE ClientStep
  <2>1. ASSUME mgr \notin {"new", "dial"}, ManagerStep PROVE Alive'
    <3>1. ASSUME DeferredConnect \/ CancelNoop PROVE Alive'
      BY <3>1 DEF DeferredConnect, CancelNoop, Alive, Closing
    <3>2. ASSUME ReconnectAttempt PROVE Alive'
      <4>1. ~(Cardinality(Closing) > MaxClosers)
        BY FS_EmptySet, SizeAssumption DEF Alive
      <4> QED BY <3>2, <4>1 DEF ReconnectAttempt, Goto, Alive, Closing
    <3>3. ASSUME ReconnectError PROVE Alive'
      BY <3>3 DEF ReconnectError, Goto, Alive, Closing
    <3>4. ASSUME AwaitNoop PROVE Alive'
      <4>1. sender # NoConn
        BY <3>4 DEF AwaitNoop, ClientInv, Death, Alive
      <4> QED BY <3>4, <4>1 DEF AwaitNoop, Alive, Closing
    <3>5. ASSUME SenderLost PROVE Alive'
      <4>1. ~StoppedByCaller
        BY DEF StoppedByCaller, ClientInv, Control
      <4>2. \A c \in Conns : conns'[c] # "closing"
        BY <1>c, <1>d, <3>5, <4>1 DEF SenderLost
      <4> QED BY <3>5, <4>1, <4>2 DEF SenderLost, Alive, Closing
    <3>6. ~(StartConnManager \/ \E o \in Outcomes : ReconnectDial(o))
      BY <2>1 DEF StartConnManager, ReconnectDial
    <3>7. ~(PutDeadNotice \/ EvictOldest \/ StoreDead)
      BY DEF PutDeadNotice, EvictOldest, StoreDead, Alive
    <3> QED BY <2>1, <3>1, <3>2, <3>3, <3>4, <3>5, <3>6, <3>7 DEF ManagerStep
  <2>2. ASSUME UserStep \/ Quiescent PROVE Alive'
    BY <2>2, <1>e DEF UserStep, SendChecks, SendPuts, ReadNotify, Quiescent, vars
  <2> QED BY <1>5, <1>7, <2>1, <2>2 DEF ClientStep, SenderStep, Senders
<1>8. CASE UNCHANGED vars
  BY <1>8, <1>e DEF vars
<1> QED BY <1>3, <1>4, <1>6, <1>7, <1>8 DEF JointNext, allVars

\* An agent that is down, refuses, resets or stalls is waited for: however
\* often, a client that came up never dies of it.
THEOREM OutlivesTheAgentAlways == JointSpec => []OutlivesTheAgent
<1>1. JointInit => Alive
  BY DEF JointInit, Init, Alive, Closing
<1>2. Alive => OutlivesTheAgent
  BY DEF Alive, OutlivesTheAgent
<1> QED BY <1>1, <1>2, AliveStep, ClientAlways, PTL DEF JointSpec

-------------------------------------------------------------------------------
(***************************************************************************)
(* Hands.                                                                  *)
(***************************************************************************)

\* A message comes into a hand where pc comes to "write", or stays there for the
\* heartbeat.
LEMMA HandsStep == ClientInv /\ Hands /\ [JointNext]_allVars => Hands'
<1> SUFFICES ASSUME ClientInv, Hands, [JointNext]_allVars PROVE Hands'
  OBVIOUS
<1> USE DEF userVars, senderVars, connVars, fateVars, mgrVars
<1>a. /\ pc \in [Senders -> SenderPCs] /\ sendCh \in Seq(Records)
      /\ hand \in [Senders -> Records \cup {HeartbeatMsg, NoMsg}]
      /\ "real" \in Senders
  BY DEF ClientInv, TypeOK, Senders
<1>b. ASSUME UNCHANGED senderVars PROVE Hands'
  BY <1>b DEF Hands
<1>c. ASSUME NEW k \in Senders, StartSender(k) \/ \E res : EndSender(k, res) PROVE Hands'
  BY <1>a, <1>c DEF StartSender, EndSender, Hands
<1>1. ASSUME ManagerStep PROVE Hands'
  <2>1. (\E k \in Senders : StartSender(k)) \/ UNCHANGED senderVars
    BY <1>1 DEF ManagerStep, StartConnManager, DeferredConnect, ReconnectAttempt,
                ReconnectDial, ReconnectError, PutDeadNotice, EvictOldest, StoreDead,
                CancelNoop, AwaitNoop, SenderLost, Goto, Senders
  <2> QED BY <1>b, <1>c, <2>1
<1>2. ASSUME NEW k \in Senders, SenderStep(k) PROVE Hands'
  <2>1. ASSUME SenderLoop(k) PROVE Hands'
    <3>1. CASE Cancelled(k)
      BY <1>c, <2>1, <3>1 DEF SenderLoop
    <3>2. CASE ~Cancelled(k)
      BY <1>a, <2>1, <3>2 DEF SenderLoop, Hands
    <3> QED BY <3>1, <3>2
  <2>2. ASSUME SelectDone(k) \/ SenderFails(k) PROVE Hands'
    BY <1>c, <2>2 DEF SelectDone, SenderFails
  <2>3. ASSUME SelectMsg(k) PROVE Hands'
    <3>1. Head(sendCh) \in Records
      BY <1>a, <2>3, HeadTailProperties DEF SelectMsg
    <3> QED BY <1>a, <2>3, <3>1 DEF SelectMsg, Hands
  <2>4. ASSUME SelectTick(k) \/ TickFires(k) PROVE Hands'
    BY <2>4, <1>a DEF SelectTick, TickFires, Hands
  <2>5. ASSUME WriteOk(k) PROVE Hands'
    BY <1>a, <2>5 DEF WriteOk, NextMessage, Hands
  <2>6. ASSUME WriteFails(k) PROVE Hands'
    BY <1>a, <2>6 DEF WriteFails, Hands
  <2> QED BY <1>2, <2>1, <2>2, <2>3, <2>4, <2>5, <2>6 DEF SenderStep
<1>5. ASSUME ClientStep PROVE Hands'
  <2>1. ASSUME UserStep \/ Quiescent PROVE Hands'
    BY <1>b, <2>1 DEF UserStep, SendChecks, SendPuts, ReadNotify, Quiescent, vars
  <2> QED BY <1>1, <1>2, <1>5, <2>1 DEF ClientStep, SenderStep, Senders
<1>6. CASE CreateConnects \/ CreateFails
  BY <1>1, <1>6 DEF CreateConnects, CreateFails, ManagerStep, Outcomes
<1>7. CASE WriteReaches \/ WriteIsLost
  BY <1>2, <1>7 DEF WriteReaches, WriteIsLost, SenderStep, Senders
<1>8. CASE CreateChecks \/ UNCHANGED vars
  BY <1>8, <1>b DEF CreateChecks, vars
<1> QED BY <1>5, <1>6, <1>7, <1>8 DEF JointNext, allVars


\* The client, its hands and its life, in every state of the two.
LEMMA HandsAlways == JointSpec => [](ClientInv /\ Hands)
<1>1. JointInit => Hands
  BY DEF JointInit, Init, Hands, Senders
<1> QED BY <1>1, HandsStep, ClientAlways, PTL DEF JointSpec

\* What the client writes to is a connection, and what it writes a message.
LEMMA RealWrites ==
  ASSUME ClientInv, Hands, pc["real"] = "write"
  PROVE  sender \in Conns /\ hand["real"] \in Records \cup {HeartbeatMsg}
  BY DEF ClientInv, TypeOK, FirstMessages, Running, Hands, Senders

\* What the client does with its connections, and what the server does, are
\* steps of AuditServer.
LEMMA ServerTakesSteps ==
  ClientInv /\ Hands /\ [JointNext]_allVars => [Srv!Next]_Srv!vars
<1> SUFFICES ASSUME ClientInv, Hands, [JointNext]_allVars PROVE [Srv!Next]_Srv!vars
  OBVIOUS
<1>a. Fresh \subseteq Conns
  BY DEF Fresh
<1>b. ASSUME NEW c \in Conns, Srv!ClientStep(c), UNCHANGED serverSide
      PROVE  Srv!Next
  BY <1>b DEF Srv!Next, Srv!ConnStep, Srv!readerVars, serverSide
<1>c. ASSUME UNCHANGED link PROVE UNCHANGED Srv!vars
  BY <1>c DEF link, connSide, serverSide, Srv!vars, Srv!connVars, Srv!linkVars, Srv!readerVars
<1>1. ASSUME CreateChecks PROVE Srv!Next
  <2>1. PICK c \in Fresh : Srv!Check(c)
    BY <1>1, SameConnSteps DEF CreateChecks
  <2> QED BY <1>1, <1>a, <1>b, <2>1 DEF CreateChecks, Srv!ClientStep
<1>2. ASSUME CreateConnects PROVE Srv!Next
  <2>1. PICK c \in Fresh : Srv!Dial(c)
    BY <1>2, SameConnSteps DEF CreateConnects
  <2> QED BY <1>2, <1>a, <1>b, <2>1 DEF CreateConnects, Srv!ClientStep
<1>3. ASSUME CreateFails PROVE Srv!Next \/ UNCHANGED link
  <2>1. CASE UNCHANGED connSide
    BY <1>3, <2>1 DEF CreateFails, link
  <2>2. ASSUME NEW c \in Fresh, Server!DialFails(c) PROVE Srv!Next
    BY <1>3, <1>a, <1>b, <2>2, SameConnSteps DEF CreateFails, Srv!ClientStep
  <2> QED BY <1>3, <2>1, <2>2 DEF CreateFails
<1>4. ASSUME WriteReaches PROVE Srv!Next
  <2>1. pc["real"] = "write" /\ Srv!Write(sender, hand["real"]) /\ UNCHANGED serverSide
    BY <1>4, SameConnSteps DEF WriteReaches, WriteOk
  <2> QED BY <1>b, <2>1, RealWrites DEF Srv!ClientStep
<1>5. ASSUME WriteIsLost PROVE Srv!Next \/ UNCHANGED link
  <2>1. CASE Encodes("real")
    <3>1. pc["real"] = "write" /\ Srv!WriteFails(sender, hand["real"]) /\ UNCHANGED serverSide
      BY <1>5, <2>1, SameConnSteps DEF WriteIsLost, WriteFails
    <3> QED BY <1>b, <3>1, RealWrites DEF Srv!ClientStep
  <2>2. CASE ~Encodes("real")
    BY <1>5, <2>2 DEF WriteIsLost, link
  <2> QED BY <2>1, <2>2
<1>6. ASSUME Server!ServerStep PROVE Srv!Next
  BY <1>6, SameServerSteps DEF Srv!Next
<1> QED BY <1>c, <1>1, <1>2, <1>3, <1>4, <1>5, <1>6 DEF JointNext, allVars

\* What is proved of the server, and holds of the one the client reaches.
SrvInv == Srv!TypeOK /\ Srv!Ends /\ Srv!InOrder

\* Joined, each side does what it does alone: what the client writes to its
\* connections, and what the server makes of them, is a behaviour of AuditClient
\* and one of AuditServer.
THEOREM EachSideIsItself == JointSpec => Spec /\ Srv!Spec
<1>1. JointInit => Srv!Init
  BY SameStates DEF JointInit
<1>2. JointSpec => Srv!Spec
  BY <1>1, ServerTakesSteps, HandsAlways, PTL DEF JointSpec, Srv!Spec
<1> QED BY <1>2, ClientAlways, PTL

\* Whatever becomes of the server, the client goes through its records as the
\* abstract log does.
THEOREM JointImplementsLog == JointSpec => ImplementsLog
  BY EachSideIsItself, ClientImplementsLog, PTL

\* What is proved of the server holds in every state of the two.
LEMMA ServerAlways == JointSpec => []SrvInv
<1>1. Srv!Spec => []Srv!InOrder
  BY SrvAssumptions, Srv!InOrderAlways
<1>2. Srv!Spec => [](Srv!TypeOK /\ Srv!Ends)
  BY SrvAssumptions, Srv!EndsAlways
<1> QED BY <1>1, <1>2, EachSideIsItself, PTL DEF SrvInv


-------------------------------------------------------------------------------
(***************************************************************************)
(* Tallied.                                                                *)
(***************************************************************************)

\* Nothing is written before anything is sent.
LEMMA TalliedInit == JointInit => Tallied
<1> SUFFICES ASSUME JointInit PROVE Tallied
  OBVIOUS
<1>1. \A c \in Conns : written[c] = <<>> /\ wire[c] = <<>>
  BY DEF JointInit, Init, Server!Init, Server!ConnInit
<1>2. DOMAIN <<>> = {} /\ Len(<<>>) = 0
  BY EmptySeq
<1>3. sent = {}
  BY DEF JointInit, Init
<1> QED BY <1>1, <1>2, <1>3 DEF Tallied

\* The beginnings FirstMessages tells apart differ.
LEMMA Beginnings ==
  /\ <<"record">> # <<>> /\ RecordHeartbeat # <<>> /\ RecordHeartbeat # <<"record">>
  /\ Append(<<>>, "record") = <<"record">>
  /\ Append(<<"record">>, "heartbeat") = RecordHeartbeat
  /\ Len(<<>>) = 0 /\ Len(<<"record">>) = 1 /\ Len(RecordHeartbeat) = 2
<1>1. Len(<<>>) = 0 /\ Len(<<"record">>) = 1 /\ Len(RecordHeartbeat) = 2
  BY DEF RecordHeartbeat
<1>2. Append(<<"record">>, "heartbeat") = RecordHeartbeat
  BY AppendToOne DEF RecordHeartbeat
<1>3. Append(<<>>, "record") = <<"record">>
  OBVIOUS
<1>4. <<"record">> # <<>> /\ RecordHeartbeat # <<>> /\ RecordHeartbeat # <<"record">>
  BY <1>1
<1> QED BY <1>1, <1>2, <1>3, <1>4

\* Which message the real sender is about to write, by how many it has written
\* to the connection; and the record it writes was not sent before.
LEMMA NextOnWire ==
  ASSUME ClientInv, Hands, Tallied, pc["real"] = "write",
         Len(written[sender]) \in Nat
  PROVE  /\ hand["real"] \in Records \cup {HeartbeatMsg}
         /\ Len(written[sender]) = 0 => hand["real"] # HeartbeatMsg
         /\ Len(written[sender]) = 1 => hand["real"] = HeartbeatMsg
         /\ wire[sender] = CASE Len(written[sender]) = 0 -> <<>>
                             [] Len(written[sender]) = 1 -> <<"record">>
                             [] OTHER -> RecordHeartbeat
         /\ hand["real"] \in Records => hand["real"] \notin sent
<1>1. sender \in Conns /\ hand["real"] \in Records \cup {HeartbeatMsg}
      /\ HeartbeatMsg \notin Records
  BY RealWrites, RecordsAssumption
<1>2. hand["real"] \in Records => hand["real"] \notin sent
  BY DEF ClientInv, Places, AtOnePlace, InHand, Senders
<1>3. /\ Len(written[sender]) = 0 <=> wire[sender] = <<>>
      /\ Len(written[sender]) = 1 <=> wire[sender] = <<"record">>
  BY <1>1 DEF Tallied
<1>4. CASE ticker["real"]
  <2>1. wire[sender] = RecordHeartbeat
    BY <1>4 DEF ClientInv, FirstMessages
  <2> QED BY <1>1, <1>2, <1>3, <2>1, Beginnings
<1>5. CASE ~ticker["real"]
  <2>1. \/ wire[sender] = <<>> /\ hand["real"] \in Records
        \/ wire[sender] = <<"record">> /\ hand["real"] = HeartbeatMsg
    BY <1>5 DEF ClientInv, FirstMessages
  <2> QED BY <1>1, <1>2, <1>3, <2>1, Beginnings
<1> QED BY <1>4, <1>5

\* What was written is written; a message is added where the real sender's
\* Write returned nil, and the books are brought up to date in the same step.
LEMMA TalliedWrite ==
  ASSUME ClientInv, Hands, SrvInv, Tallied, WriteReaches
  PROVE  Tallied'
<1> DEFINE s == sender
           h == hand["real"]
           n == Len(written[s])
<1>1. /\ s \in Conns /\ pc["real"] = "write" /\ Srv!Write(s, h)
      /\ CountWritten("real") /\ NoteOnWire("real")
  BY RealWrites, SameConnSteps DEF WriteReaches, WriteOk
<1>2. written \in [Conns -> Seq(Srv!Packets)]
  BY DEF SrvInv, Srv!TypeOK, Srv!ConnTypeOK
<1>3. n \in Nat /\ DOMAIN written[s] = 1..n
  BY <1>1, <1>2, LenProperties
<1>4. /\ h \in Records \cup {HeartbeatMsg}
      /\ (n = 0 => h # HeartbeatMsg) /\ (n = 1 => h = HeartbeatMsg)
      /\ wire[s] = CASE n = 0 -> <<>> [] n = 1 -> <<"record">> [] OTHER -> RecordHeartbeat
      /\ h \in Records => h \notin sent
  BY <1>1, <1>3, NextOnWire
<1>5. HeartbeatMsg \notin Records
  BY RecordsAssumption
<1>6. /\ \A c \in Conns : c # s => written'[c] = written[c]
      /\ Len(written'[s]) = n + 1 /\ DOMAIN written'[s] = 1..(n + 1)
      /\ \A i \in 1..n : written'[s][i] = written[s][i]
      /\ written'[s][n + 1][2] = h
  <2> DEFINE p == Srv!Packet(s, h)
  <2>1. written' = [written EXCEPT ![s] = Append(@, p)] /\ n < MaxWrites
    BY <1>1 DEF Srv!Write
  <2>2. p \in Srv!Packets /\ p[2] = h
    BY <1>3, <1>4, <2>1, JointAssumption DEF Srv!Packet, Srv!Packets
  <2> HIDE DEF p
  <2>3. written'[s] = Append(written[s], p) /\ \A c \in Conns : c # s => written'[c] = written[c]
    BY <1>1, <1>2, <2>1
  <2>4. /\ written'[s] \in Seq(Srv!Packets) /\ Len(written'[s]) = n + 1
        /\ \A i \in 1..n : written'[s][i] = written[s][i]
        /\ written'[s][n + 1] = p
    BY <1>1, <1>2, <2>2, <2>3, AppendProperties
  <2>5. DOMAIN written'[s] = 1..(n + 1)
    BY <2>4, LenProperties
  <2> QED BY <2>2, <2>3, <2>4, <2>5
<1>7. sent' = sent \cup ({h} \cap Records)
  BY <1>1, JointAssumption DEF CountWritten, ToNoOP
<1>8. /\ \A c \in Conns : c # s => wire'[c] = wire[c]
      /\ wire'[s] = IF n = 0 THEN <<"record">> ELSE RecordHeartbeat
  <2>1. wire \in [Conns -> Seq({"record", "heartbeat"})]
    BY DEF ClientInv, TypeOK
  <2>2. CASE n = 0
    <3>1. wire' = [wire EXCEPT ![s] = Append(@, "record")] /\ wire[s] = <<>>
      BY <1>1, <1>4, <2>2, Beginnings DEF NoteOnWire
    <3> QED BY <1>1, <2>1, <2>2, <3>1, Beginnings
  <2>3. CASE n = 1
    <3>1. wire' = [wire EXCEPT ![s] = Append(@, "heartbeat")] /\ wire[s] = <<"record">>
      BY <1>1, <1>4, <1>5, <2>3, Beginnings DEF NoteOnWire
    <3> QED BY <1>1, <2>1, <2>3, <3>1, Beginnings
  <2>4. CASE n # 0 /\ n # 1
    <3>1. wire' = wire /\ wire[s] = RecordHeartbeat
      BY <1>1, <1>4, <2>4, Beginnings DEF NoteOnWire
    <3> QED BY <2>4, <3>1
  <2> QED BY <2>2, <2>3, <2>4
<1> HIDE DEF s, h, n
<1> DEFINE New(c, i) == written'[c][i][2]
<1>9. /\ \A c \in Conns : \A i \in DOMAIN written'[c] :
           \/ i \in DOMAIN written[c] /\ New(c, i) = MsgAt(c, i)
           \/ c = s /\ i = n + 1 /\ New(c, i) = h
      /\ \A c \in Conns : \A i \in DOMAIN written[c] :
           i \in DOMAIN written'[c] /\ New(c, i) = MsgAt(c, i)
      /\ n + 1 \in DOMAIN written'[s] /\ New(s, n + 1) = h
  <2>1. \A i \in 1..(n + 1) : i \in 1..n \/ i = n + 1
    BY <1>3
  <2>2. 1..n \subseteq 1..(n + 1) /\ n + 1 \in 1..(n + 1)
    BY <1>3
  <2>3. \A c \in Conns : c # s => \A i : New(c, i) = MsgAt(c, i)
    BY <1>6 DEF MsgAt
  <2>4. \A i \in 1..n : New(s, i) = MsgAt(s, i)
    BY <1>6 DEF MsgAt
  <2>5. New(s, n + 1) = h
    BY <1>6
  <2>6. \A c \in Conns : c # s => DOMAIN written'[c] = DOMAIN written[c]
    BY <1>6
  <2>7. DOMAIN written'[s] = 1..(n + 1) /\ DOMAIN written[s] = 1..n
    BY <1>3, <1>6
  <2> HIDE DEF New
  <2> QED BY <2>1, <2>2, <2>3, <2>4, <2>5, <2>6, <2>7
<1> HIDE DEF New
<1>10. \A c \in Conns : \A i \in DOMAIN written'[c] :
         /\ New(c, i) \in Records => New(c, i) \in sent'
         /\ (i = 1 => New(c, i) # HeartbeatMsg) /\ (i = 2 => New(c, i) = HeartbeatMsg)
  <2>1. (n + 1 = 2 <=> n = 1) /\ (n + 1 = 1 <=> n = 0)
    BY <1>3
  <2> QED BY <1>4, <1>7, <1>9, <2>1 DEF Tallied
<1>11. \A c, d \in Conns : \A i \in DOMAIN written'[c], j \in DOMAIN written'[d] :
         New(c, i) \in Records /\ New(c, i) = New(d, j) => c = d /\ i = j
  BY <1>4, <1>9 DEF Tallied
<1>12. \A r \in sent' : \E c \in Conns : \E i \in DOMAIN written'[c] : New(c, i) = r
  <2>1. s \in Conns
    BY <1>1 DEF s
  <2>2. \A r \in sent : \E c \in Conns : \E i \in DOMAIN written[c] : MsgAt(c, i) = r
    BY DEF Tallied
  <2>3. ASSUME NEW r \in sent
        PROVE  \E c \in Conns : \E i \in DOMAIN written'[c] : New(c, i) = r
    BY <1>9, <2>2, <2>3
  <2>4. \E c \in Conns : \E i \in DOMAIN written'[c] : New(c, i) = h
    BY <1>9, <2>1
  <2> QED BY <1>7, <2>3, <2>4
<1>13. \A c \in Conns : /\ Len(written'[c]) = 0 <=> wire'[c] = <<>>
                        /\ Len(written'[c]) = 1 <=> wire'[c] = <<"record">>
  <2>1. ASSUME NEW c \in Conns, c # s
        PROVE  /\ Len(written'[c]) = 0 <=> wire'[c] = <<>>
               /\ Len(written'[c]) = 1 <=> wire'[c] = <<"record">>
    BY <1>6, <1>8, <2>1 DEF Tallied
  <2>2. /\ Len(written'[s]) = 0 <=> wire'[s] = <<>>
        /\ Len(written'[s]) = 1 <=> wire'[s] = <<"record">>
    <3>1. n + 1 # 0 /\ (n + 1 = 1 <=> n = 0)
      BY <1>3
    <3> QED BY <1>6, <1>8, <3>1, Beginnings
  <2> QED BY <2>1, <2>2
<1> QED BY <1>10, <1>11, <1>12, <1>13 DEF Tallied, MsgAt, New

\* A Write that the no-op answers is in no book but the count of what was lost.
LEMMA NoopWrite == ClientInv /\ WriteOk("noop") => UNCHANGED <<sent, wire>>
<1> SUFFICES ASSUME ClientInv, WriteOk("noop") PROVE UNCHANGED <<sent, wire>>
  OBVIOUS
<1>1. CountWritten("noop") /\ NoteOnWire("noop")
  BY DEF WriteOk
<1> QED BY <1>1 DEF CountWritten, NoteOnWire, ToNoOP

\* Every step keeps the books: WriteReaches by the lemma above, the others by
\* leaving them alone.
LEMMA TalliedStep ==
  ClientInv /\ Hands /\ SrvInv /\ Tallied /\ [JointNext]_allVars => Tallied'
<1> SUFFICES ASSUME ClientInv, Hands, SrvInv, Tallied, [JointNext]_allVars PROVE Tallied'
  OBVIOUS
<1> USE DEF userVars, senderVars, connVars, fateVars, mgrVars
<1>a. ASSUME UNCHANGED <<written, sent, wire>> PROVE Tallied'
  BY <1>a DEF Tallied, MsgAt
<1>b. ASSUME UNCHANGED link PROVE written' = written
  BY <1>b DEF link, connSide
<1>c. ASSUME UNCHANGED vars PROVE sent' = sent /\ wire' = wire
  BY <1>c DEF vars
<1>d. ASSUME ManagerStep PROVE UNCHANGED <<sent, wire>>
  BY <1>d DEF ManagerStep, StartConnManager, DeferredConnect, ReconnectAttempt,
              ReconnectDial, ReconnectError, PutDeadNotice, EvictOldest, StoreDead,
              CancelNoop, AwaitNoop, SenderLost, Goto, CreateSender
<1>e. ASSUME NEW k \in Senders, WriteFails(k) PROVE UNCHANGED <<sent, wire>>
  BY <1>e DEF WriteFails
<1>1. CASE CreateChecks
  <2>1. PICK c \in Fresh : Srv!Check(c)
    BY <1>1, SameConnSteps DEF CreateChecks
  <2> QED BY <1>1, <1>a, <1>c, <2>1 DEF CreateChecks, Srv!Check
<1>2. CASE CreateConnects
  <2>1. PICK c \in Fresh : Srv!Dial(c)
    BY <1>2, SameConnSteps DEF CreateConnects
  <2>2. ManagerStep
    BY <1>2 DEF CreateConnects, ManagerStep, Outcomes
  <2> QED BY <1>a, <1>d, <2>1, <2>2 DEF Srv!Dial
<1>3. CASE CreateFails
  <2>1. ManagerStep
    BY <1>3 DEF CreateFails, ManagerStep, Outcomes
  <2>2. written' = written
    <3>1. CASE UNCHANGED connSide
      BY <3>1 DEF connSide
    <3>2. ASSUME NEW c \in Fresh, Server!DialFails(c) PROVE written' = written
      <4>1. Srv!DialFails(c)
        BY <3>2, SameConnSteps
      <4> QED BY <4>1 DEF Srv!DialFails
    <3> QED BY <1>3, <3>1, <3>2 DEF CreateFails
  <2> QED BY <1>a, <1>d, <2>1, <2>2
<1>4. CASE WriteReaches
  BY <1>4, TalliedWrite
<1>5. CASE WriteIsLost
  <2>1. WriteFails("real")
    BY <1>5 DEF WriteIsLost
  <2>2. written' = written
    <3>1. CASE Encodes("real")
      <4>1. Srv!WriteFails(sender, hand["real"])
        BY <1>5, <3>1, SameConnSteps DEF WriteIsLost
      <4> QED BY <4>1 DEF Srv!WriteFails
    <3>2. CASE ~Encodes("real")
      BY <1>5, <3>2 DEF WriteIsLost, connSide
    <3> QED BY <3>1, <3>2
  <2> QED BY <1>a, <1>e, <2>1, <2>2 DEF Senders
<1>6. CASE ClientStep /\ UNCHANGED link
  <2>1. ASSUME NEW k \in Senders, pc[k] # "write", SenderStep(k)
        PROVE  UNCHANGED <<sent, wire>>
    BY <2>1 DEF SenderStep, SenderLoop, SelectDone, SelectMsg, SelectTick, WriteOk,
                WriteFails, SenderFails, TickFires
  <2>2. ASSUME UserStep \/ Quiescent PROVE UNCHANGED <<sent, wire>>
    BY <2>2, <1>c DEF UserStep, SendChecks, SendPuts, ReadNotify, Quiescent
  <2> QED BY <1>6, <1>a, <1>b, <1>d, <2>1, <2>2, NoopWrite DEF ClientStep
<1>7. CASE Server!ServerStep /\ UNCHANGED vars
  <2>1. written' = written
    <3>1. Srv!ServerStep
      BY <1>7, SameServerSteps
    <3> QED BY <3>1 DEF Srv!ServerStep, Srv!Listen, Srv!Accept, Srv!StopListening,
              Srv!Read, Srv!ReadFails, Srv!Put, Srv!Take, Srv!connVars, Srv!linkVars
  <2> QED BY <1>7, <1>a, <1>c, <2>1
<1>8. CASE UNCHANGED allVars
  BY <1>8, <1>a, <1>b, <1>c DEF allVars
<1> QED BY <1>1, <1>2, <1>3, <1>4, <1>5, <1>6, <1>7, <1>8 DEF JointNext

\* What holds in every state of a client and its server.
JointInv == ClientInv /\ SrvInv /\ Tallied

\* It does.
LEMMA JointAlways == JointSpec => []JointInv
  BY TalliedInit, TalliedStep, HandsAlways, ServerAlways, PTL DEF JointSpec, JointInv


-------------------------------------------------------------------------------
(***************************************************************************)
(* What the two agree on.                                                  *)
(***************************************************************************)
\* The packets of c at the server or on their way to it.
Arrives(c) == Server!Passed(c) \o Server!Whole(c)

\* What is at the server or on its way was written to the connection, at the
\* same place; all of it, unless the server has let the connection go.
LEMMA ArrivesAsWritten ==
  ASSUME SrvInv, NEW c \in Conns
  PROVE  /\ DOMAIN Arrives(c) \subseteq DOMAIN written[c]
         /\ \A i \in DOMAIN Arrives(c) : Arrives(c)[i] = written[c][i]
         /\ peer[c] # "gone" => Arrives(c) = written[c]
<1>1. Arrives(c) = Srv!Passed(c) \o Srv!Whole(c)
  BY SameStates DEF Arrives
<1>2. Srv!InOrderOn(c) /\ Srv!TypeOK /\ Srv!Ends
  BY DEF SrvInv, Srv!InOrder, Srv!InOrderOn
<1>3. CASE peer[c] # "gone"
  BY <1>1, <1>2, <1>3 DEF Srv!InOrderOn
<1>4. CASE peer[c] = "gone"
  <2>1. Srv!Whole(c) = <<>>
    BY <1>2, <1>4 DEF Srv!Ends, Srv!EndsAgree, Srv!Whole, Srv!WholeOf, Srv!EndsCut
  <2>2. Srv!Passed(c) \in Seq(Srv!Packets) /\ written[c] \in Seq(Srv!Packets)
    BY <1>2, SrvAssumptions, Srv!PassedType DEF Srv!TypeOK, Srv!ConnTypeOK
  <2>3. Arrives(c) = Srv!Passed(c)
    BY <1>1, <2>1, <2>2, ConcatEmptySeq
  <2>4. CASE reader[c] = "none"
    <3>1. Arrives(c) = <<>>
      BY <1>2, <1>4, <2>3, <2>4 DEF Srv!InOrderOn
    <3>2. DOMAIN <<>> = {}
      BY EmptySeq
    <3> QED BY <1>4, <3>1, <3>2
  <2>5. CASE reader[c] # "none"
    <3> DEFINE n == Len(Arrives(c))
               l == Len(written[c])
    <3>1. n < l /\ Arrives(c) = SubSeq(written[c], 1, n)
      BY <1>2, <1>4, <2>3, <2>5 DEF Srv!InOrderOn
    <3>2. /\ n \in Nat /\ DOMAIN Arrives(c) = 1..n
          /\ l \in Nat /\ DOMAIN written[c] = 1..l
      BY <2>2, <2>3, LenProperties
    <3> HIDE DEF n, l
    <3>3. 1..n \subseteq 1..l
      BY <3>1, <3>2
    <3>4. \A i \in 1..n : written[c][i] \in Srv!Packets
      BY <2>2, <3>2, <3>3, ElementOfSeq DEF l
    <3>5. \A i \in 1..n : Arrives(c)[i] = written[c][i]
      <4>1. \A i \in 1..n : SubSeq(written[c], 1, n)[i] = written[c][i]
        BY <3>2, <3>4, SubSeqProperties
      <4> QED BY <3>1, <4>1
    <3> QED BY <1>4, <3>2, <3>3, <3>5
  <2> QED BY <2>4, <2>5
<1> QED BY <1>3, <1>4

\* Packets of m that arrive are written to some connection.
LEMMA ArrivingIs ==
  ASSUME NEW m
  PROVE  \A x : x \in Arriving(m) <=>
           \E c \in Conns : \E i \in DOMAIN Arrives(c) :
             x = <<c, Arrives(c)[i]>> /\ Arrives(c)[i][2] = m
  BY DEF Arriving, Arrives, Range

\* A set of which any two elements are the same has one at most.
LEMMA AtMostOne ==
  ASSUME NEW S, \A x, y \in S : x = y
  PROVE  Cardinality(S) <= 1
<1>1. CASE S = {}
  BY <1>1, FS_EmptySet
<1>2. CASE S # {}
  <2>1. PICK x \in S : S = {x}
    BY <1>2
  <2> QED BY <2>1, FS_Singleton
<1> QED BY <1>1, <1>2

\* A record is written again only when its Write failed: no record reaches the
\* server twice, as a part of it is no record.
THEOREM AtMostOnceAlways == JointSpec => []AtMostOnce
<1>1. JointInv => AtMostOnce
  <2> SUFFICES ASSUME SrvInv, Tallied, NEW r \in Records
               PROVE  \A x, y \in Arriving(r) : x = y
    BY AtMostOne DEF JointInv, AtMostOnce
  <2>1. ASSUME NEW c \in Conns, NEW i \in DOMAIN Arrives(c), Arrives(c)[i][2] = r,
               NEW d \in Conns, NEW j \in DOMAIN Arrives(d), Arrives(d)[j][2] = r
        PROVE  <<c, Arrives(c)[i]>> = <<d, Arrives(d)[j]>>
    <3>1. /\ i \in DOMAIN written[c] /\ MsgAt(c, i) = r
          /\ j \in DOMAIN written[d] /\ MsgAt(d, j) = r
      BY <2>1, ArrivesAsWritten DEF MsgAt
    <3> QED BY <3>1 DEF Tallied
  <2> QED BY <2>1, ArrivingIs
<1> QED BY <1>1, JointAlways, PTL

\* The metrics agree with the server: what arrives was counted as sent.
THEOREM CountersAreTrueAlways == JointSpec => []CountersAreTrue
<1>1. JointInv => CountersAreTrue
  <2> SUFFICES ASSUME SrvInv, Tallied, NEW r \in Records, Arriving(r) # {}
               PROVE  r \in sent
    BY DEF JointInv, CountersAreTrue
  <2>1. PICK c \in Conns : \E i \in DOMAIN Arrives(c) : Arrives(c)[i][2] = r
    BY ArrivingIs
  <2>2. PICK i \in DOMAIN written[c] : MsgAt(c, i) = r
    BY <2>1, ArrivesAsWritten DEF MsgAt
  <2> QED BY <2>2 DEF Tallied
<1> QED BY <1>1, JointAlways, PTL

\* What was counted as sent arrives, unless the server let go the connection it
\* was written to.
THEOREM SentArrivesAlways == JointSpec => []SentArrives
<1>1. JointInv => SentArrives
  <2> SUFFICES ASSUME SrvInv, Tallied, NEW r \in sent
               PROVE  \/ Arriving(r) # {}
                      \/ \E c \in Conns : peer[c] = "gone" /\ r \in Messages(written[c])
    BY DEF JointInv, SentArrives
  <2>1. PICK c \in Conns : \E i \in DOMAIN written[c] : MsgAt(c, i) = r
    BY DEF Tallied
  <2>2. CASE peer[c] = "gone"
    BY <2>1, <2>2 DEF Messages, MsgAt
  <2>3. CASE peer[c] # "gone"
    <3>1. \E i \in DOMAIN Arrives(c) : Arrives(c)[i][2] = r
      BY <2>1, <2>3, ArrivesAsWritten DEF MsgAt
    <3>2. \E x : x \in Arriving(r)
      BY <3>1, ArrivingIs
    <3> QED BY <3>2
  <2> QED BY <2>2, <2>3
<1> QED BY <1>1, JointAlways, PTL

\* What an agent has received is the beginning of what arrives.
LEMMA ReceivedArrives ==
  ASSUME SrvInv, NEW c \in Conns, NEW i \in DOMAIN received[c]
  PROVE  i \in DOMAIN Arrives(c) /\ Arrives(c)[i] = received[c][i]
<1> DEFINE a == received[c]
           b == Srv!InCh(c)
           d == decoded[c]
           w == Srv!Whole(c)
<1>1. /\ a \in Seq(Srv!Packets) /\ b \in Seq(Srv!Packets)
      /\ d \in Seq(Srv!Packets) /\ w \in Seq(Srv!Packets)
  BY SrvAssumptions, Srv!PassedType, Srv!TypesOf
     DEF SrvInv, Srv!Ends, Srv!EndsAgree, Srv!Whole
<1>2. Arrives(c) = ((a \o b) \o d) \o w
  BY SameStates DEF Arrives, Srv!Passed
<1>3. i \in DOMAIN a
  OBVIOUS
<1> HIDE DEF a, b, d, w
<1>4. \A s, t \in Seq(Srv!Packets) :
        /\ s \o t \in Seq(Srv!Packets)
        /\ \A k \in DOMAIN s : k \in DOMAIN (s \o t) /\ (s \o t)[k] = s[k]
  <2> SUFFICES ASSUME NEW s \in Seq(Srv!Packets), NEW t \in Seq(Srv!Packets)
               PROVE  /\ s \o t \in Seq(Srv!Packets)
                      /\ \A k \in DOMAIN s : k \in DOMAIN (s \o t) /\ (s \o t)[k] = s[k]
    OBVIOUS
  <2>1. /\ s \o t \in Seq(Srv!Packets) /\ Len(s \o t) = Len(s) + Len(t)
        /\ \A k \in 1..(Len(s) + Len(t)) :
             (s \o t)[k] = IF k <= Len(s) THEN s[k] ELSE t[k - Len(s)]
    BY ConcatProperties
  <2>2. /\ Len(s) \in Nat /\ Len(t) \in Nat
        /\ DOMAIN s = 1..Len(s) /\ DOMAIN (s \o t) = 1..Len(s \o t)
    BY <2>1, LenProperties
  <2>3. \A l, n \in Nat : \A k \in 1..l : k \in 1..(l + n) /\ k <= l
    OBVIOUS
  <2> QED BY <2>1, <2>2, <2>3
<1>5. i \in DOMAIN (a \o b) /\ (a \o b)[i] = a[i] /\ a \o b \in Seq(Srv!Packets)
  BY <1>1, <1>3, <1>4
<1>6. /\ i \in DOMAIN ((a \o b) \o d) /\ ((a \o b) \o d)[i] = a[i]
      /\ (a \o b) \o d \in Seq(Srv!Packets)
  BY <1>1, <1>4, <1>5
<1>7. i \in DOMAIN (((a \o b) \o d) \o w) /\ (((a \o b) \o d) \o w)[i] = a[i]
  BY <1>1, <1>4, <1>6
<1> QED BY <1>2, <1>7 DEF a

\* The agent's requirement, as the agent sees it: whatever connections were lost
\* before and whenever tickers fire, the first message of each connection is a
\* record, the second a heartbeat.
THEOREM AgentSeesRecordFirstAlways == JointSpec => []AgentSeesRecordFirst
<1>1. JointInv => AgentSeesRecordFirst
  <2> SUFFICES ASSUME SrvInv, Tallied, NEW c \in Conns, NEW i \in DOMAIN received[c]
               PROVE  /\ i = 1 => received[c][i][2] # HeartbeatMsg
                      /\ i = 2 => received[c][i][2] = HeartbeatMsg
    BY DEF JointInv, AgentSeesRecordFirst
  <2>1. i \in DOMAIN written[c] /\ received[c][i][2] = MsgAt(c, i)
    BY ReceivedArrives, ArrivesAsWritten DEF MsgAt
  <2> QED BY <2>1 DEF Tallied
<1> QED BY <1>1, JointAlways, PTL

================================================================================
