--------------------------- MODULE AuditClientProofs ---------------------------
(***************************************************************************)
(* What holds of AuditClient for every set of records, every capacity of   *)
(* the queue and of the notifier, every host and every kind of connection. *)
(*                                                                         *)
(* The argument: TypeOK; then Control, which says which goroutines exist   *)
(* at each point of the manager; then Places, the accounting of records,   *)
(* and Death, what is known once the manager gives up; Closers, that one    *)
(* closer runs at most; and FirstMessages, which tells how far each        *)
(* connection has come with its record and its heartbeat.                  *)
(***************************************************************************)
EXTENDS AuditClient, SequenceTheorems, FiniteSetTheorems, TLAPS

-------------------------------------------------------------------------------
(***************************************************************************)
(* Sequences.                                                              *)
(***************************************************************************)

\* A put on a queue adds its element, and keeps the elements distinct if it
\* was not there.
LEMMA AppendElements ==
  ASSUME NEW S, NEW s \in Seq(S), NEW e \in S
  PROVE  /\ Range(Append(s, e)) = Range(s) \cup {e}
         /\ e \notin Range(s) /\ (\A i, j \in 1..Len(s) : s[i] = s[j] => i = j)
              => \A i, j \in 1..Len(Append(s, e)) :
                   Append(s, e)[i] = Append(s, e)[j] => i = j
<1> DEFINE t == Append(s, e)
<1>1. /\ t \in Seq(S) /\ Len(t) = Len(s) + 1 /\ Len(s) \in Nat
      /\ \A i \in 1..Len(s) : t[i] = s[i]
      /\ t[Len(s) + 1] = e
  BY AppendProperties, LenProperties
<1>2. DOMAIN s = 1..Len(s) /\ DOMAIN t = 1..Len(t)
  BY <1>1, LenProperties
<1>3. Range(t) = Range(s) \cup {e}
  <2>1. Range(t) \subseteq Range(s) \cup {e}
    BY <1>1, <1>2 DEF Range
  <2>2. Range(s) \cup {e} \subseteq Range(t)
    <3>1. \A i \in 1..Len(s) : i \in DOMAIN t /\ t[i] = s[i]
      BY <1>1, <1>2
    <3>2. Len(s) + 1 \in DOMAIN t
      BY <1>1, <1>2
    <3> QED BY <1>1, <1>2, <3>1, <3>2 DEF Range
  <2> QED BY <2>1, <2>2
<1>4. ASSUME e \notin Range(s), \A i, j \in 1..Len(s) : s[i] = s[j] => i = j,
             NEW i \in 1..Len(t), NEW j \in 1..Len(t), t[i] = t[j]
      PROVE  i = j
  <2>1. \A n \in 1..Len(s) : s[n] # e
    BY <1>2, <1>4 DEF Range
  <2>2. /\ i \in 1..Len(s) \/ i = Len(s) + 1
        /\ j \in 1..Len(s) \/ j = Len(s) + 1
    BY <1>1
  <2> HIDE DEF t
  <2> QED BY <1>1, <1>4, <2>1, <2>2
<1> QED BY <1>3, <1>4

\* A receive from a queue of distinct elements removes exactly the oldest.
LEMMA TailElements ==
  ASSUME NEW S, NEW s \in Seq(S), s # <<>>
  PROVE  /\ Head(s) \in S /\ Tail(s) \in Seq(S)
         /\ Len(s) \in Nat \ {0} /\ Len(Tail(s)) = Len(s) - 1
         /\ Range(s) = {Head(s)} \cup Range(Tail(s))
         /\ (\A i, j \in 1..Len(s) : s[i] = s[j] => i = j)
              => /\ Head(s) \notin Range(Tail(s))
                 /\ \A i, j \in 1..Len(Tail(s)) : Tail(s)[i] = Tail(s)[j] => i = j
<1> DEFINE t == Tail(s)
<1>1. /\ t \in Seq(S) /\ Len(t) = Len(s) - 1 /\ Head(s) \in S
      /\ \A i \in 1..Len(t) : t[i] = s[i + 1]
  BY HeadTailProperties
<1>2. /\ Len(s) \in Nat \ {0}
      /\ DOMAIN s = 1..Len(s) /\ DOMAIN t = 1..Len(t)
  BY <1>1, LenProperties, EmptySeq
<1>3. Head(s) = s[1]
  OBVIOUS
<1> HIDE DEF t
<1>4. Range(s) = {Head(s)} \cup Range(t)
  <2>1. \A i \in DOMAIN s : i = 1 \/ (i - 1 \in DOMAIN t /\ t[i - 1] = s[i])
    BY <1>1, <1>2
  <2>2. 1 \in DOMAIN s /\ \A i \in DOMAIN t : i + 1 \in DOMAIN s /\ t[i] = s[i + 1]
    BY <1>1, <1>2
  <2> QED BY <1>3, <2>1, <2>2 DEF Range
<1>5. ASSUME \A i, j \in 1..Len(s) : s[i] = s[j] => i = j
      PROVE  /\ Head(s) \notin Range(t)
             /\ \A i, j \in 1..Len(t) : t[i] = t[j] => i = j
  BY <1>1, <1>2, <1>3, <1>5 DEF Range
<1> QED BY <1>1, <1>2, <1>4, <1>5 DEF t

-------------------------------------------------------------------------------
(***************************************************************************)
(* Type correctness.                                                       *)
(***************************************************************************)

\* sendNotify never overfills the channel.
LEMMA NotifyType ==
  ASSUME TypeOK, NEW n \in Notices
  PROVE  SendNotify(n) \in Seq(Notices) /\ Len(SendNotify(n)) <= NotifierCap
<1>1. Append(notifier, n) \in Seq(Notices) /\ Len(Append(notifier, n)) = Len(notifier) + 1
  BY AppendProperties DEF TypeOK
<1>2. Len(notifier) \in Nat
  BY LenProperties DEF TypeOK
<1> QED BY <1>1, <1>2, SizeAssumption DEF SendNotify, TypeOK

\* Nor does a put on the queue that found room.
LEMMA QueueType ==
  ASSUME TypeOK, NEW r \in Records, Len(sendCh) < QueueSize
  PROVE  Append(sendCh, r) \in Seq(Records) /\ Len(Append(sendCh, r)) <= QueueSize
<1>1. Append(sendCh, r) \in Seq(Records) /\ Len(Append(sendCh, r)) = Len(sendCh) + 1
  BY AppendProperties DEF TypeOK
<1> QED BY <1>1, LenProperties, SizeAssumption DEF TypeOK

\* A receive leaves a queue within its capacity.
LEMMA TailType ==
  ASSUME NEW S, NEW s \in Seq(S), s # <<>>, NEW n \in Nat, Len(s) <= n
  PROVE  Tail(s) \in Seq(S) /\ Len(Tail(s)) <= n
  BY TailElements

\* A sender that is started has a program counter, an empty hand, no ticker.
LEMMA StartSenderType ==
  ASSUME TypeOK, NEW k \in Senders, StartSender(k)
  PROVE  /\ pc' \in [Senders -> SenderPCs]
         /\ hand' \in [Senders -> Records \cup {HeartbeatMsg, NoMsg}]
         /\ ticker' \in [Senders -> BOOLEAN]
         /\ tick' \in [Senders -> BOOLEAN]
         /\ result' \in [Senders -> Results]
  BY DEF TypeOK, StartSender, SenderPCs, Results

\* A sender that ends leaves its variables in their types.
LEMMA EndSenderType ==
  ASSUME TypeOK, NEW k \in Senders, NEW res \in Results, EndSender(k, res)
  PROVE  /\ pc' \in [Senders -> SenderPCs]
         /\ hand' \in [Senders -> Records \cup {HeartbeatMsg, NoMsg}]
         /\ ticker' \in [Senders -> BOOLEAN]
         /\ tick' \in [Senders -> BOOLEAN]
         /\ result' \in [Senders -> Results]
  BY DEF TypeOK, EndSender, SenderPCs

\* createSender makes at most one connection, within the bound.
LEMMA CreateSenderType ==
  ASSUME TypeOK, NEW o \in Outcomes, CreateSender(o)
  PROVE  /\ sender' \in Conns \cup {NoConn}
         /\ conns' \in [Conns -> ConnStates]
         /\ UNCHANGED <<broken, wire>>
<1>1. Fresh \subseteq Conns
  BY DEF Fresh
<1> QED BY <1>1 DEF TypeOK, CreateSender, ConnStates, connVars

\* A client New() begins to build is well typed.
LEMMA TypeInit == Init => TypeOK
<1> SUFFICES ASSUME Init PROVE TypeOK
  OBVIOUS
<1>1. /\ sendCh \in Seq(Records) /\ Len(sendCh) <= QueueSize
      /\ notifier \in Seq(Notices) /\ Len(notifier) <= NotifierCap
  BY EmptySeq, SizeAssumption DEF Init
<1>2. wire \in [Conns -> Seq({"record", "heartbeat"})]
  BY EmptySeq DEF Init
<1>3. /\ call \in [Records -> Calls] /\ mgr \in MgrPCs
      /\ sender \in Conns \cup {NoConn}
      /\ conns \in [Conns -> ConnStates]
  BY DEF Init, Calls, MgrPCs, ConnStates
<1>4. /\ pc \in [Senders -> SenderPCs] /\ result \in [Senders -> Results]
      /\ hand \in [Senders -> Records \cup {HeartbeatMsg, NoMsg}]
      /\ ticker \in [Senders -> BOOLEAN] /\ tick \in [Senders -> BOOLEAN]
  BY DEF Init, SenderPCs, Results
<1> QED BY <1>1, <1>2, <1>3, <1>4 DEF Init, TypeOK

\* No step of any goroutine overfills a channel or leaves a type.
LEMMA TypeStep == TypeOK /\ [Next]_vars => TypeOK'
<1> SUFFICES ASSUME TypeOK, [Next]_vars PROVE TypeOK'
  OBVIOUS
<1> USE DEF userVars, senderVars, connVars, fateVars, mgrVars
<1>1. CASE StartConnManager
  <2>1. PICK o \in Outcomes :
          /\ CreateSender(o)
          /\ mgr' = CASE o = "ok" -> "serving"
                      [] o = "retryable" /\ Deferred -> "defer"
                      [] OTHER -> "failed"
          /\ IF o = "ok" THEN StartSender("real") ELSE UNCHANGED senderVars
    BY <1>1 DEF StartConnManager
  <2>2. mgr' \in MgrPCs
    BY <2>1 DEF MgrPCs
  <2> QED BY <1>1, <2>1, <2>2, CreateSenderType, StartSenderType
          DEF StartConnManager, TypeOK, Senders
<1>2. CASE DeferredConnect
  BY <1>2, NotifyType, StartSenderType DEF DeferredConnect, TypeOK, Notices, MgrPCs, Senders
<1>3. CASE ReconnectAttempt
  BY <1>3 DEF ReconnectAttempt, Goto, TypeOK, MgrPCs
<1>4. ASSUME NEW o \in Outcomes, ReconnectDial(o) PROVE TypeOK'
  <2>1. mgr' \in MgrPCs
    BY <1>4 DEF ReconnectDial, AfterError, MgrPCs
  <2> QED BY <1>4, <2>1, CreateSenderType, StartSenderType DEF ReconnectDial, TypeOK, Senders
<1>5. CASE ReconnectError
  BY <1>5, NotifyType DEF ReconnectError, Goto, TypeOK, Notices, MgrPCs
<1>6. CASE PutDeadNotice
  BY <1>6, NotifyType DEF PutDeadNotice, AfterPut, Goto, TypeOK, Notices, MgrPCs
<1>7. CASE EvictOldest
  <2>1. Evicted \in Seq(Notices) /\ Len(Evicted) <= NotifierCap
    BY TailType, SizeAssumption DEF Evicted, TypeOK
  <2> QED BY <1>7, <2>1 DEF EvictOldest, Goto, TypeOK, MgrPCs
<1>8. CASE StoreDead
  BY <1>8 DEF StoreDead, Goto, TypeOK, MgrPCs
<1>9. CASE CancelNoop
  BY <1>9 DEF CancelNoop, TypeOK, MgrPCs
<1>10. CASE AwaitNoop
  BY <1>10, StartSenderType DEF AwaitNoop, TypeOK, MgrPCs, Senders
<1>11. CASE SenderLost
  BY <1>11, NotifyType DEF SenderLost, TypeOK, Notices, MgrPCs, ConnStates
<1>12. ASSUME NEW k \in Senders, SenderStep(k) PROVE TypeOK'
  <2>1. CASE SenderLoop(k)
    BY <2>1, EndSenderType DEF SenderLoop, TypeOK, SenderPCs, Results
  <2>2. CASE SelectDone(k)
    BY <2>2, EndSenderType DEF SelectDone, TypeOK, Results
  <2>3. CASE SelectMsg(k)
    BY <2>3, TailElements, TailType, SizeAssumption DEF SelectMsg, TypeOK, SenderPCs
  <2>4. CASE SelectTick(k)
    BY <2>4 DEF SelectTick, TypeOK, SenderPCs
  <2>5. CASE WriteOk(k)
    <3>1. sent' \subseteq Records /\ dropped' \subseteq Records
      BY <2>5 DEF WriteOk, CountWritten, TypeOK
    <3>2. wire' \in [Conns -> Seq({"record", "heartbeat"})]
      <4> DEFINE m == IF hand[k] \in Records THEN "record" ELSE "heartbeat"
      <4>1. m \in {"record", "heartbeat"}
        OBVIOUS
      <4>2. ASSUME sender \in Conns
            PROVE  Append(wire[sender], m) \in Seq({"record", "heartbeat"})
        BY <4>1, <4>2, AppendProperties DEF TypeOK
      <4>3. wire' = wire \/ wire' = [wire EXCEPT ![sender] = Append(wire[sender], m)]
        BY <2>5 DEF WriteOk, NoteOnWire
      <4> HIDE DEF m
      <4> QED BY <4>2, <4>3 DEF TypeOK
    <3> QED BY <2>5, <3>1, <3>2 DEF WriteOk, NextMessage, TypeOK, SenderPCs
  <2>6. CASE WriteFails(k)
    <3>1. /\ sendCh' \in Seq(Records) /\ Len(sendCh') <= QueueSize
          /\ dropped' \subseteq Records
      BY <2>6, QueueType DEF WriteFails, Requeue, TypeOK
    <3> QED BY <2>6, <3>1 DEF WriteFails, TypeOK, SenderPCs
  <2>7. CASE SenderFails(k)
    BY <2>7, NotifyType, EndSenderType DEF SenderFails, TypeOK, Notices, Results
  <2>8. CASE TickFires(k)
    BY <2>8 DEF TickFires, TypeOK
  <2> QED BY <1>12, <2>1, <2>2, <2>3, <2>4, <2>5, <2>6, <2>7, <2>8 DEF SenderStep
<1>13. ASSUME NEW c \in Conns, CloserDone(c) PROVE TypeOK'
  BY <1>13, NotifyType DEF CloserDone, TypeOK, Notices, ConnStates
<1>14. ASSUME NEW r \in Records, SendChecks(r) PROVE TypeOK'
  <2>1. call' \in [Records -> Calls]
    BY <1>14 DEF SendChecks, TypeOK, Calls
  <2> QED BY <1>14, <2>1 DEF SendChecks, TypeOK
<1>15. ASSUME NEW r \in Records, SendPuts(r) PROVE TypeOK'
  BY <1>15, QueueType DEF SendPuts, TypeOK, Calls
<1>16. CASE ReadNotify
  <2>1. Tail(notifier) \in Seq(Notices) /\ Len(Tail(notifier)) <= NotifierCap
    BY <1>16, TailType, SizeAssumption DEF ReadNotify, TypeOK
  <2> QED BY <1>16, <2>1 DEF ReadNotify, TypeOK
<1>17. CASE UNCHANGED vars
  BY <1>17 DEF vars, TypeOK
<1> QED BY <1>1, <1>2, <1>3, <1>4, <1>5, <1>6, <1>7, <1>8, <1>9, <1>10, <1>11,
           <1>12, <1>13, <1>14, <1>15, <1>16, <1>17
        DEF Next, ManagerStep, UserStep, Quiescent

\* Every variable keeps its type: in particular neither the queue nor the
\* notifier ever holds more than the channel's capacity, the requeue of a
\* failed write and the death notice included.
THEOREM TypeCorrect == Spec => []TypeOK
  BY TypeInit, TypeStep, PTL DEF Spec

-------------------------------------------------------------------------------
(***************************************************************************)
(* Which goroutines there are.                                             *)
(***************************************************************************)

\* At each point of New() and of the manager: which senders may run, and
\* whether the no-op one has been cancelled and has stopped.
Control ==
  /\ mgr \in {"new", "failed", "defer"} => pc["noop"] = "off" /\ pc["real"] = "off"
  /\ noopCancelled => pc["noop"] # "off"
  /\ mgr = "stopNoop" => Deferring
  /\ mgr = "awaitNoop" => noopCancelled
  /\ Deferring \/ mgr = "awaitNoop" => pc["real"] = "off"
  /\ mgr = "serving" => ~Deferring
  /\ noopCancelled /\ mgr # "awaitNoop" => pc["noop"] = "done"
  /\ Running("real") => mgr = "serving"
  /\ result["real"] # "nil"

\* A goroutine holds a message only while it writes it.
HandsEmpty == \A k \in Senders : pc[k] # "write" => hand[k] = NoMsg

\* Before New() has connected no goroutine runs.
LEMMA ControlInit == Init => Control /\ HandsEmpty
  BY DEF Init, Control, HandsEmpty, Deferring, Running, Senders

\* deferredConnect and manageSender keep to their hand-over of the senders.
LEMMA ControlStep == TypeOK /\ Control /\ [Next]_vars => Control'
<1> SUFFICES ASSUME TypeOK, Control, [Next]_vars PROVE Control'
  OBVIOUS
<1> USE DEF userVars, senderVars, connVars, fateVars, mgrVars, Control, Deferring,
            Running, TypeOK, Senders
<1>1. CASE StartConnManager
  BY <1>1 DEF StartConnManager, StartSender
<1>2. CASE DeferredConnect
  BY <1>2 DEF DeferredConnect, StartSender
<1>3. CASE ReconnectAttempt
  BY <1>3 DEF ReconnectAttempt, Goto
<1>4. ASSUME NEW o \in Outcomes, ReconnectDial(o) PROVE Control'
  BY <1>4 DEF ReconnectDial, AfterError, StartSender
<1>5. CASE ReconnectError
  BY <1>5 DEF ReconnectError, Goto
<1>6. CASE PutDeadNotice
  BY <1>6 DEF PutDeadNotice, AfterPut, Goto
<1>7. CASE EvictOldest
  BY <1>7 DEF EvictOldest, Goto
<1>8. CASE StoreDead
  BY <1>8 DEF StoreDead, Goto
<1>9. CASE CancelNoop
  BY <1>9 DEF CancelNoop
<1>10. CASE AwaitNoop
  BY <1>10 DEF AwaitNoop, NoopDone, StartSender
<1>11. CASE SenderLost
  BY <1>11 DEF SenderLost, StoppedByCaller
<1>12. ASSUME NEW k \in Senders, SenderStep(k) PROVE Control'
  <2>1. CASE SenderLoop(k)
    BY <2>1 DEF SenderLoop, EndSender, Cancelled
  <2>2. CASE SelectDone(k)
    BY <2>2 DEF SelectDone, EndSender, Cancelled
  <2>3. CASE SelectMsg(k)
    BY <2>3 DEF SelectMsg
  <2>4. CASE SelectTick(k)
    BY <2>4 DEF SelectTick
  <2>5. CASE WriteOk(k)
    BY <2>5 DEF WriteOk, NextMessage
  <2>6. CASE WriteFails(k)
    BY <2>6 DEF WriteFails
  <2>7. CASE SenderFails(k)
    BY <2>7 DEF SenderFails, EndSender
  <2>8. CASE TickFires(k)
    BY <2>8 DEF TickFires
  <2> QED BY <1>12, <2>1, <2>2, <2>3, <2>4, <2>5, <2>6, <2>7, <2>8 DEF SenderStep
<1>13. ASSUME NEW c \in Conns, CloserDone(c) PROVE Control'
  BY <1>13 DEF CloserDone
<1>14. ASSUME NEW r \in Records, SendChecks(r) \/ SendPuts(r) PROVE Control'
  BY <1>14 DEF SendChecks, SendPuts
<1>15. CASE ReadNotify
  BY <1>15 DEF ReadNotify
<1>16. CASE UNCHANGED vars
  BY <1>16 DEF vars
<1> QED BY <1>1, <1>2, <1>3, <1>4, <1>5, <1>6, <1>7, <1>8, <1>9, <1>10, <1>11,
           <1>12, <1>13, <1>14, <1>15, <1>16
        DEF Next, ManagerStep, UserStep, Quiescent

\* The no-op sender and a real one are never both there to receive from
\* sendCh: deferredConnect's wait is enough, for every client.
THEOREM OneConsumerAlways == Spec => []OneConsumer
<1>1. Init => TypeOK /\ Control
  BY TypeInit, ControlInit
<1>2. TypeOK /\ Control /\ [Next]_vars => TypeOK' /\ Control'
  BY TypeStep, ControlStep
<1>3. Control => OneConsumer
  BY DEF Control, OneConsumer, Running, Deferring
<1> QED BY <1>1, <1>2, <1>3, PTL DEF Spec

-------------------------------------------------------------------------------
(***************************************************************************)
(* The accounting of records.                                              *)
(***************************************************************************)

\* The accounting of records.
Places == NoRecordLost /\ AtOnePlace /\ HandsEmpty

\* A sender that is started, or ends, has nothing in its hand.
LEMMA StartKeepsHands ==
  ASSUME TypeOK, HandsEmpty, NEW k \in Senders, pc[k] # "write", StartSender(k)
  PROVE  hand' = hand /\ HandsEmpty'
  BY DEF TypeOK, HandsEmpty, StartSender

\* Nor has one that ends.
LEMMA EndKeepsHands ==
  ASSUME TypeOK, HandsEmpty, NEW k \in Senders, NEW res, pc[k] # "write",
         EndSender(k, res)
  PROVE  hand' = hand /\ HandsEmpty'
  BY DEF TypeOK, HandsEmpty, EndSender

\* Most steps touch no record.
LEMMA PlacesFrame ==
  ASSUME Places, Accepted' = Accepted, hand' = hand, HandsEmpty',
         UNCHANGED <<sendCh, sent, dropped>>
  PROVE  Places'
  BY DEF Places, NoRecordLost, AtOnePlace, Queued, InHand

\* Before the first Send there is no record anywhere.
LEMMA PlacesInit == Init => Places
<1> SUFFICES ASSUME Init PROVE Places
  OBVIOUS
<1>1. Range(sendCh) = {} /\ Len(sendCh) = 0
  BY DEF Init, Range
<1>2. InHand = {}
  BY RecordsAssumption DEF Init, InHand
<1> QED BY <1>1, <1>2, ControlInit, RecordsAssumption
        DEF Init, Places, NoRecordLost, AtOnePlace, Queued, Accepted

\* Send, select, write and requeue each move a record from one place to another.
LEMMA PlacesStep == TypeOK /\ Control /\ Places /\ [Next]_vars => Places'
<1> SUFFICES ASSUME TypeOK, Control, Places, [Next]_vars PROVE Places'
  OBVIOUS
<1> USE DEF userVars, senderVars, connVars, fateVars, mgrVars
<1>h. HandsEmpty
  BY DEF Places
<1>n. HeartbeatMsg \notin Records /\ NoMsg \notin Records
  BY RecordsAssumption
<1>c. pc["noop"] \in SenderPCs /\ pc["real"] \in SenderPCs
  BY DEF TypeOK, Senders
<1>1. CASE StartConnManager
  <2>1. pc["real"] # "write"
    BY <1>1 DEF StartConnManager, Control
  <2>2. hand' = hand /\ HandsEmpty'
    BY <1>1, <1>h, <2>1, StartKeepsHands DEF StartConnManager, HandsEmpty, Senders
  <2> QED BY <1>1, <2>2, PlacesFrame DEF StartConnManager, Accepted
<1>2. CASE DeferredConnect
  <2>1. pc["noop"] # "write"
    BY <1>2 DEF DeferredConnect, Control
  <2>2. hand' = hand /\ HandsEmpty'
    BY <1>2, <1>h, <2>1, StartKeepsHands DEF DeferredConnect, Senders
  <2> QED BY <1>2, <2>2, PlacesFrame DEF DeferredConnect, Accepted
<1>3. ASSUME NEW o \in Outcomes, ReconnectDial(o) PROVE Places'
  <2>1. pc["real"] # "write"
    BY <1>3 DEF ReconnectDial, Control, Running
  <2>2. hand' = hand /\ HandsEmpty'
    BY <1>3, <1>h, <2>1, StartKeepsHands DEF ReconnectDial, HandsEmpty, Senders
  <2> QED BY <1>3, <2>2, PlacesFrame DEF ReconnectDial, Accepted
<1>4. CASE AwaitNoop
  <2>1. pc["real"] # "write"
    BY <1>4 DEF AwaitNoop, Control
  <2>2. hand' = hand /\ HandsEmpty'
    BY <1>4, <1>h, <2>1, StartKeepsHands DEF AwaitNoop, HandsEmpty, Senders
  <2> QED BY <1>4, <2>2, PlacesFrame DEF AwaitNoop, Accepted
<1>5. CASE ReconnectAttempt \/ ReconnectError \/ PutDeadNotice \/ EvictOldest \/ StoreDead
  <2>1. UNCHANGED <<userVars, senderVars, fateVars>>
    BY <1>5 DEF ReconnectAttempt, ReconnectError, PutDeadNotice, EvictOldest, StoreDead,
                Goto
  <2> QED BY <2>1, <1>h, PlacesFrame DEF Accepted, HandsEmpty
<1>6. CASE CancelNoop \/ SenderLost \/ ReadNotify \/ (\E c \in Conns : CloserDone(c))
  <2>1. call' = call /\ UNCHANGED <<senderVars, fateVars>>
    BY <1>6 DEF CancelNoop, SenderLost, ReadNotify, CloserDone
  <2> QED BY <2>1, <1>h, PlacesFrame DEF Accepted, HandsEmpty
<1>7. ASSUME NEW k \in Senders, SenderStep(k) PROVE Places'
  <2>1. CASE SenderLoop(k)
    <3>1. hand' = hand /\ HandsEmpty'
      BY <2>1, <1>h, EndKeepsHands DEF SenderLoop, HandsEmpty, TypeOK
    <3> QED BY <2>1, <3>1, PlacesFrame DEF SenderLoop, Accepted
  <2>2. CASE SelectDone(k)
    <3>1. hand' = hand /\ HandsEmpty'
      BY <2>2, <1>h, EndKeepsHands DEF SelectDone
    <3> QED BY <2>2, <3>1, PlacesFrame DEF SelectDone, Accepted
  <2>3. CASE SelectMsg(k)
    <3> DEFINE m == Head(sendCh)
               t == Tail(sendCh)
    <3>1. /\ m \in Records /\ Queued = {m} \cup Range(t) /\ m \notin Range(t)
          /\ \A i, j \in 1..Len(t) : t[i] = t[j] => i = j
      BY <2>3, TailElements DEF SelectMsg, Places, AtOnePlace, TypeOK, Queued
    <3>2. sendCh' = t /\ hand' = [hand EXCEPT ![k] = m] /\ hand[k] = NoMsg
      BY <2>3, <1>h DEF SelectMsg, HandsEmpty
    <3> HIDE DEF m, t
    <3>3. Queued' = Range(t) /\ InHand' = InHand \cup {m}
      BY <3>1, <3>2, <1>n DEF Queued, InHand, TypeOK
    <3>4. HandsEmpty'
      BY <2>3, <1>h, <3>2 DEF SelectMsg, HandsEmpty, TypeOK
    <3>5. \A x, y \in Senders : hand'[x] \in Records /\ hand'[x] = hand'[y] => x = y
      BY <3>1, <3>2 DEF Places, AtOnePlace, InHand, TypeOK
    <3>6. Accepted' = Accepted /\ UNCHANGED <<sent, dropped>>
      BY <2>3 DEF SelectMsg, Accepted
    <3>7. NoRecordLost'
      BY <3>1, <3>3, <3>6 DEF Places, NoRecordLost
    <3>8. AtOnePlace'
      BY <3>1, <3>2, <3>3, <3>5, <3>6 DEF Places, AtOnePlace
    <3> QED BY <3>4, <3>7, <3>8 DEF Places
  <2>4. CASE SelectTick(k)
    <3>1. hand' = [hand EXCEPT ![k] = HeartbeatMsg] /\ hand[k] = NoMsg
      BY <2>4, <1>h DEF SelectTick, HandsEmpty
    <3>2. InHand' = InHand
      BY <3>1, <1>n DEF InHand, TypeOK
    <3>3. \A x, y \in Senders : hand'[x] \in Records /\ hand'[x] = hand'[y] => x = y
      BY <3>1, <1>n DEF Places, AtOnePlace, TypeOK
    <3>4. HandsEmpty'
      BY <2>4, <1>h, <3>1 DEF SelectTick, HandsEmpty, TypeOK
    <3>5. Accepted' = Accepted /\ Queued' = Queued /\ UNCHANGED <<sendCh, sent, dropped>>
      BY <2>4 DEF SelectTick, Accepted, Queued
    <3> QED BY <3>2, <3>3, <3>4, <3>5 DEF Places, NoRecordLost, AtOnePlace
  <2>5. CASE WriteOk(k)
    <3>1. /\ sent' \cup dropped' = sent \cup dropped \cup ({hand[k]} \cap Records)
          /\ hand[k] \in Records => hand[k] \notin sent \cup dropped
          /\ sent' \cap dropped' = {}
      BY <2>5 DEF WriteOk, CountWritten, Places, AtOnePlace, InHand
    <3>2. \E v \in {HeartbeatMsg, NoMsg} : hand' = [hand EXCEPT ![k] = v]
      BY <2>5 DEF WriteOk, NextMessage
    <3>3. InHand' = InHand \ {hand[k]}
      BY <3>2, <1>n DEF InHand, TypeOK, Places, AtOnePlace
    <3>4. \A x, y \in Senders : hand'[x] \in Records /\ hand'[x] = hand'[y] => x = y
      BY <3>2, <1>n DEF Places, AtOnePlace, TypeOK
    <3>5. HandsEmpty'
      BY <2>5, <1>h DEF WriteOk, NextMessage, HandsEmpty, TypeOK
    <3>6. Accepted' = Accepted /\ Queued' = Queued /\ sendCh' = sendCh
      BY <2>5 DEF WriteOk, Accepted, Queued
    <3>7. {hand[k]} \cap Records \subseteq InHand
      BY DEF InHand
    <3>8. NoRecordLost'
      BY <3>1, <3>3, <3>6, <3>7 DEF Places, NoRecordLost, InHand
    <3>9. AtOnePlace'
      BY <3>1, <3>3, <3>4, <3>6, <3>7 DEF Places, AtOnePlace
    <3> QED BY <3>5, <3>8, <3>9 DEF Places
  <2>6. CASE WriteFails(k)
    <3>1. hand' = [hand EXCEPT ![k] = NoMsg] /\ UNCHANGED sent
      BY <2>6 DEF WriteFails
    <3>2. InHand' = InHand \ {hand[k]}
      BY <3>1, <1>n DEF InHand, TypeOK, Places, AtOnePlace
    <3>3. \A x, y \in Senders : hand'[x] \in Records /\ hand'[x] = hand'[y] => x = y
      BY <3>1, <1>n DEF Places, AtOnePlace, TypeOK
    <3>4. HandsEmpty'
      BY <2>6, <1>h DEF WriteFails, HandsEmpty, TypeOK
    <3>5. Accepted' = Accepted
      BY <2>6 DEF WriteFails, Accepted
    <3>6. CASE hand[k] \notin Records
      <4>1. UNCHANGED <<sendCh, dropped>> /\ Queued' = Queued
        BY <2>6, <3>6 DEF WriteFails, Requeue, Queued
      <4> QED BY <3>1, <3>2, <3>3, <3>4, <3>5, <3>6, <4>1
              DEF Places, NoRecordLost, AtOnePlace, InHand
    <3>7. CASE hand[k] \in Records
      <4> DEFINE m == hand[k]
      <4>1. m \in InHand /\ m \in Records
        BY <3>7 DEF InHand
      <4>2. m \notin Queued /\ m \notin sent \cup dropped
        BY <4>1 DEF Places, AtOnePlace
      <4>3. CASE Len(sendCh) < QueueSize
        <5>1. sendCh' = Append(sendCh, m) /\ UNCHANGED dropped
          BY <2>6, <3>7, <4>3 DEF WriteFails, Requeue
        <5>2. /\ Queued' = Queued \cup {m}
              /\ \A i, j \in 1..Len(sendCh') : sendCh'[i] = sendCh'[j] => i = j
          <6>1. /\ sendCh \in Seq(Records) /\ m \in Records /\ m \notin Range(sendCh)
                /\ \A i, j \in 1..Len(sendCh) : sendCh[i] = sendCh[j] => i = j
            BY <4>1, <4>2 DEF Queued, Places, AtOnePlace, TypeOK
          <6> HIDE DEF m
          <6> QED BY <5>1, <6>1, AppendElements DEF Queued
        <5> HIDE DEF m
        <5>3. InHand' = InHand \ {m}
          BY <3>2 DEF m
        <5>4. NoRecordLost'
          BY <3>1, <3>5, <4>1, <5>1, <5>2, <5>3 DEF Places, NoRecordLost
        <5>5. AtOnePlace'
          BY <3>1, <3>3, <4>1, <4>2, <5>1, <5>2, <5>3 DEF Places, AtOnePlace
        <5> QED BY <3>4, <5>4, <5>5 DEF Places
      <4>4. CASE ~(Len(sendCh) < QueueSize)
        <5>1. dropped' = dropped \cup {m} /\ UNCHANGED sendCh /\ Queued' = Queued
          BY <2>6, <3>7, <4>4 DEF WriteFails, Requeue, Queued
        <5> HIDE DEF m
        <5>2. InHand' = InHand \ {m}
          BY <3>2 DEF m
        <5>3. NoRecordLost'
          BY <3>1, <3>5, <4>1, <5>1, <5>2 DEF Places, NoRecordLost
        <5>4. AtOnePlace'
          BY <3>1, <3>3, <4>1, <4>2, <5>1, <5>2 DEF Places, AtOnePlace
        <5> QED BY <3>4, <5>3, <5>4 DEF Places
      <4> QED BY <4>3, <4>4
    <3> QED BY <3>6, <3>7
  <2>7. CASE SenderFails(k)
    <3>1. hand' = hand /\ HandsEmpty'
      BY <2>7, <1>h, EndKeepsHands DEF SenderFails
    <3> QED BY <2>7, <3>1, PlacesFrame DEF SenderFails, Accepted
  <2>8. CASE TickFires(k)
    BY <2>8, <1>h, PlacesFrame DEF TickFires, Accepted, HandsEmpty
  <2> QED BY <1>7, <2>1, <2>2, <2>3, <2>4, <2>5, <2>6, <2>7, <2>8 DEF SenderStep
<1>8. ASSUME NEW r \in Records, SendChecks(r) PROVE Places'
  <2>1. Accepted' = Accepted
    BY <1>8 DEF SendChecks, Accepted, TypeOK
  <2> QED BY <1>8, <2>1, <1>h, PlacesFrame DEF SendChecks, HandsEmpty
<1>9. ASSUME NEW r \in Records, SendPuts(r) PROVE Places'
  <2>1. r \notin Accepted /\ UNCHANGED <<hand, pc, sent, dropped>>
    BY <1>9 DEF SendPuts, Accepted
  <2>2. InHand' = InHand /\ HandsEmpty'
    BY <2>1, <1>h DEF InHand, HandsEmpty
  <2>3. CASE Len(sendCh) < QueueSize
    <3>1. sendCh' = Append(sendCh, r) /\ Accepted' = Accepted \cup {r}
      BY <1>9, <2>3 DEF SendPuts, Accepted, TypeOK
    <3>2. r \notin Queued \cup InHand \cup sent \cup dropped
      BY <2>1 DEF Places, NoRecordLost
    <3>3. /\ Queued' = Queued \cup {r}
          /\ \A i, j \in 1..Len(sendCh') : sendCh'[i] = sendCh'[j] => i = j
      <4>1. /\ sendCh \in Seq(Records) /\ r \in Records /\ r \notin Range(sendCh)
            /\ \A i, j \in 1..Len(sendCh) : sendCh[i] = sendCh[j] => i = j
        BY <1>9, <3>2 DEF Queued, Places, AtOnePlace, TypeOK
      <4> QED BY <3>1, <4>1, AppendElements DEF Queued
    <3> QED BY <2>1, <2>2, <3>1, <3>2, <3>3 DEF Places, NoRecordLost, AtOnePlace
  <2>4. CASE ~(Len(sendCh) < QueueSize)
    <3>1. sendCh' = sendCh /\ Accepted' = Accepted
      BY <1>9, <2>4 DEF SendPuts, Accepted, TypeOK
    <3> QED BY <2>1, <2>2, <3>1, PlacesFrame
  <2> QED BY <2>3, <2>4
<1>10. CASE UNCHANGED vars
  BY <1>10, <1>h, PlacesFrame DEF vars, Accepted, HandsEmpty
<1> QED BY <1>1, <1>2, <1>3, <1>4, <1>5, <1>6, <1>7, <1>8, <1>9, <1>10
        DEF Next, ManagerStep, UserStep, Quiescent

\* The places of the records are as stated at all times.
LEMMA PlacesAlways == Spec => [](TypeOK /\ Control /\ Places)
<1>1. Init => TypeOK /\ Control /\ Places
  BY TypeInit, ControlInit, PlacesInit
<1>2. TypeOK /\ Control /\ Places /\ [Next]_vars => (TypeOK /\ Control /\ Places)'
  BY TypeStep, ControlStep, PlacesStep
<1> QED BY <1>1, <1>2, PTL DEF Spec

\* Whatever the queue's size and however often connections fail, the records
\* Send accepted are those queued, in a sender's hand, sent or dropped.
THEOREM NoRecordLostAlways == Spec => []NoRecordLost
<1>1. Places => NoRecordLost
  BY DEF Places
<1> QED BY <1>1, PlacesAlways, PTL

\* And each is at one of these places only: none is sent twice, or dropped
\* and sent.
THEOREM AtOnePlaceAlways == Spec => []AtOnePlace
<1>1. Places => AtOnePlace
  BY DEF Places
<1> QED BY <1>1, PlacesAlways, PTL

-------------------------------------------------------------------------------
(***************************************************************************)
(* Death.                                                                  *)
(***************************************************************************)

\* reconnect holds no sender; deferredConnect goes on without one only if the
\* client is dead; a dead client's manager is on its way out; and from the
\* moment the notice landed it is read or still there.
Death ==
  /\ mgr \in {"defer", "attempt", "dial", "retryErr", "permErr", "dying", "evict",
              "storeDead"} => sender = NoConn
  /\ clientDead => mgr \in {"stopNoop", "awaitNoop", "exited"} /\ sender = NoConn
  /\ mgr \in {"stopNoop", "awaitNoop"} /\ sender = NoConn => clientDead
  /\ mgr = "exited" => clientDead
  /\ clientDead \/ mgr = "storeDead" => deadSeen \/ "dead" \in Range(notifier)

\* A sendNotify removes nothing from the channel.
LEMMA NotifyKeeps ==
  ASSUME TypeOK, NEW n \in Notices
  PROVE  /\ Range(notifier) \subseteq Range(SendNotify(n))
         /\ Len(notifier) < NotifierCap => n \in Range(SendNotify(n))
<1>1. notifier \in Seq(Notices)
  BY DEF TypeOK
<1>2. Range(Append(notifier, n)) = Range(notifier) \cup {n}
  BY <1>1, AppendElements
<1> QED BY <1>2 DEF SendNotify

\* A new client is alive.
LEMMA DeathInit == Init => Death
  BY DEF Init, Death

\* reconnect reports the death before it sets the flag, and sets it before it
\* gives up; closers and user leave the notice where it is read.
LEMMA DeathStep == TypeOK /\ Control /\ Death /\ [Next]_vars => Death'
<1> SUFFICES ASSUME TypeOK, Control, Death, [Next]_vars PROVE Death'
  OBVIOUS
<1> USE DEF userVars, senderVars, connVars, fateVars, mgrVars
<1>a. "connErr" \in Notices /\ "dead" \in Notices /\ "closeErr" \in Notices
  BY DEF Notices
<1>b. NoConn \notin Conns
  BY SizeAssumption DEF NoConn, Conns
<1>c. Fresh \subseteq Conns
  BY DEF Fresh
<1>1. CASE StartConnManager
  BY <1>1 DEF StartConnManager, CreateSender, Death
<1>2. CASE DeferredConnect
  BY <1>2 DEF DeferredConnect, Death
<1>3. CASE ReconnectAttempt
  BY <1>3 DEF ReconnectAttempt, Goto, Death
<1>4. ASSUME NEW o \in Outcomes, ReconnectDial(o) PROVE Death'
  <2>1. /\ o # "ok" => sender' = NoConn
        /\ o = "ok" => sender' # NoConn
    BY <1>4, <1>b, <1>c DEF ReconnectDial, CreateSender
  <2>2. /\ mgr = "dial"
        /\ mgr' = IF o # "ok" THEN AfterError(o)
                  ELSE IF Deferring THEN "stopNoop" ELSE "serving"
        /\ UNCHANGED <<clientDead, notifier, deadSeen>>
    BY <1>4 DEF ReconnectDial
  <2> QED BY <2>1, <2>2 DEF AfterError, Death
<1>5. CASE ReconnectError
  BY <1>5 DEF ReconnectError, Goto, Death
<1>6. CASE PutDeadNotice
  <2>1. mgr' = "storeDead" => "dead" \in Range(notifier')
    BY <1>6, <1>a, NotifyKeeps DEF PutDeadNotice, AfterPut, Goto
  <2> QED BY <1>6, <2>1 DEF PutDeadNotice, AfterPut, Goto, Death
<1>7. CASE EvictOldest
  BY <1>7 DEF EvictOldest, Goto, Death
<1>8. CASE StoreDead
  BY <1>8 DEF StoreDead, Goto, Death
<1>9. CASE CancelNoop
  BY <1>9 DEF CancelNoop, Death
<1>10. CASE AwaitNoop
  BY <1>10 DEF AwaitNoop, Death
<1>11. CASE SenderLost
  BY <1>11 DEF SenderLost, StoppedByCaller, Control, Death
<1>12. ASSUME NEW k \in Senders, SenderStep(k) PROVE Death'
  <2>1. /\ UNCHANGED <<mgrVars, deadSeen, clientDead>>
        /\ notifier' = notifier \/ notifier' = SendNotify("connErr")
    BY <1>12 DEF SenderStep, SenderLoop, SelectDone, SelectMsg, SelectTick, WriteOk,
                 WriteFails, SenderFails, TickFires
  <2>2. Range(notifier) \subseteq Range(notifier')
    BY <2>1, <1>a, NotifyKeeps
  <2> QED BY <2>1, <2>2 DEF Death
<1>13. ASSUME NEW c \in Conns, CloserDone(c) PROVE Death'
  <2>1. Range(notifier) \subseteq Range(notifier')
    BY <1>13, <1>a, NotifyKeeps DEF CloserDone
  <2> QED BY <1>13, <2>1 DEF CloserDone, Death
<1>14. ASSUME NEW r \in Records, SendChecks(r) \/ SendPuts(r) PROVE Death'
  BY <1>14 DEF SendChecks, SendPuts, Death
<1>15. CASE ReadNotify
  <2>1. Range(notifier) = {Head(notifier)} \cup Range(Tail(notifier))
    BY <1>15, TailElements DEF ReadNotify, TypeOK
  <2>2. /\ notifier' = Tail(notifier)
        /\ deadSeen' = (deadSeen \/ Head(notifier) = "dead")
        /\ UNCHANGED <<mgrVars, clientDead>>
    BY <1>15 DEF ReadNotify
  <2> QED BY <2>1, <2>2 DEF Death
<1>16. CASE UNCHANGED vars
  BY <1>16 DEF vars, Death
<1> QED BY <1>1, <1>2, <1>3, <1>4, <1>5, <1>6, <1>7, <1>8, <1>9, <1>10, <1>11,
           <1>12, <1>13, <1>14, <1>15, <1>16
        DEF Next, ManagerStep, UserStep, Quiescent

\* Death holds at all times.
LEMMA DeathAlways == Spec => [](TypeOK /\ Control /\ Death)
<1>1. Init => TypeOK /\ Control /\ Death
  BY TypeInit, ControlInit, DeathInit
<1>2. TypeOK /\ Control /\ Death /\ [Next]_vars => (TypeOK /\ Control /\ Death)'
  BY TypeStep, ControlStep, DeathStep
<1> QED BY <1>1, <1>2, PTL DEF Spec

\* Whatever closers and user do on the notifier, of any capacity, a client
\* that calls itself dead has its death notice read or waiting.
THEOREM DeathIsReportedAlways == Spec => []DeathIsReported
<1>1. Death => DeathIsReported
  BY DEF Death, DeathIsReported
<1> QED BY <1>1, DeathAlways, PTL

\* The manager's goroutine ends only by declaring the client dead: the branch
\* for a sender that returns nil is never taken.
THEOREM NobodyServesMeansDeadAlways == Spec => []NobodyServesMeansDead
<1>1. Death => NobodyServesMeansDead
  BY DEF Death, NobodyServesMeansDead
<1> QED BY <1>1, DeathAlways, PTL

\* No step of a dead client sends a record, makes a connection or revives it.
THEOREM DeadStaysDeadAlways == Spec => DeadStaysDead
<1> DEFINE A == clientDead => /\ clientDead'
                              /\ sent' = sent
                              /\ \A c \in Conns : conns[c] = "none" => conns'[c] = "none"
<1>1. TypeOK /\ Control /\ Death /\ [Next]_vars => A
  <2> SUFFICES ASSUME TypeOK, Control, Death, [Next]_vars, clientDead PROVE A
    OBVIOUS
  <2> USE DEF userVars, senderVars, connVars, fateVars, mgrVars
  <2>1. mgr \in {"stopNoop", "awaitNoop", "exited"} /\ ~Running("real")
    BY DEF Death, Control
  <2>2. CASE ManagerStep
    <3>1. CancelNoop \/ AwaitNoop
      BY <2>1, <2>2
         DEF ManagerStep, StartConnManager, DeferredConnect, ReconnectAttempt,
             ReconnectDial, ReconnectError, PutDeadNotice, EvictOldest, StoreDead,
             SenderLost
    <3> QED BY <3>1 DEF CancelNoop, AwaitNoop
  <2>3. ASSUME NEW k \in Senders, SenderStep(k) PROVE A
    <3>1. conns' = conns /\ clientDead' = clientDead
      BY <2>3 DEF SenderStep, SenderLoop, SelectDone, SelectMsg, SelectTick, WriteOk,
                  WriteFails, SenderFails, TickFires
    <3>2. sent' = sent \/ (WriteOk(k) /\ CountWritten(k) /\ Running(k))
      BY <2>3 DEF SenderStep, SenderLoop, SelectDone, SelectMsg, SelectTick, WriteOk,
                  WriteFails, SenderFails, TickFires, Running
    <3>3. sent' = sent
      BY <2>1, <3>2 DEF CountWritten, ToNoOP, Senders
    <3> QED BY <3>1, <3>3
  <2>4. ASSUME NEW c \in Conns, CloserDone(c) PROVE A
    BY <2>4 DEF CloserDone, TypeOK
  <2>5. CASE UserStep
    BY <2>5 DEF UserStep, SendChecks, SendPuts, ReadNotify
  <2>6. CASE UNCHANGED vars
    BY <2>6 DEF vars
  <2> QED BY <2>2, <2>3, <2>4, <2>5, <2>6 DEF Next, Quiescent
<1> QED BY <1>1, DeathAlways, PTL DEF Spec, DeadStaysDead

-------------------------------------------------------------------------------
(***************************************************************************)
(* The closers.                                                            *)
(***************************************************************************)

\* A connection is closed only once the client is on its way to death.
Closers ==
  /\ Closing = {} \/ \E c \in Conns : Closing = {c}
  /\ mgr \in {"new", "defer", "attempt", "dial", "retryErr", "serving"} => Closing = {}
  /\ sender # NoConn => Closing = {}

\* No closer runs before the first connection.
LEMMA ClosersInit == Init => Closers
  BY DEF Init, Closers, Closing

\* Only a rejected connection is closed, and its error is permanent.
LEMMA ClosersStep == TypeOK /\ Control /\ Death /\ Closers /\ [Next]_vars => Closers'
<1> SUFFICES ASSUME TypeOK, Control, Death, Closers, [Next]_vars PROVE Closers'
  OBVIOUS
<1> USE DEF userVars, senderVars, connVars, fateVars, mgrVars
<1>b. NoConn \notin Conns /\ Fresh \subseteq Conns
  BY SizeAssumption DEF NoConn, Conns, Fresh
<1>1. ASSUME NEW o \in Outcomes, CreateSender(o), mgr \in {"new", "dial"}
      PROVE  /\ o # "rejected" => Closing' = {}
             /\ o # "ok" => sender' = NoConn
             /\ Closing' = {} \/ \E c \in Conns : Closing' = {c}
  <2>1. Closing = {}
    BY <1>1 DEF Closers
  <2>2. CASE o \in {"ok", "rejected"}
    <3>1. PICK c \in Fresh :
            /\ conns' = [conns EXCEPT ![c] = IF o = "ok" THEN "open" ELSE "closing"]
            /\ sender' = IF o = "ok" THEN c ELSE NoConn
      BY <1>1, <2>2 DEF CreateSender
    <3> QED BY <1>b, <2>1, <2>2, <3>1 DEF Closing, TypeOK
  <2>3. CASE o \notin {"ok", "rejected"}
    BY <1>1, <2>1, <2>3 DEF CreateSender, Closing
  <2> QED BY <2>2, <2>3
<1>2. CASE StartConnManager
  <2>1. PICK o \in Outcomes :
          /\ CreateSender(o)
          /\ mgr' = CASE o = "ok" -> "serving"
                      [] o = "retryable" /\ Deferred -> "defer"
                      [] OTHER -> "failed"
    BY <1>2 DEF StartConnManager
  <2>2. mgr = "new"
    BY <1>2 DEF StartConnManager
  <2>3. o = "rejected" => mgr' = "failed"
    BY <2>1
  <2> QED BY <1>1, <2>1, <2>2, <2>3 DEF Closers
<1>3. ASSUME NEW o \in Outcomes, ReconnectDial(o) PROVE Closers'
  <2>1. mgr = "dial" /\ CreateSender(o) /\ (o = "rejected" => mgr' = "permErr")
    BY <1>3 DEF ReconnectDial, AfterError
  <2> QED BY <1>1, <2>1 DEF Closers
<1>4. ASSUME NEW c \in Conns, CloserDone(c) PROVE Closers'
  <2>1. Closing' = Closing \ {c}
    BY <1>4 DEF CloserDone, Closing, TypeOK
  <2> QED BY <1>4, <2>1 DEF CloserDone, Closers
<1>5. CASE SenderLost
  <2>1. StoppedByCaller = FALSE /\ Closing = {}
    BY <1>5 DEF SenderLost, StoppedByCaller, Control, Closers
  <2>2. Closing' = {}
    BY <1>5, <2>1 DEF SenderLost, Closing, TypeOK
  <2> QED BY <1>5, <2>1, <2>2 DEF SenderLost, Closers
<1>6. ASSUME UNCHANGED <<conns, sender>>,
             mgr' \in {"new", "defer", "attempt", "dial", "retryErr", "serving"}
               => mgr \in {"new", "defer", "attempt", "dial", "retryErr", "serving"}
                  \/ sender # NoConn
      PROVE  Closers'
  BY <1>6 DEF Closers, Closing
<1>7. CASE DeferredConnect
  BY <1>6, <1>7 DEF DeferredConnect
<1>8. CASE ReconnectAttempt \/ ReconnectError \/ PutDeadNotice \/ EvictOldest \/ StoreDead
  BY <1>6, <1>8 DEF ReconnectAttempt, ReconnectError, PutDeadNotice, AfterPut, EvictOldest,
                    StoreDead, Goto
<1>9. CASE CancelNoop \/ AwaitNoop
  BY <1>6, <1>9 DEF CancelNoop, AwaitNoop
<1>10. ASSUME NEW k \in Senders, SenderStep(k) PROVE Closers'
  <2>1. UNCHANGED <<conns, sender, mgr>>
    BY <1>10 DEF SenderStep, SenderLoop, SelectDone, SelectMsg, SelectTick, WriteOk,
                 WriteFails, SenderFails, TickFires
  <2> QED BY <1>6, <2>1
<1>11. CASE UserStep
  BY <1>6, <1>11 DEF UserStep, SendChecks, SendPuts, ReadNotify
<1>12. CASE UNCHANGED vars
  BY <1>6, <1>12 DEF vars
<1> QED BY <1>2, <1>3, <1>4, <1>5, <1>7, <1>8, <1>9, <1>10, <1>11, <1>12
        DEF Next, ManagerStep, Quiescent

\* Whatever maxClosers is, at most one closer ever runs, and none while
\* reconnect tries: its guard on their number never fires.
THEOREM NoRetryWhileClosingAlways == Spec => []NoRetryWhileClosing
<1>1. Init => TypeOK /\ Control /\ Death /\ Closers
  BY TypeInit, ControlInit, DeathInit, ClosersInit
<1>2. TypeOK /\ Control /\ Death /\ Closers /\ [Next]_vars
        => (TypeOK /\ Control /\ Death /\ Closers)'
  BY TypeStep, ControlStep, DeathStep, ClosersStep
<1>3. Closers => NoRetryWhileClosing
  <2> SUFFICES ASSUME Closers PROVE NoRetryWhileClosing
    OBVIOUS
  <2>1. mgr \in {"attempt", "dial", "retryErr"} => Closing = {}
    BY DEF Closers
  <2>2. CASE Closing = {}
    <3>1. Cardinality(Closing) = 0
      BY <2>2, FS_EmptySet
    <3> QED BY <2>1, <3>1 DEF NoRetryWhileClosing
  <2>3. ASSUME NEW c \in Conns, Closing = {c} PROVE NoRetryWhileClosing
    <3>1. Cardinality(Closing) = 1
      BY <2>3, FS_Singleton
    <3> QED BY <2>1, <3>1 DEF NoRetryWhileClosing
  <2> QED BY <2>2, <2>3 DEF Closers
<1> QED BY <1>1, <1>2, <1>3, PTL DEF Spec

-------------------------------------------------------------------------------
(***************************************************************************)
(* The first two messages of a connection.                                 *)
(***************************************************************************)

\* What a connection begins with.
RecordHeartbeat == <<"record", "heartbeat">>

\* Append, where it makes a pair.
LEMMA AppendToOne == ASSUME NEW a, NEW b PROVE Append(<<a>>, b) = <<a, b>>
<1>1. /\ <<a>> \in Seq({a, b}) /\ Len(<<a>>) = 1
      /\ <<a, b>> \in Seq({a, b}) /\ Len(<<a, b>>) = 2
  OBVIOUS
<1>2. Append(<<a>>, b) \in Seq({a, b}) /\ Len(Append(<<a>>, b)) = 2
  BY <1>1
<1>3. Append(<<a>>, b)[1] = a /\ Append(<<a>>, b)[2] = b
  BY <1>1, AppendProperties
<1>4. \A i \in 1..2 : Append(<<a>>, b)[i] = <<a, b>>[i]
  BY <1>3
<1> QED BY <1>1, <1>2, <1>4, SeqEqual

\* What the real sender has written to its connection: while it has no ticker,
\* and so no tick, nothing, or a record if it is about to write the heartbeat
\* that follows; with a ticker, both.  A connection nobody has written to, one
\* not made yet or one the real sender has still to be started on, is blank.
FirstMessages ==
  /\ \A c \in Conns : wire[c] \in {<<>>, <<"record">>, RecordHeartbeat}
  /\ \A c \in Conns : conns[c] = "none" => wire[c] = <<>>
  /\ mgr \in {"stopNoop", "awaitNoop"} /\ sender # NoConn => wire[sender] = <<>>
  /\ sender # NoConn => conns[sender] # "none"
  /\ Running("real") => sender # NoConn
  /\ pc["real"] \in {"loop", "select"} =>
       IF ticker["real"] THEN wire[sender] = RecordHeartbeat
                         ELSE wire[sender] = <<>> /\ ~tick["real"]
  /\ pc["real"] = "write" =>
       IF ticker["real"] THEN wire[sender] = RecordHeartbeat
       ELSE /\ ~tick["real"]
            /\ \/ wire[sender] = <<>> /\ hand["real"] \in Records
               \/ wire[sender] = <<"record">> /\ hand["real"] = HeartbeatMsg

\* Before the first connection nothing is written.
LEMMA FirstMessagesInit == Init => FirstMessages
  BY DEF Init, FirstMessages, Running, Senders, NoConn

\* A sender starts on a blank connection and without ticker or tick; from then
\* on only its own writes and ticks count.
LEMMA FirstMessagesStep ==
  TypeOK /\ Control /\ Death /\ FirstMessages /\ [Next]_vars => FirstMessages'
<1> SUFFICES ASSUME TypeOK, Control, Death, FirstMessages, [Next]_vars
             PROVE  FirstMessages'
  OBVIOUS
<1> USE DEF userVars, senderVars, connVars, fateVars, mgrVars
<1>b. NoConn \notin Conns /\ Fresh \subseteq Conns
  BY SizeAssumption DEF NoConn, Conns, Fresh
<1>1. ASSUME NEW o \in Outcomes, CreateSender(o)
      PROVE  /\ wire' = wire
             /\ \A c \in Conns : conns'[c] = "none" => wire'[c] = <<>>
             /\ o # "ok" => sender' = NoConn
             /\ o = "ok" => /\ sender' \in Conns /\ wire'[sender'] = <<>>
                           /\ conns'[sender'] # "none"
  <2>1. CASE o \in {"ok", "rejected"}
    <3>1. PICK c \in Fresh :
            /\ conns' = [conns EXCEPT ![c] = IF o = "ok" THEN "open" ELSE "closing"]
            /\ sender' = IF o = "ok" THEN c ELSE NoConn
      BY <1>1, <2>1 DEF CreateSender
    <3>2. wire[c] = <<>> /\ wire' = wire
      BY <1>1, <2>1 DEF CreateSender, Fresh, FirstMessages
    <3> QED BY <1>b, <3>1, <3>2 DEF FirstMessages, TypeOK
  <2>2. CASE o \notin {"ok", "rejected"}
    BY <1>1, <2>2 DEF CreateSender, FirstMessages
  <2> QED BY <2>1, <2>2
<1>2. ASSUME StartSender("real"), sender' \in Conns, wire'[sender'] = <<>>
      PROVE  /\ pc'["real"] = "loop" /\ ~ticker'["real"] /\ ~tick'["real"]
             /\ Running("real")' /\ sender' # NoConn
  BY <1>b, <1>2 DEF StartSender, TypeOK, Senders, Running
<1>3. CASE StartConnManager
  <2>1. PICK o \in Outcomes :
          /\ CreateSender(o)
          /\ mgr' = CASE o = "ok" -> "serving"
                      [] o = "retryable" /\ Deferred -> "defer"
                      [] OTHER -> "failed"
          /\ IF o = "ok" THEN StartSender("real") ELSE UNCHANGED senderVars
    BY <1>3 DEF StartConnManager
  <2>2. pc["real"] = "off"
    BY <1>3 DEF StartConnManager, Control
  <2> QED BY <1>1, <1>2, <2>1, <2>2 DEF FirstMessages, Running
<1>4. ASSUME NEW o \in Outcomes, ReconnectDial(o) PROVE FirstMessages'
  <2>1. /\ CreateSender(o)
        /\ mgr' = IF o # "ok" THEN AfterError(o)
                  ELSE IF Deferring THEN "stopNoop" ELSE "serving"
        /\ IF mgr' = "serving" THEN StartSender("real") ELSE UNCHANGED senderVars
    BY <1>4 DEF ReconnectDial
  <2>2. ~Running("real") /\ pc["real"] \in SenderPCs
    BY <1>4 DEF ReconnectDial, Control, TypeOK, Senders
  <2> QED BY <1>1, <1>2, <2>1, <2>2 DEF AfterError, FirstMessages, Running
<1>5. CASE AwaitNoop
  <2>1. /\ UNCHANGED <<sender, wire, conns>>
        /\ sender = NoConn => mgr' = "exited" /\ UNCHANGED senderVars
        /\ sender # NoConn => mgr' = "serving" /\ StartSender("real")
    BY <1>5 DEF AwaitNoop
  <2>2. sender # NoConn => sender \in Conns /\ wire[sender] = <<>>
    BY <1>5 DEF AwaitNoop, FirstMessages, TypeOK
  <2> QED BY <1>2, <2>1, <2>2 DEF FirstMessages, Running
<1>6. ASSUME UNCHANGED <<sender, wire, conns, pc, hand, ticker, tick>>,
             mgr' \in {"stopNoop", "awaitNoop"} =>
               mgr \in {"stopNoop", "awaitNoop"} \/ sender = NoConn
      PROVE  FirstMessages'
  BY <1>6 DEF FirstMessages, Running
<1>7. ASSUME NEW k \in Senders, SenderStep(k) PROVE FirstMessages'
  <2>1. /\ UNCHANGED <<sender, conns, mgr>>
        /\ ~WriteOk(k) => wire' = wire
    BY <1>7 DEF SenderStep, SenderLoop, SelectDone, SelectMsg, SelectTick, WriteFails,
                SenderFails, TickFires, WriteOk
  <2>2. CASE k = "noop"
    <3>1. UNCHANGED <<wire, pc["real"], hand["real"], ticker["real"], tick["real"]>>
      BY <1>7, <2>2 DEF SenderStep, SenderLoop, SelectDone, SelectMsg, SelectTick, WriteOk,
           WriteFails, SenderFails, TickFires, EndSender, NoteOnWire, NextMessage, TypeOK,
           Senders
    <3> QED BY <2>1, <3>1 DEF FirstMessages, Running
  <2>3. CASE k = "real"
    <3>1. CASE SenderLoop(k)
      BY <2>1, <2>3, <3>1 DEF SenderLoop, Cancelled, FirstMessages, Running, TypeOK, Senders
    <3>2. CASE SelectDone(k)
      BY <2>3, <3>2 DEF SelectDone, Cancelled
    <3>3. CASE SelectMsg(k)
      <4>1. Head(sendCh) \in Records
        BY <3>3, TailElements DEF SelectMsg, TypeOK
      <4> QED BY <2>1, <2>3, <3>3, <4>1 DEF SelectMsg, FirstMessages, Running, TypeOK, Senders
    <3>4. CASE SelectTick(k)
      BY <2>1, <2>3, <3>4 DEF SelectTick, FirstMessages, Running, TypeOK, Senders
    <3>5. CASE WriteOk(k)
      <4> DEFINE m == IF hand[k] \in Records THEN "record" ELSE "heartbeat"
      <4>1. pc[k] = "write" /\ sender \in Conns /\ HeartbeatMsg \notin Records
        BY <2>3, <3>5, RecordsAssumption DEF WriteOk, FirstMessages, Running, TypeOK
      <4>2. wire' = IF Len(wire[sender]) < 2
                    THEN [wire EXCEPT ![sender] = Append(wire[sender], m)] ELSE wire
        BY <2>3, <3>5 DEF WriteOk, NoteOnWire
      <4>3. conns[sender] # "none"
        BY <1>b, <4>1 DEF FirstMessages
      <4>4. CASE ticker[k]
        <5>1. wire' = wire
          BY <2>3, <4>1, <4>2, <4>4 DEF FirstMessages, RecordHeartbeat
        <5> QED BY <2>1, <2>3, <3>5, <4>1, <4>4, <5>1
                DEF WriteOk, NextMessage, FirstMessages, Running, TypeOK, Senders
      <4>5. CASE ~ticker[k] /\ hand[k] \in Records
        <5>1. wire[sender] = <<>> /\ m = "record"
          BY <2>3, <4>1, <4>5 DEF FirstMessages
        <5>2. wire' = [wire EXCEPT ![sender] = <<"record">>]
          <6> HIDE DEF m
          <6>1. Len(wire[sender]) < 2 /\ Append(wire[sender], m) = <<"record">>
            BY <5>1
          <6> QED BY <4>2, <6>1
        <5>3. /\ hand' = [hand EXCEPT ![k] = HeartbeatMsg]
              /\ UNCHANGED <<pc, ticker, tick>>
          BY <3>5, <4>5 DEF WriteOk, NextMessage
        <5>4. pc["real"] = "write" /\ ~tick["real"] /\ ~ticker["real"]
          BY <2>3, <4>1, <4>5 DEF FirstMessages
        <5>5. hand'["real"] = HeartbeatMsg /\ sender' = sender
          BY <2>1, <2>3, <5>3 DEF TypeOK, Senders
        <5>6. wire'[sender] = <<"record">> /\ wire \in [Conns -> Seq({"record", "heartbeat"})]
          BY <4>1, <5>2 DEF TypeOK
        <5>7. mgr' = "serving"
          BY <2>1, <2>3, <4>1 DEF Control, Running
        <5> QED BY <2>1, <4>1, <4>3, <5>2, <5>3, <5>4, <5>5, <5>6, <5>7
                DEF FirstMessages, Running
      <4>6. CASE ~ticker[k] /\ hand[k] = HeartbeatMsg
        <5>1. wire[sender] = <<"record">> /\ m = "heartbeat"
          BY <2>3, <4>1, <4>6 DEF FirstMessages
        <5>2. wire' = [wire EXCEPT ![sender] = RecordHeartbeat]
          <6> HIDE DEF m
          <6>1. Len(wire[sender]) < 2
            BY <5>1
          <6>2. Append(<<"record">>, "heartbeat") = RecordHeartbeat
            BY AppendToOne DEF RecordHeartbeat
          <6>3. wire' = [wire EXCEPT ![sender] = Append(<<"record">>, "heartbeat")]
            BY <4>2, <5>1, <6>1, Zenon
          <6> QED BY <6>2, <6>3, Zenon
        <5>3. /\ pc' = [pc EXCEPT ![k] = "loop"]
              /\ ticker' = [ticker EXCEPT ![k] = TRUE]
          BY <3>5, <4>1, <4>6 DEF WriteOk, NextMessage
        <5>4. pc'["real"] = "loop" /\ ticker'["real"] /\ sender' = sender
          BY <2>1, <2>3, <5>3 DEF TypeOK, Senders
        <5>5. wire'[sender] = RecordHeartbeat /\ wire \in [Conns -> Seq({"record", "heartbeat"})]
          BY <4>1, <5>2 DEF TypeOK
        <5>6. mgr' = "serving"
          BY <2>1, <2>3, <4>1 DEF Control, Running
        <5>7. \A c \in Conns : c # sender => wire'[c] = wire[c]
          BY <5>2, <5>5
        <5>8. \A c \in Conns : /\ wire'[c] \in {<<>>, <<"record">>, RecordHeartbeat}
                               /\ conns'[c] = "none" => wire'[c] = <<>>
          BY <2>1, <4>3, <5>5, <5>7 DEF FirstMessages
        <5>9. sender' # NoConn
          BY <1>b, <4>1, <5>4
        <5> QED BY <2>1, <4>3, <5>4, <5>5, <5>6, <5>8, <5>9 DEF FirstMessages, Running
      <4> QED BY <2>3, <4>1, <4>4, <4>5, <4>6 DEF FirstMessages
    <3>6. CASE WriteFails(k)
      BY <2>1, <2>3, <3>6 DEF WriteFails, FirstMessages, Running, TypeOK, Senders
    <3>7. CASE SenderFails(k)
      BY <2>1, <2>3, <3>7 DEF SenderFails, EndSender, FirstMessages, Running, TypeOK, Senders
    <3>8. CASE TickFires(k)
      BY <2>1, <2>3, <3>8 DEF TickFires, FirstMessages, Running, TypeOK, Senders
    <3> QED BY <1>7, <2>1, <3>1, <3>2, <3>3, <3>4, <3>5, <3>6, <3>7, <3>8 DEF SenderStep
  <2> QED BY <2>2, <2>3 DEF Senders
<1>8. CASE DeferredConnect
  BY <1>8 DEF DeferredConnect, StartSender, FirstMessages, Running, TypeOK, Senders
<1>9. CASE ReconnectAttempt \/ ReconnectError \/ PutDeadNotice \/ EvictOldest
  BY <1>6, <1>9 DEF ReconnectAttempt, ReconnectError, PutDeadNotice, AfterPut, EvictOldest,
                    Goto
<1>10. CASE StoreDead \/ CancelNoop
  BY <1>6, <1>10 DEF StoreDead, CancelNoop, Goto, Death
<1>11. CASE SenderLost
  BY <1>11 DEF SenderLost, FirstMessages, Running, TypeOK, ConnStates
<1>12. ASSUME NEW c \in Conns, CloserDone(c) PROVE FirstMessages'
  BY <1>12 DEF CloserDone, FirstMessages, Running, TypeOK
<1>13. CASE UserStep
  BY <1>6, <1>13 DEF UserStep, SendChecks, SendPuts, ReadNotify
<1>14. CASE UNCHANGED vars
  BY <1>6, <1>14 DEF vars
<1> QED BY <1>3, <1>4, <1>5, <1>7, <1>8, <1>9, <1>10, <1>11, <1>12, <1>13, <1>14
        DEF Next, ManagerStep, Quiescent


\* What the four invariants say holds in every state of the client.
LEMMA FirstMessagesAlways == Spec => [](TypeOK /\ Control /\ Death /\ FirstMessages)
<1>1. Init => TypeOK /\ Control /\ Death /\ FirstMessages
  BY TypeInit, ControlInit, DeathInit, FirstMessagesInit
<1>2. TypeOK /\ Control /\ Death /\ FirstMessages /\ [Next]_vars
        => (TypeOK /\ Control /\ Death /\ FirstMessages)'
  BY TypeStep, ControlStep, DeathStep, FirstMessagesStep
<1> QED BY <1>1, <1>2, PTL DEF Spec

\* However many senders and connections come and go, a record opens every
\* connection and a heartbeat follows it.
THEOREM RecordThenHeartbeatAlways == Spec => []RecordThenHeartbeat
<1>1. FirstMessages => RecordThenHeartbeat
  BY DEF FirstMessages, RecordThenHeartbeat, RecordHeartbeat
<1> QED BY <1>1, FirstMessagesAlways, PTL

===============================================================================
