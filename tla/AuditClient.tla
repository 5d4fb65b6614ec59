------------------------------ MODULE AuditClient ------------------------------
(***************************************************************************)
(* audit.Client: Send, the queue, the sender goroutines that drain it, the *)
(* connection manager that replaces a sender whose connection failed, the  *)
(* closers, and the Notify channel (audit.go and msgsender.go).            *)
(*                                                                         *)
(* One action is one step of one goroutine between two operations on       *)
(* shared state: the send queue, the notifier channel, the clientDead      *)
(* flag, the closers group, a context, a sender's result channel.  The     *)
(* contexts are those of production, where testing.Testing() is false:     *)
(* only the context of the no-op sender is ever cancelled.                 *)
(***************************************************************************)
EXTENDS Integers, Sequences, FiniteSets, Functions

CONSTANTS
  Records,        \* one element per call of Send
  AuditType,      \* msg.Type of each: 0 ATUnknown .. 4 Diagnostic
  ValidRecords,   \* those whose Record passes Validate()
  Unencodable,    \* those msgpack cannot encode: a func in CustomData, say
  QueueSize,      \* capacity of sendCh
  NotifierCap,    \* capacity of notifier, 2 in New()
  MaxClosers,     \* Client.maxClosers, 1000 in New()
  Deferred,       \* WithDeferredConnection() was given
  ConnType,       \* what create() returns: "NoOP" or "Socket"
  GOOS,           \* runtime.GOOS: "linux" or "other"
  CloseOutcomes,  \* how CloseSend() may end: "nil", "err"; it may also hang
  MaxConns        \* bound: how many connections create() ever makes

Conns     == 1..MaxConns
NoConn    == 0
Senders   == {"noop", "real"}
HeartbeatMsg == "heartbeat"
NoMsg     == "nomsg"
DataPlane    == 1
ControlPlane == 2

ASSUME RecordsAssumption ==
  /\ {HeartbeatMsg, NoMsg} \cap Records = {}
  /\ IsFiniteSet(Records)
  /\ AuditType \in [Records -> 0..4]
  /\ ValidRecords \subseteq Records
  /\ Unencodable \subseteq Records
ASSUME SizeAssumption ==
  /\ QueueSize \in Nat \ {0}        \* WithQueueSize refuses less
  /\ NotifierCap \in Nat \ {0}
  /\ MaxClosers \in Nat
  /\ MaxConns \in Nat
ASSUME EnvAssumption ==
  /\ Deferred \in BOOLEAN
  /\ ConnType \in {"NoOP", "Socket"}
  /\ GOOS \in {"linux", "other"}
  /\ CloseOutcomes \subseteq {"nil", "err"}

VARIABLES
  call,           \* progress and outcome of each call of Send
  sendCh,         \* Client.sendCh
  clientDead,     \* Client.clientDead
  notifier,       \* Client.notifier, each NotifyError as its kind
  deadSeen,       \* the user has read the death notice (history)
  mgr,            \* program counter of New(), then of the manager goroutine
  sender,         \* connection of the sender the manager holds, or NoConn
  noopCancelled,  \* cancelNoop() has been called
  pc,             \* program counter of each sender goroutine
  hand,           \* message each sender goroutine is writing
  ticker,         \* its heartbeat ticker exists
  tick,           \* a tick waits in its tickerCh
  result,         \* what its start() channel delivered
  conns,          \* state of each connection
  broken,         \* connections whose Write failed on I/O
  wire,           \* first two messages written to each connection (history)
  sent, dropped   \* records counted by messages_sent and messages_dropped

userVars   == <<call, deadSeen>>
senderVars == <<pc, hand, ticker, tick, result>>
connVars   == <<conns, broken, wire>>
fateVars   == <<sendCh, sent, dropped>>
mgrVars    == <<mgr, sender, noopCancelled>>
vars == <<userVars, senderVars, connVars, fateVars, mgrVars,
          clientDead, notifier>>

Calls   == {"idle", "checked", "accepted", "full", "invalid", "dead"}
Notices == {"connErr", "closeErr", "bug", "dead"}
MgrPCs  == {"new", "failed", "defer", "attempt", "dial", "retryErr", "permErr",
            "dying", "evict", "storeDead", "stopNoop", "awaitNoop", "serving",
            "exited"}
SenderPCs == {"off", "loop", "select", "write", "notify", "done"}
Results   == {"none", "nil", "ctxErr", "writeErr"}
ConnStates == {"none", "open", "abandoned", "closing", "closed"}

TypeOK ==
  /\ call \in [Records -> Calls]
  /\ sendCh \in Seq(Records) /\ Len(sendCh) <= QueueSize
  /\ clientDead \in BOOLEAN
  /\ notifier \in Seq(Notices) /\ Len(notifier) <= NotifierCap
  /\ deadSeen \in BOOLEAN
  /\ mgr \in MgrPCs
  /\ sender \in Conns \cup {NoConn}
  /\ noopCancelled \in BOOLEAN
  /\ pc \in [Senders -> SenderPCs]
  /\ hand \in [Senders -> Records \cup {HeartbeatMsg, NoMsg}]
  /\ ticker \in [Senders -> BOOLEAN]
  /\ tick \in [Senders -> BOOLEAN]
  /\ result \in [Senders -> Results]
  /\ conns \in [Conns -> ConnStates]
  /\ broken \subseteq Conns \cup {NoConn}
  /\ wire \in [Conns -> Seq({"record", "heartbeat"})]
  /\ sent \subseteq Records
  /\ dropped \subseteq Records

Init ==
  /\ call = [r \in Records |-> "idle"]
  /\ sendCh = <<>>
  /\ clientDead = FALSE
  /\ notifier = <<>>
  /\ deadSeen = FALSE
  /\ mgr = "new"
  /\ sender = NoConn
  /\ noopCancelled = FALSE
  /\ pc = [k \in Senders |-> "off"]
  /\ hand = [k \in Senders |-> NoMsg]
  /\ ticker = [k \in Senders |-> FALSE]
  /\ tick = [k \in Senders |-> FALSE]
  /\ result = [k \in Senders |-> "none"]
  /\ conns = [c \in Conns |-> "none"]
  /\ broken = {}
  /\ wire = [c \in Conns |-> <<>>]
  /\ sent = {}
  /\ dropped = {}

-------------------------------------------------------------------------------
(***************************************************************************)
(* Helpers.                                                                *)
(***************************************************************************)

\* New() has returned a client.
ClientUp == mgr \notin {"new", "failed"}

\* The goroutine of sender k is running.
Running(k) == pc[k] \notin {"off", "done"}

\* deferredConnect, not manageSender, is the caller of reconnect.
Deferring == pc["noop"] # "off" /\ ~noopCancelled

Closing == {c \in Conns : conns[c] = "closing"}

\* The connection create() would make next, if the bound leaves one.
Fresh == {c \in Conns : /\ conns[c] = "none"
                        /\ \A d \in Conns : d < c => conns[d] # "none"}

\* Sender k writes to a conn.NoOP.
ToNoOP(k) == k = "noop" \/ ConnType = "NoOP"

\* newSender accepts the connections create() makes on this host.
HostAccepts == GOOS = "linux" \/ ConnType = "NoOP"

\* The notifier channel after sendNotify of a notice of kind n.
SendNotify(n) == IF Len(notifier) < NotifierCap THEN Append(notifier, n)
                                                ELSE notifier

\* start() runs a fresh msgSender, which has no ticker yet.
StartSender(k) ==
  /\ pc' = [pc EXCEPT ![k] = "loop"]
  /\ hand' = [hand EXCEPT ![k] = NoMsg]
  /\ ticker' = [ticker EXCEPT ![k] = FALSE]
  /\ tick' = [tick EXCEPT ![k] = FALSE]
  /\ result' = [result EXCEPT ![k] = "none"]

\* The goroutine of sender k returns, which stops its ticker.
EndSender(k, res) ==
  /\ pc' = [pc EXCEPT ![k] = "done"]
  /\ hand' = [hand EXCEPT ![k] = NoMsg]
  /\ ticker' = [ticker EXCEPT ![k] = FALSE]
  /\ tick' = [tick EXCEPT ![k] = FALSE]
  /\ result' = [result EXCEPT ![k] = res]

-------------------------------------------------------------------------------
(***************************************************************************)
(* Connections.                                                            *)
(***************************************************************************)

Outcomes == {"ok", "rejected", "retryable", "permanent"}

\* createSender: create() makes a connection, which newSender rejects and
\* hands to closeAuditConn on a host that cannot use it, or create() fails
\* with an error that may wrap exponential.ErrPermanent.
CreateSender(o) ==
  IF o \in {"ok", "rejected"}
  THEN /\ HostAccepts <=> (o = "ok")
       /\ \E c \in Fresh :
            /\ conns' = [conns EXCEPT ![c] = IF o = "ok" THEN "open" ELSE "closing"]
            /\ sender' = IF o = "ok" THEN c ELSE NoConn
       /\ UNCHANGED <<broken, wire>>
  ELSE /\ sender' = NoConn
       /\ UNCHANGED connVars

\* A closeAuditConn goroutine comes back from CloseSend.
CloserDone(c) ==
  /\ conns[c] = "closing"
  /\ conns' = [conns EXCEPT ![c] = "closed"]
  /\ \E o \in CloseOutcomes :
       notifier' = IF o = "err" THEN SendNotify("closeErr") ELSE notifier
  /\ UNCHANGED <<broken, wire, userVars, senderVars, fateVars, mgrVars, clientDead>>

-------------------------------------------------------------------------------
(***************************************************************************)
(* New(), then deferredConnect and manageSender.                           *)
(***************************************************************************)

\* startConnManager, with launchManager or startDeferred.
StartConnManager ==
  /\ mgr = "new"
  /\ \E o \in Outcomes :
       /\ CreateSender(o)
       /\ mgr' = CASE o = "ok" -> "serving"
                   [] o = "retryable" /\ Deferred -> "defer"
                   [] OTHER -> "failed"
       /\ IF o = "ok" THEN StartSender("real") ELSE UNCHANGED senderVars
  /\ UNCHANGED <<noopCancelled, userVars, fateVars, clientDead, notifier>>

\* deferredConnect reports the failed start and starts the no-op sender.
DeferredConnect ==
  /\ mgr = "defer"
  /\ notifier' = SendNotify("connErr")
  /\ StartSender("noop")
  /\ mgr' = "attempt"
  /\ UNCHANGED <<sender, noopCancelled, userVars, fateVars, connVars, clientDead>>

\* The manager goes on to next; beside that it touches at most the notifier
\* and the flag.
Goto(next) ==
  /\ mgr' = next
  /\ UNCHANGED <<sender, noopCancelled, userVars, senderVars, fateVars, connVars>>

\* One attempt of reconnect's backoff begins with the too-many-closers guard.
ReconnectAttempt ==
  /\ mgr = "attempt"
  /\ Goto(IF Cardinality(Closing) > MaxClosers THEN "dying" ELSE "dial")
  /\ UNCHANGED <<clientDead, notifier>>

\* Mutant: reconnect backs off from every error.
AfterError_Retries(o) == "retryErr"

\* Mutant: reconnect gives up at the first error.
AfterError_GivesUp(o) == "permErr"

\* The backoff tries again unless the error is permanent.
AfterError(o) == IF o = "retryable" THEN "retryErr" ELSE "permErr"

\* createSender within an attempt; manageSender starts the new sender at
\* once, deferredConnect only after the no-op one has stopped.
ReconnectDial(o) ==
  /\ mgr = "dial"
  /\ CreateSender(o)
  /\ mgr' = IF o # "ok" THEN AfterError(o)
            ELSE IF Deferring THEN "stopNoop" ELSE "serving"
  /\ IF mgr' = "serving" THEN StartSender("real") ELSE UNCHANGED senderVars
  /\ UNCHANGED <<noopCancelled, userVars, fateVars, clientDead, notifier>>

\* The attempt failed: notify, then back off or give up.
ReconnectError ==
  /\ mgr \in {"retryErr", "permErr"}
  /\ notifier' = SendNotify("connErr")
  /\ Goto(IF mgr = "retryErr" THEN "attempt" ELSE "dying")
  /\ UNCHANGED clientDead

\* Mutant: the death notice is a plain sendNotify, dropped when full.
AfterPut_Drops == "storeDead"

\* sendNotifyDead leaves its loop when TryPut found room.
AfterPut == IF Len(notifier) < NotifierCap THEN "storeDead" ELSE "evict"

\* sendNotifyDead: the TryPut of its loop's condition.
PutDeadNotice ==
  /\ mgr = "dying"
  /\ notifier' = SendNotify("dead")
  /\ Goto(AfterPut)
  /\ UNCHANGED clientDead

\* Mutant: the loop retries without making room.
Evicted_None == notifier

\* TryGet; the user may have emptied the channel in between.
Evicted == IF notifier = <<>> THEN <<>> ELSE Tail(notifier)

\* sendNotifyDead: the TryGet of its loop's body.
EvictOldest ==
  /\ mgr = "evict"
  /\ notifier' = Evicted
  /\ Goto("dying")
  /\ UNCHANGED clientDead

\* Mutant: reconnect gives up without setting the flag.
StoreDead_Forgotten ==
  /\ mgr = "storeDead"
  /\ Goto(IF Deferring THEN "stopNoop" ELSE "exited")
  /\ UNCHANGED <<clientDead, notifier>>

\* Mutant: reconnect sets the flag and goes on trying.
StoreDead_Retries ==
  /\ mgr = "storeDead"
  /\ clientDead' = TRUE
  /\ Goto("attempt")
  /\ UNCHANGED notifier

\* reconnect returns nil to its caller: the client is dead.
StoreDead ==
  /\ mgr = "storeDead"
  /\ clientDead' = TRUE
  /\ Goto(IF Deferring THEN "stopNoop" ELSE "exited")
  /\ UNCHANGED notifier

\* deferredConnect calls cancelNoop().
CancelNoop ==
  /\ mgr = "stopNoop"
  /\ noopCancelled' = TRUE
  /\ mgr' = "awaitNoop"
  /\ UNCHANGED <<sender, userVars, senderVars, fateVars, connVars, clientDead,
                 notifier>>

\* Mutant: deferredConnect does not wait.
NoopDone_NoWait == TRUE

\* <-noopDone returns.
NoopDone == pc["noop"] = "done"

\* deferredConnect has waited for noopDone and hands over to manageSender.
AwaitNoop ==
  /\ mgr = "awaitNoop"
  /\ NoopDone
  /\ IF sender = NoConn
     THEN mgr' = "exited" /\ UNCHANGED senderVars
     ELSE mgr' = "serving" /\ StartSender("real")
  /\ UNCHANGED <<sender, noopCancelled, userVars, fateVars, connVars, clientDead,
                 notifier>>

\* manageSender received a nil error.
StoppedByCaller == result["real"] = "nil"

\* manageSender receives what its sender returned.  A nil error is a bug the
\* manager reports before it quits; any other is notified, and the sender is
\* given up for a new one, its connection left as it is.
SenderLost ==
  /\ mgr = "serving"
  /\ pc["real"] = "done"
  /\ IF StoppedByCaller
     THEN /\ notifier' = SendNotify("bug")
          /\ mgr' = "exited"
          /\ UNCHANGED <<sender, conns>>
     ELSE /\ notifier' = SendNotify("connErr")
          /\ mgr' = "attempt"
          /\ conns' = [conns EXCEPT ![sender] = "abandoned"]
          /\ sender' = NoConn
  /\ UNCHANGED <<noopCancelled, broken, wire, userVars, senderVars, fateVars,
                 clientDead>>

-------------------------------------------------------------------------------
(***************************************************************************)
(* The sender goroutines (msgsender.go).                                   *)
(***************************************************************************)

\* Mutant: the sender never looks at its context.
Cancelled_Never(k) == FALSE

\* The context of sender k is cancelled; only the no-op sender's can be.
Cancelled(k) == k = "noop" /\ noopCancelled

\* sender(): the ctx.Err() test at the top of its loop.
SenderLoop(k) ==
  /\ pc[k] = "loop"
  /\ IF Cancelled(k)
     THEN EndSender(k, "nil")
     ELSE /\ pc' = [pc EXCEPT ![k] = "select"]
          /\ UNCHANGED <<hand, ticker, tick, result>>
  /\ UNCHANGED <<userVars, fateVars, connVars, mgrVars, clientDead, notifier>>

\* serviceMsg: the select takes ctx.Done().
SelectDone(k) ==
  /\ pc[k] = "select"
  /\ Cancelled(k)
  /\ EndSender(k, "ctxErr")
  /\ UNCHANGED <<userVars, fateVars, connVars, mgrVars, clientDead, notifier>>

\* serviceMsg: the select takes a message from sendCh.
SelectMsg(k) ==
  /\ pc[k] = "select"
  /\ sendCh # <<>>
  /\ sendCh' = Tail(sendCh)
  /\ hand' = [hand EXCEPT ![k] = Head(sendCh)]
  /\ pc' = [pc EXCEPT ![k] = "write"]
  /\ UNCHANGED <<ticker, tick, result, sent, dropped, userVars, connVars, mgrVars,
                 clientDead, notifier>>

\* serviceMsg: the select takes a tick.
SelectTick(k) ==
  /\ pc[k] = "select"
  /\ tick[k]
  /\ tick' = [tick EXCEPT ![k] = FALSE]
  /\ hand' = [hand EXCEPT ![k] = HeartbeatMsg]
  /\ pc' = [pc EXCEPT ![k] = "write"]
  /\ UNCHANGED <<ticker, result, userVars, fateVars, connVars, mgrVars, clientDead,
                 notifier>>

\* write() counts a message a conn.NoOP swallowed as dropped, any other
\* message written as sent.  Of what is counted the model keeps the records.
CountWritten(k) ==
  CASE hand[k] \notin Records -> UNCHANGED <<sent, dropped>>
    [] hand[k] \in Records /\ ToNoOP(k) ->
         dropped' = dropped \cup {hand[k]} /\ UNCHANGED sent
    [] OTHER ->
         sent' = sent \cup {hand[k]} /\ UNCHANGED dropped

\* The first two messages of a connection are remembered.
NoteOnWire(k) ==
  IF k = "real" /\ Len(wire[sender]) < 2
  THEN wire' = [wire EXCEPT ![sender] =
                  Append(@, IF hand[k] \in Records THEN "record" ELSE "heartbeat")]
  ELSE UNCHANGED wire

\* Mutant: the ticker starts with the first record, which gets no heartbeat.
NextMessage_NoFirst(k) ==
  /\ hand' = [hand EXCEPT ![k] = NoMsg]
  /\ pc' = [pc EXCEPT ![k] = "loop"]
  /\ ticker' = [ticker EXCEPT ![k] = TRUE]

\* serviceMsg after a successful write: the first record of a sender is
\* followed by a heartbeat, and only then does the ticker start.
NextMessage(k) ==
  IF hand[k] \in Records /\ ~ticker[k]
  THEN /\ hand' = [hand EXCEPT ![k] = HeartbeatMsg]
       /\ UNCHANGED <<pc, ticker>>
  ELSE /\ hand' = [hand EXCEPT ![k] = NoMsg]
       /\ pc' = [pc EXCEPT ![k] = "loop"]
       /\ ticker' = [ticker EXCEPT ![k] = TRUE]

\* conn.Write gets as far as the connection: a conn.NoOP encodes nothing, the
\* others fail before they write if msgpack cannot encode the message.
Encodes(k) == ToNoOP(k) \/ hand[k] \notin Unencodable

\* conn.Write succeeded.
WriteOk(k) ==
  /\ pc[k] = "write"
  /\ Encodes(k)
  /\ CountWritten(k)
  /\ NoteOnWire(k)
  /\ NextMessage(k)
  /\ UNCHANGED <<tick, result, sendCh, conns, broken, userVars, mgrVars, clientDead,
                 notifier>>

\* Mutant: a record that finds the queue full is forgotten.
Requeue_Forgets(m) ==
  IF m \in Records /\ Len(sendCh) < QueueSize
  THEN sendCh' = Append(sendCh, m) /\ UNCHANGED dropped
  ELSE UNCHANGED <<sendCh, dropped>>

\* Mutant: the requeue ignores the capacity of the queue.
Requeue_Unbounded(m) ==
  IF m \in Records
  THEN sendCh' = Append(sendCh, m) /\ UNCHANGED dropped
  ELSE UNCHANGED <<sendCh, dropped>>

\* Mutant: a record is requeued and counted as dropped.
Requeue_Twice(m) ==
  IF m \in Records /\ Len(sendCh) < QueueSize
  THEN sendCh' = Append(sendCh, m) /\ dropped' = dropped \cup {m}
  ELSE UNCHANGED sendCh /\ dropped' = dropped \cup ({m} \cap Records)

\* Mutant: the failed record goes ahead of the queue, as if the next sender began
\* with what the last one held.
Requeue_Front(m) ==
  IF m \in Records /\ Len(sendCh) < QueueSize
  THEN sendCh' = <<m>> \o sendCh /\ UNCHANGED dropped
  ELSE dropped' = dropped \cup ({m} \cap Records) /\ UNCHANGED sendCh

\* write()'s error path: a user record goes back to the queue if there is
\* room and is dropped if there is none; a heartbeat is not requeued.
Requeue(m) ==
  CASE m \notin Records -> UNCHANGED <<sendCh, dropped>>
    [] m \in Records /\ Len(sendCh) < QueueSize ->
         sendCh' = Append(sendCh, m) /\ UNCHANGED dropped
    [] OTHER ->
         dropped' = dropped \cup {m} /\ UNCHANGED sendCh

\* conn.Write failed: the message cannot be encoded, or the connection is
\* broken or past its deadline.
WriteFails(k) ==
  /\ pc[k] = "write"
  /\ ~ToNoOP(k)
  /\ broken' = IF Encodes(k) THEN broken \cup {sender} ELSE broken
  /\ Requeue(hand[k])
  /\ hand' = [hand EXCEPT ![k] = NoMsg]
  /\ pc' = [pc EXCEPT ![k] = "notify"]
  /\ UNCHANGED <<ticker, tick, result, sent, conns, wire, userVars, mgrVars,
                 clientDead, notifier>>

\* write() notifies the failure; it travels up and ends the goroutine.
SenderFails(k) ==
  /\ pc[k] = "notify"
  /\ notifier' = SendNotify("connErr")
  /\ EndSender(k, "writeErr")
  /\ UNCHANGED <<userVars, fateVars, connVars, mgrVars, clientDead>>

\* The ticker of sender k fires; its channel holds one tick.
TickFires(k) ==
  /\ Running(k) /\ ticker[k] /\ ~tick[k]
  /\ tick' = [tick EXCEPT ![k] = TRUE]
  /\ UNCHANGED <<pc, hand, ticker, result, userVars, fateVars, connVars, mgrVars,
                 clientDead, notifier>>

-------------------------------------------------------------------------------
(***************************************************************************)
(* The user's goroutines: Send and Notify.                                 *)
(***************************************************************************)

\* Send accepts the types a user may send and records that validate.
Sendable(r) == AuditType[r] \in DataPlane..ControlPlane /\ r \in ValidRecords

\* Send loads clientDead, then checks the type and validates.
SendChecks(r) ==
  /\ ClientUp
  /\ call[r] = "idle"
  /\ call' = [call EXCEPT ![r] = CASE clientDead  -> "dead"
                                   [] ~clientDead /\ ~Sendable(r) -> "invalid"
                                   [] OTHER -> "checked"]
  /\ UNCHANGED <<deadSeen, senderVars, fateVars, connVars, mgrVars, clientDead,
                 notifier>>

\* Send's TryPut on the queue, whatever happened to the client since.
SendPuts(r) ==
  /\ call[r] = "checked"
  /\ IF Len(sendCh) < QueueSize
     THEN /\ sendCh' = Append(sendCh, r)
          /\ call' = [call EXCEPT ![r] = "accepted"]
     ELSE /\ call' = [call EXCEPT ![r] = "full"]
          /\ UNCHANGED sendCh
  /\ UNCHANGED <<deadSeen, senderVars, sent, dropped, connVars, mgrVars, clientDead,
                 notifier>>

\* The user receives from Notify().
ReadNotify ==
  /\ notifier # <<>>
  /\ notifier' = Tail(notifier)
  /\ deadSeen' = (deadSeen \/ Head(notifier) = "dead")
  /\ UNCHANGED <<call, senderVars, fateVars, connVars, mgrVars, clientDead>>

-------------------------------------------------------------------------------
SenderStep(k) == \/ SenderLoop(k)
                 \/ SelectDone(k)
                 \/ SelectMsg(k)
                 \/ SelectTick(k)
                 \/ WriteOk(k)
                 \/ WriteFails(k)
                 \/ SenderFails(k)
                 \/ TickFires(k)

ManagerStep == \/ StartConnManager
               \/ DeferredConnect
               \/ ReconnectAttempt
               \/ \E o \in Outcomes : ReconnectDial(o)
               \/ ReconnectError
               \/ PutDeadNotice
               \/ EvictOldest
               \/ StoreDead
               \/ CancelNoop
               \/ AwaitNoop
               \/ SenderLost

UserStep == \/ \E r \in Records : SendChecks(r) \/ SendPuts(r)
            \/ ReadNotify

\* Nothing is left to do until the user sends: no deadlock.
Quiescent ==
  /\ \/ mgr \in {"failed", "exited"}
     \/ mgr = "serving" /\ pc["real"] = "select" /\ sendCh = <<>>
  /\ UNCHANGED vars

Next == \/ ManagerStep
        \/ \E k \in Senders : SenderStep(k)
        \/ \E c \in Conns : CloserDone(c)
        \/ UserStep
        \/ Quiescent

Spec == Init /\ [][Next]_vars

-------------------------------------------------------------------------------
(***************************************************************************)
(* Fairness.  Goroutines that can run are run (WF).  Go's select chooses   *)
(* at random among the cases that are ready, so none is passed over for    *)
(* ever (SF).  A Write ends by its 15 s deadline (WF).  An agent that can  *)
(* be reached again and again is reached at last, or create() fails for    *)
(* good (SF): the backoff never stops trying.  Nothing is assumed of the   *)
(* user, of the ticker, nor of CloseSend, which may hang.                  *)
(***************************************************************************)
Fairness ==
  /\ WF_vars(ManagerStep)
  /\ SF_vars(ReconnectDial("ok") \/ ReconnectDial("rejected"))
  /\ \A k \in Senders : /\ WF_vars(SenderLoop(k) \/ SenderFails(k))
                        /\ WF_vars(WriteOk(k) \/ WriteFails(k))
                        /\ SF_vars(SelectDone(k))
                        /\ SF_vars(SelectMsg(k))
                        /\ SF_vars(SelectTick(k))

FairSpec == Spec /\ Fairness

\* A connection that was given up, and whose number is used again: a few numbers
\* stand for connections without end, so that failing and reconnecting can go on
\* for ever.  What the history of connections says is lost with the number, so
\* that only the liveness properties are checked of it.
Reuse(c) ==
  /\ conns[c] = "abandoned"
  /\ conns' = [conns EXCEPT ![c] = "none"]
  /\ wire' = [wire EXCEPT ![c] = <<>>]
  /\ broken' = broken \ {c}
  /\ UNCHANGED <<userVars, senderVars, fateVars, mgrVars, clientDead, notifier>>

LiveNext == Next \/ \E c \in Conns : Reuse(c)

\* Numbers do not run out (WF).  Writes may fail for ever so often, but on an
\* agent that is reached again and again not all of them do (SF).
LiveSpec == /\ Init /\ [][LiveNext]_vars /\ Fairness
            /\ WF_vars(\E c \in Conns : Reuse(c))
            /\ \A k \in Senders : SF_vars(WriteOk(k))

-------------------------------------------------------------------------------
(***************************************************************************)
(* Safety.                                                                 *)
(***************************************************************************)
Accepted == {r \in Records : call[r] = "accepted"}
Queued   == Range(sendCh)
InHand   == {hand[k] : k \in Senders} \cap Records

\* Between Send's TryPut, the select, the requeue and the drop counters no
\* record is lost and none is invented: a record is queued, in a sender's
\* hand, sent or dropped exactly if Send accepted it.
NoRecordLost == Accepted = Queued \cup InHand \cup sent \cup dropped

\* Nor is one ever in two of these places, or twice in the queue: the sender
\* that writes a record is alone with it, and a record that was sent is never
\* written again.
AtOnePlace ==
  /\ \A i, j \in 1..Len(sendCh) : sendCh[i] = sendCh[j] => i = j
  /\ Queued \cap InHand = {}
  /\ \A k, l \in Senders : hand[k] \in Records /\ hand[k] = hand[l] => k = l
  /\ (Queued \cup InHand) \cap (sent \cup dropped) = {}
  /\ sent \cap dropped = {}

\* deferredConnect waits for the no-op sender "so it does not race the real
\* sender on the send channel": one goroutine at most receives from sendCh.
OneConsumer == ~(Running("noop") /\ Running("real"))

\* Whoever reads Notify() after Send returned ErrClientDead finds out why:
\* once the flag is set the death notice was read or is still in the channel,
\* in spite of closers and user working on it in any order.
DeathIsReported ==
  clientDead => deadSeen \/ "dead" \in Range(notifier)

\* The manager never goes away leaving a client that looks alive: Send would
\* fill the queue of a client nobody serves.
NobodyServesMeansDead == mgr = "exited" => clientDead

\* On every connection a record that was written comes first and a heartbeat
\* second, the requirement of serviceMsg's comment: the ticker of a failed
\* sender or a tick left in its channel never makes a new connection begin
\* with a heartbeat.
RecordThenHeartbeat ==
  \A c \in Conns : wire[c] \in {<<>>, <<"record">>, <<"record", "heartbeat">>}

\* A permanent failure ends the retries at once, so that reconnect never
\* tries again while a closer is running, and its guard on their number is
\* not what bounds them: there is never more than one.
NoRetryWhileClosing ==
  /\ mgr \in {"attempt", "dial", "retryErr"} => Closing = {}
  /\ Cardinality(Closing) <= 1

-------------------------------------------------------------------------------
(***************************************************************************)
(* Steps.                                                                  *)
(***************************************************************************)

\* Once the death is on record nothing reaches an agent and no connection is
\* made: a dead client never comes back.
DeadStaysDead ==
  [][clientDead => /\ clientDead'
                   /\ sent' = sent
                   /\ \A c \in Conns : conns[c] = "none" => conns'[c] = "none"]_vars

-------------------------------------------------------------------------------
(***************************************************************************)
(* Liveness: the first under FairSpec, the others under LiveSpec.          *)
(***************************************************************************)

\* "The retry cannot spin forever": the eviction loop of sendNotifyDead ends,
\* whatever the closers put on the channel and even if the user reads nothing.
DeathCompletes == mgr = "dying" ~> clientDead

\* A record Send accepted is sent or dropped, or the client dies: neither failures
\* and hand-overs without end nor a record that cannot be encoded and is requeued
\* for ever keep one that can be written in the queue of a client that lives.
AcceptedIsSettled ==
  \A r \in Records \ Unencodable :
    call[r] = "accepted" ~> (r \in sent \cup dropped \/ clientDead)

\* A client that started deferred comes to be served by a real sender, or
\* dies, even if no record ever wakes the no-op sender.
DeferredIsUpgraded == mgr = "defer" ~> (mgr = "serving" \/ clientDead)

-------------------------------------------------------------------------------
(***************************************************************************)
(* What the documentation says and the code does not do.  Each of these is *)
(* refuted by a run.                                                       *)
(***************************************************************************)

\* audit.go:341-344: "If we build up a lot of clients that aren't closing [...]
\* we will stop trying to reconnect after c.maxCloser attempts."  manageSender
\* never closes the connection of the sender it gives up.
UnclosedConnsStopRetries ==
  Cardinality({c \in Conns : conns[c] \in {"abandoned", "closing"}}) <= MaxClosers + 1

\* audit.go:354: "The only reason it should return an error is because the
\* connection is broken."  A record msgpack cannot encode ends the sender of a
\* connection that works, and is requeued to do it again.
OnlyBrokenConnsEnd ==
  mgr = "serving" /\ result["real"] = "writeErr" => sender \in broken

\* audit.go:377-378: "clientDead is set so Send returns ErrClientDead rather than
\* silently dropping."  Send tests the flag before it validates and queues.
DeadAcceptsNothing ==
  [][\A r \in Records : call[r] # "accepted" /\ call'[r] = "accepted" => ~clientDead]_vars

-------------------------------------------------------------------------------
(***************************************************************************)
(* The client implements AuditLog.  One sender at a time holds one record  *)
(* beside the queue: hence the capacity.                                   *)
(***************************************************************************)
Fate == [r \in Records |->
           CASE r \in sent    -> "sent"
             [] r \in dropped -> "dropped"
             [] r \notin sent \cup dropped /\ call[r] = "accepted" -> "pending"
             [] call[r] = "checked" -> "calling"
             [] call[r] = "idle"    -> "idle"
             [] OTHER               -> "rejected"]

Log == INSTANCE AuditLog WITH Capacity <- QueueSize + 1,
                              fate <- Fate, dead <- clientDead

\* Every behaviour of the client is one the abstract log allows.
ImplementsLog == Log!Spec

===============================================================================
