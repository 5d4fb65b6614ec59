------------------------ MODULE AuditClientRefinement ------------------------
(***************************************************************************)
(* The client implements AuditLog, whatever its queue's size, its          *)
(* connections and its host.                                               *)
(*                                                                         *)
(* The fate of a record is read off the call of Send that offered it and   *)
(* the two counters.  Places says that what is neither rejected nor        *)
(* counted is in the queue or in the one sender's hand, which bounds the   *)
(* pending records; Death, that nothing is sent by a dead client.  Then    *)
(* each action moves the fate of one record as AuditLog allows, or of none.*)
(***************************************************************************)
EXTENDS AuditClientProofs

\* What is known in every state of the client.
Known == TypeOK /\ Control /\ Places /\ Death

\* It holds in every state.
LEMMA KnownAlways == Spec => []Known
<1>1. Init => Known
  BY TypeInit, ControlInit, PlacesInit, DeathInit DEF Known
<1>2. Known /\ [Next]_vars => Known'
  BY TypeStep, ControlStep, PlacesStep, DeathStep DEF Known
<1> QED BY <1>1, <1>2, PTL DEF Spec

-------------------------------------------------------------------------------
(***************************************************************************)
(* The fate of one record.                                                 *)
(***************************************************************************)

\* The six fates, by where the record is.
LEMMA FateOf ==
  ASSUME Known, NEW r \in Records
  PROVE  /\ r \in sent <=> Fate[r] = "sent"
         /\ r \in dropped <=> Fate[r] = "dropped"
         /\ r \in Queued \cup InHand <=> Fate[r] = "pending"
         /\ call[r] = "checked" <=> Fate[r] = "calling"
         /\ call[r] = "idle" <=> Fate[r] = "idle"
         /\ call[r] \in {"full", "invalid", "dead"} <=> Fate[r] = "rejected"
<1>1. /\ r \in sent \cup dropped \cup Queued \cup InHand <=> call[r] = "accepted"
      /\ ~(r \in sent /\ r \in dropped)
      /\ r \in Queued \cup InHand => r \notin sent \cup dropped
  BY DEF Known, Places, NoRecordLost, AtOnePlace, Accepted
<1>2. call[r] \in Calls
  BY DEF Known, TypeOK
<1>3. Fate[r] = CASE r \in sent    -> "sent"
                  [] r \in dropped -> "dropped"
                  [] r \notin sent \cup dropped /\ call[r] = "accepted" -> "pending"
                  [] call[r] = "checked" -> "calling"
                  [] call[r] = "idle"    -> "idle"
                  [] OTHER               -> "rejected"
  BY DEF Fate
<1> QED BY <1>1, <1>2, <1>3 DEF Calls

\* A step that neither moves a call nor counts a record changes no fate.
LEMMA FateFrame == UNCHANGED <<call, sent, dropped>> => Fate' = Fate
  BY DEF Fate

\* A step that concerns one record changes the fate of no other.
LEMMA FateOfOthers ==
  ASSUME NEW r \in Records,
         \A s \in Records \ {r} : /\ call'[s] = call[s]
                                  /\ s \in sent' <=> s \in sent
                                  /\ s \in dropped' <=> s \in dropped
  PROVE  Fate' = [Fate EXCEPT ![r] = Fate'[r]]
<1>1. \A s \in Records \ {r} : Fate'[s] = Fate[s]
  BY DEF Fate
<1>2. Fate = [s \in Records |-> Fate[s]] /\ Fate' = [s \in Records |-> Fate'[s]]
  BY DEF Fate
<1> QED BY <1>1, <1>2

-------------------------------------------------------------------------------
(***************************************************************************)
(* Capacity.                                                               *)
(***************************************************************************)

\* A queue holds no more elements than its length.
LEMMA QueuedBound ==
  ASSUME NEW S, NEW s \in Seq(S)
  PROVE  IsFiniteSet(Range(s)) /\ Cardinality(Range(s)) <= Len(s)
<1>1. Len(s) \in Nat /\ s \in [1..Len(s) -> Range(s)] /\ DOMAIN s = 1..Len(s)
  BY LenProperties DEF Range
<1>2. s \in Surjection(1..Len(s), Range(s))
  BY <1>1 DEF Surjection, Range
<1>3. ExistsSurjection(1..Len(s), Range(s))
  BY <1>2 DEF ExistsSurjection
<1> QED BY <1>1, <1>3, FS_NatSurjection, FS_SurjCardinalityBound

\* The two senders never hold a record each.
LEMMA OneInHand == ASSUME Known PROVE \E m : InHand \subseteq {m}
<1>1. ~(Running("noop") /\ Running("real"))
  <2>1. Running("real") => mgr = "serving" /\ pc["noop"] \in {"off", "done"}
    BY DEF Known, Control, Deferring
  <2> QED BY <2>1 DEF Running
<1>2. pc["noop"] # "write" \/ pc["real"] # "write"
  BY <1>1 DEF Running
<1>3. hand["noop"] = NoMsg \/ hand["real"] = NoMsg
  BY <1>2 DEF Known, Places, HandsEmpty, Senders
<1> QED BY <1>3, RecordsAssumption DEF InHand, Senders

\* With room in the queue, fewer than Capacity records are pending.
LEMMA PendingBound ==
  ASSUME Known
  PROVE  IsFiniteSet(Log!Pending) /\ Cardinality(Log!Pending) <= Len(sendCh) + 1
<1>1. PICK m : InHand \subseteq {m}
  BY OneInHand
<1>2. Log!Pending \subseteq Queued \cup {m}
  BY <1>1, FateOf DEF Log!Pending
<1>3. /\ Len(sendCh) \in Nat
      /\ IsFiniteSet(Queued) /\ Cardinality(Queued) <= Len(sendCh)
      /\ Cardinality(Queued) \in Nat
  BY QueuedBound, LenProperties, FS_CardinalityType DEF Queued, Known, TypeOK
<1>4. IsFiniteSet(Queued \cup {m}) /\ Cardinality(Queued \cup {m}) <= Len(sendCh) + 1
  BY <1>3, FS_AddElement
<1>5. /\ IsFiniteSet(Log!Pending)
      /\ Cardinality(Log!Pending) <= Cardinality(Queued \cup {m})
  BY <1>2, <1>4, FS_Subset
<1>6. Cardinality(Log!Pending) \in Nat /\ Cardinality(Queued \cup {m}) \in Nat
  BY <1>4, <1>5, FS_CardinalityType
<1> QED BY <1>3, <1>4, <1>5, <1>6

-------------------------------------------------------------------------------
(***************************************************************************)
(* The steps.                                                              *)
(***************************************************************************)

\* A new client has every record idle and is alive.
LEMMA LogInit == Init => Log!Init
  BY DEF Init, Log!Init, Fate

\* Send takes an idle record to "calling" or turns it away.
LEMMA ChecksOffer ==
  ASSUME Known, NEW r \in Records, SendChecks(r)
  PROVE  Log!Offer(r) \/ Log!Reject(r)
<1> USE DEF fateVars
<1>1. Fate[r] = "idle" /\ UNCHANGED <<sent, dropped, clientDead>>
  BY FateOf DEF SendChecks
<1>2. call'[r] \in {"dead", "invalid", "checked"} /\ r \notin sent \cup dropped
  BY <1>1, FateOf DEF SendChecks, Known, TypeOK
<1>3. Fate' = [Fate EXCEPT ![r] = Fate'[r]]
  BY <1>1, FateOfOthers DEF SendChecks, Known, TypeOK
<1>4. Fate'[r] = IF call'[r] = "checked" THEN "calling" ELSE "rejected"
  BY <1>1, <1>2 DEF Fate
<1>5. CASE call'[r] = "checked"
  BY <1>1, <1>3, <1>4, <1>5 DEF Log!Offer, Log!Become
<1>6. CASE call'[r] # "checked"
  BY <1>1, <1>3, <1>4, <1>6 DEF Log!Reject, Log!Become
<1> QED BY <1>5, <1>6

\* Its TryPut accepts the record if there is room, and then the records
\* pending are still fewer than the capacity.
LEMMA PutsAccept ==
  ASSUME Known, NEW r \in Records, SendPuts(r)
  PROVE  Log!Accept(r) \/ Log!Reject(r)
<1>1. Fate[r] = "calling" /\ UNCHANGED <<sent, dropped, clientDead>>
  BY FateOf DEF SendPuts
<1>2. r \notin sent \cup dropped
  BY <1>1, FateOf
<1>3. Fate' = [Fate EXCEPT ![r] = Fate'[r]]
  BY <1>1, FateOfOthers DEF SendPuts, Known, TypeOK
<1>4. CASE Len(sendCh) < QueueSize
  <2>1. call'[r] = "accepted"
    BY <1>4 DEF SendPuts, Known, TypeOK
  <2>2. Fate'[r] = "pending"
    BY <1>1, <1>2, <2>1 DEF Fate
  <2>3. Cardinality(Log!Pending) < QueueSize + 1
    BY <1>4, PendingBound, FS_CardinalityType, SizeAssumption, LenProperties DEF Known, TypeOK
  <2>4. Log!Cardinality(Log!Pending) = Cardinality(Log!Pending)
    BY DEF Cardinality, Log!Cardinality
  <2> QED BY <1>1, <1>3, <2>2, <2>3, <2>4 DEF Log!Accept, Log!Become
<1>5. CASE ~(Len(sendCh) < QueueSize)
  <2>1. call'[r] = "full"
    BY <1>5 DEF SendPuts, Known, TypeOK
  <2>2. Fate'[r] = "rejected"
    BY <1>1, <1>2, <2>1 DEF Fate
  <2> QED BY <1>1, <1>3, <2>2 DEF Log!Reject, Log!Become
<1> QED BY <1>4, <1>5

\* Counting the record in a sender's hand settles that record only.
LEMMA CountMoves ==
  ASSUME Known, NEW k \in Senders, hand[k] \in Records,
         UNCHANGED <<call, clientDead>>
  PROVE  /\ sent' = sent \cup {hand[k]} /\ UNCHANGED dropped /\ ~clientDead
              => Log!Deliver(hand[k])
         /\ dropped' = dropped \cup {hand[k]} /\ UNCHANGED sent => Log!Drop(hand[k])
<1> DEFINE r == hand[k]
<1>1. Fate[r] = "pending" /\ r \notin sent \cup dropped
  BY FateOf DEF InHand
<1>2. ASSUME sent' = sent \cup {r}, UNCHANGED dropped, ~clientDead
      PROVE  Log!Deliver(r)
  <2>1. Fate'[r] = "sent"
    BY <1>1, <1>2 DEF Fate
  <2>2. Fate' = [Fate EXCEPT ![r] = Fate'[r]]
    BY <1>2, FateOfOthers
  <2> QED BY <1>1, <1>2, <2>1, <2>2 DEF Log!Deliver, Log!Become
<1>3. ASSUME dropped' = dropped \cup {r}, UNCHANGED sent
      PROVE  Log!Drop(r)
  <2>1. Fate'[r] = "dropped"
    BY <1>1, <1>3 DEF Fate
  <2>2. Fate' = [Fate EXCEPT ![r] = Fate'[r]]
    BY <1>3, FateOfOthers
  <2> QED BY <1>1, <1>3, <2>1, <2>2 DEF Log!Drop, Log!Become
<1> QED BY <1>2, <1>3

\* A write delivers the record, drops it on a conn.NoOP, or wrote a heartbeat.
\* Only the real sender delivers, and it does not run in a dead client.
LEMMA WriteSettles ==
  ASSUME Known, NEW k \in Senders, WriteOk(k)
  PROVE  Log!Next \/ UNCHANGED Log!logVars
<1>1. pc[k] = "write" /\ UNCHANGED <<call, clientDead>>
  BY DEF WriteOk, userVars
<1>2. CASE hand[k] \notin Records
  BY <1>1, <1>2, FateFrame DEF WriteOk, CountWritten, Log!logVars
<1>3. CASE hand[k] \in Records /\ ToNoOP(k)
  <2>1. dropped' = dropped \cup {hand[k]} /\ UNCHANGED sent
    BY <1>3 DEF WriteOk, CountWritten
  <2> QED BY <1>1, <1>3, <2>1, CountMoves DEF Log!Next
<1>4. CASE hand[k] \in Records /\ ~ToNoOP(k)
  <2>1. sent' = sent \cup {hand[k]} /\ UNCHANGED dropped
    BY <1>4 DEF WriteOk, CountWritten
  <2>2. Running("real")
    BY <1>1, <1>4 DEF ToNoOP, Senders, Running
  <2>3. ~clientDead
    BY <2>2 DEF Known, Control, Death
  <2> QED BY <1>1, <1>4, <2>1, <2>3, CountMoves DEF Log!Next
<1> QED BY <1>2, <1>3, <1>4

\* A write that fails requeues the record, which is then still pending, or
\* drops it.
LEMMA FailureSettles ==
  ASSUME Known, NEW k \in Senders, WriteFails(k)
  PROVE  Log!Next \/ UNCHANGED Log!logVars
<1>1. UNCHANGED <<call, clientDead, sent>>
  BY DEF WriteFails, userVars
<1>2. CASE dropped' = dropped
  BY <1>1, <1>2, FateFrame DEF Log!logVars
<1>3. CASE dropped' # dropped
  <2>1. hand[k] \in Records /\ dropped' = dropped \cup {hand[k]}
    BY <1>3 DEF WriteFails, Requeue
  <2> QED BY <1>1, <2>1, CountMoves DEF Log!Next
<1> QED BY <1>2, <1>3

\* Every step of the client is a step of the log or invisible to it.
LEMMA LogStep == Known /\ [Next]_vars => [Log!Next]_(Log!logVars)
<1> SUFFICES ASSUME Known, [Next]_vars PROVE Log!Next \/ UNCHANGED Log!logVars
  OBVIOUS
<1> USE DEF userVars, senderVars, connVars, fateVars, mgrVars
<1>0. UNCHANGED <<call, sent, dropped, clientDead>> => UNCHANGED Log!logVars
  BY FateFrame DEF Log!logVars
<1>1. CASE StoreDead
  <2>1. ~clientDead /\ clientDead'
    BY <1>1 DEF StoreDead, Known, Death
  <2>2. Fate' = Fate
    BY <1>1, FateFrame DEF StoreDead, Goto
  <2> QED BY <1>1, <2>1, <2>2 DEF StoreDead, Log!Next, Log!Die
<1>2. CASE StartConnManager \/ DeferredConnect \/ ReconnectAttempt \/ ReconnectError
           \/ PutDeadNotice \/ EvictOldest
  BY <1>0, <1>2 DEF StartConnManager, DeferredConnect, ReconnectAttempt, ReconnectError,
                    PutDeadNotice, EvictOldest, Goto
<1>3. ASSUME NEW o \in Outcomes, ReconnectDial(o) PROVE UNCHANGED Log!logVars
  BY <1>0, <1>3 DEF ReconnectDial
<1>4. CASE CancelNoop \/ AwaitNoop \/ SenderLost
  BY <1>0, <1>4 DEF CancelNoop, AwaitNoop, SenderLost
<1>5. ASSUME NEW k \in Senders, SenderStep(k) PROVE Log!Next \/ UNCHANGED Log!logVars
  <2>1. CASE WriteOk(k)
    BY <2>1, WriteSettles
  <2>2. CASE WriteFails(k)
    BY <2>2, FailureSettles
  <2>3. CASE SenderLoop(k) \/ SelectDone(k) \/ SelectMsg(k) \/ SelectTick(k)
             \/ SenderFails(k) \/ TickFires(k)
    BY <1>0, <2>3 DEF SenderLoop, SelectDone, SelectMsg, SelectTick, SenderFails, TickFires
  <2> QED BY <1>5, <2>1, <2>2, <2>3 DEF SenderStep
<1>6. ASSUME NEW c \in Conns, CloserDone(c) PROVE UNCHANGED Log!logVars
  BY <1>0, <1>6 DEF CloserDone
<1>7. ASSUME NEW r \in Records, SendChecks(r) \/ SendPuts(r) PROVE Log!Next
  BY <1>7, ChecksOffer, PutsAccept DEF Log!Next
<1>8. CASE ReadNotify \/ UNCHANGED vars
  BY <1>0, <1>8 DEF ReadNotify, vars
<1> QED BY <1>1, <1>2, <1>3, <1>4, <1>5, <1>6, <1>7, <1>8
        DEF Next, ManagerStep, UserStep, Quiescent

\* The client keeps the promises of AuditLog: records move through their fates
\* one at a time and never back, the pending ones are bounded by the queue's
\* size and one, and a dead client delivers nothing.
THEOREM ClientImplementsLog == Spec => ImplementsLog
<1> QED BY LogInit, LogStep, KnownAlways, PTL DEF Spec, ImplementsLog, Log!Spec

===============================================================================
