------------------------------- MODULE AuditLog -------------------------------
(***************************************************************************)
(* What audit.Client promises about the fate of each record, with no       *)
(* goroutine, queue or connection in sight.                                *)
(*                                                                         *)
(* A record is offered to Send once.  The call ends with the record        *)
(* rejected (Send returned an error and the caller keeps the record) or    *)
(* accepted (Send returned nil).  An accepted record is pending until it   *)
(* is written to the agent or counted as dropped; neither outcome is ever  *)
(* revised.  A dead client writes nothing to the agent.  At most Capacity  *)
(* records are pending: the client's memory is bounded whatever the agent  *)
(* does.                                                                   *)
(***************************************************************************)
EXTENDS Naturals, FiniteSets

CONSTANTS Records,      \* the records offered to Send, one call each
          Capacity      \* how many records may be pending

VARIABLES fate,         \* what has become of each record
          dead          \* the client has given up for good

logVars == <<fate, dead>>

Fates == {"idle", "calling", "rejected", "pending", "sent", "dropped"}

Pending == {r \in Records : fate[r] = "pending"}

LogTypeOK == /\ fate \in [Records -> Fates]
             /\ dead \in BOOLEAN

Init == /\ fate = [r \in Records |-> "idle"]
        /\ dead = FALSE

Become(r, from, to) == /\ fate[r] \in from
                       /\ fate' = [fate EXCEPT ![r] = to]
                       /\ UNCHANGED dead

Offer(r)   == Become(r, {"idle"}, "calling")
Reject(r)  == Become(r, {"idle", "calling"}, "rejected")
Accept(r)  == Become(r, {"calling"}, "pending") /\ Cardinality(Pending) < Capacity
Deliver(r) == Become(r, {"pending"}, "sent") /\ ~dead
Drop(r)    == Become(r, {"pending"}, "dropped")
Die        == ~dead /\ dead' = TRUE /\ UNCHANGED fate

Next == \/ \E r \in Records : \/ Offer(r)
                              \/ Reject(r)
                              \/ Accept(r)
                              \/ Deliver(r)
                              \/ Drop(r)
        \/ Die

Spec == Init /\ [][Next]_logVars
===============================================================================
