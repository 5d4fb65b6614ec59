---------------------------- MODULE MCAuditClient ----------------------------
(***************************************************************************)
(* Instances of AuditClient for TLC.                                       *)
(***************************************************************************)
EXTENDS AuditClient

CONSTANTS r1, r2, r3

\* Every record may be sent, none is refused.
AllControlPlane == [r \in Records |-> ControlPlane]

\* r1 and r2 may be sent, r3 is a heartbeat, which only the client may send.
LastIsHeartbeat == [r \in Records |-> IF r = r3 THEN 3 ELSE DataPlane]
==============================================================================
