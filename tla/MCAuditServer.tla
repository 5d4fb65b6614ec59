---------------------------- MODULE MCAuditServer ----------------------------
(***************************************************************************)
(* Instances of AuditServer for TLC.  Their connections and messages are   *)
(* model values.                                                           *)
(***************************************************************************)
EXTENDS AuditServer, TLC

CONSTANTS c1, c2, plain, reset
==============================================================================
