----------------------------- MODULE MCEndToEnd -----------------------------
(***************************************************************************)
(* Instances of EndToEnd for TLC.                                          *)
(***************************************************************************)
EXTENDS EndToEnd, TLC

CONSTANTS r1, r2, r3

AllControlPlane == [r \in Records |-> ControlPlane]

\* r2 is the one that resets; the others are interchangeable.
PlainRecords == Permutations({r1, r3})
=============================================================================
