---------------------------- MODULE MCRecordClone ----------------------------
(***************************************************************************)
(* Instances of RecordClone for TLC.                                       *)
(***************************************************************************)
EXTENDS RecordClone, TLC

CONSTANTS r1, r2, k1, k2

\* Of two keys of CustomData one holds a Cloner, the other a plain reference.
ClonerAndRef == [k \in Keys |-> IF k = k1 THEN "cloner" ELSE "ref"]

\* The clones are interchangeable, the keys are not.
Interchangeable == Permutations(Records)
==============================================================================
