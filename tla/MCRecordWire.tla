---------------------------- MODULE MCRecordWire ----------------------------
(***************************************************************************)
(* Instances of RecordWire for TLC.                                        *)
(***************************************************************************)
EXTENDS RecordWire, SequencesExt

CONSTANTS r1, r2

\* Up to three categories in any order and number; access levels with a
\* duplicate and without, or with an empty one, which Send refuses.
UpToThree ==
  {[f \in Fields |-> IF f = "OperationCategories" THEN c ELSE l] :
     c \in BoundedSeq(Values \ {Zero}, 3), l \in {<<2, 1>>, <<1, 1>>, <<1, 0>>}}

\* The records are interchangeable.
Interchangeable == Permutations(Records)
=============================================================================
