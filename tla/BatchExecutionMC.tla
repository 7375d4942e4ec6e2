------------------------- MODULE BatchExecutionMC -------------------------
(* Small instances of BatchExecution for TLC.                              *)
EXTENDS BatchExecution, TLC

CONSTANTS i1, i2, c1, c2

(* A selection may be any set of items, so items are alike, as calls are.  *)
Symmetry == Permutations(Items) \cup Permutations(Calls)
=============================================================================
