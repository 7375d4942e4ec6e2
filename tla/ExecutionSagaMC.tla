-------------------------- MODULE ExecutionSagaMC --------------------------
(* Small instances of ExecutionSaga for TLC.                               *)
EXTENDS ExecutionSaga, TLC

CONSTANTS k1, k2, o1, o2, r1

(* Two plans that write the same product.                                  *)
OneResource == [k \in Keys |-> r1]

Symmetry == Permutations(Keys) \cup Permutations(Owners)
=============================================================================
