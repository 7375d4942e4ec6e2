------------------------- MODULE BrowserExecutionMC -------------------------
(* Small instances of BrowserExecution for TLC.                            *)
EXTENDS BrowserExecution, TLC

CONSTANTS k1, k2, q1, q2, q3, p1, p2, r1

OneProduct  == [k \in Keys |-> r1]
OnePlanEach == (q1 :> k1) @@ (q2 :> k2)
ThreeOfTwo  == (q1 :> k1) @@ (q2 :> k2) @@ (q3 :> k1)
BothOfOne   == (q1 :> k1) @@ (q3 :> k1)

(* Processes are alike, and so are the two requests with their plans.      *)
SwapRequests == (q1 :> q2) @@ (q2 :> q1) @@ (k1 :> k2) @@ (k2 :> k1)

Symmetry == Permutations(Processes) \cup {SwapRequests}
=============================================================================
