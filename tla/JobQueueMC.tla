----------------------------- MODULE JobQueueMC -----------------------------
(* Small instances of JobQueue for TLC.                                    *)
EXTENDS JobQueue, TLC

CONSTANTS j1, j2, j3, t1, t2, k1, k2, w1, w2

(* Two workers that go by the same worker_id and share a process: only the *)
(* lease token tells their grants apart, and a bulkhead of one refuses.    *)
SharedName == [w \in Workers |-> "n"]
SharedPool == [w \in Workers |-> "workflow"]
OneProcess == [w \in Workers |-> "h"]
AllHandled == Pools \X Payloads
OneSlot    == [p \in Pools |-> 1]

(* Each worker its own name and pool; the browser pool has no handler for  *)
(* the job type the clients submit.                                        *)
WorkflowHandled == {"workflow"} \X Payloads
OwnName    == [w \in Workers |-> w]
TwoPools   == [w \in Workers |-> IF w = w1 THEN "workflow" ELSE "browser"]

Symmetry   == Permutations(JobIds) \cup Permutations(Tenants) \cup Permutations(Keys)
=============================================================================
