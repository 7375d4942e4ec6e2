--------------------------- MODULE RequestLedger ----------------------------
(***************************************************************************)
(* What the durable job queue promises to the clients that submit work: a  *)
(* request, named by its tenant and idempotency key, is accepted at most   *)
(* once, is decided at most once, and stays decided until its tenant's     *)
(* data is reset.  Nothing is said of workers, leases, tokens or retries.  *)
(***************************************************************************)
CONSTANTS Tenants, Keys

VARIABLE phase      \* phase[<<t, k>>]: where request k of tenant t stands

Requests == Tenants \X Keys
Decided  == {"completed", "dead"}

TypeOK == phase \in [Requests -> {"none", "pending"} \cup Decided]

Init == phase = [r \in Requests |-> "none"]

Accept(r) == phase[r] = "none" /\ phase' = [phase EXCEPT ![r] = "pending"]

(* One scan of the queue may decide several abandoned requests together.   *)
Decide ==
  /\ TypeOK'
  /\ \A r \in Requests :
       phase'[r] # phase[r] => phase[r] = "pending" /\ phase'[r] \in Decided

Forget(t) ==
  phase' = [r \in Requests |-> IF r[1] = t THEN "none" ELSE phase[r]]

Next == \/ \E r \in Requests : Accept(r)
        \/ Decide
        \/ \E t \in Tenants : Forget(t)

Spec == Init /\ [][Next]_phase
=============================================================================
