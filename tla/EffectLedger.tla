---------------------------- MODULE EffectLedger ----------------------------
(***************************************************************************)
(* What the execution runtime promises about writes to a shop: the effects *)
(* confirmed on a resource form one history, in which each business key    *)
(* (tenant, resource, operation, plan) occurs at most once and every new   *)
(* effect takes the next version.  Nothing is said of leases, fencing      *)
(* tokens, sagas or clocks.                                                *)
(***************************************************************************)
EXTENDS Naturals, FiniteSets

CONSTANTS Keys, Resources, ResourceOf

VARIABLE applied    \* applied[k]: the version effect k produced, 0 if none

Init == applied = [k \in Keys |-> 0]

History(r) == {k \in Keys : ResourceOf[k] = r /\ applied[k] # 0}

Apply(k) ==
  /\ applied[k] = 0
  /\ applied' = [applied EXCEPT ![k] = Cardinality(History(ResourceOf[k])) + 1]

(* A tenant's data is reset as a whole.                                    *)
Clear == applied' = [k \in Keys |-> 0]

Next == (\E k \in Keys : Apply(k)) \/ Clear

Spec == Init /\ [][Next]_applied
=============================================================================
