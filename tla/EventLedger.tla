---------------------------- MODULE EventLedger -----------------------------
(***************************************************************************)
(* What the transactional outbox promises about its events: the sink gets  *)
(* only events that were inserted, an event counts as published only when  *)
(* the sink has it, and that is never taken back, until its tenant's data  *)
(* is reset.  Nothing is said of relays, leases, tokens, clocks or deaths. *)
(***************************************************************************)
CONSTANT Events

VARIABLES
  phase,     \* phase[e]: where event e stands
  delivered  \* events the sink has received

ledgerVars == <<phase, delivered>>

Init == phase = [e \in Events |-> "none"] /\ delivered = {}

Insert(e) ==
  /\ phase[e] = "none"
  /\ phase' = [phase EXCEPT ![e] = "pending"]
  /\ UNCHANGED delivered

(* Again and again, if need be, and also of an event deleted meanwhile.    *)
Deliver(e) ==
  /\ phase[e] # "none"
  /\ delivered' = delivered \cup {e}
  /\ UNCHANGED phase

Publish(e) ==
  /\ phase[e] = "pending" /\ e \in delivered
  /\ phase' = [phase EXCEPT ![e] = "published"]
  /\ UNCHANGED delivered

Clear ==
  /\ phase' = [e \in Events |-> IF phase[e] = "none" THEN "none" ELSE "gone"]
  /\ UNCHANGED delivered

Next == (\E e \in Events : Insert(e) \/ Deliver(e) \/ Publish(e)) \/ Clear

Spec == Init /\ [][Next]_ledgerVars
=============================================================================
