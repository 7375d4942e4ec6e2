----------------------------- MODULE PlanLedger -----------------------------
(***************************************************************************)
(* What the platform promises about the plans of a listing task: each plan *)
(* is judged once, one plan that passed is taken on for writing and stays  *)
(* the only one, the shop receives nothing else, and the task is reported  *)
(* complete only with that plan, received and confirmed.  Nothing is said  *)
(* of agents, retries, timeouts, abandoned threads, crashes or recoveries. *)
(***************************************************************************)
CONSTANT Plans

VARIABLES
  verdict,   \* verdict[p]: what the review said of plan p
  record,    \* the plan taken on, and how its write stands
  received,  \* plans the shop has received
  reported   \* plans whose task is reported complete

ledgerVars == <<verdict, record, received, reported>>

Init ==
  /\ verdict = [p \in Plans |-> "none"]
  /\ record = [state |-> "none", plan |-> 0]
  /\ received = {} /\ reported = {}

Judge(p, v) ==
  /\ verdict[p] = "none"
  /\ verdict' = [verdict EXCEPT ![p] = v]
  /\ UNCHANGED <<record, received, reported>>

Stands(state) == record' = [state |-> state, plan |-> record.plan]

(* A write that failed is tried again with the same plan only.             *)
TakeOn(p) ==
  /\ verdict[p] = "passed"
  /\ record.state = "none" \/ record = [state |-> "failed", plan |-> p]
  /\ record' = [state |-> "in_progress", plan |-> p]
  /\ UNCHANGED <<verdict, received, reported>>

Receive ==
  /\ record.state = "in_progress"
  /\ received' = received \cup {record.plan}
  /\ UNCHANGED <<verdict, record, reported>>

Confirm ==
  /\ record.state = "in_progress" /\ record.plan \in received
  /\ Stands("completed")
  /\ UNCHANGED <<verdict, received, reported>>

(* The shop may have received the plan all the same.                       *)
Fail ==
  /\ record.state = "in_progress"
  /\ Stands("failed")
  /\ UNCHANGED <<verdict, received, reported>>

(* A report may be taken back, and made again.                             *)
Report ==
  /\ record.state = "completed"
  /\ reported' \in SUBSET {record.plan}
  /\ UNCHANGED <<verdict, record, received>>

Next ==
  \/ \E p \in Plans : Judge(p, "passed") \/ Judge(p, "blocked") \/ TakeOn(p)
  \/ Receive \/ Confirm \/ Fail \/ Report

Spec == Init /\ [][Next]_ledgerVars
=============================================================================
