--------------------------- MODULE BatchExecution ---------------------------
(***************************************************************************)
(* One batch of planned products, executed after approval:                 *)
(* BatchExecutionService.execute of app/copilot/batch_execution.py over    *)
(* the rows of batch_jobs and batch_items.  It is called by the threads of *)
(* two HTTP handlers (/approve, /retry) and by jobs of the browser pool,   *)
(* which are drained in the same process and may be replayed; so any       *)
(* number of calls for overlapping selections run at the same time.        *)
(*                                                                         *)
(* A call works on the items as it read them when it began (by_id).  An    *)
(* item's child task may also be approved on its own, past the batch.      *)
(* A call takes its items in any order: those are the orders a client may  *)
(* list them in.                                                           *)
(***************************************************************************)
EXTENDS Integers, Sequences

CONSTANTS
  Items,          \* the items of the batch
  Calls,          \* threads that approve something
  MaxAttempts,    \* execution_attempts < 3
  NoItem

VARIABLES
  batch,    \* batch_jobs.status
  item,     \* item[i]: row of batch_items
  task,     \* task[i]: checkpoint of the child task
  call      \* call[c]: one execute(), or one approve() of a single task

batchVars == <<batch, item, task, call>>

(* "failed" also stands for "skipped": planning failed, there is no plan.  *)
ItemStatus == {"awaiting_approval", "running", "completed", "needs_attention", "failed"}

BatchStatus == {"running", "awaiting_approval", "partially_completed", "completed", "failed"}

Entry == [attempt : Nat, status : {"completed", "needs_attention"}]

Item == [status : ItemStatus, attempts : Nat, history : Seq(Entry)]

(* stopped: waits for an approval, or failed; both can be resumed with an  *)
(* approval, unless a write was recorded with an unknown outcome.          *)
Task == [status : {"absent", "stopped", "running", "completed"}, unknown : BOOLEAN]

Operations == {"approve", "retry"}      \* of a batch; "task" is a single task

PC == {"idle", "next", "reopening", "rereading", "claimed", "loaded",
       "executing", "answered", "failing", "counted"}

Read == [status : ItemStatus, attempts : Nat]

ASSUME BatchAssumption ==
  /\ Items # {} /\ NoItem \notin Items \cup Read
  /\ MaxAttempts \in Nat \ {0}

Call == [pc : PC, kind : Operations \cup {"task"},
         at : Items \cup {NoItem},
         seen : [Items -> Read \cup {NoItem}],   \* as read, of items still to do
         total : BatchStatus]

(* The program counters at which a call works on one item.                 *)
OnItem == {"reopening", "rereading", "claimed", "loaded", "executing", "answered", "failing"}

BatchTypeOK ==
  /\ batch \in BatchStatus
  /\ item \in [Items -> Item]
  /\ task \in [Items -> Task]
  /\ call \in [Calls -> Call]
  /\ \A c \in Calls : call[c].pc \in OnItem => call[c].at \in Items

ItemsWith(status) == {i \in Items : item[i].status = status}

Bad == ItemsWith("failed") \cup ItemsWith("needs_attention")

Aggregate_IgnoresWaiting ==
  IF ItemsWith("running") # {} THEN "running"
  ELSE IF Bad = {} /\ ItemsWith("completed") # {} THEN "completed"
  ELSE IF Bad # {} /\ ItemsWith("completed") # {} THEN "partially_completed"
  ELSE IF Bad # {} /\ ItemsWith("awaiting_approval") = {} THEN "failed"
  ELSE "awaiting_approval"

(* The parent's status, recomputed from its items.                         *)
Aggregate ==
  CASE ItemsWith("running") # {} -> "running"
    [] ItemsWith("running") = {} /\ ItemsWith("completed") = Items -> "completed"
    [] /\ ItemsWith("running") = {} /\ Bad # {}
       /\ ItemsWith("completed") # {} -> "partially_completed"
    [] /\ ItemsWith("running") = {} /\ Bad # {} /\ ItemsWith("completed") = {}
       /\ ItemsWith("awaiting_approval") = {} -> "failed"
    [] OTHER -> "awaiting_approval"

Seen(i) == [status |-> item[i].status, attempts |-> item[i].attempts]

Ended == [pc |-> "idle", kind |-> "task", at |-> NoItem,
          seen |-> [i \in Items |-> NoItem], total |-> "failed"]

(* Planning is over.  An item failed if its workflow raised; if that ended *)
(* with a failed task, the item awaits approval all the same.              *)
BatchInit ==
  /\ \E planned \in SUBSET Items :
       /\ item = [i \in Items |->
                   [status |-> IF i \in planned THEN "awaiting_approval" ELSE "failed",
                    attempts |-> 0, history |-> << >>]]
       /\ task = [i \in Items |->
                   [status |-> IF i \in planned THEN "stopped" ELSE "absent",
                    unknown |-> FALSE]]
       /\ batch = CASE planned = {} -> "failed"
                    [] planned = Items -> "awaiting_approval"
                    [] OTHER -> "partially_completed"
  /\ call = [c \in Calls |-> Ended]

Todo(c) == {i \in Items : call[c].seen[i] # NoItem}

Goto(c, pc) == call' = [call EXCEPT ![c].pc = pc]

(* A call returns or raises, and with it goes what it knew.                *)
End(c) == call' = [call EXCEPT ![c] = Ended]

At(r, pc, i) == [r EXCEPT !.pc = pc, !.at = i]

Noted(r, i, row) == [r EXCEPT !.seen = [@ EXCEPT ![i] = row]]

(* On to the next selected item.                                           *)
Done(r, i) == Noted(At(r, "next", NoItem), i, NoItem)

-----------------------------------------------------------------------------
(* execute().                                                              *)

Begin(c, kind, selected) ==
  /\ call[c].pc = "idle" /\ selected # {}
  /\ call' = [call EXCEPT ![c] =
       [@ EXCEPT !.pc = "next", !.kind = kind,
                 !.seen = [i \in Items |-> IF i \in selected THEN Seen(i) ELSE NoItem]]]
  /\ UNCHANGED <<batch, item, task>>

(* A single task is approved, whatever the batch says of its item.         *)
ApproveTask(c, i) ==
  /\ call[c].pc = "idle" /\ task[i].status # "absent"
  /\ call' = [call EXCEPT ![c] = [At(@, "claimed", i) EXCEPT !.kind = "task"]]
  /\ UNCHANGED <<batch, item, task>>

Retries(c, i) == call[c].kind = "retry" /\ call[c].seen[i].status = "needs_attention"

(* Reported as completed before, as blocked by an unknown write, as out of *)
(* attempts, or as skipped.                                                *)
PassOver(c, i) ==
  /\ call[c].pc = "next" /\ i \in Todo(c)
  /\ IF Retries(c, i)
     THEN task[i].unknown \/ call[c].seen[i].attempts >= MaxAttempts
     ELSE call[c].seen[i].status # "awaiting_approval"
  /\ call' = [call EXCEPT ![c] = Done(@, i)]
  /\ UNCHANGED <<batch, item, task>>

(* The check of the checkpoint and the transaction that reopens the item   *)
(* are separate.                                                           *)
DecideRetry(c, i) ==
  /\ call[c].pc = "next" /\ i \in Todo(c)
  /\ Retries(c, i) /\ ~task[i].unknown /\ call[c].seen[i].attempts < MaxAttempts
  /\ call' = [call EXCEPT ![c] = At(@, "reopening", i)]
  /\ UNCHANGED <<batch, item, task>>

Reopenable(i) == item[i].status = "needs_attention" /\ item[i].attempts < MaxAttempts

(* A conflict leaves execute(): no other item is tried, nothing finalized. *)
PrepareRetry(c) ==
  /\ call[c].pc = "reopening"
  /\ LET i == call[c].at
     IN  \/ /\ Reopenable(i)
            /\ item' = [item EXCEPT ![i].status = "awaiting_approval"]
            /\ batch' = "running"
            /\ Goto(c, "rereading")
         \/ ~Reopenable(i) /\ End(c) /\ UNCHANGED <<batch, item>>
  /\ UNCHANGED task

(* prepare_batch_item_retry returns the row as it is after its commit.     *)
Reread(c) ==
  /\ call[c].pc = "rereading"
  /\ call' = [call EXCEPT ![c] =
       Noted(At(@, "next", NoItem), call[c].at, Seen(call[c].at))]
  /\ UNCHANGED <<batch, item, task>>

Claimable(i) == item[i].status = "awaiting_approval" /\ item[i].attempts < MaxAttempts

ClaimExecution_AnyStatus(c, i) ==
  /\ call[c].pc = "next" /\ i \in Todo(c)
  /\ call[c].seen[i].status = "awaiting_approval"
  /\ item' = [item EXCEPT ![i].status = "running", ![i].attempts = @ + 1]
  /\ batch' = "running"
  /\ call' = [call EXCEPT ![c] = At(@, "claimed", i)]
  /\ UNCHANGED task

ClaimExecution(c, i) ==
  /\ call[c].pc = "next" /\ i \in Todo(c)
  /\ call[c].seen[i].status = "awaiting_approval"
  /\ \/ /\ Claimable(i)
        /\ item' = [item EXCEPT ![i].status = "running", ![i].attempts = @ + 1]
        /\ batch' = "running"
        /\ call' = [call EXCEPT ![c] = At(@, "claimed", i)]
     \/ ~Claimable(i) /\ End(c) /\ UNCHANGED <<batch, item>>
  /\ UNCHANGED task

-----------------------------------------------------------------------------
(* The approver: ConversationFacade.approve and Supervisor.resume.         *)

(* RecoveryCoordinator.claim: one resume of a task at a time.              *)
Resuming(c, i) == call[c].pc \in {"loaded", "executing"} /\ call[c].at = i

Resumable(i) == task[i].status = "stopped" /\ ~task[i].unknown

LoadTask_Unclaimed(c) ==
  /\ call[c].pc = "claimed" /\ Resumable(call[c].at)
  /\ Goto(c, "loaded")
  /\ UNCHANGED <<batch, item, task>>

LoadTask(c) ==
  /\ call[c].pc = "claimed" /\ Resumable(call[c].at)
  /\ ~\E d \in Calls : Resuming(d, call[c].at)
  /\ Goto(c, "loaded")
  /\ UNCHANGED <<batch, item, task>>

(* The except branch of execute(); a single task's caller gets the error.  *)
Raise(c) == IF call[c].kind = "task" THEN End(c) ELSE Goto(c, "failing")

(* The plan changed since it was confirmed, the task is being resumed or   *)
(* cannot be, or resume() fails before it starts.                          *)
RefuseTask(c) ==
  /\ call[c].pc \in {"claimed", "loaded"}
  /\ Raise(c)
  /\ UNCHANGED <<batch, item, task>>

(* WorkflowExecutor.run saves the checkpoint as running.                   *)
RunTask(c) ==
  /\ call[c].pc = "loaded"
  /\ task' = [task EXCEPT ![call[c].at].status = "running"]
  /\ Goto(c, "executing")
  /\ UNCHANGED <<batch, item>>

(* The store was written and read back.                                    *)
VerifyTask(c) ==
  /\ call[c].pc = "executing"
  /\ task' = [task EXCEPT ![call[c].at].status = "completed"]
  /\ Goto(c, "answered")
  /\ UNCHANGED <<batch, item>>

FailTask(c, unknown) ==
  /\ call[c].pc = "executing"
  /\ task' = [task EXCEPT ![call[c].at] = [status |-> "stopped", unknown |-> unknown]]
  /\ Raise(c)
  /\ UNCHANGED <<batch, item>>

(* approve() writes the conversation's rows after the task has ended, and  *)
(* may fail there.                                                         *)
LoseAnswer(c) ==
  /\ call[c].pc = "answered"
  /\ Raise(c)
  /\ UNCHANGED <<batch, item, task>>

-----------------------------------------------------------------------------
(* The outcome.                                                            *)

Logged_OldStatus(row, status) ==
  [row EXCEPT !.status = status,
              !.history = Append(@, [attempt |-> row.attempts, status |-> row.status])]

Logged_Overwrites(row, status) ==
  [row EXCEPT !.status = status,
              !.history = <<[attempt |-> row.attempts, status |-> status]>>]

Logged(row, status) ==
  [row EXCEPT !.status = status,
              !.history = Append(@, [attempt |-> row.attempts, status |-> status])]

(* The claim is never lost (OneExecutorPerItem), so the UPDATE succeeds. An *)
(* error after "completed" is recorded has the outcome recorded once more;  *)
(* that is refused, and leaves execute() without finalize.                 *)
RecordExecution_AsApproved(c) ==
  /\ call[c].pc \in {"answered", "failing"} /\ call[c].kind # "task"
  /\ item' = [item EXCEPT ![call[c].at] = Logged(@, "completed")]
  /\ call' = [call EXCEPT ![c] = Done(@, call[c].at)]
  /\ UNCHANGED <<batch, task>>

RecordExecution(c) ==
  /\ call[c].pc \in {"answered", "failing"} /\ call[c].kind # "task"
  /\ item' = [item EXCEPT ![call[c].at] =
       Logged(@, IF call[c].pc = "answered" THEN "completed" ELSE "needs_attention")]
  /\ \/ call' = [call EXCEPT ![c] = Done(@, call[c].at)]
     \/ call[c].pc = "answered" /\ End(c)
  /\ UNCHANGED <<batch, task>>

ReturnTask(c) ==
  /\ call[c].pc = "answered" /\ call[c].kind = "task"
  /\ End(c)
  /\ UNCHANGED <<batch, item, task>>

(* finalize_batch_execution reads the items, and then updates the batch,   *)
(* in two transactions.                                                    *)
CountItems(c) ==
  /\ call[c].pc = "next" /\ Todo(c) = {}
  /\ call' = [call EXCEPT ![c] = [@ EXCEPT !.pc = "counted", !.total = Aggregate]]
  /\ UNCHANGED <<batch, item, task>>

(* A report that says "running" is refused by its own model; the items and *)
(* the batch stay as they are either way.                                  *)
FinalizeExecution(c) ==
  /\ call[c].pc = "counted"
  /\ batch' = call[c].total
  /\ End(c)
  /\ UNCHANGED <<item, task>>

(* The process dies, and every call with it.                               *)
BatchCrash ==
  /\ call' = [c \in Calls |-> Ended]
  /\ UNCHANGED <<batch, item, task>>

ExecuteStep(c) ==
  \/ \E i \in Items : PassOver(c, i) \/ DecideRetry(c, i) \/ ClaimExecution(c, i)
  \/ PrepareRetry(c) \/ Reread(c)
  \/ LoadTask(c) \/ RefuseTask(c) \/ RunTask(c) \/ VerifyTask(c) \/ LoseAnswer(c)
  \/ \E unknown \in BOOLEAN : FailTask(c, unknown)
  \/ RecordExecution(c) \/ ReturnTask(c)
  \/ CountItems(c) \/ FinalizeExecution(c)

BatchNext ==
  \/ \E c \in Calls :
       \/ \E kind \in Operations, selected \in SUBSET Items : Begin(c, kind, selected)
       \/ \E i \in Items : ApproveTask(c, i)
       \/ ExecuteStep(c)
  \/ BatchCrash

BatchSpec == BatchInit /\ [][BatchNext]_batchVars

(* The same without crashes, and without approvals past the batch.         *)
SteadyNext ==
  \E c \in Calls :
    \/ \E kind \in Operations, selected \in SUBSET Items : Begin(c, kind, selected)
    \/ ExecuteStep(c)

SteadySpec == BatchInit /\ [][SteadyNext]_batchVars

-----------------------------------------------------------------------------
(* Properties.                                                             *)

Claimed(c) == call[c].pc \in {"claimed", "loaded", "executing", "answered", "failing"}
              /\ call[c].kind # "task"

(* docs/V46_TECHNICAL.md: of all concurrent requests one may execute an    *)
(* item.  A call that claimed an item has it to itself until it records    *)
(* the outcome, however stale the rows are that other calls go by.         *)
OneExecutorPerItem ==
  \A c \in Calls : Claimed(c) =>
    /\ item[call[c].at].status = "running"
    /\ \A d \in Calls \ {c} : Claimed(d) => call[d].at # call[c].at

Accounted(row) ==
  LET h == row.history
      open == IF row.status = "running" THEN 1 ELSE 0
  IN  /\ row.attempts <= MaxAttempts
      /\ Len(h) + open = row.attempts
      /\ \A n \in 1 .. Len(h) :
           /\ h[n].attempt = n
           /\ h[n].status = "completed" <=> n = Len(h) /\ row.status = "completed"

(* docs/V47_TECHNICAL.md: at most three executions, each in the history.   *)
(* The history numbers the attempts 1, 2, ... without gap or repetition,   *)
(* only the last can be a success, and only a running one is missing.      *)
AttemptsAccounted == \A i \in Items : Accounted(item[i])

(* An item is booked as completed only if its task's write was verified,   *)
(* and no later approval, of the batch or of the task alone, undoes that.  *)
CompletedWasVerified ==
  \A i \in Items : item[i].status = "completed" => task[i].status = "completed"

(* A task whose write was verified or is of unknown outcome is never run   *)
(* again, and none is run twice at a time: the check that precedes a       *)
(* retry, the claim and the start of the run are separate steps.           *)
SettledIsNotRunAgain ==
  [][\A i \in Items :
       task'[i] # task[i] =>
         /\ task[i].status # "completed" /\ ~task[i].unknown
         /\ task'[i].status = "running" => task[i].status = "stopped"
         /\ \E c \in Calls : Resuming(c, i)]_batchVars

(* A batch is only called completed if every item is, although the items   *)
(* are counted before, and outside, the transaction that says so.          *)
NoFalseSuccess == batch = "completed" => \A i \in Items : item[i].status = "completed"

(* repository.py, on finalize_batch_execution: the parent is recomputed    *)
(* after the selected writes finish.  So once every call has ended, no     *)
(* batch shows "running".                                                  *)
NotLeftRunning == (\A c \in Calls : call[c].pc = "idle") => batch # "running"
=============================================================================
