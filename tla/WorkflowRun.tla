---------------------------- MODULE WorkflowRun ----------------------------
(* One listing task driven by WorkflowExecutor.run: the DAG of agents, the  *)
(* delegations between them, the compliance repair loop, the checkpoint     *)
(* file, the write to the shop and the recovery of a task that stopped.     *)
(*                                                                          *)
(* The record task is the TaskState of the run in memory, saved the one in  *)
(* the checkpoint file. A review artifact is the number of the plan it      *)
(* holds; the artifacts of other agents are as present as their nodes are   *)
(* completed. The status "failed" stands for "needs_attention" too, which   *)
(* recovery treats alike, and the retry budget of the task is not counted:  *)
(* an error may be refused a retry at any time.                             *)
EXTENDS Integers, FiniteSets

CONSTANTS
    MaxSteps,        \* WorkflowExecutor.max_steps
    MaxDelegations,  \* A2ABudget.max_delegations
    MaxPerAgent,     \* A2ABudget.max_delegations_per_agent
    MaxRevisions,    \* WorkflowLoopState.max_iterations
    NodeRetries,     \* TaskNode.max_retries
    Upfront,         \* the values of approved a task may be started with
    Faulty,          \* bound: nodes whose agent may raise an exception
    MaxPlans,        \* bound: review artifacts made
    MaxResumes       \* bound: recoveries of the task

VARIABLES
    task,    \* the state of the active run (meaningful while stage # "none")
    stage,   \* where run() is: "none", at the "loop" head or in a "batch"
    steps,   \* steps counted by the run
    recoveries, \* recoveries begun so far
    batch,   \* nodes of the batch whose result the run has yet to handle
    saved,   \* the checkpoint file, or NoTask
    tail,    \* state the first run has yet to save for the last time, or NoTask
    made,    \* review artifacts made so far
    verdict, \* what the review said of each plan
    agreed,  \* plans the user has said yes to (history)
    once,    \* the idempotency record of the task's write
    writer,  \* the thread inside browser_execute
    waiting, \* plans of abandoned threads that have yet to reach browser_execute
    received   \* plans of this task the shop has ever received (history)

runVars   == <<stage, steps, batch, recoveries>>
fileVars  == <<saved, tail>>
planVars  == <<made, verdict, agreed>>
writeVars == <<once, writer, waiting, received>>
flowVars  == <<task, runVars, fileVars, planVars, writeVars>>

(***************************************************************************)
(* The plan: Planner.build_initial_state.                                  *)
(***************************************************************************)
Nodes   == {"market", "gate", "listing", "strategy", "review", "browser"}
Writers == {"listing", "strategy"}

(* Model errors are the only exceptions that are safe to retry.            *)
ModelNodes == {"market", "listing", "strategy", "review"}

Deps == [n \in Nodes |->
            CASE n = "market"  -> {}
              [] n = "gate"    -> {"market"}
              [] n \in Writers -> {"market", "gate"}
              [] n = "review"  -> Writers
              [] n = "browser" -> {"review"}]

(* A node and its descendants.                                             *)
Below == [n \in Nodes |->
            CASE n = "market"  -> Nodes
              [] n = "gate"    -> Nodes \ {"market"}
              [] n \in Writers -> {n, "review", "browser"}
              [] n = "review"  -> {"review", "browser"}
              [] n = "browser" -> {"browser"}]

ASSUME FlowAssumption ==
    /\ MaxSteps \in Nat /\ MaxDelegations \in Nat /\ MaxPerAgent \in Nat
    /\ MaxRevisions \in Nat /\ NodeRetries \in Nat
    /\ Upfront \subseteq BOOLEAN /\ Faulty \subseteq Nodes
    /\ MaxPlans \in Nat /\ MaxResumes \in Nat

Plans      == 1..MaxPlans
NodeStatus == {"pending", "running", "completed", "failed", "skipped"}
Stopped    == {"waiting_for_input", "waiting_for_approval", "failed"}
Statuses   == Stopped \cup {"running", "completed"}
Repairing  == {"revision_pending", "review_pending"}
Phases     == Repairing \cup {"none", "completed", "exhausted"}

NoTask  == [status |-> "none"]
NoWrite == [state |-> "none", plan |-> 0]
NoWriter    == [state |-> "idle", plan |-> 0, orphan |-> FALSE]

NewTask(ok) ==
    [status   |-> "running",
     node     |-> [n \in Nodes |-> "pending"],
     open     |-> {},                        \* nodes with a delegation under way
     asked    |-> [n \in Nodes |-> 0],       \* delegations ever made to the node
     retries  |-> [n \in Nodes |-> 0],
     plan     |-> 0,                         \* the latest review artifact
     kept     |-> {},                        \* review artifacts in state.artifacts
     cites    |-> [n \in Nodes |-> 0],       \* supplemental_artifact_refs
     round    |-> 0, phase |-> "none",       \* workflow_loops: compliance_repair
     targets  |-> {}, done |-> {},
     approved |-> ok,
     analysis |-> FALSE,                     \* market_analysis_only
     unknown  |-> FALSE,                     \* a write record of unknown outcome
     differed |-> {},                        \* plans whose readback did not match
     resumed  |-> FALSE]                     \* resume_count > 0

FlowInit ==
    /\ task = NewTask(FALSE)
    /\ stage = "none" /\ steps = 0 /\ batch = {} /\ recoveries = 0
    /\ saved = NoTask /\ tail = NoTask
    /\ made = 0 /\ verdict = [p \in Plans |-> "none"] /\ agreed = {}
    /\ once = NoWrite /\ writer = NoWriter /\ waiting = {}
    /\ received = {}

(* Supervisor.run: plan the task, save the initial checkpoint.             *)
StartTask ==
    /\ stage = "none" /\ saved = NoTask
    /\ \E ok \in Upfront :
          /\ task' = NewTask(ok)
          /\ saved' = NewTask(ok)
          /\ agreed' = IF ok THEN Plans ELSE {}
    /\ stage' = "loop" /\ steps' = 0
    /\ UNCHANGED <<batch, recoveries, tail, made, verdict>> /\ UNCHANGED writeVars

(***************************************************************************)
(* The head of the loop, and how run() ends.                               *)
(***************************************************************************)
Active(t) == t.phase \in Repairing

Ready_NoGate(t) == {n \in Nodes :  \* mutant: not held back by a revision
                /\ t.node[n] = "pending"
                /\ \A d \in Deps[n] : t.node[d] = "completed"}

Ready(t) == {n \in Nodes :
                /\ t.node[n] = "pending"
                /\ n = "browser" => ~Active(t)
                /\ \A d \in Deps[n] : t.node[d] = "completed"}

AllRequiredComplete(t) ==
    \A n \in Nodes : \/ t.node[n] = "completed"
                     \/ t.analysis /\ t.node[n] = "skipped"

(* The last save of the run. A step checkpoint with the same status is in  *)
(* the file when the loop was left by a stop status, so a recovery may     *)
(* start before this save; RecoveryCoordinator.claim keeps recoveries of a *)
(* resumed run out until it has ended, but no claim covers the first run.  *)
End(t) ==
    /\ saved' = t
    /\ stage' = "none"
    /\ task' = NewTask(FALSE) /\ steps' = 0
    /\ UNCHANGED <<batch, recoveries, tail>> /\ UNCHANGED planVars /\ UNCHANGED writeVars

OutOfTime ==
    /\ stage = "loop" /\ steps < MaxSteps
    /\ End([task EXCEPT !.status = "failed"])

StepsExhausted ==
    /\ stage = "loop" /\ steps >= MaxSteps
    /\ End([task EXCEPT !.status = "failed"])

NothingReady ==
    /\ stage = "loop" /\ steps < MaxSteps /\ Ready(task) = {}
    /\ End([task EXCEPT !.status = IF AllRequiredComplete(task) THEN "completed"
                                   ELSE "failed"])

(***************************************************************************)
(* _run_ready_nodes: delegate to every ready node, in the order of the     *)
(* plan (listing before strategy is the only pair that is ready together). *)
(***************************************************************************)
Delegations(t) == t.asked["market"] + t.asked["gate"] + t.asked["listing"]
                  + t.asked["strategy"] + t.asked["review"] + t.asked["browser"]

Earlier(n, ready) == IF n = "strategy" THEN ready \cap {"listing"} ELSE {}

(* A2ACoordinator.create_for_node: budgets, concurrency, artifacts.        *)
CanDelegate(t, n, ready) ==
    /\ Delegations(t) + Cardinality(Earlier(n, ready)) < MaxDelegations
    /\ n \notin t.open
    /\ t.asked[n] < MaxPerAgent
    /\ t.cites[n] # 0 => t.cites[n] \in t.kept

Asked(t, nodes) == [n \in Nodes |-> IF n \in nodes THEN t.asked[n] + 1
                                    ELSE t.asked[n]]

Dispatch ==
    /\ stage = "loop" /\ steps < MaxSteps /\ Ready(task) # {}
    /\ \A n \in Ready(task) : CanDelegate(task, n, Ready(task))
    /\ task' = [task EXCEPT
                  !.node  = [n \in Nodes |-> IF n \in Ready(task) THEN "running"
                                             ELSE task.node[n]],
                  !.open  = @ \cup Ready(task),
                  !.asked = Asked(task, Ready(task))]
    /\ batch' = Ready(task) /\ stage' = "batch"
    /\ steps' = steps + Cardinality(Ready(task))
    /\ UNCHANGED recoveries
    /\ UNCHANGED fileVars /\ UNCHANGED planVars /\ UNCHANGED writeVars

(* A delegation that cannot be made fails the whole batch: the nodes       *)
(* prepared before it are cancelled, those after it never start.           *)
DispatchRefused ==
    /\ stage = "loop" /\ steps < MaxSteps
    /\ \E f \in Ready(task) :
          /\ ~CanDelegate(task, f, Ready(task))
          /\ \A n \in Earlier(f, Ready(task)) : CanDelegate(task, n, Ready(task))
          /\ task' = [task EXCEPT
                !.status = "failed",
                !.node   = [n \in Nodes |-> IF n \in Ready(task) THEN "failed"
                                            ELSE task.node[n]],
                !.asked  = Asked(task, Earlier(f, Ready(task)))]
    /\ batch' = {} /\ stage' = "batch"
    /\ steps' = steps + Cardinality(Ready(task))
    /\ UNCHANGED recoveries
    /\ UNCHANGED fileVars /\ UNCHANGED planVars /\ UNCHANGED writeVars

(***************************************************************************)
(* The results of a batch. Settled: the node leaves the batch and its      *)
(* delegation is over (A2ACoordinator.complete or fail_active).            *)
(***************************************************************************)
Settled(t, n, s) == [t EXCEPT !.node = [t.node EXCEPT ![n] = s],
                              !.open = @ \ {n}]

Handles(n) ==
    /\ stage = "batch" /\ n \in batch
    /\ batch' = batch \ {n}
    /\ UNCHANGED <<stage, steps, recoveries>> /\ UNCHANGED fileVars

Researched ==
    /\ Handles("market")
    /\ task' = Settled(task, "market", "completed")
    /\ UNCHANGED planVars /\ UNCHANGED writeVars

PriceAccepted ==
    /\ Handles("gate")
    /\ task' = Settled(task, "gate", "completed")
    /\ UNCHANGED planVars /\ UNCHANGED writeVars

PriceQuestioned ==
    /\ Handles("gate")
    /\ task' = [Settled(task, "gate", "completed")
                   EXCEPT !.status = "waiting_for_input"]
    /\ UNCHANGED planVars /\ UNCHANGED writeVars

(* _schedule_revision_review: the last target that is done asks for a new  *)
(* review.                                                                 *)
RevisionDone(t, w) ==
    IF t.phase # "revision_pending" \/ w \notin t.targets THEN t
    ELSE IF t.done \cup {w} # t.targets THEN [t EXCEPT !.done = @ \cup {w}]
    ELSE [t EXCEPT !.done = @ \cup {w}, !.phase = "review_pending",
                   !.status = "running",
                   !.node = [t.node EXCEPT !["review"] = "pending"]]

Written(w) ==
    /\ Handles(w)
    /\ task' = RevisionDone(Settled(task, w, "completed"), w)
    /\ UNCHANGED planVars /\ UNCHANGED writeVars

(* A review makes a plan in every case and says what it is worth.          *)
Reviewed(v) ==
    /\ Handles("review")
    /\ made < MaxPlans
    /\ made' = made + 1
    /\ verdict' = [verdict EXCEPT ![made + 1] = v]
    /\ UNCHANGED agreed /\ UNCHANGED writeVars

WithPlan(t) == [t EXCEPT !.plan = made + 1, !.kept = @ \cup {made + 1}]

ReviewPassed ==
    /\ Reviewed("passed")
    /\ task' = [WithPlan(Settled(task, "review", "completed")) EXCEPT
                  !.phase = IF @ = "review_pending" THEN "completed" ELSE @]

ReviewRejected ==
    /\ Reviewed("blocked")
    /\ task' = [WithPlan(Settled(task, "review", "failed")) EXCEPT
                  !.phase = IF @ = "review_pending" THEN "exhausted" ELSE @,
                  !.status = "failed"]

(* _schedule_compliance_revision. The agent asks for a revision only while *)
(* rounds are left and names a target, so its other branches never run.    *)
RevisionRequired ==
    /\ Reviewed("blocked")
    /\ task.round < MaxRevisions
    /\ \E ws \in SUBSET Writers :
          /\ ws # {}
          /\ LET t == WithPlan(Settled(task, "review", "completed"))
             IN  task' = [t EXCEPT
                    !.round = @ + 1, !.phase = "revision_pending",
                    !.targets = ws, !.done = {}, !.status = "running",
                    !.node  = [n \in Nodes |-> IF n \in ws THEN "pending"
                                               ELSE t.node[n]],
                    !.cites = [n \in Nodes |-> IF n \in ws THEN made + 1
                                               ELSE t.cites[n]]]

(* _handle_node_error with an exception that is safe to retry.             *)
AgentRetried(n) ==
    /\ n \in ModelNodes \cap Faulty
    /\ Handles(n)
    /\ task.retries[n] < NodeRetries
    /\ task' = [Settled(task, n, "pending") EXCEPT
                  !.retries = [task.retries EXCEPT ![n] = task.retries[n] + 1]]
    /\ UNCHANGED planVars /\ UNCHANGED writeVars

FailedNode_Timeout(t, n) ==  \* mutant: a status the nodes do not have
    [Settled(t, n, "timed_out") EXCEPT !.status = "failed"]

FailedNode(t, n) == [Settled(t, n, "failed") EXCEPT !.status = "failed"]

(* The write of this run is past the point of no return, or has begun.     *)
Writing == writer.state # "idle" /\ ~writer.orphan

AgentFailed(n) ==
    /\ n \in Faulty
    /\ Handles(n)
    /\ n = "browser" => ~Writing
    /\ task' = FailedNode(task, n)
    /\ UNCHANGED planVars /\ UNCHANGED writeVars

NodesTimedOut_StillOpen(t, nodes) ==  \* mutant: the delegations are not closed
    [t EXCEPT !.status = "failed",
              !.node   = [n \in Nodes |-> IF n \in nodes THEN "failed" ELSE t.node[n]]]

NodesTimedOut(t, nodes) ==
    [t EXCEPT !.status = "failed",
              !.open   = @ \ nodes,
              !.node   = [n \in Nodes |-> IF n \in nodes THEN "failed" ELSE t.node[n]]]

TimedOut_AgentsOnly ==  \* mutant: the write is waited for without a timeout
    /\ stage = "batch" /\ batch # {} /\ "browser" \notin batch
    /\ task' = NodesTimedOut(task, batch)
    /\ batch' = {}
    /\ UNCHANGED <<stage, steps, recoveries>>
    /\ UNCHANGED fileVars /\ UNCHANGED planVars /\ UNCHANGED writeVars

(* _handle_node_timeout: every node whose result is not there is failed;   *)
(* its thread goes on. A browser thread may be waiting for the write pool  *)
(* or be inside the write.                                                 *)
TimedOut ==
    /\ stage = "batch" /\ batch # {}
    /\ task' = NodesTimedOut(task, batch)
    /\ batch' = {}
    /\ waiting' = IF "browser" \in batch /\ task.approved /\ ~Writing
                  THEN waiting \cup {task.plan} ELSE waiting
    /\ writer' = IF writer.state = "done" THEN NoWriter
                 ELSE IF Writing THEN [writer EXCEPT !.orphan = TRUE] ELSE writer
    /\ UNCHANGED <<stage, steps, recoveries, once, received>>
    /\ UNCHANGED fileVars /\ UNCHANGED planVars

(***************************************************************************)
(* The browser node: BrowserAgent.run, ToolRegistry.call and browser_execute. *)
(***************************************************************************)
ApprovalAsked ==
    /\ Handles("browser")
    /\ ~task.approved
    /\ task' = [Settled(task, "browser", "skipped") EXCEPT
                  !.status = "waiting_for_approval"]
    /\ UNCHANGED planVars /\ UNCHANGED writeVars

(* IdempotencyStore.execute_once: a record is taken over when it failed    *)
(* with the same plan. The store's lock admits one thread.                 *)
Claimable_AnyFailed(p) == once.state \in {"none", "failed"}  \* mutant

Claimable(p) == \/ once.state = "none"
                \/ once.state = "failed" /\ once.plan = p

BeginWrite(p, abandoned) ==
    /\ writer.state = "idle"
    /\ Claimable(p)
    /\ once' = [state |-> "in_progress", plan |-> p]
    /\ writer' = [state |-> "inflight", plan |-> p, orphan |-> abandoned]
    /\ UNCHANGED received /\ UNCHANGED fileVars /\ UNCHANGED planVars

WriteBegins ==
    /\ stage = "batch" /\ "browser" \in batch /\ task.approved
    /\ BeginWrite(task.plan, FALSE)
    /\ UNCHANGED <<task, waiting>> /\ UNCHANGED runVars

AbandonedWriteBegins ==
    \E p \in waiting :
       /\ BeginWrite(p, TRUE)
       /\ waiting' = waiting \ {p}
       /\ UNCHANGED task /\ UNCHANGED runVars

(* The abandoned thread replays, is refused or fails before the write.     *)
AbandonedCallEnds ==
    \E p \in waiting :
       /\ waiting' = waiting \ {p}
       /\ UNCHANGED <<task, once, writer, received>>
       /\ UNCHANGED runVars /\ UNCHANGED fileVars /\ UNCHANGED planVars

(* A completed record of the same plan is replayed; the agent goes on to   *)
(* verify. The writer "done" stands for the thread between the two calls.  *)
WriteReplayed_AnyRecord ==  \* mutant: the status of the record is not read
    /\ stage = "batch" /\ "browser" \in batch /\ task.approved
    /\ writer.state = "idle"
    /\ once.plan = task.plan
    /\ writer' = [state |-> "done", plan |-> task.plan, orphan |-> FALSE]
    /\ UNCHANGED <<task, once, waiting, received>>
    /\ UNCHANGED runVars /\ UNCHANGED fileVars /\ UNCHANGED planVars

WriteReplayed ==
    /\ stage = "batch" /\ "browser" \in batch /\ task.approved
    /\ writer.state = "idle"
    /\ once = [state |-> "completed", plan |-> task.plan]
    /\ writer' = [state |-> "done", plan |-> task.plan, orphan |-> FALSE]
    /\ UNCHANGED <<task, once, waiting, received>>
    /\ UNCHANGED runVars /\ UNCHANGED fileVars /\ UNCHANGED planVars

(* Another plan under the task's key is a conflict, the same plan still in *)
(* progress an unknown write.                                              *)
WriteRefused ==
    /\ Handles("browser")
    /\ task.approved /\ writer.state = "idle"
    /\ once.state # "none"
    /\ \/ /\ once.plan # task.plan
          /\ task' = FailedNode(task, "browser")
       \/ /\ once = [state |-> "in_progress", plan |-> task.plan]
          /\ task' = [FailedNode(task, "browser") EXCEPT !.unknown = TRUE]
    /\ UNCHANGED planVars /\ UNCHANGED writeVars

WriteLands ==
    /\ writer.state = "inflight"
    /\ writer' = [writer EXCEPT !.state = "landed"]
    /\ received' = received \cup {writer.plan}
    /\ UNCHANGED <<task, once, waiting>>
    /\ UNCHANGED runVars /\ UNCHANGED fileVars /\ UNCHANGED planVars

WriteConfirmed ==
    /\ writer.state = "landed"
    /\ once' = [once EXCEPT !.state = "completed"]
    /\ writer' = IF writer.orphan THEN NoWriter ELSE [writer EXCEPT !.state = "done"]
    /\ UNCHANGED <<task, waiting, received>>
    /\ UNCHANGED runVars /\ UNCHANGED fileVars /\ UNCHANGED planVars

(* The operation raises, before or after the shop took the write. An error *)
(* that is not known to be final is recorded as an unknown write.          *)
WriteRaises ==
    /\ writer.state \in {"inflight", "landed"} /\ ~writer.orphan
    /\ Handles("browser")
    /\ once' = [once EXCEPT !.state = "failed"]
    /\ writer' = NoWriter
    /\ \E lost \in BOOLEAN :
          task' = [FailedNode(task, "browser") EXCEPT !.unknown = @ \/ lost]
    /\ UNCHANGED <<waiting, received>> /\ UNCHANGED planVars

AbandonedWriteRaises ==
    /\ writer.state \in {"inflight", "landed"} /\ writer.orphan
    /\ once' = [once EXCEPT !.state = "failed"]
    /\ writer' = NoWriter
    /\ UNCHANGED <<task, waiting, received>>
    /\ UNCHANGED runVars /\ UNCHANGED fileVars /\ UNCHANGED planVars

(* The tool's own timeout: the call ends as an unknown write, its thread   *)
(* goes on.                                                                *)
WriteTimedOut ==
    /\ writer.state \in {"inflight", "landed"} /\ ~writer.orphan
    /\ Handles("browser")
    /\ task' = [FailedNode(task, "browser") EXCEPT !.unknown = TRUE]
    /\ writer' = [writer EXCEPT !.orphan = TRUE]
    /\ UNCHANGED <<once, waiting, received>> /\ UNCHANGED planVars

(* browser_verify reads the shop, which others change too; a resumed run   *)
(* answers from the record of an earlier readback of the same plan.        *)
VerifyMatches ==
    /\ writer.state = "done"
    /\ Handles("browser")
    /\ task.resumed => task.plan \notin task.differed
    /\ writer' = NoWriter
    /\ task' = Settled(task, "browser", "completed")
    /\ UNCHANGED <<once, waiting, received>> /\ UNCHANGED planVars

VerifyDiffers ==
    /\ writer.state = "done"
    /\ Handles("browser")
    /\ writer' = NoWriter
    /\ task' = [FailedNode(task, "browser") EXCEPT
                  !.differed = @ \cup {task.plan}]
    /\ UNCHANGED <<once, waiting, received>> /\ UNCHANGED planVars

(***************************************************************************)
(* The step checkpoint, the end of the run, and a crash of the process.    *)
(***************************************************************************)
Checkpoint ==
    /\ stage = "batch" /\ batch = {}
    /\ saved' = task
    /\ \/ /\ task.status \notin Stopped
          /\ stage' = "loop" /\ UNCHANGED <<task, steps, tail>>
       \/ /\ task.status \in Stopped
          /\ tail' = IF task.resumed THEN tail ELSE task
          /\ stage' = "none" /\ task' = NewTask(FALSE) /\ steps' = 0
    /\ UNCHANGED <<batch, recoveries>>
    /\ UNCHANGED planVars /\ UNCHANGED writeVars

FirstRunEnds ==
    /\ tail # NoTask
    /\ saved' = tail /\ tail' = NoTask
    /\ UNCHANGED task /\ UNCHANGED runVars
    /\ UNCHANGED planVars /\ UNCHANGED writeVars

ProcessDies ==
    /\ saved # NoTask
    /\ stage # "none" \/ tail # NoTask \/ writer # NoWriter
    /\ stage' = "none" /\ steps' = 0 /\ batch' = {}
    /\ task' = NewTask(FALSE) /\ tail' = NoTask
    /\ writer' = NoWriter /\ waiting' = {}
    /\ UNCHANGED <<recoveries, saved, once, received>> /\ UNCHANGED planVars

(***************************************************************************)
(* Supervisor.resume with RecoveryManager.prepare.                         *)
(***************************************************************************)
(* _restart_node_and_descendants: the latest artifact of a restarted agent *)
(* is dropped; what it cites and its capability are left as they are.      *)
Restarted(t, n) ==
    [t EXCEPT
       !.node    = [m \in Nodes |-> IF m \in Below[n] THEN "pending" ELSE t.node[m]],
       !.retries = [m \in Nodes |-> IF m \in Below[n] THEN 0 ELSE t.retries[m]],
       !.kept    = IF "review" \in Below[n] THEN @ \ {t.plan} ELSE @,
       !.plan    = IF "review" \in Below[n] THEN 0 ELSE @]

Resume(t) ==
    /\ stage = "none" /\ saved # NoTask /\ recoveries < MaxResumes
    /\ LET r == [t EXCEPT !.status = "running", !.resumed = TRUE]
       IN  task' = r /\ saved' = r
    /\ stage' = "loop" /\ steps' = 0 /\ recoveries' = recoveries + 1
    /\ UNCHANGED <<batch, tail, made, verdict>> /\ UNCHANGED writeVars

ResumeApproved ==
    /\ saved.status = "waiting_for_approval"
    /\ saved.node["browser"] = "skipped"
    /\ Resume([Restarted(saved, "browser") EXCEPT !.approved = TRUE])
    /\ agreed' = agreed \cup {saved.plan}

ResumePriced ==
    /\ saved.status = "waiting_for_input"
    /\ Resume(Restarted(saved, "gate"))
    /\ UNCHANGED agreed

ResumeAnalysisOnly ==
    /\ saved.status = "waiting_for_input"
    /\ Resume([saved EXCEPT
                 !.analysis = TRUE,
                 !.node = [n \in Nodes |-> IF n \in {"market", "gate"}
                                           THEN saved.node[n] ELSE "skipped"]])
    /\ UNCHANGED agreed

(* A failed node is retried; with constraint updates a completed one that  *)
(* a failed one depends on may be restarted instead.                       *)
Restartable(t, updates) ==
    {n \in Nodes : \/ t.node[n] = "failed"
                   \/ /\ updates /\ t.node[n] = "completed"
                      /\ \E m \in Below[n] : t.node[m] = "failed"}

ResumeFailed ==
    /\ saved.status = "failed"
    /\ ~saved.unknown
    /\ \E updates, yes \in BOOLEAN :
       \E n \in Restartable(saved, updates) :
          /\ Resume([Restarted(saved, n) EXCEPT !.approved = @ \/ yes])
          /\ agreed' = IF yes THEN Plans ELSE agreed

(***************************************************************************)
(* The specification. The run's own steps are fair: its loop and its       *)
(* waits with a timeout never stop by themselves. Agents, the shop, the    *)
(* user and crashes owe nothing.                                           *)
(***************************************************************************)
AgentAnswers ==
    \/ Researched \/ PriceAccepted \/ PriceQuestioned
    \/ \E w \in Writers : Written(w)
    \/ ReviewPassed \/ ReviewRejected \/ RevisionRequired
    \/ \E n \in Nodes : AgentRetried(n)
    \/ \E n \in Nodes : AgentFailed(n)

BrowserStep ==
    \/ ApprovalAsked \/ WriteBegins \/ WriteReplayed \/ WriteRefused
    \/ WriteLands \/ WriteConfirmed \/ WriteRaises \/ WriteTimedOut 
    \/ VerifyMatches \/ VerifyDiffers
    \/ AbandonedWriteBegins \/ AbandonedCallEnds \/ AbandonedWriteRaises

RunStep ==
    \/ OutOfTime \/ StepsExhausted \/ NothingReady
    \/ Dispatch \/ DispatchRefused \/ TimedOut
    \/ Checkpoint \/ FirstRunEnds

Recover == ResumeApproved \/ ResumePriced \/ ResumeAnalysisOnly \/ ResumeFailed

FlowNext ==
    \/ StartTask \/ RunStep \/ AgentAnswers \/ BrowserStep
    \/ ProcessDies \/ Recover

FlowFairness == WF_flowVars(RunStep)

FlowSpec == FlowInit /\ [][FlowNext]_flowVars /\ FlowFairness

(***************************************************************************)
(* Properties.                                                             *)
(***************************************************************************)
Tasks == [status   : Statuses,
          node     : [Nodes -> NodeStatus],
          open     : SUBSET Nodes,
          asked    : [Nodes -> Nat],
          retries  : [Nodes -> Nat],
          plan     : 0..MaxPlans,
          kept     : SUBSET Plans,
          cites    : [Nodes -> 0..MaxPlans],
          round    : Nat,
          phase    : Phases,
          targets  : SUBSET Writers,
          done     : SUBSET Writers,
          approved : BOOLEAN,
          analysis : BOOLEAN,
          unknown  : BOOLEAN,
          differed : SUBSET (0..MaxPlans),
          resumed  : BOOLEAN]

(* The types of the variables: the run, its checkpoint, its write.         *)
FlowTypeOK ==
    /\ task \in Tasks
    /\ stage \in {"none", "loop", "batch"}
    /\ steps \in Nat /\ recoveries \in Nat
    /\ batch \subseteq Nodes
    /\ saved \in Tasks \cup {NoTask} /\ tail \in Tasks \cup {NoTask}
    /\ made \in 0..MaxPlans
    /\ verdict \in [Plans -> {"none", "passed", "blocked"}]
    /\ agreed \subseteq 0..MaxPlans
    /\ once \in [state : {"none", "in_progress", "completed", "failed"},
                 plan : 0..MaxPlans]
    /\ writer \in [state : {"idle", "inflight", "landed", "done"},
                   plan : 0..MaxPlans, orphan : BOOLEAN]
    /\ waiting \subseteq 0..MaxPlans
    /\ received \subseteq 0..MaxPlans

Files == {saved, tail} \ {NoTask}

(* Every plan the shop receives passed its review, whichever revisions,    *)
(* retries, recoveries and abandoned threads came between: neither a       *)
(* blocked plan nor one whose repair is under way is ever executed.        *)
OnlyReviewedPlansLand == \A p \in received : p \in Plans /\ verdict[p] = "passed"

(* A task writes one plan for good: a recovered task whose plan was made   *)
(* again, or a thread that outlived its run, never puts a second plan into *)
(* the shop, and the idempotency record names the one that is there.       *)
OnePlanPerTask == \A p \in received : once.plan = p

(* A checkpoint that says completed (other than of an analysis without a   *)
(* listing) has its own latest plan written and confirmed, also when the   *)
(* write was replayed or an earlier run's thread made it.                  *)
CompletedMeansWritten ==
    \A t \in Files :
       t.status = "completed" /\ ~t.analysis =>
           once = [state |-> "completed", plan |-> t.plan] /\ t.plan \in received

(* The plans reported as done by a file, other than of an analysis only.   *)
Reported == {t.plan : t \in {f \in Files : f.status = "completed" /\ ~f.analysis}}

Writes == INSTANCE PlanLedger WITH record <- once, reported <- Reported

(* However runs, threads and recoveries interleave, the task keeps the     *)
(* promises of PlanLedger: one plan that passed is written and reported.   *)
ImplementsPlans == Writes!Spec

(* No checkpoint holds a node that is running or a delegation under way:   *)
(* a recovery would find its agent at its concurrency limit for good.      *)
SettledWhenSaved ==
    \A t \in Files : t.open = {} /\ \A n \in Nodes : t.node[n] # "running"

(* Every run ends, with whatever its agents, its write and its thread pool *)
(* do: the loop is bounded and every wait has a timeout.  Whenever one has *)
(* begun, there will be none at work.                                      *)
RunEnds == []<>(stage = "none")

(* README: without the user's confirmation nothing is written. The plan    *)
(* the shop receives is one the user was shown and said yes to.            *)
ApprovalCoversPlan == received \subseteq agreed
=============================================================================
