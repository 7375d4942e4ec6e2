------------------------- MODULE WorkflowRunProofs -------------------------
(***************************************************************************)
(* Theorems about WorkflowRun, for any budgets, bounds and faults, and     *)
(* their proofs.                                                           *)
(***************************************************************************)
EXTENDS WorkflowRun, FiniteSetTheorems, TLAPS

(* What the rest of the state says of a plan and of a task is a matter of  *)
(* the plans made so far, their verdicts and the write's record.           *)
Passed(p, plans, said) == p \in 1..plans /\ said[p] = "passed"

(* No node is ahead of what it depends on, but a review whose writers are  *)
(* at work again.                                                          *)
InOrder(t) ==
  \A n \in Nodes : \/ t.node[n] \notin {"running", "completed"}
                   \/ \A d \in Deps[n] : t.node[d] = "completed"
                   \/ n = "review" /\ t.node[n] = "completed" /\ Active(t)

(* What holds of the state of a task, in memory and in a file: a review    *)
(* that is done and not under repair passed the plan of the state, and a   *)
(* browser node that is done wrote it.                                     *)
Sound(t, plans, said, record) ==
  /\ t.plan \in 0..plans /\ InOrder(t)
  /\ t.node["review"] = "completed" /\ ~Active(t) => Passed(t.plan, plans, said)
  /\ t.node["browser"] = "completed" =>
        /\ t.node["review"] = "completed" /\ ~Active(t)
        /\ record = [state |-> "completed", plan |-> t.plan]

(* A file is also at rest, and says completed of what is written only.     *)
AtRest(t) ==
  /\ t.open = {} /\ \A n \in Nodes : t.node[n] # "running"
  /\ t.status = "completed" /\ ~t.analysis => t.node["browser"] = "completed"

RunHolds ==
  /\ task.open = batch
  /\ \A n \in Nodes : task.node[n] = "running" <=> n \in batch
  /\ stage # "batch" => batch = {}
  /\ "browser" \in batch => task.node["review"] = "completed" /\ ~Active(task)
  /\ "review" \in batch => batch \cap Writers = {}
  /\ task.status # "completed"
  /\ Sound(task, made, verdict, once)

FilesHold == \A t \in Files : Sound(t, made, verdict, once) /\ AtRest(t)

WriterHolds ==
  /\ Writing => /\ stage = "batch" /\ "browser" \in batch
                /\ task.approved /\ writer.plan = task.plan
  /\ writer.state \in {"inflight", "landed"} =>
        /\ once = [state |-> "in_progress", plan |-> writer.plan]
        /\ Passed(writer.plan, made, verdict)
  /\ writer.state = "landed" => writer.plan \in received
  /\ writer.state = "done" =>
        once = [state |-> "completed", plan |-> writer.plan] /\ ~writer.orphan

ShopHolds ==
  /\ \A p \in waiting \cup received : Passed(p, made, verdict)
  /\ \A p \in received : once.state # "none" /\ once.plan = p
  /\ once.state = "completed" => once.plan \in received

FlowInv == FlowTypeOK /\ RunHolds /\ FilesHold /\ WriterHolds /\ ShopHolds

(* Plans are added and never judged again; a completed record is final.    *)
Grows == /\ made' \in 0..MaxPlans /\ made <= made'
         /\ \A p \in 1..made : verdict'[p] = verdict[p]
         /\ once.state = "completed" => once' = once

-----------------------------------------------------------------------------
(* The records of a task: their types, and the fields the invariant reads. *)

Like(u, t) == /\ u.plan = t.plan /\ u.phase = t.phase
              /\ u.approved = t.approved /\ u.analysis = t.analysis

LEMMA NewTaskFacts ==
  ASSUME NEW ok \in BOOLEAN
  PROVE  /\ NewTask(ok) \in Tasks
         /\ NewTask(ok).status = "running" /\ NewTask(ok).plan = 0
         /\ NewTask(ok).node = [n \in Nodes |-> "pending"] /\ NewTask(ok).open = {}
         /\ NewTask(ok).phase = "none" /\ NewTask(ok).approved = ok
BY FlowAssumption DEF NewTask, Tasks, Statuses, NodeStatus, Phases, Repairing, Plans

LEMMA StatusFacts ==
  ASSUME NEW t \in Tasks, NEW s \in Statuses
  PROVE  LET u == [t EXCEPT !.status = s]
         IN  u \in Tasks /\ Like(u, t) /\ u.status = s /\ u.node = t.node /\ u.open = t.open
BY DEF Tasks, Like

LEMMA SettledFacts ==
  ASSUME NEW t \in Tasks, NEW n \in Nodes, NEW s \in NodeStatus
  PROVE  LET u == Settled(t, n, s)
         IN  /\ u \in Tasks /\ Like(u, t) /\ u.status = t.status
             /\ u.node = [t.node EXCEPT ![n] = s] /\ u.open = t.open \ {n}
<1>1. [t.node EXCEPT ![n] = s] \in [Nodes -> NodeStatus]
  BY DEF Tasks
<1>. QED BY <1>1 DEF Settled, Tasks, Like

LEMMA FailedNodeFacts ==
  ASSUME NEW t \in Tasks, NEW n \in Nodes
  PROVE  LET u == FailedNode(t, n)
         IN  /\ u \in Tasks /\ Like(u, t) /\ u.status = "failed"
             /\ u.node = [t.node EXCEPT ![n] = "failed"] /\ u.open = t.open \ {n}
<1>. DEFINE v == Settled(t, n, "failed")
<1>1. /\ v \in Tasks /\ Like(v, t)
      /\ v.node = [t.node EXCEPT ![n] = "failed"] /\ v.open = t.open \ {n}
  BY SettledFacts DEF NodeStatus
<1>2. FailedNode(t, n) = [v EXCEPT !.status = "failed"]
  BY DEF FailedNode
<1>. HIDE DEF v
<1>3. "failed" \in Statuses
  BY DEF Statuses, Stopped
<1>. QED BY <1>1, <1>2, <1>3, StatusFacts DEF Like

LEMMA RestartedFacts ==
  ASSUME NEW t \in Tasks, NEW n \in Nodes
  PROVE  LET u == Restarted(t, n)
         IN  /\ u \in Tasks /\ u.status = t.status /\ u.open = t.open
             /\ u.phase = t.phase /\ u.analysis = t.analysis
             /\ u.node = [m \in Nodes |-> IF m \in Below[n] THEN "pending" ELSE t.node[m]]
             /\ u.plan = IF "review" \in Below[n] THEN 0 ELSE t.plan
<1>. DEFINE f == [m \in Nodes |-> IF m \in Below[n] THEN "pending" ELSE t.node[m]]
            g == [m \in Nodes |-> IF m \in Below[n] THEN 0 ELSE t.retries[m]]
            k == IF "review" \in Below[n] THEN t.kept \ {t.plan} ELSE t.kept
            p == IF "review" \in Below[n] THEN 0 ELSE t.plan
<1>1. f \in [Nodes -> NodeStatus]
  BY DEF Tasks, NodeStatus
<1>2. g \in [Nodes -> Nat]
  BY DEF Tasks
<1>3. k \in SUBSET Plans /\ p \in 0..MaxPlans
  BY FlowAssumption DEF Tasks
<1>4. Restarted(t, n) = [t EXCEPT !.node = f, !.retries = g, !.kept = k, !.plan = p]
  BY DEF Restarted, Tasks
<1>. HIDE DEF f, g, k, p
<1>5. LET u == [t EXCEPT !.node = f, !.retries = g, !.kept = k, !.plan = p]
      IN  /\ u \in Tasks /\ u.status = t.status /\ u.open = t.open
          /\ u.phase = t.phase /\ u.analysis = t.analysis /\ u.node = f /\ u.plan = p
  BY <1>1, <1>2, <1>3 DEF Tasks
<1>. QED BY <1>4, <1>5 DEF f, p

LEMMA ResumedFacts ==
  ASSUME NEW t \in Tasks
  PROVE  LET u == [t EXCEPT !.status = "running", !.resumed = TRUE]
         IN  /\ u \in Tasks /\ Like(u, t) /\ u.status = "running"
             /\ u.node = t.node /\ u.open = t.open
BY DEF Tasks, Like, Statuses

LEMMA ApprovedFacts ==
  ASSUME NEW t \in Tasks, NEW yes \in BOOLEAN
  PROVE  LET u == [t EXCEPT !.approved = yes]
         IN  /\ u \in Tasks /\ u.status = t.status /\ u.node = t.node /\ u.open = t.open
             /\ u.plan = t.plan /\ u.phase = t.phase /\ u.analysis = t.analysis
BY DEF Tasks

LEMMA RevisionDoneFacts ==
  ASSUME NEW t \in Tasks, NEW w \in Writers
  PROVE  LET u == RevisionDone(t, w)
         IN  /\ u \in Tasks /\ u.plan = t.plan /\ u.open = t.open
             /\ u.approved = t.approved /\ u.analysis = t.analysis
             /\ \/ u.phase = t.phase /\ u.node = t.node /\ u.status = t.status
                \/ /\ t.phase = "revision_pending" /\ u.phase = "review_pending"
                   /\ u.node = [t.node EXCEPT !["review"] = "pending"]
                   /\ u.status = "running"
<1>1. CASE t.phase # "revision_pending" \/ w \notin t.targets
  BY <1>1 DEF RevisionDone
<1>2. CASE t.phase = "revision_pending" /\ w \in t.targets
  <2>1. t.done \cup {w} \in SUBSET Writers
    BY DEF Tasks
  <2>2. CASE t.done \cup {w} # t.targets
    <3>1. RevisionDone(t, w) = [t EXCEPT !.done = t.done \cup {w}]
      BY <1>2, <2>2 DEF RevisionDone, Tasks
    <3>. QED BY <2>1, <3>1 DEF Tasks
  <2>3. CASE t.done \cup {w} = t.targets
    <3>. DEFINE f == [t.node EXCEPT !["review"] = "pending"]
    <3>1. f \in [Nodes -> NodeStatus]
      BY DEF Tasks, NodeStatus
    <3>2. RevisionDone(t, w) =
            [t EXCEPT !.done = t.done \cup {w}, !.phase = "review_pending",
                      !.status = "running", !.node = f]
      BY <1>2, <2>3 DEF RevisionDone, Tasks
    <3>3. "running" \in Statuses /\ "review_pending" \in Phases
      BY DEF Statuses, Phases, Repairing
    <3>. HIDE DEF f
    <3>4. LET u == [t EXCEPT !.done = t.done \cup {w}, !.phase = "review_pending",
                      !.status = "running", !.node = f]
          IN  /\ u \in Tasks /\ u.plan = t.plan /\ u.open = t.open
              /\ u.approved = t.approved /\ u.analysis = t.analysis
              /\ u.phase = "review_pending" /\ u.node = f /\ u.status = "running"
      BY <2>1, <3>1, <3>3 DEF Tasks
    <3>. QED BY <1>2, <3>2, <3>4 DEF f
  <2>. QED BY <2>2, <2>3
<1>. QED BY <1>1, <1>2


LEMMA UnknownFacts ==
  ASSUME NEW t \in Tasks, NEW b \in BOOLEAN
  PROVE  LET u == [t EXCEPT !.unknown = b]
         IN  u \in Tasks /\ Like(u, t) /\ u.status = t.status /\ u.node = t.node /\ u.open = t.open
BY DEF Tasks, Like

LEMMA DifferedFacts ==
  ASSUME NEW t \in Tasks, NEW p \in 0..MaxPlans
  PROVE  LET u == [t EXCEPT !.differed = t.differed \cup {p}]
         IN  u \in Tasks /\ Like(u, t) /\ u.status = t.status /\ u.node = t.node /\ u.open = t.open
<1>1. t.differed \cup {p} \in SUBSET (0..MaxPlans)
  BY DEF Tasks
<1>. QED BY <1>1 DEF Tasks, Like

LEMMA WithPlanFacts ==
  ASSUME NEW t \in Tasks, FlowTypeOK, made < MaxPlans
  PROVE  LET u == WithPlan(t)
         IN  /\ u \in Tasks /\ u.status = t.status /\ u.node = t.node /\ u.open = t.open
             /\ u.plan = made + 1 /\ u.phase = t.phase
             /\ u.approved = t.approved /\ u.analysis = t.analysis
<1>1. made + 1 \in 0..MaxPlans /\ made + 1 \in Plans
  BY FlowAssumption DEF FlowTypeOK, Plans
<1>2. t.kept \cup {made + 1} \in SUBSET Plans
  BY <1>1 DEF Tasks
<1>3. WithPlan(t) = [t EXCEPT !.plan = made + 1, !.kept = t.kept \cup {made + 1}]
  BY DEF WithPlan, Tasks
<1>. QED BY <1>1, <1>2, <1>3 DEF Tasks

(* The state after a review: as before, with its plan, the review settled. *)
LEMMA ReviewedFacts ==
  ASSUME FlowTypeOK, made < MaxPlans, NEW s \in NodeStatus
  PROVE  LET u == WithPlan(Settled(task, "review", s))
         IN  /\ u \in Tasks /\ u.status = task.status
             /\ u.node = [task.node EXCEPT !["review"] = s]
             /\ u.open = task.open \ {"review"}
             /\ u.plan = made + 1 /\ u.phase = task.phase
             /\ u.approved = task.approved /\ u.analysis = task.analysis
<1>. DEFINE v == Settled(task, "review", s)
<1>1. /\ v \in Tasks /\ Like(v, task) /\ v.status = task.status
      /\ v.node = [task.node EXCEPT !["review"] = s] /\ v.open = task.open \ {"review"}
  BY SettledFacts DEF FlowTypeOK, Nodes
<1>. HIDE DEF v
<1>2. LET u == WithPlan(v)
      IN  /\ u \in Tasks /\ u.status = v.status /\ u.node = v.node /\ u.open = v.open
          /\ u.plan = made + 1 /\ u.phase = v.phase
          /\ u.approved = v.approved /\ u.analysis = v.analysis
  BY <1>1, WithPlanFacts
<1>3. WithPlan(Settled(task, "review", s)) = WithPlan(v)
  BY DEF v
<1>. QED BY <1>1, <1>2, <1>3 DEF Like

LEMMA PhaseFacts ==
  ASSUME NEW t \in Tasks, NEW p \in Phases
  PROVE  LET u == [t EXCEPT !.phase = p]
         IN  /\ u \in Tasks /\ u.status = t.status /\ u.node = t.node
             /\ u.open = t.open /\ u.plan = t.plan
BY DEF Tasks

LEMMA TimedOutFacts ==
  ASSUME NEW t \in Tasks, NEW ns \in SUBSET Nodes
  PROVE  LET u == NodesTimedOut(t, ns)
         IN  /\ u \in Tasks /\ Like(u, t) /\ u.status = "failed" /\ u.open = t.open \ ns
             /\ u.node = [n \in Nodes |-> IF n \in ns THEN "failed" ELSE t.node[n]]
<1>. DEFINE f == [n \in Nodes |-> IF n \in ns THEN "failed" ELSE t.node[n]]
<1>1. f \in [Nodes -> NodeStatus]
  BY DEF Tasks, NodeStatus
<1>2. "failed" \in Statuses
  BY DEF Statuses, Stopped
<1>3. NodesTimedOut(t, ns) = [t EXCEPT !.status = "failed", !.open = t.open \ ns, !.node = f]
  BY DEF NodesTimedOut, Tasks
<1>. HIDE DEF f
<1>4. LET u == [t EXCEPT !.status = "failed", !.open = t.open \ ns, !.node = f]
      IN  u \in Tasks /\ Like(u, t) /\ u.status = "failed" /\ u.open = t.open \ ns /\ u.node = f
  BY <1>1, <1>2 DEF Tasks, Like
<1>. QED BY <1>3, <1>4 DEF f

WriterRecord == [state : {"idle", "inflight", "landed", "done"},
                 plan : 0..MaxPlans, orphan : BOOLEAN]

LEMMA NoWriterType == NoWriter \in WriterRecord
BY FlowAssumption DEF NoWriter, WriterRecord

LEMMA OrphanType ==
  ASSUME NEW r \in WriterRecord
  PROVE  LET u == [r EXCEPT !.orphan = TRUE]
         IN  u \in WriterRecord /\ u.state = r.state /\ u.plan = r.plan /\ u.orphan
BY DEF WriterRecord

LEMMA AskedType ==
  ASSUME NEW t \in Tasks, NEW ns
  PROVE  Asked(t, ns) \in [Nodes -> Nat]
BY DEF Asked, Tasks

-----------------------------------------------------------------------------
(* The order of the plan.                                                  *)

LEMMA DepsFacts ==
  /\ Deps["market"] = {} /\ Deps["gate"] = {"market"}
  /\ Deps["listing"] = {"market", "gate"} /\ Deps["strategy"] = {"market", "gate"}
  /\ Deps["review"] = {"listing", "strategy"} /\ Deps["browser"] = {"review"}
  /\ \A n \in Nodes : Deps[n] \subseteq Nodes
BY DEF Deps, Nodes, Writers

(* A step that takes no finished node back.                                *)
LEMMA OrderKept ==
  ASSUME NEW t, NEW u, InOrder(t), Active(t) => Active(u),
         \A n \in Nodes : t.node[n] = "completed" => u.node[n] = "completed",
         \A n \in Nodes : \/ u.node[n] = t.node[n]
                          \/ u.node[n] \notin {"running", "completed"}
                          \/ \A d \in Deps[n] : u.node[d] = "completed"
  PROVE  InOrder(u)
BY DepsFacts DEF InOrder

(* A node under way has what it depends on.                                *)
LEMMA RunningInOrder ==
  ASSUME NEW t, InOrder(t), NEW n \in Nodes, t.node[n] = "running"
  PROVE  \A d \in Deps[n] : t.node[d] = "completed"
BY DEF InOrder

LEMMA SameOrder ==
  ASSUME NEW t, NEW u, InOrder(t), u.node = t.node, u.phase = t.phase
  PROVE  InOrder(u)
BY DEF InOrder, Active

LEMMA FreshInOrder ==
  ASSUME NEW t, \A n \in Nodes : t.node[n] = "pending"
  PROVE  InOrder(t)
BY DEF InOrder

-----------------------------------------------------------------------------
(* What survives when plans are added.                                     *)

LEMMA SoundStays ==
  ASSUME NEW t \in Tasks, FlowTypeOK, Grows, Sound(t, made, verdict, once)
  PROVE  Sound(t, made', verdict', once')
<1>1. made \in Nat /\ made' \in Nat
  BY FlowAssumption DEF FlowTypeOK, Grows
<1>2. t.plan \in 0..made'
  BY <1>1 DEF Sound, Grows
<1>3. Passed(t.plan, made, verdict) => Passed(t.plan, made', verdict')
  BY <1>1 DEF Passed, Grows
<1>4. t.node["browser"] = "completed" =>
        once' = [state |-> "completed", plan |-> t.plan]
  BY DEF Sound, Grows
<1>. QED BY <1>2, <1>3, <1>4 DEF Sound

LEMMA PassedStays ==
  ASSUME FlowTypeOK, Grows, NEW p, Passed(p, made, verdict)
  PROVE  Passed(p, made', verdict')
<1>1. made \in Nat /\ made' \in Nat
  BY FlowAssumption DEF FlowTypeOK, Grows
<1>. QED BY <1>1 DEF Passed, Grows

LEMMA NothingGrows ==
  ASSUME FlowTypeOK, UNCHANGED <<made, verdict, once>>
  PROVE  Grows
BY FlowAssumption DEF FlowTypeOK, Grows

LEMMA NoFile == NoTask \notin Tasks
<1>1. ASSUME NoTask \in Tasks PROVE FALSE
  <2>1. NoTask.status \in Statuses
    BY <1>1 DEF Tasks
  <2>2. NoTask.status = "none"
    BY DEF NoTask
  <2>. QED BY <2>1, <2>2 DEF Statuses, Stopped
<1>. QED BY <1>1

LEMMA FilesStay ==
  ASSUME FlowInv, Grows, UNCHANGED fileVars
  PROVE  FilesHold'
<1>1. SUFFICES ASSUME NEW t \in Files PROVE Sound(t, made', verdict', once') /\ AtRest(t)
  BY DEF FilesHold, Files, fileVars, Sound, AtRest, Passed
<1>2. t \in Tasks
  BY DEF FlowInv, FlowTypeOK, Files
<1>. QED BY <1>2, SoundStays DEF FlowInv, FilesHold

(* A file is replaced by a sound state that is at rest, or dropped.        *)
LEMMA FilesReplaced ==
  ASSUME FlowInv, Grows, NEW t \in Tasks, Sound(t, made', verdict', once'), AtRest(t),
         saved' \in Files \cup {t, NoTask}, tail' \in Files \cup {t, NoTask}
  PROVE  FilesHold'
<1>1. SUFFICES ASSUME NEW u \in Files \cup {t}
               PROVE  Sound(u, made', verdict', once') /\ AtRest(u)
  BY DEF FilesHold, Files, Sound, AtRest, Passed
<1>2. CASE u = t
  BY <1>2
<1>3. CASE u \in Files
  <2>1. u \in Tasks
    BY <1>3 DEF FlowInv, FlowTypeOK, Files
  <2>. QED BY <1>3, <2>1, SoundStays DEF FlowInv, FilesHold
<1>. QED BY <1>2, <1>3

LEMMA FilesShrink ==
  ASSUME FlowInv, Grows, saved' \in Files \cup {NoTask}, tail' \in Files \cup {NoTask}
  PROVE  FilesHold'
<1>1. SUFFICES ASSUME NEW u \in Files
               PROVE  Sound(u, made', verdict', once') /\ AtRest(u)
  BY DEF FilesHold, Files, Sound, AtRest, Passed
<1>2. u \in Tasks
  BY DEF FlowInv, FlowTypeOK, Files
<1>. QED BY <1>2, SoundStays DEF FlowInv, FilesHold

-----------------------------------------------------------------------------
(* The parts of the invariant, by what a step does to the run.             *)

(* The result of node n is handled and leaves it with status s.            *)
Answers(n, s) ==
  /\ stage = "batch" /\ stage' = "batch"
  /\ n \in batch /\ batch' = batch \ {n}
  /\ task' \in Tasks /\ Like(task', task) /\ task'.status # "completed"
  /\ task'.node = [task.node EXCEPT ![n] = s] /\ task'.open = task.open \ {n}
  /\ s # "running"
  /\ n = "review" => s # "completed"
  /\ n = "browser" /\ s = "completed" =>
        once' = [state |-> "completed", plan |-> task.plan]

LEMMA RunAnswers ==
  ASSUME FlowInv, Grows, NEW n \in Nodes, NEW s \in NodeStatus, Answers(n, s)
  PROVE  RunHolds'
<1>1. task \in Tasks /\ task.node \in [Nodes -> NodeStatus] /\ batch \subseteq Nodes
  BY DEF FlowInv, FlowTypeOK, Tasks
<1>2. Sound(task, made', verdict', once')
  BY <1>1, SoundStays DEF FlowInv, RunHolds
<1>3. task.node[n] = "running"
  BY DEF FlowInv, RunHolds, Answers
<1>4. task'.open = batch'
  BY DEF FlowInv, RunHolds, Answers
<1>5. \A m \in Nodes : task'.node[m] = IF m = n THEN s ELSE task.node[m]
  BY <1>1 DEF Answers
<1>6. \A m \in Nodes : task'.node[m] = "running" <=> m \in batch'
  BY <1>1, <1>5 DEF FlowInv, RunHolds, Answers
<1>7. Active(task') = Active(task) /\ task'.plan = task.plan
  BY DEF Answers, Like, Active
<1>8. "review" \in Nodes /\ "browser" \in Nodes
  BY DEF Nodes
<1>9. "browser" \in batch' => task'.node["review"] = "completed" /\ ~Active(task')
  BY <1>3, <1>5, <1>7, <1>8 DEF FlowInv, RunHolds, Answers
<1>10. Sound(task', made', verdict', once')
  <2>0. InOrder(task')
    <3>1. InOrder(task)
      BY <1>2 DEF Sound
    <3>2. \A d \in Deps[n] : task'.node[d] = "completed"
      <4>1. n \notin Deps[n] /\ Deps[n] \subseteq Nodes
        BY DEF Deps, Nodes, Writers
      <4>. QED BY <1>3, <1>5, <3>1, <4>1, RunningInOrder
    <3>. QED BY <1>3, <1>5, <1>7, <3>1, <3>2, OrderKept
  <2>1. task'.node["review"] = "completed" => task.node["review"] = "completed"
    BY <1>5, <1>8 DEF Answers
  <2>2. CASE n = "browser"
    <3>1. task.node["review"] = "completed" /\ ~Active(task)
      BY <2>2 DEF FlowInv, RunHolds, Answers
    <3>2. task'.node["review"] = "completed" /\ task'.node["browser"] = s
      BY <2>2, <1>5, <1>8, <3>1
    <3>. QED BY <1>2, <1>7, <2>0, <2>2, <3>1, <3>2 DEF Sound, Answers
  <2>3. CASE n # "browser"
    <3>1. task'.node["browser"] = task.node["browser"]
      BY <2>3, <1>5, <1>8
    <3>2. task.node["browser"] = "completed" => task'.node["review"] = "completed"
      BY <1>2, <1>3, <1>5, <1>8 DEF Sound
    <3>. QED BY <1>2, <1>7, <2>0, <2>1, <3>1, <3>2 DEF Sound
  <2>. QED BY <2>2, <2>3
<1>. QED BY <1>4, <1>6, <1>9, <1>10 DEF FlowInv, RunHolds, Answers

LEMMA RunStays ==
  ASSUME FlowInv, Grows, UNCHANGED <<task, stage, batch>>
  PROVE  RunHolds'
<1>1. Sound(task, made', verdict', once')
  BY SoundStays DEF FlowInv, FlowTypeOK, RunHolds
<1>2. Active(task') = Active(task)
  BY DEF Active
<1>. QED BY <1>1, <1>2 DEF FlowInv, RunHolds

(* Between batches nothing runs.                                           *)
LEMMA RunRests ==
  ASSUME batch' = {}, task'.open = {}, \A n \in Nodes : task'.node[n] # "running",
         task'.status # "completed", Sound(task', made', verdict', once')
  PROVE  RunHolds'
BY DEF RunHolds

(* The state while there is no run.                                        *)
LEMMA NoRun ==
  ASSUME FlowTypeOK, Grows, NEW ok \in BOOLEAN, task' = NewTask(ok), batch' = {}
  PROVE  task' \in Tasks /\ RunHolds'
<1>1. made' \in Nat
  BY FlowAssumption DEF Grows
<1>2. /\ task' \in Tasks /\ task'.status = "running" /\ task'.open = {} /\ task'.plan = 0
      /\ \A n \in Nodes : task'.node[n] = "pending"
  BY NewTaskFacts
<1>3. Sound(task', made', verdict', once')
  BY <1>1, <1>2, FreshInOrder DEF Sound, Nodes
<1>. QED BY <1>2, <1>3, RunRests

(* The write goes on beside the step.                                      *)
LEMMA WriteStays ==
  ASSUME FlowInv, Grows, UNCHANGED writeVars,
         Writing => /\ stage' = "batch" /\ "browser" \in batch'
                    /\ task'.approved /\ task'.plan = task.plan
  PROVE  WriterHolds' /\ ShopHolds'
<1>1. Writing' = Writing
  BY DEF Writing, writeVars
<1>2. \A p : Passed(p, made, verdict) => Passed(p, made', verdict')
  BY PassedStays DEF FlowInv
<1>3. WriterHolds'
  BY <1>1, <1>2 DEF FlowInv, WriterHolds, writeVars
<1>4. ShopHolds'
  BY <1>2 DEF FlowInv, ShopHolds, writeVars
<1>. QED BY <1>3, <1>4

(* A result that makes no plan and does not touch the write.               *)
LEMMA AnswerStep ==
  ASSUME FlowInv, NEW n \in Nodes, NEW s \in NodeStatus, Handles(n), Answers(n, s),
         UNCHANGED planVars, UNCHANGED writeVars, n = "browser" => ~Writing /\ s # "completed"
  PROVE  FlowInv'
<1>1. Grows
  BY NothingGrows DEF FlowInv, planVars, writeVars
<1>2. RunHolds'
  BY <1>1, RunAnswers
<1>3. FilesHold'
  BY <1>1, FilesStay DEF Handles
<1>4. WriterHolds' /\ ShopHolds'
  <2>1. Writing => /\ stage' = "batch" /\ "browser" \in batch'
                   /\ task'.approved /\ task'.plan = task.plan
    BY DEF FlowInv, WriterHolds, Answers, Like
  <2>. QED BY <1>1, <2>1, WriteStays
<1>5. FlowTypeOK'
  BY DEF FlowInv, FlowTypeOK, Answers, Handles, planVars, writeVars, fileVars
<1>. QED BY <1>2, <1>3, <1>4, <1>5 DEF FlowInv

(* What a settled node, or one that failed, means for the run.             *)
LEMMA SettledAnswers ==
  ASSUME FlowInv, NEW n \in Nodes, NEW s \in NodeStatus \ {"running"}, Handles(n),
         task' = Settled(task, n, s), n \in {"review", "browser"} => s # "completed"
  PROVE  Answers(n, s)
<1>1. task \in Tasks /\ task.status # "completed"
  BY DEF FlowInv, FlowTypeOK, RunHolds
<1>. QED BY <1>1, SettledFacts DEF Answers, Handles, Like

LEMMA FailedAnswers ==
  ASSUME FlowInv, NEW n \in Nodes, Handles(n), task' \in Tasks, Like(task', task),
         task'.status = "failed", task'.open = task.open \ {n},
         task'.node = [task.node EXCEPT ![n] = "failed"]
  PROVE  Answers(n, "failed") /\ "failed" \in NodeStatus
BY DEF Answers, Handles, NodeStatus

-----------------------------------------------------------------------------
(* Agents that make no plan.                                               *)

LEMMA ResearchedStep == ASSUME FlowInv, Researched PROVE FlowInv'
<1>1. Answers("market", "completed")
  BY SettledAnswers DEF Researched, Nodes, NodeStatus
<1>. QED BY <1>1, AnswerStep DEF Researched, Nodes, NodeStatus

LEMMA PriceAcceptedStep == ASSUME FlowInv, PriceAccepted PROVE FlowInv'
<1>1. Answers("gate", "completed")
  BY SettledAnswers DEF PriceAccepted, Nodes, NodeStatus
<1>. QED BY <1>1, AnswerStep DEF PriceAccepted, Nodes, NodeStatus

LEMMA PriceQuestionedStep == ASSUME FlowInv, PriceQuestioned PROVE FlowInv'
<1>. DEFINE v == Settled(task, "gate", "completed")
<1>1. /\ v \in Tasks /\ Like(v, task) /\ v.open = task.open \ {"gate"}
      /\ v.node = [task.node EXCEPT !["gate"] = "completed"]
  BY SettledFacts DEF FlowInv, FlowTypeOK, Nodes, NodeStatus
<1>2. task' = [v EXCEPT !.status = "waiting_for_input"]
  BY DEF PriceQuestioned
<1>. HIDE DEF v
<1>3. "waiting_for_input" \in Statuses
  BY DEF Statuses, Stopped
<1>4. Answers("gate", "completed")
  <2>1. /\ task' \in Tasks /\ Like(task', v) /\ task'.status = "waiting_for_input"
        /\ task'.node = v.node /\ task'.open = v.open
    BY <1>1, <1>2, <1>3, StatusFacts
  <2>. QED BY <1>1, <2>1 DEF PriceQuestioned, Handles, Answers, Like
<1>. QED BY <1>4, AnswerStep DEF PriceQuestioned, Nodes, NodeStatus

LEMMA AgentRetriedStep == ASSUME FlowInv, NEW n \in Nodes, AgentRetried(n) PROVE FlowInv'
<1>. DEFINE v == Settled(task, n, "pending")
            g == [task.retries EXCEPT ![n] = task.retries[n] + 1]
<1>1. /\ v \in Tasks /\ Like(v, task) /\ v.open = task.open \ {n} /\ v.status = task.status
      /\ v.node = [task.node EXCEPT ![n] = "pending"]
  BY SettledFacts DEF FlowInv, FlowTypeOK, NodeStatus
<1>2. g \in [Nodes -> Nat]
  BY DEF FlowInv, FlowTypeOK, Tasks
<1>3. task' = [v EXCEPT !.retries = g]
  BY DEF AgentRetried
<1>. HIDE DEF v, g
<1>4. task' \in Tasks /\ Like(task', v) /\ task'.status = v.status
      /\ task'.node = v.node /\ task'.open = v.open
  BY <1>1, <1>2, <1>3 DEF Tasks, Like
<1>5. Answers(n, "pending")
  BY <1>1, <1>4 DEF AgentRetried, Handles, Answers, Like, FlowInv, RunHolds
<1>6. n # "browser"
  BY DEF AgentRetried, ModelNodes
<1>. QED BY <1>5, <1>6, AnswerStep DEF AgentRetried, NodeStatus

LEMMA AgentFailedStep == ASSUME FlowInv, NEW n \in Nodes, AgentFailed(n) PROVE FlowInv'
<1>1. Answers(n, "failed") /\ "failed" \in NodeStatus
  BY FailedNodeFacts, FailedAnswers DEF AgentFailed, FlowInv, FlowTypeOK
<1>. QED BY <1>1, AnswerStep DEF AgentFailed

LEMMA ApprovalAskedStep == ASSUME FlowInv, ApprovalAsked PROVE FlowInv'
<1>. DEFINE v == Settled(task, "browser", "skipped")
<1>1. /\ v \in Tasks /\ Like(v, task) /\ v.open = task.open \ {"browser"}
      /\ v.node = [task.node EXCEPT !["browser"] = "skipped"]
  BY SettledFacts DEF FlowInv, FlowTypeOK, Nodes, NodeStatus
<1>2. task' = [v EXCEPT !.status = "waiting_for_approval"]
  BY DEF ApprovalAsked
<1>. HIDE DEF v
<1>3. "waiting_for_approval" \in Statuses
  BY DEF Statuses, Stopped
<1>4. Answers("browser", "skipped")
  <2>1. /\ task' \in Tasks /\ Like(task', v) /\ task'.status = "waiting_for_approval"
        /\ task'.node = v.node /\ task'.open = v.open
    BY <1>1, <1>2, <1>3, StatusFacts
  <2>. QED BY <1>1, <2>1 DEF ApprovalAsked, Handles, Answers, Like
<1>5. ~Writing
  BY DEF ApprovalAsked, FlowInv, WriterHolds
<1>. QED BY <1>4, <1>5, AnswerStep DEF ApprovalAsked, Nodes, NodeStatus

(* The last target of a revision sends the task back to the review.        *)
LEMMA WrittenStep == ASSUME FlowInv, NEW w \in Writers, Written(w) PROVE FlowInv'
<1>. DEFINE v == Settled(task, w, "completed")
<1>0. w \in Nodes /\ w # "review" /\ w # "browser" /\ "completed" \in NodeStatus
  BY DEF Writers, Nodes, NodeStatus
<1>1. /\ v \in Tasks /\ Like(v, task) /\ v.open = task.open \ {w} /\ v.status = task.status
      /\ v.node = [task.node EXCEPT ![w] = "completed"]
  BY <1>0, SettledFacts DEF FlowInv, FlowTypeOK
<1>2. task' = RevisionDone(v, w)
  BY DEF Written
<1>. HIDE DEF v
<1>3. /\ task' \in Tasks /\ task'.plan = v.plan /\ task'.open = v.open
      /\ task'.approved = v.approved /\ task'.analysis = v.analysis
      /\ \/ task'.phase = v.phase /\ task'.node = v.node /\ task'.status = v.status
         \/ /\ v.phase = "revision_pending" /\ task'.phase = "review_pending"
            /\ task'.node = [v.node EXCEPT !["review"] = "pending"]
            /\ task'.status = "running"
  BY <1>1, <1>2, RevisionDoneFacts
<1>4. CASE task'.phase = v.phase /\ task'.node = v.node /\ task'.status = v.status
  <2>1. Answers(w, "completed")
    BY <1>0, <1>1, <1>3, <1>4 DEF Written, Handles, Answers, Like, FlowInv, RunHolds
  <2>. QED BY <1>0, <2>1, AnswerStep DEF Written
<1>5. CASE /\ v.phase = "revision_pending" /\ task'.phase = "review_pending"
           /\ task'.node = [v.node EXCEPT !["review"] = "pending"]
           /\ task'.status = "running"
  <2>1. w \in batch /\ batch' = batch \ {w} /\ stage = "batch" /\ stage' = "batch"
    BY DEF Written, Handles
  <2>2. Active(task) /\ Active(task')
    BY <1>1, <1>5 DEF Active, Repairing, Like
  <2>3. "review" \notin batch /\ "browser" \notin batch /\ task.node["browser"] # "completed"
    BY <2>1, <2>2 DEF FlowInv, RunHolds, Sound
  <2>4. task.node \in [Nodes -> NodeStatus] /\ "review" \in Nodes /\ "browser" \in Nodes
    BY DEF FlowInv, FlowTypeOK, Tasks, Nodes
  <2>5. \A m \in Nodes : task'.node[m] = IF m = "review" THEN "pending"
                                         ELSE IF m = w THEN "completed" ELSE task.node[m]
    BY <1>0, <1>1, <1>5, <2>4
  <2>6. \A m \in Nodes : task'.node[m] = "running" <=> m \in batch'
    BY <2>1, <2>3, <2>5 DEF FlowInv, RunHolds
  <2>7. Grows
    BY NothingGrows DEF Written, FlowInv, planVars, writeVars
  <2>8. Sound(task', made', verdict', once')
    <3>1. task'.node["browser"] # "completed"
      BY <1>0, <2>3, <2>4, <2>5
    <3>2. task'.plan \in 0..made'
      BY <1>1, <1>3, SoundStays, <2>7 DEF FlowInv, RunHolds, Sound, FlowTypeOK, Like
    <3>3. InOrder(task')
      <4>1. InOrder(task) /\ task.node[w] = "running"
        BY <1>0, <2>1 DEF FlowInv, RunHolds, Sound
      <4>2. \A d \in Deps[w] : task.node[d] = "completed"
        BY <1>0, <4>1, RunningInOrder
      <4>3. \A m \in Nodes : m # "browser" => "review" \notin Deps[m]
        BY DEF Deps, Nodes, Writers
      <4>4. task'.node["browser"] \notin {"running", "completed"}
        BY <1>0, <2>3, <2>4, <2>5 DEF FlowInv, RunHolds
      <4>5. \A m \in Nodes : \A d \in Deps[m] :
              m # "browser" /\ task.node[d] = "completed" => task'.node[d] = "completed"
        BY <2>5, <4>3, DepsFacts
      <4>. QED BY <1>0, <2>2, <2>5, <4>1, <4>2, <4>4, <4>5 DEF InOrder
    <3>. QED BY <2>2, <3>1, <3>2, <3>3 DEF Sound
  <2>9. RunHolds'
    BY <1>1, <1>3, <1>5, <2>1, <2>3, <2>6, <2>8 DEF FlowInv, RunHolds
  <2>10. FilesHold'
    BY <2>7, FilesStay DEF Written, Handles
  <2>11. ~Writing
    BY <2>3 DEF FlowInv, WriterHolds
  <2>12. WriterHolds' /\ ShopHolds'
    BY <2>7, <2>11, WriteStays DEF Written
  <2>13. FlowTypeOK'
    BY <1>3 DEF Written, Handles, FlowInv, FlowTypeOK, planVars, writeVars, fileVars
  <2>. QED BY <2>9, <2>10, <2>12, <2>13 DEF FlowInv
<1>. QED BY <1>3, <1>4, <1>5

-----------------------------------------------------------------------------
(* The review makes a plan.                                                *)

LEMMA ReviewStep ==
  ASSUME FlowInv, NEW v \in {"passed", "blocked"}, Reviewed(v),
         task' \in Tasks, task'.plan = made + 1, task'.status # "completed",
         task'.open = task.open \ {"review"},
         \A m \in Nodes : task'.node[m] = "running" <=> m \in batch',
         task'.node["browser"] # "completed", InOrder(task'),
         task'.node["review"] = "completed" /\ ~Active(task') => v = "passed"
  PROVE  FlowInv'
<1>1. /\ stage = "batch" /\ stage' = "batch" /\ "review" \in batch
      /\ batch' = batch \ {"review"} /\ made < MaxPlans /\ made' = made + 1
      /\ verdict' = [verdict EXCEPT ![made + 1] = v] /\ once' = once
  BY DEF Reviewed, Handles, writeVars
<1>2. made \in Nat /\ made' \in 0..MaxPlans /\ made' \in Plans
  BY <1>1, FlowAssumption DEF FlowInv, FlowTypeOK, Plans
<1>3. verdict' \in [Plans -> {"none", "passed", "blocked"}] /\ verdict'[made'] = v
  BY <1>1, <1>2 DEF FlowInv, FlowTypeOK
<1>4. Grows
  BY <1>1, <1>2 DEF Grows, FlowInv, FlowTypeOK
<1>5. "review" \in Nodes /\ task.node["review"] = "running"
  BY <1>1 DEF FlowInv, RunHolds, Nodes
<1>6. "browser" \notin batch
  BY <1>5 DEF FlowInv, RunHolds
<1>7. Sound(task', made', verdict', once')
  BY <1>1, <1>2, <1>3 DEF Sound, Passed
<1>8. RunHolds'
  BY <1>1, <1>6, <1>7 DEF FlowInv, RunHolds
<1>9. FilesHold'
  BY <1>4, FilesStay DEF Reviewed, Handles
<1>10. WriterHolds' /\ ShopHolds'
  BY <1>4, <1>6, WriteStays DEF Reviewed, FlowInv, WriterHolds
<1>11. FlowTypeOK'
  BY <1>2, <1>3 DEF FlowInv, FlowTypeOK, Reviewed, Handles, fileVars, writeVars
<1>. QED BY <1>8, <1>9, <1>10, <1>11 DEF FlowInv

(* What the reviewed task looks like before its phase and status are set.  *)
LEMMA ReviewedBatch ==
  ASSUME FlowInv, NEW v, Reviewed(v), NEW s \in NodeStatus \ {"running"}
  PROVE  LET f == [task.node EXCEPT !["review"] = s]
         IN  /\ \A m \in Nodes : f[m] = "running" <=> m \in batch'
             /\ f["browser"] # "completed" /\ f["review"] = s
<1>1. "review" \in batch /\ batch' = batch \ {"review"}
  BY DEF Reviewed, Handles
<1>2. task.node \in [Nodes -> NodeStatus] /\ "review" \in Nodes /\ "browser" \in Nodes
  BY DEF FlowInv, FlowTypeOK, Tasks, Nodes
<1>3. task.node["review"] = "running"
  BY <1>1, <1>2 DEF FlowInv, RunHolds
<1>4. task.node["browser"] # "completed"
  BY <1>3 DEF FlowInv, RunHolds, Sound
<1>. QED BY <1>1, <1>2, <1>4 DEF FlowInv, RunHolds

(* The order after a review that sends the writers ws back to work.        *)
LEMMA ReviewedOrder ==
  ASSUME FlowInv, NEW v, Reviewed(v), NEW u, NEW s, NEW ws \in SUBSET Writers,
         s # "running", ws = {} \/ Active(u),
         \A m \in Nodes : u.node[m] = IF m = "review" THEN s
                                      ELSE IF m \in ws THEN "pending" ELSE task.node[m]
  PROVE  InOrder(u)
<1>1. "review" \in batch /\ "review" \in Nodes /\ "browser" \in Nodes
  BY DEF Reviewed, Handles, Nodes
<1>2. task.node["review"] = "running" /\ InOrder(task)
  BY <1>1 DEF FlowInv, RunHolds, Sound
<1>3. \A w \in Writers : task.node[w] = "completed"
  BY <1>1, <1>2, RunningInOrder, DepsFacts DEF Writers
<1>4. task.node["browser"] \notin {"running", "completed"}
  BY <1>1, <1>2 DEF FlowInv, RunHolds, Sound
<1>5. \A m \in Nodes \ {"review", "browser"} :
        /\ Deps[m] \subseteq {"market", "gate"}
        /\ \A d \in Deps[m] : u.node[d] = task.node[d]
  BY DEF Deps, Nodes, Writers
<1>6. ASSUME NEW m \in Nodes \ {"review", "browser"}, u.node[m] \in {"running", "completed"}
      PROVE  \A d \in Deps[m] : u.node[d] = "completed"
  <2>1. u.node[m] = task.node[m]
    BY <1>6
  <2>. QED BY <1>2, <1>5, <1>6, <2>1 DEF InOrder
<1>7. u.node["browser"] \notin {"running", "completed"} /\ u.node["review"] = s
  BY <1>1, <1>4 DEF Writers
<1>8. ws = {} => \A d \in Deps["review"] : u.node[d] = "completed"
  BY <1>3, DepsFacts DEF Writers, Nodes
<1>. QED BY <1>6, <1>7, <1>8 DEF InOrder

LEMMA ReviewPassedStep == ASSUME FlowInv, ReviewPassed PROVE FlowInv'
<1>. DEFINE u == WithPlan(Settled(task, "review", "completed"))
            p == IF u.phase = "review_pending" THEN "completed" ELSE u.phase
<1>1. Reviewed("passed") /\ made < MaxPlans /\ "completed" \in NodeStatus \ {"running"}
  BY DEF ReviewPassed, Reviewed, NodeStatus
<1>2. /\ u \in Tasks /\ u.status = task.status /\ u.open = task.open \ {"review"}
      /\ u.node = [task.node EXCEPT !["review"] = "completed"] /\ u.plan = made + 1
  BY <1>1, ReviewedFacts DEF FlowInv
<1>3. task' = [u EXCEPT !.phase = p]
  BY DEF ReviewPassed
<1>4. p \in Phases
  BY <1>2 DEF Tasks, Phases
<1>. HIDE DEF u, p
<1>5. /\ task' \in Tasks /\ task'.status = u.status /\ task'.node = u.node
      /\ task'.open = u.open /\ task'.plan = u.plan
  BY <1>2, <1>3, <1>4, PhaseFacts
<1>6. task.status # "completed"
  BY DEF FlowInv, RunHolds
<1>7. /\ \A m \in Nodes : task'.node[m] = "running" <=> m \in batch'
      /\ task'.node["browser"] # "completed"
  BY <1>1, <1>2, <1>5, ReviewedBatch
<1>8. InOrder(task')
  <2>1. \A m \in Nodes : task'.node[m] = IF m = "review" THEN "completed"
                                         ELSE IF m \in {} THEN "pending" ELSE task.node[m]
    BY <1>2, <1>5 DEF FlowInv, FlowTypeOK, Tasks
  <2>2. {} \in SUBSET Writers
    OBVIOUS
  <2>. QED BY <1>1, <2>1, <2>2, ReviewedOrder
<1>. QED BY <1>1, <1>2, <1>5, <1>6, <1>7, <1>8, ReviewStep

LEMMA ReviewRejectedStep == ASSUME FlowInv, ReviewRejected PROVE FlowInv'
<1>. DEFINE u == WithPlan(Settled(task, "review", "failed"))
            p == IF u.phase = "review_pending" THEN "exhausted" ELSE u.phase
<1>1. Reviewed("blocked") /\ made < MaxPlans /\ "failed" \in NodeStatus \ {"running"}
  BY DEF ReviewRejected, Reviewed, NodeStatus
<1>2. /\ u \in Tasks /\ u.open = task.open \ {"review"}
      /\ u.node = [task.node EXCEPT !["review"] = "failed"] /\ u.plan = made + 1
  BY <1>1, ReviewedFacts DEF FlowInv
<1>3. task' = [u EXCEPT !.phase = p, !.status = "failed"]
  BY DEF ReviewRejected
<1>4. p \in Phases /\ "failed" \in Statuses
  BY <1>2 DEF Tasks, Phases, Statuses, Stopped
<1>. HIDE DEF u, p
<1>5. /\ task' \in Tasks /\ task'.status = "failed" /\ task'.node = u.node
      /\ task'.open = u.open /\ task'.plan = u.plan
  BY <1>2, <1>3, <1>4 DEF Tasks
<1>7. /\ \A m \in Nodes : task'.node[m] = "running" <=> m \in batch'
      /\ task'.node["browser"] # "completed" /\ task'.node["review"] = "failed"
  BY <1>1, <1>2, <1>5, ReviewedBatch
<1>8. InOrder(task')
  <2>1. \A m \in Nodes : task'.node[m] = IF m = "review" THEN "failed"
                                         ELSE IF m \in {} THEN "pending" ELSE task.node[m]
    BY <1>2, <1>5 DEF FlowInv, FlowTypeOK, Tasks
  <2>2. {} \in SUBSET Writers
    OBVIOUS
  <2>. QED BY <1>1, <2>1, <2>2, ReviewedOrder
<1>. QED BY <1>1, <1>2, <1>5, <1>7, <1>8, ReviewStep

(* A revision under way holds the review: the task is active.              *)
LEMMA RevisionRequiredStep == ASSUME FlowInv, RevisionRequired PROVE FlowInv'
<1>. DEFINE u == WithPlan(Settled(task, "review", "completed"))
<1>1. /\ Reviewed("blocked") /\ made < MaxPlans /\ "completed" \in NodeStatus \ {"running"}
      /\ "review" \in batch
  BY DEF RevisionRequired, Reviewed, Handles, NodeStatus
<1>2. /\ u \in Tasks /\ u.open = task.open \ {"review"} /\ u.plan = made + 1
      /\ u.node = [task.node EXCEPT !["review"] = "completed"]
  BY <1>1, ReviewedFacts DEF FlowInv
<1>3. PICK ws \in SUBSET Writers :
        task' = [u EXCEPT
          !.round = u.round + 1, !.phase = "revision_pending",
          !.targets = ws, !.done = {}, !.status = "running",
          !.node  = [n \in Nodes |-> IF n \in ws THEN "pending" ELSE u.node[n]],
          !.cites = [n \in Nodes |-> IF n \in ws THEN made + 1 ELSE u.cites[n]]]
  BY DEF RevisionRequired
<1>. HIDE DEF u
<1>. DEFINE f == [n \in Nodes |-> IF n \in ws THEN "pending" ELSE u.node[n]]
            g == [n \in Nodes |-> IF n \in ws THEN made + 1 ELSE u.cites[n]]
<1>4. f \in [Nodes -> NodeStatus] /\ g \in [Nodes -> 0..MaxPlans]
  BY <1>1, <1>2, FlowAssumption DEF Tasks, NodeStatus, FlowInv, FlowTypeOK
<1>5. /\ u.round + 1 \in Nat /\ "revision_pending" \in Phases /\ "running" \in Statuses
      /\ {} \in SUBSET Writers
  BY <1>2 DEF Tasks, Phases, Repairing, Statuses
<1>6. task' = [u EXCEPT !.round = u.round + 1, !.phase = "revision_pending",
                        !.targets = ws, !.done = {}, !.status = "running",
                        !.node = f, !.cites = g]
  BY <1>3
<1>. HIDE DEF f, g
<1>7. /\ task' \in Tasks /\ task'.status = "running" /\ task'.node = f
      /\ task'.open = u.open /\ task'.plan = u.plan /\ task'.phase = "revision_pending"
  BY <1>2, <1>4, <1>5, <1>6 DEF Tasks
<1>8. batch \cap Writers = {}
  BY <1>1 DEF FlowInv, RunHolds
<1>9. /\ \A m \in Nodes : u.node[m] = "running" <=> m \in batch'
      /\ u.node["browser"] # "completed"
  BY <1>1, <1>2, ReviewedBatch
<1>10. \A m \in Nodes : f[m] = IF m \in ws THEN "pending" ELSE u.node[m]
  BY DEF f
<1>11. batch' = batch \ {"review"} /\ "browser" \in Nodes
  BY <1>1 DEF Reviewed, Handles, Nodes
<1>12. /\ \A m \in Nodes : task'.node[m] = "running" <=> m \in batch'
       /\ task'.node["browser"] # "completed"
  BY <1>7, <1>8, <1>9, <1>10, <1>11
<1>13. Active(task')
  BY <1>7 DEF Active, Repairing
<1>14. InOrder(task')
  <2>1. \A m \in Nodes : u.node[m] = IF m = "review" THEN "completed" ELSE task.node[m]
    BY <1>2 DEF FlowInv, FlowTypeOK, Tasks
  <2>2. \A m \in Nodes : task'.node[m] = IF m = "review" THEN "completed"
                                         ELSE IF m \in ws THEN "pending" ELSE task.node[m]
    BY <1>7, <1>10, <2>1 DEF Writers
  <2>. QED BY <1>1, <1>13, <2>2, ReviewedOrder
<1>. QED BY <1>1, <1>2, <1>7, <1>12, <1>13, <1>14, ReviewStep

-----------------------------------------------------------------------------
(* The head of the loop.                                                   *)

LEMMA ReadyFacts ==
  ASSUME NEW t \in Tasks
  PROVE  /\ Ready(t) \subseteq Nodes
         /\ \A n \in Ready(t) : t.node[n] = "pending"
         /\ "browser" \in Ready(t) => t.node["review"] = "completed" /\ ~Active(t)
         /\ "review" \in Ready(t) => Ready(t) \cap Writers = {}
<1>1. Deps["browser"] = {"review"} /\ Deps["review"] = Writers
  BY DEF Deps, Nodes, Writers
<1>. QED BY <1>1 DEF Ready, Writers, Nodes

(* A batch begins: its nodes, all of them pending, get status s.           *)
LEMMA BatchBegins ==
  ASSUME FlowInv, stage = "loop", stage' = "batch", NEW s \in {"running", "failed"},
         batch' = IF s = "running" THEN Ready(task) ELSE {},
         task' \in Tasks, task'.plan = task.plan, task'.phase = task.phase,
         task'.status # "completed", task'.open = batch',
         task'.node = [n \in Nodes |-> IF n \in Ready(task) THEN s ELSE task.node[n]],
         steps' \in Nat, UNCHANGED recoveries,
         UNCHANGED fileVars, UNCHANGED planVars, UNCHANGED writeVars
  PROVE  FlowInv'
<1>1. task \in Tasks /\ batch = {} /\ \A n \in Nodes : task.node[n] # "running"
  BY DEF FlowInv, FlowTypeOK, RunHolds
<1>2. Grows
  BY NothingGrows DEF FlowInv, planVars, writeVars
<1>3. \A n \in Nodes : task'.node[n] = IF n \in Ready(task) THEN s ELSE task.node[n]
  OBVIOUS
<1>4. "browser" \in Nodes /\ "review" \in Nodes
  BY DEF Nodes
<1>5. Active(task') = Active(task)
  BY DEF Active
<1>6. Sound(task, made', verdict', once')
  BY <1>1, <1>2, SoundStays DEF FlowInv, RunHolds
<1>7. \A n \in {"review", "browser"} :
        task'.node[n] = "completed" <=> task.node[n] = "completed"
  BY <1>1, <1>3, <1>4, ReadyFacts
<1>8. Sound(task', made', verdict', once')
  <2>1. \A n \in Ready(task) : /\ task.node[n] = "pending"
                               /\ \A d \in Deps[n] : task.node[d] = "completed"
    BY DEF Ready
  <2>2. \A n \in Nodes : task.node[n] = "completed" => task'.node[n] = "completed"
    BY <1>3, <2>1
  <2>3. InOrder(task')
    BY <1>3, <1>5, <1>6, <2>1, <2>2, DepsFacts, OrderKept DEF Sound
  <2>. QED BY <1>5, <1>6, <1>7, <2>3 DEF Sound
<1>9. \A n \in Nodes : task'.node[n] = "running" <=> n \in batch'
  BY <1>1, <1>3
<1>10. "browser" \in batch' => task'.node["review"] = "completed" /\ ~Active(task')
  BY <1>1, <1>5, <1>7, ReadyFacts
<1>11. "review" \in batch' => batch' \cap Writers = {}
  BY <1>1, ReadyFacts
<1>12. RunHolds'
  BY <1>8, <1>9, <1>10, <1>11 DEF RunHolds
<1>13. FilesHold'
  BY <1>2, FilesStay
<1>14. WriterHolds' /\ ShopHolds'
  BY <1>2, WriteStays DEF FlowInv, WriterHolds
<1>15. FlowTypeOK'
  <2>1. batch' \subseteq Nodes
    BY <1>1, ReadyFacts
  <2>. QED BY <2>1 DEF FlowInv, FlowTypeOK, fileVars, planVars, writeVars
<1>. QED BY <1>12, <1>13, <1>14, <1>15 DEF FlowInv

LEMMA StepsType ==
  ASSUME FlowTypeOK
  PROVE  steps + Cardinality(Ready(task)) \in Nat
<1>1. Ready(task) \subseteq Nodes
  BY ReadyFacts DEF FlowTypeOK
<1>2. IsFiniteSet(Nodes)
  <2>1. IsFiniteSet({"market"}) /\ IsFiniteSet({"gate"}) /\ IsFiniteSet({"listing"})
        /\ IsFiniteSet({"strategy"}) /\ IsFiniteSet({"review"}) /\ IsFiniteSet({"browser"})
    BY FS_Singleton
  <2>2. IsFiniteSet({"market"} \cup {"gate"} \cup {"listing"} \cup {"strategy"}
                      \cup {"review"} \cup {"browser"})
    BY <2>1, FS_Union
  <2>3. Nodes = {"market"} \cup {"gate"} \cup {"listing"} \cup {"strategy"}
                  \cup {"review"} \cup {"browser"}
    BY DEF Nodes
  <2>. QED BY <2>2, <2>3
<1>3. Cardinality(Ready(task)) \in Nat
  BY <1>1, <1>2, FS_Subset, FS_CardinalityType
<1>. QED BY <1>3 DEF FlowTypeOK

LEMMA DispatchStep == ASSUME FlowInv, Dispatch PROVE FlowInv'
<1>. DEFINE f == [n \in Nodes |-> IF n \in Ready(task) THEN "running" ELSE task.node[n]]
            g == Asked(task, Ready(task))
            o == task.open \cup Ready(task)
<1>1. task \in Tasks /\ task.open = {} /\ Ready(task) \subseteq Nodes
  BY ReadyFacts DEF FlowInv, FlowTypeOK, RunHolds, Dispatch
<1>2. f \in [Nodes -> NodeStatus] /\ g \in [Nodes -> Nat] /\ o \in SUBSET Nodes /\ o = Ready(task)
  BY <1>1, AskedType DEF Tasks, NodeStatus
<1>3. task' = [task EXCEPT !.node = f, !.open = o, !.asked = g]
  BY DEF Dispatch
<1>. HIDE DEF g, o
<1>4. /\ task' \in Tasks /\ task'.plan = task.plan /\ task'.phase = task.phase
      /\ task'.status = task.status /\ task'.open = o /\ task'.node = f
  <2>. HIDE DEF f
  <2>. QED BY <1>1, <1>2, <1>3 DEF Tasks
<1>. QED BY <1>2, <1>4, BatchBegins, StepsType DEF Dispatch, FlowInv, RunHolds

LEMMA DispatchRefusedStep == ASSUME FlowInv, DispatchRefused PROVE FlowInv'
<1>. DEFINE f == [n \in Nodes |-> IF n \in Ready(task) THEN "failed" ELSE task.node[n]]
<1>1. task \in Tasks /\ task.open = {} /\ Ready(task) \subseteq Nodes
  BY ReadyFacts DEF FlowInv, FlowTypeOK, RunHolds, DispatchRefused
<1>2. PICK e \in Ready(task) :
        task' = [task EXCEPT !.status = "failed", !.node = f,
                             !.asked = Asked(task, Earlier(e, Ready(task)))]
  BY DEF DispatchRefused
<1>. DEFINE g == Asked(task, Earlier(e, Ready(task)))
<1>3. f \in [Nodes -> NodeStatus] /\ g \in [Nodes -> Nat] /\ "failed" \in Statuses
  BY <1>1, AskedType DEF Tasks, NodeStatus, Statuses, Stopped
<1>. HIDE DEF g
<1>4. /\ task' \in Tasks /\ task'.plan = task.plan /\ task'.phase = task.phase
      /\ task'.status = "failed" /\ task'.open = {} /\ task'.node = f
  <2>1. task' = [task EXCEPT !.status = "failed", !.node = f, !.asked = g]
    BY <1>2 DEF g
  <2>. HIDE DEF f
  <2>. QED BY <1>1, <1>3, <2>1 DEF Tasks
<1>. QED BY <1>4, BatchBegins, StepsType DEF DispatchRefused, FlowInv

(* A batch is over for the nodes still in it.                              *)
LEMMA TimedOutStep == ASSUME FlowInv, TimedOut PROVE FlowInv'
<1>1. /\ task \in Tasks /\ batch \in SUBSET Nodes /\ batch' = {} /\ task.open = batch
      /\ task.node \in [Nodes -> NodeStatus]
  BY DEF FlowInv, FlowTypeOK, Tasks, RunHolds, TimedOut
<1>2. /\ task' \in Tasks /\ Like(task', task) /\ task'.status = "failed" /\ task'.open = {}
      /\ task'.node = [n \in Nodes |-> IF n \in batch THEN "failed" ELSE task.node[n]]
  BY <1>1, TimedOutFacts DEF TimedOut
<1>3. Grows
  BY NothingGrows DEF TimedOut, FlowInv, planVars
<1>4. \A n \in Nodes : task'.node[n] # "running"
  BY <1>1, <1>2 DEF FlowInv, RunHolds
<1>5. Sound(task', made', verdict', once')
  <2>1. Sound(task, made', verdict', once')
    BY <1>1, <1>3, SoundStays DEF FlowInv, RunHolds
  <2>2. \A n \in {"review", "browser"} :
          task'.node[n] = "completed" <=> task.node[n] = "completed"
    BY <1>1, <1>2 DEF FlowInv, RunHolds, Nodes
  <2>3. Active(task') = Active(task) /\ task'.plan = task.plan
    BY <1>2 DEF Active, Like
  <2>4. InOrder(task')
    <3>1. \A n \in Nodes : /\ task'.node[n] = IF n \in batch THEN "failed" ELSE task.node[n]
                           /\ n \in batch => task.node[n] = "running"
      BY <1>1, <1>2 DEF FlowInv, RunHolds
    <3>. QED BY <2>1, <2>3, <3>1, OrderKept DEF Sound
  <2>. QED BY <2>1, <2>2, <2>3, <2>4 DEF Sound
<1>6. RunHolds'
  BY <1>1, <1>2, <1>4, <1>5, RunRests
<1>7. FilesHold'
  BY <1>3, FilesStay DEF TimedOut
<1>8. WriterHolds'
  <2>1. CASE writer.state = "done"
    BY <2>1 DEF TimedOut, WriterHolds, Writing, NoWriter
  <2>2. CASE writer.state # "done" /\ Writing
    <3>1. writer' = [writer EXCEPT !.orphan = TRUE]
      BY <2>2 DEF TimedOut
    <3>2. writer'.state = writer.state /\ writer'.plan = writer.plan /\ writer'.orphan
      BY <3>1 DEF FlowInv, FlowTypeOK
    <3>. QED BY <2>2, <3>2 DEF TimedOut, FlowInv, WriterHolds, Writing, planVars
  <2>3. CASE writer.state # "done" /\ ~Writing
    <3>1. writer' = writer
      BY <2>3 DEF TimedOut
    <3>. QED BY <2>3, <3>1 DEF TimedOut, FlowInv, WriterHolds, Writing, planVars
  <2>. QED BY <2>1, <2>2, <2>3
<1>9. ShopHolds'
  <2>1. "browser" \in batch => Passed(task.plan, made, verdict)
    BY DEF FlowInv, RunHolds, Sound
  <2>. QED BY <2>1 DEF TimedOut, FlowInv, ShopHolds, planVars
<1>10. FlowTypeOK'
  <2>1. task.plan \in 0..MaxPlans
    BY <1>1 DEF Tasks
  <2>2. writer' \in WriterRecord
    <3>1. writer \in WriterRecord
      BY DEF FlowInv, FlowTypeOK, WriterRecord
    <3>. QED BY <3>1, NoWriterType, OrphanType DEF TimedOut
  <2>3. waiting' \subseteq 0..MaxPlans
    BY <2>1 DEF TimedOut, FlowInv, FlowTypeOK
  <2>. QED BY <1>1, <1>2, <2>2, <2>3
       DEF TimedOut, FlowInv, FlowTypeOK, WriterRecord, fileVars, planVars
<1>. QED BY <1>6, <1>7, <1>8, <1>9, <1>10 DEF FlowInv

(* The run ends and leaves t in the file.                                  *)
LEMMA EndStep ==
  ASSUME FlowInv, stage = "loop", NEW s \in Statuses, End([task EXCEPT !.status = s]),
         s = "completed" /\ ~task.analysis => task.node["browser"] = "completed"
  PROVE  FlowInv'
<1>. DEFINE t == [task EXCEPT !.status = s]
<1>1. /\ t \in Tasks /\ Like(t, task) /\ t.status = s /\ t.node = task.node
      /\ t.open = task.open
  BY StatusFacts DEF FlowInv, FlowTypeOK
<1>2. /\ saved' = t /\ tail' = tail /\ stage' = "none" /\ task' = NewTask(FALSE)
      /\ steps' = 0 /\ UNCHANGED <<batch, recoveries>>
      /\ UNCHANGED planVars /\ UNCHANGED writeVars
  BY DEF End
<1>. HIDE DEF t
<1>3. Grows
  BY <1>2, NothingGrows DEF FlowInv, planVars, writeVars
<1>4. batch = {} /\ batch' = {}
  BY <1>2 DEF FlowInv, RunHolds
<1>5. Sound(t, made', verdict', once')
  <2>1. Sound(task, made', verdict', once')
    BY <1>3, SoundStays DEF FlowInv, FlowTypeOK, RunHolds
  <2>2. InOrder(t)
    BY <1>1, <2>1, SameOrder DEF Sound, Like
  <2>. QED BY <1>1, <2>1, <2>2 DEF Sound, Active, Like
<1>6. AtRest(t)
  BY <1>1, <1>4 DEF AtRest, Like, FlowInv, RunHolds
<1>7. FilesHold'
  <2>1. tail' \in Files \cup {t, NoTask}
    BY <1>2 DEF Files
  <2>. QED BY <1>1, <1>2, <1>3, <1>5, <1>6, <2>1, FilesReplaced
<1>8. task' \in Tasks /\ RunHolds'
  BY <1>2, <1>3, <1>4, NoRun DEF FlowInv
<1>9. WriterHolds' /\ ShopHolds'
  BY <1>2, <1>3, WriteStays DEF FlowInv, WriterHolds
<1>10. FlowTypeOK'
  BY <1>1, <1>2, <1>4, <1>8 DEF FlowInv, FlowTypeOK, planVars, writeVars
<1>. QED BY <1>7, <1>8, <1>9, <1>10 DEF FlowInv

LEMMA RunEndsStep ==
  ASSUME FlowInv, OutOfTime \/ StepsExhausted \/ NothingReady
  PROVE  FlowInv'
<1>1. "failed" \in Statuses /\ "completed" \in Statuses /\ "browser" \in Nodes
  BY DEF Statuses, Stopped, Nodes
<1>2. CASE OutOfTime
  BY <1>1, <1>2, EndStep DEF OutOfTime
<1>3. CASE StepsExhausted
  BY <1>1, <1>3, EndStep DEF StepsExhausted
<1>4. CASE NothingReady
  <2>1. AllRequiredComplete(task) /\ ~task.analysis => task.node["browser"] = "completed"
    BY <1>1 DEF AllRequiredComplete
  <2>2. CASE AllRequiredComplete(task)
    BY <1>1, <1>4, <2>1, <2>2, EndStep DEF NothingReady
  <2>3. CASE ~AllRequiredComplete(task)
    BY <1>1, <1>4, <2>3, EndStep DEF NothingReady
  <2>. QED BY <2>2, <2>3
<1>. QED BY <1>2, <1>3, <1>4

LEMMA CheckpointStep == ASSUME FlowInv, Checkpoint PROVE FlowInv'
<1>1. /\ task \in Tasks /\ batch = {} /\ batch' = {} /\ saved' = task
      /\ UNCHANGED planVars /\ UNCHANGED writeVars
  BY DEF Checkpoint, FlowInv, FlowTypeOK
<1>2. Grows
  BY <1>1, NothingGrows DEF FlowInv, planVars, writeVars
<1>3. Sound(task, made', verdict', once')
  BY <1>1, <1>2, SoundStays DEF FlowInv, RunHolds
<1>4. AtRest(task)
  BY <1>1 DEF AtRest, FlowInv, RunHolds
<1>5. FilesHold'
  <2>1. tail' \in Files \cup {task, NoTask}
    BY DEF Checkpoint, Files
  <2>. QED BY <1>1, <1>2, <1>3, <1>4, <2>1, FilesReplaced
<1>6. task' \in Tasks /\ RunHolds'
  <2>1. CASE task' = NewTask(FALSE)
    BY <2>1, <1>1, <1>2, NoRun DEF FlowInv
  <2>2. CASE task' = task
    BY <2>2, <1>1, <1>3, <1>4, RunRests DEF AtRest, FlowInv, RunHolds
  <2>. QED BY <2>1, <2>2 DEF Checkpoint
<1>7. WriterHolds' /\ ShopHolds'
  BY <1>1, <1>2, WriteStays DEF FlowInv, WriterHolds
<1>8. FlowTypeOK'
  <2>1. steps \in Nat /\ tail \in Tasks \cup {NoTask}
    BY DEF FlowInv, FlowTypeOK
  <2>2. steps' \in {steps, 0} /\ tail' \in {tail, task}
    BY DEF Checkpoint
  <2>3. stage' \in {"none", "loop"} /\ recoveries' = recoveries
    BY DEF Checkpoint
  <2>. QED BY <1>1, <1>6, <2>1, <2>2, <2>3 DEF FlowInv, FlowTypeOK, planVars, writeVars
<1>. QED BY <1>5, <1>6, <1>7, <1>8 DEF FlowInv

LEMMA FirstRunEndsStep == ASSUME FlowInv, FirstRunEnds PROVE FlowInv'
<1>1. Grows
  BY NothingGrows DEF FirstRunEnds, FlowInv, planVars, writeVars
<1>2. FilesHold'
  BY <1>1, FilesShrink DEF FirstRunEnds, Files
<1>3. RunHolds'
  BY <1>1, RunStays DEF FirstRunEnds, runVars
<1>4. WriterHolds' /\ ShopHolds'
  BY <1>1, WriteStays DEF FirstRunEnds, FlowInv, WriterHolds, runVars
<1>5. FlowTypeOK'
  BY DEF FirstRunEnds, FlowInv, FlowTypeOK, runVars, planVars, writeVars
<1>. QED BY <1>2, <1>3, <1>4, <1>5 DEF FlowInv

LEMMA ProcessDiesStep == ASSUME FlowInv, ProcessDies PROVE FlowInv'
<1>1. Grows
  BY NothingGrows DEF ProcessDies, FlowInv, planVars
<1>2. FilesHold'
  BY <1>1, FilesShrink DEF ProcessDies, Files
<1>3. task' \in Tasks /\ RunHolds'
  BY <1>1, NoRun DEF ProcessDies, FlowInv
<1>4. WriterHolds'
  BY DEF ProcessDies, WriterHolds, Writing, NoWriter
<1>5. ShopHolds'
  BY DEF ProcessDies, FlowInv, ShopHolds, planVars
<1>6. FlowTypeOK'
  BY <1>3, NoWriterType DEF ProcessDies, FlowInv, FlowTypeOK, WriterRecord, planVars
<1>. QED BY <1>2, <1>3, <1>4, <1>5, <1>6 DEF FlowInv

-----------------------------------------------------------------------------
(* A task starts, and starts again.                                        *)

LEMMA StartTaskStep == ASSUME FlowInv, StartTask PROVE FlowInv'
<1>1. PICK ok \in BOOLEAN : /\ task' = NewTask(ok) /\ saved' = NewTask(ok)
                            /\ agreed' = IF ok THEN Plans ELSE {}
  BY FlowAssumption DEF StartTask
<1>2. Grows
  BY NothingGrows DEF StartTask, FlowInv, writeVars
<1>3. batch = {} /\ batch' = {} /\ stage' = "loop" /\ tail' = tail
  BY DEF StartTask, FlowInv, RunHolds
<1>4. task' \in Tasks /\ RunHolds'
  BY <1>1, <1>2, <1>3, NoRun DEF FlowInv
<1>5. NewTask(ok) \in Tasks /\ AtRest(NewTask(ok))
  BY NewTaskFacts DEF AtRest
<1>6. Sound(NewTask(ok), made', verdict', once')
  BY <1>1, <1>4 DEF RunHolds
<1>7. FilesHold'
  <2>1. tail' \in Files \cup {NewTask(ok), NoTask}
    BY <1>3 DEF Files
  <2>. QED BY <1>1, <1>2, <1>5, <1>6, <2>1, FilesReplaced
<1>8. WriterHolds' /\ ShopHolds'
  BY <1>2, WriteStays DEF StartTask, FlowInv, WriterHolds
<1>9. agreed' \subseteq 0..MaxPlans
  BY <1>1, FlowAssumption DEF Plans
<1>10. FlowTypeOK'
  BY <1>1, <1>3, <1>4, <1>5, <1>9 DEF StartTask, FlowInv, FlowTypeOK, writeVars
<1>. QED BY <1>4, <1>7, <1>8, <1>10 DEF FlowInv

LEMMA ResumeStep ==
  ASSUME FlowInv, NEW t \in Tasks, Resume(t), Sound(t, made, verdict, once),
         t.open = {}, \A n \in Nodes : t.node[n] # "running", agreed' \subseteq 0..MaxPlans
  PROVE  FlowInv'
<1>. DEFINE r == [t EXCEPT !.status = "running", !.resumed = TRUE]
<1>1. /\ r \in Tasks /\ Like(r, t) /\ r.status = "running" /\ r.node = t.node /\ r.open = {}
  BY ResumedFacts
<1>2. /\ stage = "none" /\ stage' = "loop" /\ task' = r /\ saved' = r /\ steps' = 0
      /\ recoveries' = recoveries + 1
      /\ UNCHANGED <<batch, tail, made, verdict>> /\ UNCHANGED writeVars
  BY DEF Resume
<1>. HIDE DEF r
<1>3. Grows
  BY <1>2, NothingGrows DEF FlowInv, writeVars
<1>4. Sound(r, made', verdict', once')
  <2>1. Sound(t, made', verdict', once')
    BY <1>3, SoundStays DEF FlowInv
  <2>2. InOrder(r)
    BY <1>1, <2>1, SameOrder DEF Sound, Like
  <2>. QED BY <1>1, <2>1, <2>2 DEF Sound, Active, Like
<1>5. batch = {} /\ batch' = {}
  BY <1>2 DEF FlowInv, RunHolds
<1>6. RunHolds'
  BY <1>1, <1>2, <1>4, <1>5, RunRests
<1>7. FilesHold'
  <2>1. AtRest(r) /\ tail' \in Files \cup {r, NoTask}
    BY <1>1, <1>2 DEF AtRest, Files
  <2>. QED BY <1>1, <1>2, <1>3, <1>4, <2>1, FilesReplaced
<1>8. WriterHolds' /\ ShopHolds'
  BY <1>2, <1>3, WriteStays DEF FlowInv, WriterHolds
<1>9. FlowTypeOK'
  BY <1>1, <1>2, <1>5 DEF FlowInv, FlowTypeOK, writeVars
<1>. QED BY <1>6, <1>7, <1>8, <1>9 DEF FlowInv

LEMMA SavedFacts ==
  ASSUME FlowInv, saved # NoTask
  PROVE  /\ saved \in Tasks /\ Sound(saved, made, verdict, once)
         /\ saved.open = {} /\ \A n \in Nodes : saved.node[n] # "running"
<1>1. saved \in Files /\ saved \in Tasks
  BY DEF FlowInv, FlowTypeOK, Files
<1>. QED BY <1>1 DEF FlowInv, FilesHold, AtRest

(* Restarting a node never leaves a review or a write behind that the      *)
(* state does not have.                                                    *)
LEMMA RestartedSound ==
  ASSUME FlowInv, saved # NoTask, NEW n \in Nodes
  PROVE  LET u == Restarted(saved, n)
         IN  /\ u \in Tasks /\ u.open = {} /\ \A m \in Nodes : u.node[m] # "running"
             /\ Sound(u, made, verdict, once)
<1>. DEFINE u == Restarted(saved, n)
<1>1. /\ saved \in Tasks /\ Sound(saved, made, verdict, once)
      /\ saved.open = {} /\ \A m \in Nodes : saved.node[m] # "running"
  BY SavedFacts
<1>2. /\ u \in Tasks /\ u.open = {} /\ u.phase = saved.phase
      /\ u.node = [m \in Nodes |-> IF m \in Below[n] THEN "pending" ELSE saved.node[m]]
      /\ u.plan = IF "review" \in Below[n] THEN 0 ELSE saved.plan
  BY <1>1, RestartedFacts
<1>3. "browser" \in Below[n] /\ "review" \in Nodes /\ "browser" \in Nodes
  BY DEF Below, Nodes, Writers
<1>4. made \in Nat
  BY FlowAssumption DEF FlowInv, FlowTypeOK
<1>. HIDE DEF u
<1>5. \A m \in Nodes : u.node[m] = IF m \in Below[n] THEN "pending" ELSE saved.node[m]
  BY <1>2
<1>6. \A m \in Nodes : u.node[m] # "running"
  BY <1>1, <1>5
<1>7. u.node["browser"] = "pending"
  BY <1>3, <1>5
<1>8. Active(u) = Active(saved)
  BY <1>2 DEF Active
<1>9. Sound(u, made, verdict, once)
  <2>0. InOrder(u)
    <3>1. \A m \in Nodes : m \notin Below[n] => Deps[m] \cap Below[n] = {}
      BY DEF Below, Deps, Nodes, Writers
    <3>. QED BY <1>1, <1>5, <1>8, <3>1, DepsFacts DEF Sound, InOrder
  <2>1. CASE "review" \in Below[n]
    BY <1>2, <1>3, <1>4, <1>5, <1>7, <2>0, <2>1 DEF Sound
  <2>2. CASE "review" \notin Below[n]
    BY <1>1, <1>2, <1>3, <1>5, <1>7, <1>8, <2>0, <2>2 DEF Sound
  <2>. QED BY <2>1, <2>2
<1>. QED BY <1>2, <1>6, <1>9 DEF u

LEMMA ApprovedSound ==
  ASSUME NEW t \in Tasks, NEW yes \in BOOLEAN, Sound(t, made, verdict, once)
  PROVE  LET u == [t EXCEPT !.approved = yes]
         IN  u \in Tasks /\ u.node = t.node /\ u.open = t.open /\ Sound(u, made, verdict, once)
<1>. DEFINE u == [t EXCEPT !.approved = yes]
<1>1. /\ u \in Tasks /\ u.status = t.status /\ u.node = t.node /\ u.open = t.open
      /\ u.plan = t.plan /\ u.phase = t.phase
  BY ApprovedFacts
<1>. HIDE DEF u
<1>2. InOrder(u)
  BY <1>1, SameOrder DEF Sound
<1>3. Sound(u, made, verdict, once)
  BY <1>1, <1>2 DEF Sound, Active
<1>. QED BY <1>1, <1>3 DEF u

LEMMA RecoverStep == ASSUME FlowInv, Recover PROVE FlowInv'
<1>1. saved # NoTask
  BY DEF Recover, ResumeApproved, ResumePriced, ResumeAnalysisOnly, ResumeFailed, Resume
<1>2. /\ saved \in Tasks /\ Sound(saved, made, verdict, once)
      /\ saved.open = {} /\ \A n \in Nodes : saved.node[n] # "running"
  BY <1>1, SavedFacts
<1>3. agreed \subseteq 0..MaxPlans /\ Plans \subseteq 0..MaxPlans
  BY FlowAssumption DEF FlowInv, FlowTypeOK, Plans
<1>4. CASE ResumeApproved
  <2>. DEFINE v == Restarted(saved, "browser")
  <2>1. /\ v \in Tasks /\ v.open = {} /\ Sound(v, made, verdict, once)
        /\ \A n \in Nodes : v.node[n] # "running"
    BY <1>1, RestartedSound DEF Nodes
  <2>2. Resume([v EXCEPT !.approved = TRUE]) /\ agreed' = agreed \cup {saved.plan}
    BY <1>4 DEF ResumeApproved
  <2>. HIDE DEF v
  <2>3. agreed' \subseteq 0..MaxPlans
    BY <1>2, <1>3, <2>2 DEF Tasks
  <2>. QED BY <2>1, <2>2, <2>3, ApprovedSound, ResumeStep
<1>5. CASE ResumePriced
  <2>1. LET v == Restarted(saved, "gate")
        IN  /\ v \in Tasks /\ v.open = {} /\ Sound(v, made, verdict, once)
            /\ \A n \in Nodes : v.node[n] # "running"
    BY <1>1, RestartedSound DEF Nodes
  <2>. QED BY <1>3, <1>5, <2>1, ResumeStep DEF ResumePriced
<1>6. CASE ResumeAnalysisOnly
  <2>. DEFINE f == [n \in Nodes |-> IF n \in {"market", "gate"} THEN saved.node[n] ELSE "skipped"]
              v == [saved EXCEPT !.analysis = TRUE, !.node = f]
  <2>1. f \in [Nodes -> NodeStatus] /\ \A n \in Nodes : f[n] # "running"
    BY <1>2 DEF Tasks, NodeStatus
  <2>2. f["review"] # "completed" /\ f["browser"] # "completed"
    BY DEF Nodes
  <2>3. Resume(v) /\ agreed' = agreed
    BY <1>6 DEF ResumeAnalysisOnly
  <2>. HIDE DEF f
  <2>4. v \in Tasks /\ v.open = saved.open /\ v.node = f /\ v.plan = saved.plan
    BY <1>2, <2>1 DEF Tasks
  <2>. HIDE DEF v
  <2>5. Sound(v, made, verdict, once)
    <3>1. \A n \in Nodes : f[n] = IF n \in {"market", "gate"} THEN saved.node[n] ELSE "skipped"
      BY DEF f
    <3>2. InOrder(v)
      BY <1>2, <2>4, <3>1, DepsFacts DEF Sound, InOrder, Nodes
    <3>. QED BY <1>2, <2>2, <2>4, <3>2 DEF Sound
  <2>. QED BY <1>2, <1>3, <2>1, <2>3, <2>4, <2>5, ResumeStep
<1>7. CASE ResumeFailed
  <2>1. PICK updates, yes \in BOOLEAN : \E n \in Restartable(saved, updates) :
          /\ Resume([Restarted(saved, n) EXCEPT !.approved = Restarted(saved, n).approved \/ yes])
          /\ agreed' = IF yes THEN Plans ELSE agreed
    BY <1>7 DEF ResumeFailed
  <2>2. PICK n \in Nodes :
          /\ Resume([Restarted(saved, n) EXCEPT !.approved = Restarted(saved, n).approved \/ yes])
          /\ agreed' = IF yes THEN Plans ELSE agreed
    BY <2>1 DEF Restartable
  <2>. DEFINE v == Restarted(saved, n)
              ok == v.approved \/ yes
  <2>3. /\ v \in Tasks /\ v.open = {} /\ Sound(v, made, verdict, once)
        /\ \A m \in Nodes : v.node[m] # "running"
    BY <1>1, RestartedSound
  <2>4. Resume([v EXCEPT !.approved = ok])
    BY <2>2
  <2>. HIDE DEF v
  <2>5. ok \in BOOLEAN
    BY <2>3 DEF Tasks
  <2>. HIDE DEF ok
  <2>6. agreed' \subseteq 0..MaxPlans
    BY <1>3, <2>2
  <2>. QED BY <2>3, <2>4, <2>5, <2>6, ApprovedSound, ResumeStep
<1>. QED BY <1>4, <1>5, <1>6, <1>7 DEF Recover

-----------------------------------------------------------------------------
(* The write.                                                              *)

LEMMA BeginWriteStep ==
  ASSUME FlowInv, NEW p \in 0..MaxPlans, NEW o \in BOOLEAN, BeginWrite(p, o),
         Passed(p, made, verdict), waiting' \subseteq waiting,
         UNCHANGED <<task, runVars>>,
         ~o => stage = "batch" /\ "browser" \in batch /\ task.approved /\ p = task.plan
  PROVE  FlowInv'
<1>1. /\ once.state \in {"none", "failed"}
      /\ once.state = "failed" => once.plan = p
      /\ once' = [state |-> "in_progress", plan |-> p]
      /\ writer' = [state |-> "inflight", plan |-> p, orphan |-> o]
      /\ UNCHANGED <<task, stage, steps, batch, recoveries, saved, tail, made, verdict, agreed, received>>
  BY DEF BeginWrite, Claimable, runVars, fileVars, planVars
<1>2. Grows
  BY <1>1, FlowAssumption DEF Grows, FlowInv, FlowTypeOK
<1>3. RunHolds'
  BY <1>1, <1>2, RunStays
<1>4. FilesHold'
  BY <1>1, <1>2, FilesStay DEF fileVars
<1>5. WriterHolds'
  BY <1>1 DEF WriterHolds, Writing
<1>6. ShopHolds'
  BY <1>1 DEF FlowInv, ShopHolds
<1>7. FlowTypeOK'
  BY <1>1 DEF FlowInv, FlowTypeOK
<1>. QED BY <1>3, <1>4, <1>5, <1>6, <1>7 DEF FlowInv

LEMMA WriteBeginsStep == ASSUME FlowInv, WriteBegins \/ AbandonedWriteBegins PROVE FlowInv'
<1>1. CASE WriteBegins
  <2>1. Passed(task.plan, made, verdict) /\ task.plan \in 0..MaxPlans
    BY <1>1 DEF WriteBegins, FlowInv, RunHolds, Sound, FlowTypeOK, Tasks
  <2>2. BeginWrite(task.plan, FALSE) /\ UNCHANGED <<task, runVars>> /\ waiting' = waiting
        /\ stage = "batch" /\ "browser" \in batch /\ task.approved
    BY <1>1 DEF WriteBegins
  <2>. QED BY <2>1, <2>2, BeginWriteStep
<1>2. CASE AbandonedWriteBegins
  <2>1. PICK p \in waiting : BeginWrite(p, TRUE) /\ waiting' = waiting \ {p}
                             /\ UNCHANGED <<task, runVars>>
    BY <1>2 DEF AbandonedWriteBegins
  <2>2. Passed(p, made, verdict) /\ p \in 0..MaxPlans
    BY DEF FlowInv, ShopHolds, FlowTypeOK
  <2>. QED BY <2>1, <2>2, BeginWriteStep
<1>. QED BY <1>1, <1>2

(* Steps of the thread inside the write, beside the run.                   *)
LEMMA WriterThread ==
  ASSUME FlowInv, Grows, UNCHANGED <<task, runVars, fileVars, planVars>>,
         once' \in [state : {"none", "in_progress", "completed", "failed"}, plan : 0..MaxPlans],
         writer' \in WriterRecord, waiting' \subseteq waiting, received' \subseteq 0..MaxPlans,
         WriterHolds', ShopHolds'
  PROVE  FlowInv'
<1>1. RunHolds'
  BY RunStays DEF runVars
<1>2. FilesHold'
  BY FilesStay
<1>3. FlowTypeOK'
  BY DEF FlowInv, FlowTypeOK, WriterRecord, runVars, fileVars, planVars
<1>. QED BY <1>1, <1>2, <1>3 DEF FlowInv

LEMMA WriterFacts ==
  ASSUME FlowInv
  PROVE  /\ writer \in WriterRecord
         /\ once \in [state : {"none", "in_progress", "completed", "failed"}, plan : 0..MaxPlans]
         /\ received \subseteq 0..MaxPlans
         /\ \A s \in {"completed", "failed"} :
               LET o == [once EXCEPT !.state = s]
               IN  /\ o \in [state : {"none", "in_progress", "completed", "failed"}, plan : 0..MaxPlans]
                   /\ o = [state |-> s, plan |-> once.plan]
         /\ \A s \in {"landed", "done"} :
               LET w == [writer EXCEPT !.state = s]
               IN  w \in WriterRecord /\ w.state = s /\ w.plan = writer.plan
                   /\ w.orphan = writer.orphan
BY DEF FlowInv, FlowTypeOK, WriterRecord

LEMMA AbandonedCallEndsStep == ASSUME FlowInv, AbandonedCallEnds PROVE FlowInv'
<1>1. /\ waiting' \subseteq waiting /\ UNCHANGED <<task, once, writer, received>>
      /\ UNCHANGED <<task, runVars, fileVars, planVars>>
  BY DEF AbandonedCallEnds
<1>2. Grows
  BY <1>1, NothingGrows DEF FlowInv, planVars
<1>3. WriterHolds' /\ ShopHolds'
  BY <1>1 DEF FlowInv, WriterHolds, Writing, ShopHolds, runVars, planVars
<1>. QED BY <1>1, <1>2, <1>3, WriterFacts, WriterThread

LEMMA WriteReplayedStep == ASSUME FlowInv, WriteReplayed PROVE FlowInv'
<1>1. /\ UNCHANGED <<task, runVars, fileVars, planVars>> /\ UNCHANGED <<once, waiting, received>>
      /\ writer' = [state |-> "done", plan |-> task.plan, orphan |-> FALSE]
      /\ once = [state |-> "completed", plan |-> task.plan]
      /\ stage = "batch" /\ "browser" \in batch /\ task.approved
  BY DEF WriteReplayed
<1>2. Grows
  BY <1>1, NothingGrows DEF FlowInv, planVars
<1>3. WriterHolds' /\ ShopHolds'
  BY <1>1 DEF FlowInv, WriterHolds, Writing, ShopHolds, runVars, planVars
<1>4. writer' \in WriterRecord
  BY <1>1 DEF FlowInv, FlowTypeOK, Tasks, WriterRecord
<1>. QED BY <1>1, <1>2, <1>3, <1>4, WriterFacts, WriterThread

LEMMA WriteLandsStep == ASSUME FlowInv, WriteLands PROVE FlowInv'
<1>1. /\ UNCHANGED <<task, runVars, fileVars, planVars>> /\ UNCHANGED <<once, waiting>>
      /\ writer.state = "inflight" /\ writer' = [writer EXCEPT !.state = "landed"]
      /\ received' = received \cup {writer.plan}
  BY DEF WriteLands
<1>2. Grows
  BY <1>1, NothingGrows DEF FlowInv, planVars
<1>3. /\ writer' \in WriterRecord /\ writer'.state = "landed" /\ writer'.plan = writer.plan
      /\ writer'.orphan = writer.orphan
  BY <1>1, WriterFacts
<1>4. /\ once = [state |-> "in_progress", plan |-> writer.plan]
      /\ Passed(writer.plan, made, verdict)
  BY <1>1 DEF FlowInv, WriterHolds
<1>5. WriterHolds'
  BY <1>1, <1>3, <1>4 DEF FlowInv, WriterHolds, Writing, runVars, planVars
<1>6. ShopHolds'
  BY <1>1, <1>4 DEF FlowInv, ShopHolds, planVars
<1>7. received' \subseteq 0..MaxPlans
  BY <1>1, WriterFacts DEF WriterRecord
<1>. QED BY <1>1, <1>2, <1>3, <1>5, <1>6, <1>7, WriterFacts, WriterThread

LEMMA WriteConfirmedStep == ASSUME FlowInv, WriteConfirmed PROVE FlowInv'
<1>1. /\ UNCHANGED <<task, runVars, fileVars, planVars>> /\ UNCHANGED <<waiting, received>>
      /\ writer.state = "landed" /\ once' = [once EXCEPT !.state = "completed"]
      /\ writer' = IF writer.orphan THEN NoWriter ELSE [writer EXCEPT !.state = "done"]
  BY DEF WriteConfirmed
<1>2. once = [state |-> "in_progress", plan |-> writer.plan] /\ writer.plan \in received
  BY <1>1 DEF FlowInv, WriterHolds
<1>3. once' = [state |-> "completed", plan |-> writer.plan]
  BY <1>1, <1>2
<1>4. Grows
  BY <1>1, <1>2, FlowAssumption DEF Grows, FlowInv, FlowTypeOK, planVars
<1>5. WriterHolds' /\ writer' \in WriterRecord
  <2>1. CASE writer.orphan
    BY <1>1, <2>1, NoWriterType DEF WriterHolds, Writing, NoWriter
  <2>2. CASE ~writer.orphan
    <3>1. /\ writer' \in WriterRecord /\ writer'.state = "done" /\ writer'.plan = writer.plan
          /\ writer'.orphan = writer.orphan
      BY <1>1, <2>2, WriterFacts
    <3>. QED BY <1>1, <1>3, <2>2, <3>1 DEF FlowInv, WriterHolds, Writing, runVars
  <2>. QED BY <2>1, <2>2
<1>6. ShopHolds'
  BY <1>1, <1>2, <1>3 DEF FlowInv, ShopHolds, planVars
<1>. QED BY <1>1, <1>4, <1>5, <1>6, WriterFacts, WriterThread

LEMMA AbandonedWriteRaisesStep == ASSUME FlowInv, AbandonedWriteRaises PROVE FlowInv'
<1>1. /\ UNCHANGED <<task, runVars, fileVars, planVars>> /\ UNCHANGED <<waiting, received>>
      /\ writer.state \in {"inflight", "landed"} /\ once' = [once EXCEPT !.state = "failed"]
      /\ writer' = NoWriter
  BY DEF AbandonedWriteRaises
<1>2. once = [state |-> "in_progress", plan |-> writer.plan]
  BY <1>1 DEF FlowInv, WriterHolds
<1>3. once' = [state |-> "failed", plan |-> writer.plan]
  BY <1>1, <1>2
<1>4. Grows
  BY <1>1, <1>2, FlowAssumption DEF Grows, FlowInv, FlowTypeOK, planVars
<1>5. WriterHolds'
  BY <1>1 DEF WriterHolds, Writing, NoWriter
<1>6. ShopHolds'
  BY <1>1, <1>2, <1>3 DEF FlowInv, ShopHolds, planVars
<1>. QED BY <1>1, <1>4, <1>5, <1>6, NoWriterType, WriterFacts, WriterThread

(* A step of the browser node that ends the run's part of the write.       *)
LEMMA BrowserFailed ==
  ASSUME FlowInv, Handles("browser"), NEW b \in BOOLEAN,
         task' = [FailedNode(task, "browser") EXCEPT !.unknown = b]
  PROVE  Answers("browser", "failed") /\ "failed" \in NodeStatus /\ "browser" \in Nodes
<1>. DEFINE v == FailedNode(task, "browser")
<1>0. "browser" \in Nodes
  BY DEF Nodes
<1>1. /\ v \in Tasks /\ Like(v, task) /\ v.status = "failed" /\ v.open = task.open \ {"browser"}
      /\ v.node = [task.node EXCEPT !["browser"] = "failed"]
  BY <1>0, FailedNodeFacts DEF FlowInv, FlowTypeOK
<1>2. task' = [v EXCEPT !.unknown = b]
  OBVIOUS
<1>. HIDE DEF v
<1>3. /\ task' \in Tasks /\ Like(task', v) /\ task'.status = v.status
      /\ task'.node = v.node /\ task'.open = v.open
  <2>1. LET u == [v EXCEPT !.unknown = b]
        IN  u \in Tasks /\ Like(u, v) /\ u.status = v.status /\ u.node = v.node
            /\ u.open = v.open
    BY <1>1, UnknownFacts
  <2>. QED BY <1>2, <2>1
<1>4. Like(task', task)
  BY <1>1, <1>3 DEF Like
<1>. QED BY <1>0, <1>1, <1>3, <1>4, FailedAnswers

LEMMA WriteAnswered ==
  ASSUME FlowInv, Grows, Handles("browser"), NEW s \in NodeStatus, Answers("browser", s),
         UNCHANGED planVars, UNCHANGED <<waiting, received>>,
         once' \in [state : {"none", "in_progress", "completed", "failed"}, plan : 0..MaxPlans],
         writer' \in WriterRecord, WriterHolds', ShopHolds'
  PROVE  FlowInv'
<1>1. RunHolds'
  BY RunAnswers DEF Nodes
<1>2. FilesHold'
  BY FilesStay DEF Handles
<1>3. FlowTypeOK'
  BY DEF FlowInv, FlowTypeOK, Answers, Handles, planVars, fileVars, WriterRecord
<1>. QED BY <1>1, <1>2, <1>3 DEF FlowInv

LEMMA WriteRefusedStep == ASSUME FlowInv, WriteRefused PROVE FlowInv'
<1>1. Handles("browser") /\ writer.state = "idle" /\ UNCHANGED planVars /\ UNCHANGED writeVars
  BY DEF WriteRefused
<1>2. ~Writing
  BY <1>1 DEF Writing
<1>3. Answers("browser", "failed") /\ "failed" \in NodeStatus /\ "browser" \in Nodes
  <2>1. CASE task' = FailedNode(task, "browser")
    <3>1. "browser" \in Nodes
      BY DEF Nodes
    <3>. QED BY <1>1, <2>1, <3>1, FailedNodeFacts, FailedAnswers DEF FlowInv, FlowTypeOK
  <2>2. CASE task' = [FailedNode(task, "browser") EXCEPT !.unknown = TRUE]
    BY <1>1, <2>2, BrowserFailed
  <2>. QED BY <2>1, <2>2 DEF WriteRefused
<1>. QED BY <1>1, <1>2, <1>3, AnswerStep

LEMMA WriteRaisesStep == ASSUME FlowInv, WriteRaises PROVE FlowInv'
<1>1. /\ Handles("browser") /\ UNCHANGED planVars /\ UNCHANGED <<waiting, received>>
      /\ writer.state \in {"inflight", "landed"}
      /\ once' = [once EXCEPT !.state = "failed"] /\ writer' = NoWriter
  BY DEF WriteRaises
<1>2. once = [state |-> "in_progress", plan |-> writer.plan]
  BY <1>1 DEF FlowInv, WriterHolds
<1>3. once' = [state |-> "failed", plan |-> writer.plan]
  BY <1>1, <1>2
<1>4. Grows
  BY <1>1, <1>2, FlowAssumption DEF Grows, FlowInv, FlowTypeOK, planVars
<1>5. WriterHolds'
  BY <1>1 DEF WriterHolds, Writing, NoWriter
<1>6. ShopHolds'
  BY <1>1, <1>2, <1>3 DEF FlowInv, ShopHolds, planVars
<1>7. Answers("browser", "failed") /\ "failed" \in NodeStatus
  <2>1. PICK lost \in BOOLEAN :
          task' = [FailedNode(task, "browser") EXCEPT !.unknown = @ \/ lost]
    BY DEF WriteRaises
  <2>. DEFINE v == FailedNode(task, "browser")
              b == v.unknown \/ lost
  <2>2. task' = [v EXCEPT !.unknown = b]
    BY <2>1
  <2>3. b \in BOOLEAN
    BY FailedNodeFacts DEF FlowInv, FlowTypeOK, Nodes, Tasks
  <2>. HIDE DEF b
  <2>. QED BY <1>1, <2>2, <2>3, BrowserFailed
<1>. QED BY <1>1, <1>4, <1>5, <1>6, <1>7, NoWriterType, WriterFacts, WriteAnswered

LEMMA WriteTimedOutStep == ASSUME FlowInv, WriteTimedOut PROVE FlowInv'
<1>1. /\ Handles("browser") /\ UNCHANGED planVars /\ UNCHANGED <<waiting, received, once>>
      /\ writer.state \in {"inflight", "landed"}
      /\ writer' = [writer EXCEPT !.orphan = TRUE]
      /\ task' = [FailedNode(task, "browser") EXCEPT !.unknown = TRUE]
  BY DEF WriteTimedOut
<1>2. Grows
  BY <1>1, NothingGrows DEF FlowInv, planVars
<1>3. Answers("browser", "failed") /\ "failed" \in NodeStatus
  BY <1>1, BrowserFailed
<1>4. /\ writer' \in WriterRecord /\ writer'.state = writer.state
      /\ writer'.plan = writer.plan /\ writer'.orphan
  BY <1>1, WriterFacts, OrphanType
<1>5. WriterHolds'
  BY <1>1, <1>4 DEF FlowInv, WriterHolds, Writing, planVars
<1>6. ShopHolds'
  BY <1>1 DEF FlowInv, ShopHolds, planVars
<1>. QED BY <1>1, <1>2, <1>3, <1>4, <1>5, <1>6, WriterFacts, WriteAnswered

LEMMA VerifiedStep == ASSUME FlowInv, VerifyMatches \/ VerifyDiffers PROVE FlowInv'
<1>1. /\ Handles("browser") /\ UNCHANGED planVars /\ UNCHANGED <<waiting, received, once>>
      /\ writer.state = "done" /\ writer' = NoWriter
  BY DEF VerifyMatches, VerifyDiffers
<1>2. Grows
  BY <1>1, NothingGrows DEF FlowInv, planVars
<1>3. writer.plan = task.plan /\ once = [state |-> "completed", plan |-> task.plan]
  BY <1>1 DEF FlowInv, WriterHolds, Writing
<1>4. WriterHolds'
  BY <1>1 DEF WriterHolds, Writing, NoWriter
<1>5. ShopHolds'
  BY <1>1 DEF FlowInv, ShopHolds, planVars
<1>6. \E s \in NodeStatus : Answers("browser", s)
  <2>1. CASE VerifyMatches
    <3>1. /\ "browser" \in Nodes /\ "completed" \in NodeStatus
          /\ task \in Tasks /\ task.status # "completed"
          /\ task' = Settled(task, "browser", "completed")
      BY <2>1 DEF VerifyMatches, Nodes, NodeStatus, FlowInv, FlowTypeOK, RunHolds
    <3>. QED BY <1>1, <1>3, <3>1, SettledFacts DEF Answers, Handles, Like
  <2>2. CASE VerifyDiffers
    <3>. DEFINE v == FailedNode(task, "browser")
    <3>0. "browser" \in Nodes
      BY DEF Nodes
    <3>1. /\ v \in Tasks /\ Like(v, task) /\ v.status = "failed"
          /\ v.open = task.open \ {"browser"}
          /\ v.node = [task.node EXCEPT !["browser"] = "failed"]
      BY <3>0, FailedNodeFacts DEF FlowInv, FlowTypeOK
    <3>2. task' = [v EXCEPT !.differed = v.differed \cup {task.plan}]
      BY <2>2 DEF VerifyDiffers
    <3>3. task.plan \in 0..MaxPlans
      BY DEF FlowInv, FlowTypeOK, Tasks
    <3>. HIDE DEF v
    <3>4. /\ task' \in Tasks /\ Like(task', v) /\ task'.status = v.status
          /\ task'.node = v.node /\ task'.open = v.open
      BY <3>1, <3>2, <3>3, DifferedFacts
    <3>5. Like(task', task)
      BY <3>1, <3>4 DEF Like
    <3>. QED BY <1>1, <3>0, <3>1, <3>4, <3>5, FailedAnswers
  <2>. QED BY <2>1, <2>2
<1>. QED BY <1>1, <1>2, <1>4, <1>5, <1>6, NoWriterType, WriterFacts, WriteAnswered

-----------------------------------------------------------------------------
(* The invariant.                                                          *)

LEMMA FlowBegins == FlowInit => FlowInv
<1>. SUFFICES ASSUME FlowInit PROVE FlowInv
  OBVIOUS
<1>1. /\ task \in Tasks /\ task.status = "running" /\ task.plan = 0 /\ task.open = {}
      /\ \A n \in Nodes : task.node[n] = "pending"
  BY NewTaskFacts DEF FlowInit
<1>2. FlowTypeOK
  <2>1. once \in [state : {"none", "in_progress", "completed", "failed"}, plan : 0..MaxPlans]
    BY FlowAssumption DEF FlowInit, NoWrite
  <2>2. writer \in [state : {"idle", "inflight", "landed", "done"},
                    plan : 0..MaxPlans, orphan : BOOLEAN]
    BY NoWriterType DEF FlowInit, WriterRecord
  <2>3. made \in 0..MaxPlans /\ verdict \in [Plans -> {"none", "passed", "blocked"}]
    BY FlowAssumption DEF FlowInit
  <2>4. /\ saved \in {NoTask} /\ tail \in {NoTask} /\ batch = {} /\ agreed = {}
        /\ waiting = {} /\ received = {} /\ steps \in Nat /\ recoveries \in Nat /\ stage = "none"
    BY DEF FlowInit
  <2>. QED BY <1>1, <2>1, <2>2, <2>3, <2>4 DEF FlowTypeOK
<1>3. RunHolds
  <2>1. batch = {} /\ made = 0
    BY DEF FlowInit
  <2>2. Sound(task, made, verdict, once)
    BY <1>1, <2>1, FreshInOrder DEF Sound, Nodes
  <2>. QED BY <1>1, <2>1, <2>2 DEF RunHolds
<1>4. FilesHold
  BY DEF FlowInit, FilesHold, Files
<1>5. WriterHolds /\ ShopHolds
  BY DEF FlowInit, WriterHolds, Writing, ShopHolds, NoWriter, NoWrite
<1>. QED BY <1>2, <1>3, <1>4, <1>5 DEF FlowInv

LEMMA FlowGoesOn == FlowInv /\ [FlowNext]_flowVars => FlowInv'
<1>. SUFFICES ASSUME FlowInv, [FlowNext]_flowVars PROVE FlowInv'
  OBVIOUS
<1>1. CASE UNCHANGED flowVars
  <2>1. Grows
    BY <1>1, NothingGrows DEF FlowInv, flowVars, planVars, writeVars
  <2>2. WriterHolds' /\ ShopHolds'
    BY <1>1 DEF FlowInv, WriterHolds, ShopHolds, Writing, flowVars, runVars, planVars, writeVars
  <2>. QED BY <1>1, <2>1, <2>2, WriterFacts, WriterThread DEF flowVars, writeVars
<1>2. CASE StartTask
  BY <1>2, StartTaskStep
<1>3. CASE RunStep
  BY <1>3, RunEndsStep, DispatchStep, DispatchRefusedStep, TimedOutStep, CheckpointStep,
     FirstRunEndsStep DEF RunStep
<1>4. CASE AgentAnswers
  BY <1>4, ResearchedStep, PriceAcceptedStep, PriceQuestionedStep, WrittenStep,
     ReviewPassedStep, ReviewRejectedStep, RevisionRequiredStep, AgentRetriedStep,
     AgentFailedStep DEF AgentAnswers
<1>5. CASE BrowserStep
  BY <1>5, ApprovalAskedStep, WriteBeginsStep, WriteReplayedStep, WriteRefusedStep,
     WriteLandsStep, WriteConfirmedStep, WriteRaisesStep, WriteTimedOutStep, VerifiedStep,
     AbandonedCallEndsStep, AbandonedWriteRaisesStep DEF BrowserStep
<1>6. CASE ProcessDies
  BY <1>6, ProcessDiesStep
<1>7. CASE Recover
  BY <1>7, RecoverStep
<1>. QED BY <1>1, <1>2, <1>3, <1>4, <1>5, <1>6, <1>7 DEF FlowNext

LEMMA FlowInvariant == FlowSpec => []FlowInv
<1>. QED BY FlowBegins, FlowGoesOn, PTL DEF FlowSpec

-----------------------------------------------------------------------------
(* The theorems.                                                           *)

(* The state of the run, its checkpoint, its write and the threads beside  *)
(* it keep their types, whatever agents, timeouts and recoveries do.       *)
THEOREM FlowTypeCorrect == FlowSpec => []FlowTypeOK
<1>1. FlowInv => FlowTypeOK
  BY DEF FlowInv
<1>. QED BY <1>1, FlowInvariant, PTL

(* Every plan the shop receives passed its review: WriteBegins waits for a *)
(* completed review that no revision has reopened, and an abandoned thread *)
(* carries a plan that had passed when its run gave it up.                 *)
THEOREM OnlyReviewedPlansAreWritten == FlowSpec => []OnlyReviewedPlansLand
<1>1. FlowInv => OnlyReviewedPlansLand
  <2>. SUFFICES ASSUME FlowInv, NEW p \in received PROVE p \in Plans /\ verdict[p] = "passed"
    BY DEF OnlyReviewedPlansLand
  <2>1. Passed(p, made, verdict) /\ made \in 0..MaxPlans
    BY DEF FlowInv, ShopHolds, FlowTypeOK
  <2>. QED BY <2>1, FlowAssumption DEF Passed, Plans
<1>. QED BY <1>1, FlowInvariant, PTL

(* One plan per task reaches the shop, over all its runs: a record that is *)
(* taken over keeps its plan, and a completed record is never taken over.  *)
THEOREM OnePlanIsWritten == FlowSpec => []OnePlanPerTask
<1>1. FlowInv => OnePlanPerTask
  BY DEF FlowInv, ShopHolds, OnePlanPerTask
<1>. QED BY <1>1, FlowInvariant, PTL

(* A checkpoint that says completed has its latest plan in the shop, with  *)
(* the record of the write confirmed.                                      *)
THEOREM CompletedIsWritten == FlowSpec => []CompletedMeansWritten
<1>1. FlowInv => CompletedMeansWritten
  <2>. SUFFICES ASSUME FlowInv, NEW t \in Files, t.status = "completed", ~t.analysis
                PROVE  /\ once = [state |-> "completed", plan |-> t.plan]
                       /\ t.plan \in received
    BY DEF CompletedMeansWritten
  <2>1. once = [state |-> "completed", plan |-> t.plan]
    BY DEF FlowInv, FilesHold, AtRest, Sound
  <2>2. t.plan \in received
    BY <2>1 DEF FlowInv, ShopHolds
  <2>. QED BY <2>1, <2>2
<1>. QED BY <1>1, FlowInvariant, PTL

(* Every checkpoint, and every state about to be saved, is at rest: the    *)
(* run saves between batches, and a batch closes what it opened.           *)
THEOREM CheckpointsAreSettled == FlowSpec => []SettledWhenSaved
<1>1. FlowInv => SettledWhenSaved
  BY DEF FlowInv, FilesHold, AtRest, SettledWhenSaved
<1>. QED BY <1>1, FlowInvariant, PTL

-----------------------------------------------------------------------------
(***************************************************************************)
(* The task as a PlanLedger.                                               *)
(***************************************************************************)
(* A plan that was not made yet was not judged.                            *)
Unjudged == \A p \in Plans : p > made => verdict[p] = "none"

LedgerKept == UNCHANGED <<made, verdict, once, received>>

(* The step of the ledger that a step of the task is, if any.              *)
Booked == [Writes!Next]_(Writes!ledgerVars)

(* A file reports a plan only while the record of its write is confirmed.  *)
ReportsConfirmed ==
  Reported \subseteq {once.plan} /\ (Reported # {} => once.state = "completed")

LEMMA ReportsAreConfirmed == FlowInv => ReportsConfirmed
<1>. SUFFICES ASSUME FlowInv PROVE ReportsConfirmed
  OBVIOUS
<1>1. ASSUME NEW t \in Files, t.status = "completed", ~t.analysis
      PROVE  t.plan = once.plan /\ once.state = "completed"
  <2>1. once = [state |-> "completed", plan |-> t.plan]
    BY <1>1 DEF FlowInv, FilesHold, AtRest, Sound
  <2>. QED BY <2>1
<1>. QED BY <1>1 DEF Reported, ReportsConfirmed

LEMMA ReportsStayConfirmed == FlowInv' => ReportsConfirmed'
BY ReportsAreConfirmed, PTL

LEMMA KeptIsBooked ==
  ASSUME FlowInv, FlowInv', Unjudged, LedgerKept
  PROVE  Unjudged' /\ Booked
<1>1. Unjudged'
  BY DEF Unjudged, LedgerKept
<1>2. verdict' = verdict /\ once' = once /\ received' = received
  BY DEF LedgerKept
<1>3. Reported' \subseteq {once.plan} /\ (Reported' # {} => once.state = "completed")
  BY <1>2, ReportsStayConfirmed DEF ReportsConfirmed
<1>4. CASE once.state = "completed"
  <2>1. Writes!Report
    BY <1>2, <1>3, <1>4 DEF Writes!Report
  <2>. QED BY <1>1, <2>1 DEF Booked, Writes!Next
<1>5. CASE once.state # "completed"
  <2>1. Reported' = {} /\ Reported = {}
    BY <1>3, <1>5, ReportsAreConfirmed DEF ReportsConfirmed
  <2>. QED BY <1>1, <1>2, <2>1 DEF Booked, Writes!ledgerVars
<1>. QED BY <1>1, <1>4, <1>5

(* A step that leaves the files alone reports nothing.                     *)
LEMMA SameReports == ASSUME UNCHANGED fileVars PROVE Reported' = Reported
BY DEF fileVars, Reported, Files

LEMMA ReviewIsBooked ==
  ASSUME FlowInv, Unjudged, ReviewPassed \/ ReviewRejected \/ RevisionRequired
  PROVE  Unjudged' /\ Booked
<1>1. PICK v \in {"passed", "blocked"} : Reviewed(v)
  BY DEF ReviewPassed, ReviewRejected, RevisionRequired
<1>2. /\ made < MaxPlans /\ made' = made + 1
      /\ verdict' = [verdict EXCEPT ![made + 1] = v]
      /\ once' = once /\ received' = received
  BY <1>1 DEF Reviewed, writeVars
<1>3. Reported' = Reported
  BY <1>1, SameReports DEF Reviewed, Handles
<1>4. made \in Nat /\ made + 1 \in Plans /\ made + 1 > made
  BY <1>2, FlowAssumption DEF FlowInv, FlowTypeOK, Plans
<1>5. Unjudged'
  <2>. SUFFICES ASSUME NEW p \in Plans, p > made + 1 PROVE verdict'[p] = "none"
    BY <1>2 DEF Unjudged
  <2>. QED BY <1>2, <1>4, FlowAssumption DEF Unjudged, Plans, FlowInv, FlowTypeOK
<1>6. Writes!Judge(made + 1, v)
  BY <1>2, <1>3, <1>4 DEF Writes!Judge, Unjudged
<1>. QED BY <1>1, <1>4, <1>5, <1>6 DEF Booked, Writes!Next

LEMMA BeginIsBooked ==
  ASSUME FlowInv, Unjudged, NEW p, NEW abandoned, BeginWrite(p, abandoned),
         Passed(p, made, verdict)
  PROVE  Unjudged' /\ Booked
<1>1. /\ Claimable(p) /\ once' = [state |-> "in_progress", plan |-> p]
      /\ received' = received /\ made' = made /\ verdict' = verdict
      /\ Reported' = Reported
  BY SameReports DEF BeginWrite, planVars
<1>2. p \in Plans /\ verdict[p] = "passed"
  BY FlowAssumption DEF Passed, Plans, FlowInv, FlowTypeOK
<1>3. once.state = "none" \/ once = [state |-> "failed", plan |-> p]
  BY <1>1 DEF Claimable, FlowInv, FlowTypeOK
<1>4. Writes!TakeOn(p)
  BY <1>1, <1>2, <1>3 DEF Writes!TakeOn
<1>. QED BY <1>1, <1>2, <1>4 DEF Booked, Writes!Next, Unjudged

LEMMA WriteBeginsIsBooked ==
  ASSUME FlowInv, Unjudged, WriteBegins \/ AbandonedWriteBegins
  PROVE  Unjudged' /\ Booked
<1>1. CASE WriteBegins
  <2>1. BeginWrite(task.plan, FALSE) /\ "browser" \in batch
    BY <1>1 DEF WriteBegins
  <2>2. Passed(task.plan, made, verdict)
    BY <2>1 DEF FlowInv, RunHolds, Sound
  <2>. QED BY <2>1, <2>2, BeginIsBooked
<1>2. CASE AbandonedWriteBegins
  <2>1. PICK p \in waiting : BeginWrite(p, TRUE)
    BY <1>2 DEF AbandonedWriteBegins
  <2>2. Passed(p, made, verdict)
    BY DEF FlowInv, ShopHolds
  <2>. QED BY <2>1, <2>2, BeginIsBooked
<1>. QED BY <1>1, <1>2

(* The steps of the thread inside browser_execute.                         *)
LEMMA WriterIsBooked ==
  ASSUME FlowInv, Unjudged,
         WriteLands \/ WriteConfirmed \/ WriteRaises \/ AbandonedWriteRaises
  PROVE  Unjudged' /\ Booked
<1>1. /\ writer.state \in {"inflight", "landed"} /\ made' = made /\ verdict' = verdict
      /\ Reported' = Reported
  BY SameReports DEF WriteLands, WriteConfirmed, WriteRaises, AbandonedWriteRaises, Handles,
     planVars
<1>2. once = [state |-> "in_progress", plan |-> writer.plan]
  BY <1>1 DEF FlowInv, WriterHolds
<1>3. once.state = "in_progress" /\ once.plan = writer.plan
  BY <1>2
<1>4. Unjudged'
  BY <1>1 DEF Unjudged
<1>5. CASE WriteLands
  <2>1. Writes!Receive
    BY <1>1, <1>3, <1>5 DEF WriteLands, Writes!Receive
  <2>. QED BY <1>4, <2>1 DEF Booked, Writes!Next
<1>6. CASE WriteConfirmed
  <2>1. once.plan \in received
    BY <1>3, <1>6 DEF WriteConfirmed, FlowInv, WriterHolds
  <2>2. once' = [state |-> "completed", plan |-> once.plan] /\ received' = received
    BY <1>2, <1>6 DEF WriteConfirmed
  <2>3. Writes!Confirm
    BY <1>1, <1>3, <2>1, <2>2 DEF Writes!Confirm, Writes!Stands
  <2>. QED BY <1>4, <2>3 DEF Booked, Writes!Next
<1>7. CASE WriteRaises \/ AbandonedWriteRaises
  <2>1. once' = [state |-> "failed", plan |-> once.plan] /\ received' = received
    BY <1>2, <1>7 DEF WriteRaises, AbandonedWriteRaises
  <2>2. Writes!Fail
    BY <1>1, <1>3, <2>1 DEF Writes!Fail, Writes!Stands
  <2>. QED BY <1>4, <2>2 DEF Booked, Writes!Next
<1>. QED BY <1>5, <1>6, <1>7

(* All the other steps.                                                    *)
LEMMA RunKeepsLedger ==
  ASSUME StartTask \/ RunStep \/ ProcessDies \/ Recover \/ UNCHANGED flowVars
  PROVE  LedgerKept
<1>1. CASE StartTask \/ ProcessDies \/ UNCHANGED flowVars
  BY <1>1 DEF StartTask, ProcessDies, flowVars, planVars, writeVars, LedgerKept
<1>2. CASE RunStep
  BY <1>2 DEF RunStep, OutOfTime, StepsExhausted, NothingReady, End, Dispatch,
     DispatchRefused, TimedOut, Checkpoint, FirstRunEnds, planVars, writeVars, LedgerKept
<1>3. CASE Recover
  BY <1>3 DEF Recover, ResumeApproved, ResumePriced, ResumeAnalysisOnly, ResumeFailed,
     Resume, writeVars, LedgerKept
<1>. QED BY <1>1, <1>2, <1>3

LEMMA AnswersKeepLedger ==
  ASSUME AgentAnswers, ~ReviewPassed, ~ReviewRejected, ~RevisionRequired
  PROVE  LedgerKept
BY DEF AgentAnswers, Researched, PriceAccepted, PriceQuestioned, Written, AgentRetried,
   AgentFailed, planVars, writeVars, LedgerKept

LEMMA BrowserKeepsLedger ==
  ASSUME \/ ApprovalAsked \/ WriteReplayed \/ WriteRefused \/ WriteTimedOut
         \/ VerifyMatches \/ VerifyDiffers \/ AbandonedCallEnds
  PROVE  LedgerKept
BY DEF ApprovalAsked, WriteReplayed, WriteRefused, WriteTimedOut, VerifyMatches,
   VerifyDiffers, AbandonedCallEnds, planVars, writeVars, LedgerKept

LEMMA StepIsBooked ==
  FlowInv /\ FlowInv' /\ Unjudged /\ [FlowNext]_flowVars => Unjudged' /\ Booked
<1>. SUFFICES ASSUME FlowInv, FlowInv', Unjudged, [FlowNext]_flowVars
              PROVE  Unjudged' /\ Booked
  OBVIOUS
<1>1. CASE StartTask \/ RunStep \/ ProcessDies \/ Recover \/ UNCHANGED flowVars
  BY <1>1, RunKeepsLedger, KeptIsBooked
<1>2. CASE AgentAnswers
  BY <1>2, AnswersKeepLedger, KeptIsBooked, ReviewIsBooked
<1>3. CASE BrowserStep
  BY <1>3, BrowserKeepsLedger, KeptIsBooked, WriteBeginsIsBooked, WriterIsBooked
     DEF BrowserStep
<1>. QED BY <1>1, <1>2, <1>3 DEF FlowNext

(* The task keeps the promises of PlanLedger: plans are judged once, the   *)
(* plan that is taken on passed and stays the only one, nothing else is    *)
(* received, a confirmed record is final, and a file that says completed   *)
(* names that plan, while files overtake each other as they may.           *)
THEOREM TaskKeepsPlanLedger == FlowSpec => ImplementsPlans
<1>1. FlowInit => Unjudged /\ Writes!Init
  BY DEF FlowInit, Unjudged, Writes!Init, Reported, Files, NoWrite
<1>2. FlowInv /\ FlowInv' /\ Unjudged /\ [FlowNext]_flowVars =>
         Unjudged' /\ [Writes!Next]_(Writes!ledgerVars)
  BY StepIsBooked DEF Booked
<1>. QED BY <1>1, <1>2, FlowInvariant, PTL DEF FlowSpec, ImplementsPlans, Writes!Spec

-----------------------------------------------------------------------------
(* Every run winds down.  RunEnds is a matter of fairness and stays with   *)
(* TLC; the measure that makes it true is a state function, and that every *)
(* fair step lowers it is proved here, for any bounds.                     *)

(* What is left of the run: the steps it may still count, and within a     *)
(* step whether results, the checkpoint or nothing is still to come.       *)
Left == IF stage = "none" THEN 0
        ELSE 3 * (MaxSteps + 2 - steps)
             + (IF stage = "loop" THEN 0 ELSE IF batch = {} THEN 1 ELSE 2)

Rank == 2 * Left + (IF tail = NoTask THEN 0 ELSE 1)

(* A batch may be begun at the last step but one, with both writers.       *)
StepsBounded == steps <= MaxSteps + 1

(* The two writers are the only nodes that are ever ready together.        *)
LEMMA ReadyTogether ==
  ASSUME NEW t \in Tasks, InOrder(t)
  PROVE  Ready(t) \subseteq Writers \/ \E n \in Nodes : Ready(t) = {n}
<1>1. \A n \in Ready(t) : /\ n \in Nodes /\ t.node[n] = "pending"
                          /\ \A d \in Deps[n] : t.node[d] = "completed"
  BY DEF Ready
<1>2. t.node["gate"] = "completed" => t.node["market"] = "completed"
  BY DepsFacts DEF InOrder, Nodes
<1>3. \A w \in Writers : t.node[w] = "completed" =>
        t.node["gate"] = "completed" /\ t.node["market"] = "completed"
  BY DepsFacts DEF InOrder, Nodes, Writers
<1>4. t.node["review"] = "completed" /\ ~Active(t) =>
        \A w \in Writers : t.node[w] = "completed"
  BY DepsFacts DEF InOrder, Nodes, Writers
<1>5. "browser" \in Ready(t) => \A m \in Nodes \ {"browser"} : t.node[m] = "completed"
  BY <1>1, <1>3, <1>4, DepsFacts DEF Ready, Nodes, Writers
<1>6. "review" \in Ready(t) => \A m \in Nodes \ {"review", "browser"} : t.node[m] = "completed"
  BY <1>1, <1>3, DepsFacts DEF Nodes, Writers
<1>7. "gate" \in Ready(t) => t.node["market"] = "completed"
  BY <1>1, DepsFacts
<1>8. \A w \in Writers : w \in Ready(t) =>
        t.node["gate"] = "completed" /\ t.node["market"] = "completed"
  BY <1>1, DepsFacts DEF Writers
<1>9. \A n \in Ready(t), m \in Ready(t) : n = m \/ {n, m} \subseteq Writers
  <2>1. \A n \in Ready(t) : t.node[n] # "completed"
    BY <1>1
  <2>. QED BY <1>1, <2>1, <1>5, <1>6, <1>7, <1>8 DEF Nodes, Writers
<1>10. CASE \E n \in Ready(t) : n \notin Writers
  <2>1. PICK n \in Ready(t) : n \notin Writers
    BY <1>10
  <2>2. \A m \in Ready(t) : m = n
    BY <1>9, <2>1
  <2>3. Ready(t) = {n} /\ n \in Nodes
    BY <1>1, <2>1, <2>2
  <2>. QED BY <2>3
<1>. QED BY <1>10

LEMMA ReadySize ==
  ASSUME NEW t \in Tasks, InOrder(t), Ready(t) # {}
  PROVE  Cardinality(Ready(t)) \in 1..2
<1>1. IsFiniteSet(Writers) /\ Cardinality(Writers) = 2
  <2>1. IsFiniteSet({"listing"}) /\ Cardinality({"listing"}) = 1
    BY FS_Singleton
  <2>2. Writers = {"listing"} \cup {"strategy"}
    BY DEF Writers
  <2>. QED BY <2>1, <2>2, FS_AddElement
<1>2. CASE Ready(t) \subseteq Writers
  <2>1. IsFiniteSet(Ready(t)) /\ Cardinality(Ready(t)) <= 2
    BY <1>1, <1>2, FS_Subset
  <2>2. Cardinality(Ready(t)) \in Nat /\ Cardinality(Ready(t)) # 0
    BY <2>1, FS_CardinalityType, FS_EmptySet
  <2>. QED BY <2>1, <2>2
<1>3. CASE \E n \in Nodes : Ready(t) = {n}
  BY <1>3, FS_Singleton
<1>. QED BY <1>2, <1>3, ReadyTogether

RankTyped == Left \in Nat /\ Rank \in Nat /\ (stage # "none" => Left > 0)

LEMMA RankType == FlowTypeOK /\ StepsBounded => RankTyped
BY FlowAssumption DEF FlowTypeOK, StepsBounded, Left, Rank, RankTyped

LEMMA RankFalls ==
  ASSUME Left \in Nat, Left' \in Nat, tail' = tail
  PROVE  (Left' < Left => Rank' < Rank) /\ (Left' <= Left => Rank' <= Rank)
<1>1. NoTask' = NoTask
  BY DEF NoTask
<1>2. PICK one \in {0, 1} : Rank = 2 * Left + one /\ Rank' = 2 * Left' + one
  BY <1>1 DEF Rank
<1>3. \A a, b \in Nat : (b < a => 2 * b + one < 2 * a + one)
                       /\ (b <= a => 2 * b + one <= 2 * a + one)
  OBVIOUS
<1>. QED BY <1>2, <1>3

(* What a batch counts when it begins.                                     *)
LEMMA StepsCounted ==
  ASSUME FlowInv, steps < MaxSteps, Ready(task) # {},
         steps' = steps + Cardinality(Ready(task))
  PROVE  steps' > steps /\ StepsBounded'
<1>1. task \in Tasks /\ InOrder(task) /\ steps \in Nat
  BY DEF FlowInv, FlowTypeOK, RunHolds, Sound
<1>2. Cardinality(Ready(task)) \in 1..2
  BY <1>1, ReadySize
<1>. QED BY <1>1, <1>2, FlowAssumption DEF StepsBounded

(* Steps other than the run's own, while it goes on.                       *)
LEMMA RankStays ==
  ASSUME FlowTypeOK, StepsBounded, UNCHANGED <<stage, steps, tail>>, batch' \subseteq batch
  PROVE  StepsBounded' /\ Rank' <= Rank
<1>1. batch = {} => batch' = {}
  OBVIOUS
<1>2. Left' <= Left
  BY <1>1, FlowAssumption DEF FlowTypeOK, StepsBounded, Left
<1>3. Left' \in Nat /\ Left \in Nat
  BY <1>1, FlowAssumption DEF FlowTypeOK, StepsBounded, Left
<1>. QED BY <1>2, <1>3, RankFalls DEF StepsBounded

LEMMA AnswersKeepRank ==
  ASSUME FlowInv, StepsBounded, AgentAnswers \/ BrowserStep \/ UNCHANGED flowVars
  PROVE  StepsBounded' /\ Rank' <= Rank
<1>1. CASE AgentAnswers
  <2>1. UNCHANGED <<stage, steps, tail>> /\ batch' \subseteq batch
    BY <1>1 DEF AgentAnswers, Researched, PriceAccepted, PriceQuestioned, Written,
       ReviewPassed, ReviewRejected, RevisionRequired, Reviewed, AgentRetried, AgentFailed,
       Handles, fileVars
  <2>. QED BY <2>1, RankStays DEF FlowInv
<1>2. CASE BrowserStep
  <2>1. UNCHANGED <<stage, steps, tail>> /\ batch' \subseteq batch
    BY <1>2 DEF BrowserStep, ApprovalAsked, WriteBegins, BeginWrite, WriteReplayed,
       WriteRefused, WriteLands, WriteConfirmed, WriteRaises, WriteTimedOut, VerifyMatches,
       VerifyDiffers, AbandonedWriteBegins, AbandonedCallEnds, AbandonedWriteRaises,
       Handles, runVars, fileVars
  <2>. QED BY <2>1, RankStays DEF FlowInv
<1>3. CASE UNCHANGED flowVars
  BY <1>3, RankStays DEF FlowInv, flowVars, runVars, fileVars
<1>. QED BY <1>1, <1>2, <1>3

(* The run is over, and may leave a last save behind.                      *)
LEMMA RunIsOver ==
  ASSUME FlowTypeOK, StepsBounded, stage # "none", stage' = "none"
  PROVE  Rank' < Rank
<1>1. Left \in Nat /\ Left > 0 /\ Left' = 0
  BY RankType DEF RankTyped, Left
<1>2. CASE tail' = tail \/ tail' = NoTask
  BY <1>1, <1>2 DEF Rank
<1>3. CASE tail' # NoTask
  BY <1>1, <1>3 DEF Rank
<1>. QED BY <1>2, <1>3

LEMMA RunStepLowers ==
  ASSUME FlowInv, StepsBounded, RunStep
  PROVE  StepsBounded' /\ Rank' < Rank
<1>0. /\ steps \in Nat /\ MaxSteps \in Nat /\ stage \in {"none", "loop", "batch"}
      /\ steps <= MaxSteps + 1
  BY FlowAssumption DEF FlowInv, FlowTypeOK, StepsBounded
<1>1. CASE OutOfTime \/ StepsExhausted \/ NothingReady
  <2>1. stage # "none" /\ stage' = "none" /\ steps' = 0
    BY <1>1 DEF OutOfTime, StepsExhausted, NothingReady, End
  <2>. QED BY <1>0, <2>1, RunIsOver DEF FlowInv, StepsBounded
<1>2. CASE Dispatch \/ DispatchRefused
  <2>1. /\ stage = "loop" /\ stage' = "batch" /\ tail' = tail /\ steps < MaxSteps
        /\ Ready(task) # {} /\ steps' = steps + Cardinality(Ready(task))
    BY <1>2 DEF Dispatch, DispatchRefused, fileVars
  <2>2. steps' > steps /\ StepsBounded' /\ steps' \in Nat
    <3>1. steps' \in Nat
      BY <2>1, StepsType DEF FlowInv
    <3>. QED BY <2>1, <3>1, StepsCounted
  <2>3. Left' < Left /\ Left' \in Nat /\ Left \in Nat
    BY <1>0, <2>1, <2>2 DEF Left, StepsBounded
  <2>. QED BY <2>1, <2>2, <2>3, RankFalls
<1>3. CASE TimedOut
  <2>1. /\ stage = "batch" /\ batch # {} /\ batch' = {}
        /\ stage' = stage /\ steps' = steps /\ tail' = tail
    BY <1>3 DEF TimedOut, fileVars
  <2>2. Left' < Left /\ Left' \in Nat /\ Left \in Nat
    BY <1>0, <2>1 DEF Left
  <2>. QED BY <1>0, <2>1, <2>2, RankFalls DEF StepsBounded
<1>4. CASE Checkpoint
  <2>1. CASE stage' = "none"
    BY <1>0, <1>4, <2>1, RunIsOver DEF Checkpoint, FlowInv, StepsBounded
  <2>2. CASE stage' = "loop" /\ steps' = steps /\ tail' = tail
    <3>1. stage = "batch" /\ batch = {}
      BY <1>4 DEF Checkpoint
    <3>2. Left' < Left /\ Left' \in Nat /\ Left \in Nat
      BY <1>0, <2>2, <3>1 DEF Left
    <3>. QED BY <1>0, <2>2, <3>2, RankFalls DEF StepsBounded
  <2>. QED BY <1>4, <2>1, <2>2 DEF Checkpoint
<1>5. CASE FirstRunEnds
  <2>1. tail # NoTask /\ tail' = NoTask /\ UNCHANGED <<stage, steps, batch>>
    BY <1>5 DEF FirstRunEnds, runVars
  <2>2. Left' = Left /\ Left \in Nat
    BY <2>1, RankType DEF FlowInv, RankTyped, Left
  <2>. QED BY <1>0, <2>1, <2>2 DEF Rank, StepsBounded
<1>. QED BY <1>1, <1>2, <1>3, <1>4, <1>5 DEF RunStep

LEMMA CrashKeepsRank ==
  ASSUME FlowInv, StepsBounded, ProcessDies
  PROVE  StepsBounded' /\ Rank' <= Rank
<1>1. stage' = "none" /\ steps' = 0 /\ tail' = NoTask
  BY DEF ProcessDies
<1>2. Rank' = 0 /\ Rank \in Nat
  BY <1>1, RankType DEF FlowInv, RankTyped, Left, Rank
<1>. QED BY <1>1, <1>2, FlowAssumption DEF StepsBounded

Winding == /\ RunStep => Rank' < Rank
           /\ StartTask \/ Recover \/ Rank' <= Rank

LEMMA StepWinds ==
  FlowInv /\ StepsBounded /\ [FlowNext]_flowVars => StepsBounded' /\ [Winding]_flowVars
<1>. SUFFICES ASSUME FlowInv, StepsBounded, [FlowNext]_flowVars
              PROVE  StepsBounded' /\ Winding
  OBVIOUS
<1>1. Rank \in Nat
  BY RankType DEF FlowInv, RankTyped
<1>2. CASE RunStep
  <2>1. StepsBounded' /\ Rank' < Rank
    BY <1>2, RunStepLowers
  <2>2. FlowInv'
    BY FlowGoesOn
  <2>3. Rank' \in Nat
    <3>1. FlowTypeOK' /\ StepsBounded' => RankTyped'
      BY RankType, PTL
    <3>. QED BY <2>1, <2>2, <3>1 DEF FlowInv, RankTyped
  <2>. QED BY <1>1, <2>1, <2>3 DEF Winding
<1>3. CASE ~RunStep /\ (StartTask \/ Recover)
  <2>1. steps' = 0
    BY <1>3 DEF StartTask, Recover, ResumeApproved, ResumePriced, ResumeAnalysisOnly,
       ResumeFailed, Resume
  <2>. QED BY <1>3, <2>1, FlowAssumption DEF StepsBounded, Winding
<1>4. CASE ~RunStep /\ (AgentAnswers \/ BrowserStep \/ UNCHANGED flowVars)
  BY <1>4, AnswersKeepRank DEF Winding
<1>5. CASE ~RunStep /\ ProcessDies
  BY <1>5, CrashKeepsRank DEF Winding
<1>. QED BY <1>2, <1>3, <1>4, <1>5 DEF FlowNext

LEMMA StepsAreBounded == FlowSpec => []StepsBounded
<1>1. FlowInit => StepsBounded
  BY FlowAssumption DEF FlowInit, StepsBounded
<1>. QED BY <1>1, StepWinds, FlowInvariant, PTL DEF FlowSpec

(* The executor's loop cannot go on for ever, whatever agents answer and   *)
(* however often reviews send nodes back: every step the scheduler owes a  *)
(* run lowers a natural number, no answer, write or crash ever raises it,  *)
(* and only a new start or a recovery does.                                *)
THEOREM RunsWindDown ==
  FlowSpec => /\ [](Rank \in Nat /\ (stage # "none" => Rank > 0))
              /\ [][Winding]_flowVars
<1>1. FlowInv /\ StepsBounded => Rank \in Nat /\ (stage # "none" => Rank > 0)
  <2>. SUFFICES ASSUME FlowInv, StepsBounded PROVE Rank \in Nat /\ (stage # "none" => Rank > 0)
    OBVIOUS
  <2>1. Left \in Nat /\ Rank \in Nat /\ (stage # "none" => Left > 0)
    BY RankType DEF FlowInv, RankTyped
  <2>. QED BY <2>1 DEF Rank
<1>. QED BY <1>1, StepWinds, StepsAreBounded, FlowInvariant, PTL DEF FlowSpec

(* _run_ready_nodes never starts two nodes together that depend on each    *)
(* other, nor more steps than max_steps and one: after any revisions,      *)
(* retries and recoveries the two writers are the only nodes that are      *)
(* ready at once.                                                          *)
THEOREM OnlyWritersRunTogether ==
  FlowSpec => [](/\ steps <= MaxSteps + 1
                 /\ Ready(task) \subseteq Writers \/ \E n \in Nodes : Ready(task) = {n})
<1>1. FlowInv /\ StepsBounded =>
        /\ steps <= MaxSteps + 1
        /\ Ready(task) \subseteq Writers \/ \E n \in Nodes : Ready(task) = {n}
  BY ReadyTogether DEF FlowInv, FlowTypeOK, RunHolds, Sound, StepsBounded
<1>. QED BY <1>1, StepsAreBounded, FlowInvariant, PTL

-----------------------------------------------------------------------------
(* The budgets of a task. The counters live in the state that checkpoints  *)
(* carry, so no retry, revision, crash or recovery hands them out again.   *)

Within(t) == /\ Delegations(t) <= MaxDelegations
             /\ t.round <= MaxRevisions
             /\ \A n \in Nodes : t.asked[n] <= MaxPerAgent /\ t.retries[n] <= NodeRetries

BudgetsHold == Within(task) /\ \A t \in Files : Within(t)

Unspent(u, t) == u.asked = t.asked /\ u.round = t.round /\ u.retries = t.retries

LEMMA WithinStays ==
  ASSUME NEW t, NEW u, Within(t), u.asked = t.asked, u.round = t.round,
         \A n \in Nodes : u.retries[n] \in {0, t.retries[n]}
  PROVE  Within(u)
BY FlowAssumption DEF Within, Delegations

LEMMA UnspentWithin == ASSUME NEW t, NEW u, Within(t), Unspent(u, t) PROVE Within(u)
BY DEF Unspent, Within, Delegations

LEMMA NewWithin == ASSUME NEW ok \in BOOLEAN PROVE Within(NewTask(ok))
BY FlowAssumption DEF Within, Delegations, NewTask, Nodes, Writers

LEMMA SettledUnspent ==
  ASSUME NEW t \in Tasks, NEW n \in Nodes, NEW s \in NodeStatus
  PROVE  /\ Settled(t, n, s) \in Tasks
         /\ Unspent(Settled(t, n, s), t) /\ Unspent(FailedNode(t, n), t)
         /\ FailedNode(t, n) \in Tasks
<1>1. Settled(t, n, s) \in Tasks /\ FailedNode(t, n) \in Tasks
  BY SettledFacts, FailedNodeFacts
<1>2. \A v \in NodeStatus : Settled(t, n, v) \in Tasks /\ Unspent(Settled(t, n, v), t)
  BY SettledFacts DEF Settled, Unspent, Tasks
<1>3. Unspent(FailedNode(t, n), Settled(t, n, "failed")) /\ "failed" \in NodeStatus
  BY <1>2 DEF FailedNode, Unspent, Tasks, NodeStatus
<1>. QED BY <1>1, <1>2, <1>3 DEF Unspent

ReviewFields == {"status", "round", "phase", "targets", "done", "node", "cites", "asked",
                 "retries"}

LEMMA PlanUnspent ==
  ASSUME NEW t \in Tasks, NEW s \in NodeStatus, "review" \in Nodes
  PROVE  LET u == WithPlan(Settled(t, "review", s))
         IN  Unspent(u, t) /\ ReviewFields \subseteq DOMAIN u
<1>. DEFINE v == Settled(t, "review", s)
<1>1. v \in Tasks /\ Unspent(v, t)
  BY SettledUnspent
<1>. HIDE DEF v
<1>2. Unspent(WithPlan(v), v) /\ ReviewFields \subseteq DOMAIN WithPlan(v)
  BY <1>1 DEF WithPlan, Unspent, Tasks, ReviewFields
<1>. QED BY <1>1, <1>2 DEF Unspent, v

(* What agents answer: a retry and a revision are counted.                 *)
LEMMA AnswersWithin ==
  ASSUME FlowInv, BudgetsHold, AgentAnswers
  PROVE  BudgetsHold'
<1>1. task \in Tasks /\ Files' = Files /\ "gate" \in Nodes /\ "market" \in Nodes
      /\ "review" \in Nodes /\ Writers \subseteq Nodes
      /\ {"completed", "failed", "pending"} \subseteq NodeStatus
  BY DEF FlowInv, FlowTypeOK, AgentAnswers, Researched, PriceAccepted, PriceQuestioned, Written,
     ReviewPassed, ReviewRejected, RevisionRequired, Reviewed, AgentRetried, AgentFailed,
     Handles, fileVars, Files, Nodes, Writers, NodeStatus
<1>2. Within(task')
  <2>1. CASE Researched \/ PriceAccepted
    BY <1>1, <2>1, SettledUnspent, UnspentWithin DEF BudgetsHold, Researched, PriceAccepted
  <2>2. CASE PriceQuestioned
    <3>. DEFINE t == Settled(task, "gate", "completed")
    <3>1. t \in Tasks /\ Unspent(t, task)
      BY <1>1, SettledUnspent
    <3>2. Unspent(task', t)
      BY <2>2, <3>1 DEF PriceQuestioned, Unspent, Tasks
    <3>. QED BY <3>1, <3>2, UnspentWithin DEF BudgetsHold
  <2>3. CASE \E w \in Writers : Written(w)
    <3>1. PICK w \in Writers : Written(w)
      BY <2>3
    <3>. DEFINE t == Settled(task, w, "completed")
    <3>2. t \in Tasks /\ Unspent(t, task)
      BY <1>1, SettledUnspent
    <3>3. task' = RevisionDone(t, w)
      BY <3>1 DEF Written
    <3>. HIDE DEF t
    <3>4. Unspent(task', t)
      BY <3>2, <3>3 DEF RevisionDone, Unspent, Tasks
    <3>. QED BY <3>2, <3>4, UnspentWithin DEF BudgetsHold
  <2>4. CASE ReviewPassed \/ ReviewRejected \/ RevisionRequired
    <3>1. CASE ReviewPassed
      <4>. DEFINE u == WithPlan(Settled(task, "review", "completed"))
      <4>1. Unspent(u, task) /\ ReviewFields \subseteq DOMAIN u
        BY <1>1, PlanUnspent
      <4>2. task' = [u EXCEPT !.phase = IF @ = "review_pending" THEN "completed" ELSE @]
        BY <3>1 DEF ReviewPassed
      <4>. HIDE DEF u
      <4>3. Unspent(task', task)
        BY <4>1, <4>2 DEF Unspent, ReviewFields
      <4>. QED BY <4>3, UnspentWithin DEF BudgetsHold
    <3>2. CASE ReviewRejected
      <4>. DEFINE u == WithPlan(Settled(task, "review", "failed"))
      <4>1. Unspent(u, task) /\ ReviewFields \subseteq DOMAIN u
        BY <1>1, PlanUnspent
      <4>2. task' = [u EXCEPT !.phase = IF @ = "review_pending" THEN "exhausted" ELSE @,
                              !.status = "failed"]
        BY <3>2 DEF ReviewRejected
      <4>. HIDE DEF u
      <4>3. Unspent(task', task)
        BY <4>1, <4>2 DEF Unspent, ReviewFields
      <4>. QED BY <4>3, UnspentWithin DEF BudgetsHold
    <3>3. CASE RevisionRequired
      <4>. DEFINE u == WithPlan(Settled(task, "review", "completed"))
      <4>1. Unspent(u, task) /\ ReviewFields \subseteq DOMAIN u
        BY <1>1, PlanUnspent
      <4>2. task.round < MaxRevisions /\ task.round \in Nat
        BY <1>1, <3>3 DEF RevisionRequired, Tasks
      <4>3. PICK ws \in SUBSET Writers :
              task' = [u EXCEPT
                   !.round = @ + 1, !.phase = "revision_pending",
                   !.targets = ws, !.done = {}, !.status = "running",
                   !.node  = [n \in Nodes |-> IF n \in ws THEN "pending" ELSE u.node[n]],
                   !.cites = [n \in Nodes |-> IF n \in ws THEN made + 1 ELSE u.cites[n]]]
        BY <3>3 DEF RevisionRequired
      <4>. HIDE DEF u
      <4>4. /\ task'.asked = u.asked /\ task'.retries = u.retries
            /\ task'.round = u.round + 1
        BY <4>1, <4>3 DEF ReviewFields
      <4>5. task'.round <= MaxRevisions
        BY <4>1, <4>2, <4>4, FlowAssumption DEF Unspent
      <4>. QED BY <4>1, <4>4, <4>5 DEF BudgetsHold, Unspent, Within, Delegations
    <3>. QED BY <2>4, <3>1, <3>2, <3>3
  <2>5. CASE \E n \in Nodes : AgentRetried(n)
    <3>1. PICK n \in Nodes : AgentRetried(n)
      BY <2>5
    <3>. DEFINE t == Settled(task, n, "pending")
    <3>2. t \in Tasks /\ Unspent(t, task)
      BY <1>1, SettledUnspent
    <3>3. task.retries[n] < NodeRetries
          /\ task' = [t EXCEPT !.retries = [task.retries EXCEPT ![n] = task.retries[n] + 1]]
      BY <3>1 DEF AgentRetried
    <3>. HIDE DEF t
    <3>4. task'.asked = task.asked /\ task'.round = task.round
          /\ task'.retries = [task.retries EXCEPT ![n] = task.retries[n] + 1]
      BY <3>2, <3>3 DEF Unspent, Tasks
    <3>5. task.retries \in [Nodes -> Nat]
      BY <1>1 DEF Tasks
    <3>6. \A m \in Nodes : task'.retries[m] <= NodeRetries
      BY <3>3, <3>4, <3>5, FlowAssumption DEF BudgetsHold, Within
    <3>. QED BY <3>4, <3>6 DEF BudgetsHold, Within, Delegations
  <2>6. CASE \E n \in Nodes : AgentFailed(n)
    BY <1>1, <2>6, SettledUnspent, UnspentWithin DEF BudgetsHold, AgentFailed
  <2>. QED BY <2>1, <2>2, <2>3, <2>4, <2>5, <2>6 DEF AgentAnswers
<1>. QED BY <1>1, <1>2 DEF BudgetsHold

LEMMA BrowserWithin ==
  ASSUME FlowInv, BudgetsHold, BrowserStep
  PROVE  BudgetsHold'
<1>1. task \in Tasks /\ Files' = Files /\ "browser" \in Nodes
      /\ {"completed", "failed", "skipped"} \subseteq NodeStatus
  BY DEF FlowInv, FlowTypeOK, BrowserStep, ApprovalAsked, WriteBegins, BeginWrite, WriteReplayed,
     WriteRefused, WriteLands, WriteConfirmed, WriteRaises, WriteTimedOut, VerifyMatches,
     VerifyDiffers, AbandonedWriteBegins, AbandonedCallEnds, AbandonedWriteRaises,
     Handles, fileVars, Files, Nodes, NodeStatus
<1>2. \A s \in NodeStatus : Settled(task, "browser", s) \in Tasks
                             /\ Unspent(Settled(task, "browser", s), task)
  BY <1>1, SettledUnspent
<1>3. FailedNode(task, "browser") \in Tasks /\ Unspent(FailedNode(task, "browser"), task)
  BY <1>1, SettledUnspent
<1>4. Unspent(task', task)
  <2>1. CASE ApprovalAsked
    <3>1. task' = [Settled(task, "browser", "skipped") EXCEPT
                     !.status = "waiting_for_approval"]
      BY <2>1 DEF ApprovalAsked
    <3>. QED BY <1>1, <1>2, <3>1 DEF Unspent, Tasks
  <2>2. CASE WriteRefused \/ WriteRaises \/ WriteTimedOut \/ VerifyDiffers
    <3>. DEFINE f == FailedNode(task, "browser")
    <3>1. \/ task' = f
          \/ \E b \in BOOLEAN : task' = [f EXCEPT !.unknown = @ \/ b]
          \/ task' = [f EXCEPT !.unknown = TRUE]
          \/ task' = [f EXCEPT !.differed = @ \cup {task.plan}]
      BY <2>2 DEF WriteRefused, WriteRaises, WriteTimedOut, VerifyDiffers
    <3>. HIDE DEF f
    <3>2. f \in Tasks /\ Unspent(f, task)
      BY <1>3 DEF f
    <3>. QED BY <3>1, <3>2 DEF Unspent, Tasks
  <2>3. CASE VerifyMatches
    BY <1>1, <1>2, <2>3 DEF VerifyMatches
  <2>4. CASE UNCHANGED task
    BY <2>4 DEF Unspent
  <2>. QED BY <2>1, <2>2, <2>3, <2>4 DEF BrowserStep, WriteBegins, WriteReplayed, WriteLands,
           WriteConfirmed, AbandonedWriteBegins, AbandonedCallEnds, AbandonedWriteRaises
<1>. QED BY <1>1, <1>4, UnspentWithin DEF BudgetsHold

(* What a batch spends. The budget is asked for each node in turn, and     *)
(* covers the whole batch because no other two nodes are ready together.   *)
LEMMA BatchWithin ==
  ASSUME FlowInv, BudgetsHold, NEW ns, ns \subseteq Ready(task),
         \A n \in ns : CanDelegate(task, n, Ready(task)),
         task'.asked = Asked(task, ns), task'.round = task.round,
         task'.retries = task.retries
  PROVE  Within(task')
<1>1. task \in Tasks /\ InOrder(task) /\ task.asked \in [Nodes -> Nat]
  BY DEF FlowInv, FlowTypeOK, RunHolds, Sound, Tasks
<1>2. \A n \in Nodes : task'.asked[n] = IF n \in ns THEN task.asked[n] + 1 ELSE task.asked[n]
  BY DEF Asked
<1>3. \A n \in Nodes : task'.asked[n] <= MaxPerAgent
  <2>. SUFFICES ASSUME NEW n \in Nodes PROVE task'.asked[n] <= MaxPerAgent
    OBVIOUS
  <2>1. CASE n \in ns
    <3>1. task.asked[n] < MaxPerAgent /\ task.asked[n] \in Nat
      BY <1>1, <2>1 DEF CanDelegate
    <3>. QED BY <1>2, <2>1, <3>1, FlowAssumption
  <2>2. CASE n \notin ns
    BY <1>2, <2>2 DEF BudgetsHold, Within
  <2>. QED BY <2>1, <2>2
<1>4. Delegations(task') <= MaxDelegations
  <2>1. /\ task.asked["market"] \in Nat /\ task.asked["gate"] \in Nat
        /\ task.asked["listing"] \in Nat /\ task.asked["strategy"] \in Nat
        /\ task.asked["review"] \in Nat /\ task.asked["browser"] \in Nat
    BY <1>1 DEF Nodes, Writers
  <2>2. Nodes = {"market", "gate", "listing", "strategy", "review", "browser"}
    BY DEF Nodes, Writers
  <2>3. ns = {} \/ (\E n \in Nodes : ns = {n}) \/ ns = Writers
    <3>1. Ready(task) \subseteq Writers \/ \E n \in Nodes : Ready(task) = {n}
      BY <1>1, ReadyTogether
    <3>2. ns \subseteq Writers \/ \E n \in Nodes : ns \subseteq {n}
      BY <3>1
    <3>3. ns \subseteq Writers => ns \in {{}, {"listing"}, {"strategy"}, Writers}
      BY DEF Writers
    <3>. QED BY <2>2, <3>2, <3>3
  <2>4. CASE ns = {}
    BY <1>2, <2>2, <2>4 DEF Delegations, BudgetsHold, Within
  <2>5. CASE \E n \in Nodes : ns = {n}
    <3>1. PICK n \in Nodes : ns = {n}
      BY <2>5
    <3>2. Delegations(task) + Cardinality(Earlier(n, Ready(task))) < MaxDelegations
      BY <3>1 DEF CanDelegate
    <3>3. Cardinality(Earlier(n, Ready(task))) \in Nat
      <4>1. IsFiniteSet(Earlier(n, Ready(task)))
        <5>1. IsFiniteSet({"listing"}) /\ Earlier(n, Ready(task)) \subseteq {"listing"}
          BY FS_Singleton DEF Earlier
        <5>. QED BY <5>1, FS_Subset
      <4>. QED BY <4>1, FS_CardinalityType
    <3>4. Delegations(task) < MaxDelegations
      BY <2>1, <3>2, <3>3, FlowAssumption DEF Delegations
    <3>5. Delegations(task') = Delegations(task) + 1
      BY <1>2, <2>1, <2>2, <3>1 DEF Delegations
    <3>. QED BY <2>1, <3>4, <3>5, FlowAssumption DEF Delegations
  <2>6. CASE ns = Writers
    <3>1. Earlier("strategy", Ready(task)) = {"listing"} /\ "strategy" \in ns
      BY <2>6 DEF Earlier, Writers
    <3>2. Delegations(task) + 1 < MaxDelegations
      BY <3>1, FS_Singleton DEF CanDelegate
    <3>3. Delegations(task') = Delegations(task) + 2
      BY <1>2, <2>1, <2>2, <2>6 DEF Delegations, Writers
    <3>. QED BY <2>1, <3>2, <3>3, FlowAssumption DEF Delegations
  <2>. QED BY <2>3, <2>4, <2>5, <2>6
<1>. QED BY <1>3, <1>4 DEF Within, BudgetsHold

LEMMA EndWithin ==
  ASSUME FlowInv, BudgetsHold, NEW s, End([task EXCEPT !.status = s])
  PROVE  BudgetsHold'
<1>. DEFINE t == [task EXCEPT !.status = s]
<1>1. Unspent(t, task)
  BY DEF FlowInv, FlowTypeOK, Unspent, Tasks
<1>2. saved' = t /\ tail' = tail /\ task' = NewTask(FALSE)
  BY DEF End
<1>. HIDE DEF t
<1>3. Within(saved') /\ Within(task') /\ Files' \subseteq Files \cup {saved'}
  BY <1>1, <1>2, UnspentWithin, NewWithin DEF BudgetsHold, Files, NoTask
<1>. QED BY <1>3 DEF BudgetsHold

LEMMA RunWithin ==
  ASSUME FlowInv, BudgetsHold, RunStep
  PROVE  BudgetsHold'
<1>1. task \in Tasks /\ Within(task) /\ \A t \in Files : Within(t)
  BY DEF FlowInv, FlowTypeOK, BudgetsHold
<1>2. Within(NewTask(FALSE))
  BY NewWithin
<1>3. CASE OutOfTime \/ StepsExhausted \/ NothingReady
  BY <1>3, EndWithin DEF OutOfTime, StepsExhausted, NothingReady
<1>4. CASE Dispatch
  <2>1. task'.asked = Asked(task, Ready(task)) /\ task'.round = task.round
        /\ task'.retries = task.retries /\ Files' = Files
    BY <1>1, <1>4 DEF Dispatch, Tasks, fileVars, Files, NoTask
  <2>2. Within(task')
    BY <1>4, <2>1, BatchWithin DEF Dispatch
  <2>. QED BY <1>1, <2>1, <2>2 DEF BudgetsHold
<1>5. CASE DispatchRefused
  <2>1. PICK f \in Ready(task) :
          /\ \A n \in Earlier(f, Ready(task)) : CanDelegate(task, n, Ready(task))
          /\ task' = [task EXCEPT
                !.status = "failed",
                !.node   = [n \in Nodes |-> IF n \in Ready(task) THEN "failed"
                                            ELSE task.node[n]],
                !.asked  = Asked(task, Earlier(f, Ready(task)))]
    BY <1>5 DEF DispatchRefused
  <2>2. task'.asked = Asked(task, Earlier(f, Ready(task))) /\ task'.round = task.round
        /\ task'.retries = task.retries /\ Files' = Files
    BY <1>1, <1>5, <2>1 DEF DispatchRefused, Tasks, fileVars, Files, NoTask
  <2>3. Earlier(f, Ready(task)) \subseteq Ready(task)
    BY DEF Earlier
  <2>4. Within(task')
    BY <2>1, <2>2, <2>3, BatchWithin
  <2>. QED BY <1>1, <2>2, <2>4 DEF BudgetsHold
<1>6. CASE TimedOut
  <2>1. Unspent(task', task) /\ Files' = Files
    BY <1>1, <1>6 DEF TimedOut, NodesTimedOut, Unspent, Tasks, fileVars, Files, NoTask
  <2>. QED BY <1>1, <2>1, UnspentWithin DEF BudgetsHold
<1>7. CASE Checkpoint
  <2>1. task' \in {task, NewTask(FALSE)} /\ Files' \subseteq Files \cup {task}
    BY <1>7 DEF Checkpoint, Files, NoTask
  <2>. QED BY <1>1, <1>2, <2>1 DEF BudgetsHold
<1>8. CASE FirstRunEnds
  <2>1. task' = task /\ Files' \subseteq Files
    BY <1>8 DEF FirstRunEnds, Files, NoTask
  <2>. QED BY <1>1, <2>1 DEF BudgetsHold
<1>. QED BY <1>3, <1>4, <1>5, <1>6, <1>7, <1>8 DEF RunStep

LEMMA RecoverWithin ==
  ASSUME FlowInv, BudgetsHold, Recover
  PROVE  BudgetsHold'
<1>1. saved # NoTask /\ saved \in Tasks /\ Within(saved)
  BY DEF FlowInv, FlowTypeOK, BudgetsHold, Files, Recover, ResumeApproved, ResumePriced,
     ResumeAnalysisOnly, ResumeFailed, Resume
<1>. DEFINE Spared(t) == /\ t.asked = saved.asked /\ t.round = saved.round
                         /\ \A n \in Nodes : t.retries[n] \in {0, saved.retries[n]}
                         /\ {"status", "resumed", "asked", "round", "retries"} \subseteq DOMAIN t
<1>2. \A n \in Nodes : /\ Spared(Restarted(saved, n))
                       /\ "approved" \in DOMAIN Restarted(saved, n)
  BY <1>1 DEF Restarted, Tasks
<1>3. PICK t : Resume(t) /\ Spared(t)
  <2>1. CASE ResumeApproved
    <3>. DEFINE r == Restarted(saved, "browser")
    <3>1. Spared(r) /\ "approved" \in DOMAIN r
      BY <1>2 DEF Nodes
    <3>. HIDE DEF r
    <3>2. Spared([r EXCEPT !.approved = TRUE])
      BY <3>1
    <3>. QED BY <2>1, <3>2 DEF ResumeApproved, r
  <2>2. CASE ResumePriced
    BY <1>2, <2>2 DEF ResumePriced, Nodes
  <2>3. CASE ResumeAnalysisOnly
    <3>. DEFINE f == [n \in Nodes |-> IF n \in {"market", "gate"} THEN saved.node[n]
                                      ELSE "skipped"]
    <3>1. Resume([saved EXCEPT !.analysis = TRUE, !.node = f])
      BY <2>3 DEF ResumeAnalysisOnly
    <3>. HIDE DEF f
    <3>2. Spared([saved EXCEPT !.analysis = TRUE, !.node = f])
      BY <1>1 DEF Tasks
    <3>. QED BY <3>1, <3>2
  <2>4. CASE ResumeFailed
    <3>1. PICK yes \in BOOLEAN, n \in Nodes :
            Resume([Restarted(saved, n) EXCEPT !.approved = @ \/ yes])
      BY <2>4 DEF ResumeFailed, Restartable
    <3>. DEFINE r == Restarted(saved, n)
    <3>2. Spared(r) /\ "approved" \in DOMAIN r
      BY <1>2
    <3>. HIDE DEF r
    <3>3. Spared([r EXCEPT !.approved = @ \/ yes])
      BY <3>2
    <3>. QED BY <3>1, <3>3 DEF r
  <2>. QED BY <2>1, <2>2, <2>3, <2>4 DEF Recover
<1>4. task' = saved' /\ Within(task') /\ tail' = tail
  <2>1. task' = [t EXCEPT !.status = "running", !.resumed = TRUE]
        /\ task' = saved' /\ tail' = tail
    BY <1>3 DEF Resume
  <2>2. Spared(task')
    BY <1>3, <2>1
  <2>. QED BY <1>1, <2>1, <2>2, WithinStays
<1>. QED BY <1>4 DEF BudgetsHold, Files, NoTask

LEMMA StepWithin == FlowInv /\ BudgetsHold /\ [FlowNext]_flowVars => BudgetsHold'
<1>. SUFFICES ASSUME FlowInv, BudgetsHold, [FlowNext]_flowVars PROVE BudgetsHold'
  OBVIOUS
<1>1. CASE StartTask
  <2>1. PICK ok \in BOOLEAN : task' = NewTask(ok) /\ saved' = NewTask(ok) /\ tail' = tail
    BY <1>1, FlowAssumption DEF StartTask
  <2>. QED BY <2>1, NewWithin DEF BudgetsHold, Files, NoTask
<1>2. CASE ProcessDies
  <2>1. task' = NewTask(FALSE) /\ Files' \subseteq Files
    BY <1>2 DEF ProcessDies, Files, NoTask
  <2>. QED BY <2>1, NewWithin DEF BudgetsHold
<1>3. CASE UNCHANGED flowVars
  BY <1>3 DEF flowVars, fileVars, BudgetsHold, Files, NoTask
<1>. QED BY <1>1, <1>2, <1>3, RunWithin, AnswersWithin, BrowserWithin, RecoverWithin DEF FlowNext

(* create_for_node and the revision limit bound what a task ever spends:   *)
(* over all its runs, with every retry, revision, crash and recovery, in   *)
(* memory and in every checkpoint, no more delegations than the task's     *)
(* budget, no more to one agent than its share and no more rounds of       *)
(* repair; nor more retries of a node than are allowed since it was last   *)
(* restarted.                                                              *)
THEOREM TasksKeepTheirBudgets == FlowSpec => []BudgetsHold
<1>1. FlowInit => BudgetsHold
  BY NewWithin DEF FlowInit, BudgetsHold, Files
<1>. QED BY <1>1, StepWithin, FlowInvariant, PTL DEF FlowSpec
=============================================================================
