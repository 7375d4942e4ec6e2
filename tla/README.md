# TLA+ models of EcomPilot

EcomPilot is a copilot for e-commerce sellers: a language model plans changes to
a product page, a workflow of agents checks them, a person approves them, and a
browser writes them to the seller's shop. This directory models the part of the
program where being wrong is expensive and hard to notice in a test: who may run
which job, who may write to a shop, which plan is written, what the program
believes it has written, and what it tells the person who waits for the answer.

All sources are named relative to `src/`. Documents quoted are those in
`docs/`.

## 1. Inventory

| Part | Sources | State it keeps | Operations | Hard behaviours | What makes it correct |
| --- | --- | --- | --- | --- | --- |
| Durable job queue | `app/distributed/runtime.py` 229-449, 853-889, 891-1037 | SQLite: `runtime_jobs`, `tenant_dispatch_state`, `tenant_rate_windows` | enqueue, lease, heartbeat, complete, fail, reclaim, reset | workers crash, stall past their lease, read the clock before they hold the write lock | one committing worker per job, attempts bounded, decided once, eventually decided |
| Worker bulkheads | `app/distributed/bulkhead.py` | a semaphore per pool and process | non-blocking acquire, release | a leased job is refused; a browser job takes two slots | refusals cost an attempt but lose no job |
| Execution permits and sagas | `runtime.py` 451-729 | `resource_guards`, `execution_sagas`, `business_effects`, `transactional_outbox` | prepare, start, confirm, fail | late, repeated and stale permits; expiry between two steps; tenant reset | one version history per product, effect, saga and event agree |
| Outbox relay | `runtime.py` 741-793, `scripts/run_v38_outbox_relay.py` | `transactional_outbox` | lease, publish, mark | death or a lost lease between publishing and marking | every event is published, none is marked that was not |
| Store write | `app/tools/browser_tools.py`, `app/safety/idempotency.py`, `app/browser/` | `records.json`, saga rows, the shop | execute, verify, reset | several processes share a JSON file without a lock; a form lands after its caller gave up | what is confirmed was written, what was written is not forgotten |
| Browser tickets | `app/browser/tickets.py` | in memory: tickets | issue, consume, expire | expiry against late use | one use per ticket |
| Seller center store | `app/seller_center/store.py` | products per tenant and process | apply, verify, reset | state per process with the mock backend | the shop shows the last confirmed plan |
| Batches | `app/copilot/batch*.py`, `app/conversations/repository.py` 760-1230 | batch and item rows | claim, record, retry, finalize | process lost after the claim; stale snapshot of the items; overlapping calls | one executor per item, no verified write repeated, the history is complete |
| Turn dispatch | `app/main.py` 535-667, `app/copilot/facade.py`, `app/copilot/events.py`, `repository.py` 1500-2090 | turns, event streams | begin, complete, fail a turn; stream | an in-process drain thread; double submission; a page that polls what several transactions write | one answer per request, every stream ends once, the page is told |
| Tasks of a conversation | `app/copilot/facade.py` 92-410, `task_router.py`, `graph.py` 92-258, `repository.py` 1280-2000 | task sessions, the active task, a question per task and one without a task, checkpoint threads | route, suspend, create, bind, ask, consume, resume | tasks recalled in any order; two messages at once; a failure between two of the steps | a message reaches the question and the thread of the task it names |
| Workflow executor | `app/orchestration/` | `TaskState` in memory, the checkpoint file | run a batch of nodes, hand results on, revise, time out, approve, resume | threads that outlive their timeout, a repair loop, a crash between two nodes | only a reviewed plan is written, one per task; every run ends |
| Agent protocol | `app/orchestration/a2a.py` | delegations, messages, artifacts | delegate, answer, discover | budgets and concurrency limits that outlive a run | delegations end, references resolve |
| Tools and reliability | `app/tools/`, `app/reliability/` | circuit breaker, remembered answers, pool slots, retry budget | call, retry, open, probe, close | a call raced by another one's failure, a revocation, a full pool | no uncertain write repeated, every call ends, no slot lost |
| Capability tokens | `app/security/` | in memory: claims, uses and revocations of tokens | issue, verify and consume, revoke | revocation under a running call | no more calls than `CAPABILITY_MAX_USES` per delegation |
| Safety gateway | `app/safety/policy_gateway.py`, `preflight.py` | none | decide | - | no high-risk plan passes unapproved |
| Language understanding, memory, model adapter, SQL analytics, product ledger, interfaces | remaining packages of `app/` | little of their own | parse, prompt, render, query | - | about text, not about state |

How they interact: an HTTP request is dispatched as a job (`main.py` → queue). A
worker leases it and runs the copilot facade, which drives the workflow
executor. An approved plan reaches `browser_execute`, which asks the runtime for
a permit, drives a browser backend that writes to the shop, and confirms or
fails the execution in the runtime; the confirmation inserts the event the
outbox relay publishes. Batches do the same through jobs of the `browser` pool.
All durable state is shared through SQLite transactions and two kinds of JSON
files (idempotency records and checkpoints), which have no lock between
processes. Circuit breakers, tokens, remembered answers, pools and the set of
active tasks live in the memory of one process.

## 2. Modules

| Module | Models | Lines of code it stands for |
| --- | --- | --- |
| `RequestLedger` | abstract: what a client may rely on. A key is accepted once, decided once, and free again only after a reset of its tenant | - |
| `JobQueue` | the queue, its workers and their bulkheads, one action per method of `DistributedRuntime` | `runtime.py` 107-449, 853-1037, `bulkhead.py` |
| `JobQueueMC`, `JobQueueSafety.cfg` | an instance for TLC | - |
| `JobQueueProofs` | its theorems | - |
| `EventLedger` | abstract: the sink gets only inserted events, and an event counts as published only when the sink has it | - |
| `OutboxRelay` | the events of the outbox after their insertion, and the processes that publish them | `runtime.py` 195-208, 741-793, 853-869, 1039-1064, `run_v38_outbox_relay.py` |
| `RuntimeTablesMC`, `RuntimeTables.cfg`, `RuntimeTablesProofs` | the job queue and the outbox in one run, with fairness; the theorems of the outbox and of the two together | - |
| `EffectLedger` | abstract: the business effects of a product, applied one after the other, each once | - |
| `ExecutionSaga` | permits, fencing tokens, sagas, effects and the events inserted with them, presented by arbitrary callers | `runtime.py` 451-729, 975-991, 1039-1064 |
| `ExecutionSagaMC`, `ExecutionSaga*.cfg`, `ExecutionSagaProofs` | as above | - |
| `BrowserExecution` | composes `ExecutionSaga` with its real caller: `browser_execute` inside `execute_once`, both backends, the shop, crashes of processes | `browser_tools.py` 19-82, `idempotency.py`, `backends.py`, `service.py`, `tickets.py` 155-177, `store.py` |
| `BrowserExecutionMC`, `BrowserExecution*.cfg`, `BrowserExecutionProofs` | as above | - |
| `BatchExecution` | approvals and retries of a batch and of its tasks, running at the same time | `batch_execution.py`, `repository.py` 905-918, 1058-1224, `recovery.py` 53-163, parts of `supervisor.py`, `executor.py`, `facade.py`, `main.py` 1017-1126 |
| `BatchExecutionMC`, `BatchExecutionRunning.cfg` | an instance | - |
| `RuntimeCallersMC`, `ExecutionSagaSafety.cfg` | arbitrary callers of `ExecutionSaga`, or `browser_execute` with the mock backend, in one run | - |
| `PlanLedger` | abstract: one plan that passed its review is taken on for writing, the shop receives no other, and the task is reported complete only with it, received and confirmed | - |
| `WorkflowRun` | one listing task: the loop of the executor, its batches, delegations, repair loop, timeouts, checkpoints, recovery, and the write of its plan | `executor.py`, `recovery.py`, `checkpoint.py`, `a2a.py`, `planner.py`, the agents, `idempotency.py` |
| `WorkflowRunProofs`, `WorkflowApproval.cfg` | its theorems, an instance | - |
| `AnswerLedger` | abstract: a request is answered at most once; its one stream announces a response that is stored, with its own request or with that of the task its message came upon, and ends once | - |
| `ConversationTurns` | a chat message from its dispatch to the page that shows the answer | `main.py` 535-667, `facade.py`, `repository.py`, `events.py`, `runtime.py`, `bulkhead.py` |
| `ConversationTurnsProofs` | its theorems | - |
| `TaskSessions`, `TaskThreads.cfg` | the tasks of a conversation: routing, questions and checkpoint threads | `facade.py` 92-410, `task_router.py`, `graph.py` 92-258, parts of `repository.py` 1280-2000 |
| `ConversationMC`, `Conversation.cfg`, `ConversationProofs` | `BatchExecution` and `TaskSessions` in one run, and their theorems | - |
| `ToolCalls` | a tool of a tenant and the calls of it | `registry.py`, `circuit_breaker.py`, `policy.py`, `classifier.py`, `capability_tokens.py`, `bulkhead.py` |
| `ToolCircuit.cfg` | an instance | - |
| `PlatformMC`, `Platform.cfg`, `PlatformProofs` | `WorkflowRun`, `ConversationTurns` and `ToolCalls` in one run; the theorems of `ToolCalls` and of the three together | - |

`BatchExecution` stands beside the others: what it calls to execute a task, the
workflow and its store write, either verifies or fails with a known or an
unknown outcome, which is what `BrowserExecution` says of it.

`WorkflowRun` has the idempotency record and the shop as one task sees them:
`BrowserExecution` is about several tasks and processes at a shop,
`WorkflowRun` about several plans and threads of one task. `ConversationTurns`
has the part of the queue that chat jobs meet (one attempt, one lease, no
renewal) and leaves the rest of it to `JobQueue`. `WorkflowRun`,
`ConversationTurns` and `ToolCalls` share no state, so `PlatformMC` checks them
in one run without multiplying their states: `focus` names the one that moves.
`RuntimeTablesMC` does the same with `JobQueue` and `OutboxRelay`,
`ConversationMC` with `BatchExecution` and `TaskSessions`. `TaskSessions` has what
`handle_message` does between the two ends of a turn, which is one step of
`ConversationTurns`; there a turn starts once per request, here each message
is a turn.

`JobQueue` and `ExecutionSaga` share a class and a database in the code, but no
table and no transaction (a job does not know of permits), so they are two
modules. `ExecutionSaga` lets any caller present any permit it was ever given,
as often as it likes and as late as it likes. `BrowserExecution` then shows that
the callers the program has are among those, and inherits the invariants.

### Definitions ending in a name of a fault

`HasRoom_GlobalOnly`, `Confirm_NoSaga` and the like stand directly in front of
the definition they vary. They are not part of the specification: each is the
definition with a plausible bug (a forgotten condition, a step left out), kept
to show that the property named for it notices.

### JobQueue

One row `job[j]` per accepted enqueue with its columns; `req[j]` holds the
columns that never change. `served` and `rate` are the dispatch counter and the
rate window of a tenant. `worker[w]` is a thread inside `run_once`: between the
lease and the commit it has a copy of its grant (job and token) and nothing
else, as in the code. Every method of the runtime runs in one `BEGIN IMMEDIATE`
transaction and is one action; `run_once` is several (`LeaseNext`,
`StartHandler` or `RefuseHandler`, `Heartbeat`, `HandlerReturns` or
`HandlerRaises`, `Complete`, `Fail`), with a crash possible in between.

Time is relative. A row carries the ticks left to `lease_expires_at` and
`available_at`, `Tick` ages them all, and the value stays at a floor once it no
longer matters. Most methods read the clock before the transaction gets
SQLite's write lock, so a condition on time may use a reading that is up to
`ClockLag` ticks old; a lease granted on an old reading is shorter by that much.

### OutboxRelay

`row[e]` is an event with its status, lease token and time left, in the order of
`created_at`; `relay[r]` is a process of the script between `lease_outbox` and
`mark_outbox_published`, with the event and the token it was given; `delivered`
is what the sink has received, a history. `Deliver` prints without looking at
the lease, as the script does. A mark with a lost lease is refused with
`StaleLeaseError`, which nothing catches: the process ends (`MarkRefused`), and
`RelayRestarts` is whoever starts it again. So an event may be printed twice,
also after it counts as published, and the order of events is not kept between
two relays; neither is promised. `ExecutionSaga` says when an event is inserted,
`OutboxRelay` what becomes of it; here transactions insert at any time.

### ExecutionSaga

`guard[r]` is the row of `resource_guards` (version, highest token, current
lease), `saga[k]` and `effect[k]` the rows of a plan, `outbox` the events
inserted, as (plan, kind). `permits` is every permit ever given out. Nothing is
ever removed from it, so an action `\E permit \in permits` covers callers that
are slow, repeat themselves or come back after a reset. `epoch` counts tenant
resets and stands for the random part of `saga_id`: a permit from before a reset
finds no saga, but its token can be equal to one issued after it, because the
reset also deletes the counters. Replay permits are not kept: they carry no
lease and nothing in the runtime accepts them.

### BrowserExecution

`call[p]` is the call that holds the lock of `IdempotencyStore` in process p:
the lock is a class attribute and is held for the whole operation, so a process
has one call at a time. `record` is `records.json`, and `call[p].copy` the copy
of it that a call reads at its start and writes back at its end. `posted` and
`landed` are the submitted forms the shop has not answered and those it applied.
`shop[s][r]` says which plan's content a product shows; with the mock backend
every process has a shop of its own, lost when it dies, and with Playwright
there is one site. `Mock` chooses the backend.

### BatchExecution

`item[i]` is a row of `batch_items` with status, attempts and history, `batch`
the status of the parent, `task[i]` the checkpoint of the child task. `call[c]`
is a thread inside `BatchExecutionService.execute`, or inside the approval of a
single task, at program counter `pc`. `seen` is the dictionary `by_id`: the rows
as the call read them when it began, of the items it still has to do. Items are
taken in any order, which are the orders a client may list them in. The steps
between two transactions are separate actions: the check before a retry
(`DecideRetry`), the reopening (`PrepareRetry`), the read of its result
(`Reread`), the claim (`ClaimExecution`), the start of the resume (`LoadTask`),
its first checkpoint (`RunTask`), its end (`VerifyTask`, `FailTask`), what
`approve` does afterwards (`LoseAnswer`), the record (`RecordExecution`), and
the two halves of the finalize (`CountItems`, `FinalizeExecution`), which the
connection's autocommit mode makes two transactions.

One server process is assumed, as the program is deployed (`python -m uvicorn
app.main:app`): `RecoveryCoordinator` keeps its set of active tasks in memory,
and jobs of the browser pool are drained by threads of that process. A crash
ends all calls and keeps the rows.

### WorkflowRun

`task` is the `TaskState` of the run in memory, `saved` the one in the
checkpoint file, and `stage` tells where `WorkflowExecutor.run` is: at the head
of its loop, or in a batch, whose nodes without a handled result are `batch`.
`Dispatch` starts a batch (delegations made and budgets checked), each answer of
an agent is an action (`Researched`, `PriceQuestioned`, `Written`,
`ReviewRejected`, `RevisionRequired`, `AgentRetried`, `AgentFailed`, ...),
`TimedOut` gives up on those that are late, and `Checkpoint` saves the state when
the batch is empty. `StepsExhausted`, `OutOfTime` and `NothingReady` are the ways
the loop ends by itself; `OutOfTime` also stands for the ready set that repeats.
The first run of a task is saved once more by its caller; that copy is `tail`,
and it may be written over a recovery that has begun (`FirstRunEnds`).

A review artifact is the number of the plan it holds, so `plan`, `kept`, `cites`
and `verdict` follow it through revisions, resets and retries. `once` is the
task's idempotency record, `writer` the thread inside `browser_execute`, and
`waiting` the plans of threads that were given up on before they got there: a
timeout ends the wait for a thread and not the thread. The four `Resume` actions
are `RecoveryManager.prepare` with what it does before `run` is entered again.
`VerifyMatches` and `VerifyDiffers` are the readback; the shop may have been
changed by others.

The status "failed" stands for "needs_attention" too, which recovery treats
alike, and the retry budget is not counted: an error may be refused a retry at
any time.

### ConversationTurns

`OpenStream` and `EnqueueTurn` are the two halves of the dispatch endpoint, after
which its thread goes on as the drain thread the endpoint starts. `TakeJob` to
`FinishJob` are `run_once` as the drain thread calls it; between them the handler
goes through `BeginTurn`, `RunTask`, `CompleteTurn`, `CompleteMessageTurn` or
`FailTurn`, `PublishAnswer`, `SettleStream` and `FailStream`, each one transaction of
the code (`RunTask` is the graph at work on a task, with its save of the
`TaskState`). `turn[r]` has whether a response is stored and how many messages
were ever added for it (a history).

An answer without a task completes the turn of the request at work
(`CompleteMessageTurn`). An answer with a task loads the task again and completes the
turn the `TaskState` names (`CompleteTurn`, `facade.py` 293-304). That is the request's
own turn as a rule. It is another one if a later message has taken the task up
before the load, since `resume` writes its own turn into the state, or if the graph
ran nothing and gave the last result of a finished thread again. Then the other
turn's response is overwritten, no message is added to it, and the request's own
turn stays as it was, while its handler goes on to announce the response.
`strayed` is the history of such requests. Which task a response is about is not
kept; `Named` lets it name any turn that was begun but those of messages still at
work, which have saved no task. That is more than the code can do: every
interleaving of the code is there, and the properties hold of all.
 `reader`
is a page with the endpoint that feeds it: events are read first, the status of
the stream after them, and the browser connects again. Of a stream's events only
the two that end it are kept. `AskDirectly` is the endpoint that answers in one
go. `excused` records the ways in which the program loses the end of a stream
for good: the process died, a full bulkhead killed the job before its handler
ran, the drain thread ended over a lost lease with jobs still queued, or the
database refused the failure event.

### TaskSessions

Messages are numbered as their turns begin; the task session a message creates
has its number, and so has the session's checkpoint thread. 0 stands for "no
task": `question[0]` is the row of `pending_requests`, which has no column for a
thread, and thread 0 is the one of its own that a message without a task gets.
`hand[t]` is the thread inside `handle_message` with its local variables: the
active task it read, the target of its route, the question it holds, the thread
it will use. Each transaction is an action, `RouteMessage` to `FinishMessage`, in the
order of the code; `Breaks` is an exception or the death of the process at any
of them. `point[s]` is the last checkpoint of a thread: at an interrupt, or
ended, with a question about a price or without. A thread that has ended is not
run by a resume but gives its last result again, which is how LangGraph, not
part of this repository, behaves.

The router decides by the wording of the message, so `Targets` is the set of
tasks some wording leads to. What the graph makes of a message is a choice.
`regular` is a history: so far each message was handled before the next one
began, and the only clarifications answered were those of the task the answer
was routed to.

### ToolCalls

A caller is a delegation: one agent at work on one task, with one token. A call
is admitted by the circuit breaker or rejected, refused or authorised, answered
from what its task remembers or let into the pool, which blocks, tried until
`MayRetry` says no, validated, and booked as a success or a failure. All callers
are the same agent, so the signature of an error is its fault, and they pass the
same arguments, so a task has one answer to remember. `uses[c]` is what the token
of c still allows. `Revoke` may come in the middle of a call. `quiet` is a
history: the time since an error of the tool itself was reported. Handling an
error takes no time; the retry budget of the task is a free choice in `GiveUp`.

## 3. Runs

Small sets are model values. Symmetry is used where the members of a set are
interchangeable: job ids, tenants and keys of the queue; plans and owners of the
saga; processes of `BrowserExecution`, and its two requests swapped together
with their plans.

| Run | Instance | Shows |
| --- | --- | --- |
| `queue_safety` | 2 jobs, 2 tenants, 2 keys, 2 workers with one worker_id and one bulkhead slot, 2 attempts, leases of 2 ticks read up to 1 tick late; limits 2 in all, 1 per tenant, 1 request per window | exclusive leases, results of the latest lease only, limits, keys, finality, under crashes and resets |
| `queue_live` | 2 jobs, 2 workers with 2 pools of which one handles no job, fair. Or outbox: 2 events, 2 relays, leases of 2 ticks read up to 1 tick late, 1 death, 1 overrun lease, fair | every accepted job is decided; the queue implements `RequestLedger`; every event reaches the sink; the relays implement `EventLedger` |
| `saga_safety` | arbitrary callers: 2 plans for one product, 2 owners, up to 3 permits per behaviour, 1 reset. Or mock: 2 processes, 2 requests for one plan, 2 permits | one version history, rising tokens, tables written together, finality, under replays too; implements `EffectLedger`; `browser_execute` is a caller `ExecutionSaga` allows |
| `saga_old_token` | arbitrary callers with 2 permits, no reset | divergence 1 |
| `browser_safety` | Playwright: 2 processes, 2 requests for 2 plans of one product, 3 permits | confirmed was written, written is remembered, answers are confirmed, one writer |
| `browser_rewrite` | Playwright, 1 process, 3 permits | divergence 2 |
| `conversation` | batch: 2 items, 2 calls, 2 attempts, single approvals, crashes. Or tasks: 3 messages, 2 at a time | one executor per item, attempts and history agree, completed was verified, no settled task is run again, no false success; a question that waits can be answered, one that was put aside is kept for its task |
| `batch_left_running` | 2 items, 2 calls, neither crashes nor single approvals | divergence 3 |
| `platform` | workflow: 1 revision, 1 retry per node, 3 plans, 1 recovery, approved beforehand or not, any of two agents may raise. Turns: 2 requests, 2 threads, 2 calls, 1 slot. Tools: 2 callers, 1 slot, 1 retry, 2 uses per token, a circuit that opens at 2 failures for 1 tick | only a reviewed plan is written, "completed" means written, checkpoints can be recovered from, the task implements `PlanLedger` and every run ends; one answer per request, the turns implement `AnswerLedger`, the page is answered; no uncertain write tried again, every call ends |
| `workflow_approval` | 2 revisions, 2 recoveries | divergence 4 |
| `tool_circuit` | 2 callers, circuit of 3 failures and 2 ticks | divergence 5 |
| `task_threads` | 3 messages, one at a time | divergence 6 |

Five components are checked against an abstract specification, with a refinement
mapping (`Implements...`), in place of a list of small invariants. That a
task writes one plan only (`OnePlanPerTask`), that a stream announces what is
stored (`PublishedIsStored`) and ends once (`EndsOnce`) are what the ledgers
allow and so have no line of their own in a run; each is a theorem. The ledgers say
more than those: the order of the steps, and what is never taken back. What
`PublishedIsStored` says is what the code keeps: an announced response is stored
with the turn of the stream's own request, or that request is in `strayed` and
another turn has a response. It is not always in the own turn (observations,
*Turns*); such a turn has no response and no message. Writing
`PlanLedger` showed what may be: `FirstRunEnds` can overwrite a checkpoint that
says "completed" with the older end of the first run, so a report can be taken
back and made again, and `PlanLedger` permits it (`Report`). What it never permits
is a report of a plan other than the confirmed one.

Why the bounds are enough to be interesting:

- Two workers and two attempts: a stalled worker can come back while another one
  holds the job, and the last attempt can be lost. Two leases per job is the
  least for a stale grant. The two limits differ, so the tighter one is seen to
  bind; a global limit that binds before the tenants' is left to the theorem
  `BackpressureHolds`, which holds for all values.
- `MaxPermits` bounds how many permits are ever given out, in the guard of
  `Prepare`. Three permits allow a plan to be prepared before and after the
  other one, with each permit presented late. `MaxResets` is 1: tokens start over
  once, and permits from before the reset are presented after it. The two kinds
  of callers are not mixed (`CallersApart`); the arbitrary ones include the real
  ones, so this loses nothing of the runtime's behaviour.
- Lease times of 1 or 2 ticks: expired or not, and with a reading of the clock
  that is one tick late, expired only for some.
- Outbox: two events, of which the older is always leased first, and two relays
  make a lease that is taken over, a late mark and a late print. `MaxLate` bounds
  how often a relay at work overruns its lease: one that always did would print
  the oldest event for ever and never reach the next, which fairness does not
  exclude. `MaxDeaths` bounds deaths in the same sense.
- `browser_safety` runs with `ClockLag` 0, as `saga_safety` explores stale
  readings.
- One product: products do not influence each other in the code but by the depth
  limits of the queue.

- Two calls and two items: both calls can hold stale rows of both items, one can
  finish while the other is between any two of its steps, and the aggregate of
  the batch tells the items apart. The code allows 3 attempts (`MaxAttempts`);
  2 are enough for an item that fails, is reopened by one call under another one's
  stale row, and reaches the limit while both still want to retry it. With 3 the
  run has four times the states and passes as well; the theorems hold for any
  limit.
- Workflow: three plans are the first, its revision and one made after the
  recovery, so an old review, a new one and a thread that writes the plan between
  them meet. The delegation limits, 12 and 3 per agent, are the code's, and the
  latter is reached; nine steps are enough for the longest of these runs, and
  fewer than it needs may also be left. `Faulty` bounds which agents raise.
- Turns: two requests through two threads with one slot make a full bulkhead, a
  drain thread that serves the other one's job and a request sent twice, through
  the queue and past it. Requests and threads are interchangeable; the constraint
  `FirstCall` says which of them are first, as symmetry is not sound with the
  liveness properties.
- Tools: with one slot two calls exclude each other, a failure of one opens the
  circuit under the other, and one retry tells the first attempt from the next.

- Tasks: three messages start two tasks and recall the first, or start one and
  have it answered by two messages at once. `SetAsideIsKept` holds with two
  messages at a time. `OpenQuestionIsLive` is about messages one at a time that
  answer questions of the task they are for (`regular`). Without the first
  condition two messages can leave questions of two tasks waiting, and without the
  second a question may name a thread that has ended (divergence 6 and the
  observations). Such a history takes six messages, so it was the attempt at a proof
  that showed it and not a run.

The types of `JobQueue` and `ExecutionSaga` have no line of their own in a
run: they are theorems, and `CallTypeOK` contains the latter.

Deadlock is checked in `conversation` only, since a batch can always be approved
again and a conversation stands still only after its last message. Elsewhere permits, job ids, plans or calls run out by the bounds, and a system in
which all work is decided stops.

**Fairness.** `EveryJobSettles` assumes weak fairness of `Tick` (time passes)
and of each worker's next step. `scripts/run_v38_worker.py` polls for
ever. A worker whose commit is refused raises `StaleLeaseError` and its loop
ends, and a crash ends its process: the model returns it to idle, which assumes
that somebody starts it again. Handlers end, since the tools they call have
timeouts. Crashes are allowed at any time and are not fair. The in-process
drain threads of `main.py` do not poll, they end when the queue is empty, so the
property is about a deployment with a worker process.

`EveryEventIsDelivered` assumes that time passes and weak fairness of each relay's
next step: the script polls for ever, and a process that has ended is started
again, by whoever runs the script; the code does not do it.

`RunEnds` assumes weak fairness of `RunStep` alone: the loop of the executor goes
on, and a wait for a batch ends with its timeout. Agents, the shop, the user and
crashes owe nothing. `PageIsAnswered` assumes it of each thread of the API
process and of the page; `asyncio.sleep` and `EventSource` keep the latter
going, and the work of a turn ends as agents and model calls have timeouts.
Leases running out and crashes are not fair. `EveryCallEnds` assumes it of a
thread within a call: a tool ends by its timeout, nobody has to make a call, and
waiting for the semaphore, which is not first come first served, ends as the
tokens of the others run out.

### Disagreements between documents and code

1. `saga_old_token`: `docs/V38_TECHNICAL.md:33` says an old token never
   overrides a newer one. `fail_execution` does not look at the fence of the
   permit when it sets the saga; the lease is left alone, the status is not.
2. `browser_rewrite`: line 36 says that a write of unknown outcome is not
   repeated blindly. The same request, run again, finds its saga in
   `needs_attention`, sets it back to `prepared` and submits the form again.
3. `batch_left_running`: the comment at `app/conversations/repository.py:1179`
   says the batch is recomputed from its items after the selected writes finish.
   The items are counted before the update and outside its transaction, so a
   call can write an old count over a newer one; and a claim that is refused
   leaves `execute` without recomputing. In both cases the batch says "running"
   while nothing runs, until somebody approves something in it again.
4. `workflow_approval`: `README.md:16` says nothing is written without the user's
   confirmation. The confirmation is a flag of the task (`recovery.py:91`) that
   nothing clears: when the write of the approved plan fails and the task is
   resumed with constraint updates, which resets earlier nodes
   (`recovery.py:155`), the new plan is written without having been shown.
5. `tool_circuit`: `docs/V59_FINAL_RELEASE.md:66` says an open circuit is probed
   after its recovery window. A rejected call is booked as a failure of the tool
   (`registry.py:556`), and enough of them open the circuit anew, so a tool that
   is still asked for is not probed although it has not been called since.
6. `task_threads`: `docs/V43_TECHNICAL.md:20-21` says that a message that refers to
   task A is resumed on A's thread and leaves the checkpoints of B alone. When A
   has no question of its own, `handle_message` goes on with the question of B it
   has just suspended (`facade.py:171-198`): it deletes it, resumes B's thread with
   the message meant for A, and stores a question that comes of it under A with
   B's thread.

Observations the models contain or that were met while writing them, without a
run of their own:

- *Queue.* `docs/V38_TECHNICAL.md:17` promises that the job of a lost worker is
  queued again. `copilot_turn` jobs have one attempt (`main.py:650`, deliberately,
  says the comment there), so the job is dead.
- *Store write.* With the mock backend a replay writes its plan into the process'
  own shop again, also over a plan confirmed later (`browser_tools.py:37`),
  although line 31 of the same document says that a repeated plan reuses its
  first result.
- *Workflow.* A checkpoint is saved over whatever is in the file, against
  `docs/V59_FINAL_RELEASE.md:68`. A crash leaves it "running", which `prepare`
  refuses to resume. The delegation budgets are never reset: a task resumed
  often enough cannot delegate any more. `reconcile_unknown_writes` has no caller.
  A stage that fails while it revises cites the review that asked for it; the
  reset drops that review and not the reference (`recovery.py:300`), so every
  later delegation to the stage is refused, although `executor.py:884` tells the
  user that a failed stage can be retried with the finished upstream results.
- *Turns.* A job refused by a full bulkhead dies before its handler runs, so its
  stream stays "running" (`main.py:559`, `docs/V34_TECHNICAL.md:26`). A drain
  thread whose lease was lost ends and leaves queued jobs to the next dispatch
  (`main.py:570`). An enqueue error other than the two handled ones leaves the
  stream open. `complete()` publishes the answer before it closes the stream, so
  a stream may show an answer and then `stream_failed`.
  When the task of a response names another request's turn (`strayed`), that turn is
  rewritten and the own one stays "processing" for good, although its stream
  announced `response_ready` and completed. The same request sent again through
  the direct endpoint is then refused as "still being processed"
  (`facade.py:127`), and so is one whose turn failed, against
  `docs/V54_MARKET_PRICE_GATE.md:37`, "重复请求由会话 `client_request_id` 返回同一响应"
  (a repeated request gets the same response).
- *Tasks.* The question of a message without a task is stored without its thread
  (`repository.py` `pending_requests`), so its answer is resumed on a new thread,
  where it fails, or on that of the active task, where it may replay an old
  answer. Two messages handled at once may both consume one question, which the
  comment at `facade.py:244` calls single-use. A replayed answer that asked for a
  price is stored as a question of another kind. After divergence 6 a question
  that was put aside may name a thread another task has run to its end since.
- *Tools.* `ToolApprovalRequiredError` is an `OSError` and counts as transient:
  writes that wait for approval open the circuit. Remembered answers close it.
  A half-open circuit admits any number of calls, and a failed probe with a new
  signature leaves it half open. A timed-out attempt gives its slot back while
  its thread goes on. A write whose result fails validation is a plain failure.
  A token that is revoked after it was verified does not stop the call.

## 4. Theorems

Each holds for every value of the constants that satisfies the ASSUMEs of its
module (`QueueAssumption`, `SagaAssumption`, `BrowserAssumption`,
`BatchAssumption`, `TaskAssumption`, `FlowAssumption`, `TurnAssumption`, `ToolAssumption`,
`RelayAssumption`), which state
the types of the constants, that limits, leases and attempts are positive, and
that the sets of job ids are finite. The bounds of the runs (numbers of jobs,
workers, permits, resets) are constants there, so the theorems hold for all of
them.

**JobQueue.** `IInv` is `TypeOK` with five facts: every outstanding grant
carries a token that was issued (`GrantsIssued`), no two workers carry the same
one for a job (`GrantsDistinct`), a result stems from the row's latest token
(`ResultFromLatestLease`), a queued row has attempts left and a leased one is
within them (`QueuedHasAttemptsLeft`), and live rows have distinct keys
(`UniqueLiveKey`). `AtMostOneValidGrant` alone is not inductive: that a valid
grant stays the only one needs to know that no other worker keeps a token the
row will issue later. The depth limits (`ActiveBounded`) have an invariant of
their own, with the cardinality lemmas of the library. `ImplementsLedger` shows
each action to be a step of `RequestLedger` or a stutter.

`QueuedHasAttemptsLeft` is proved here without a run of its own; in `queue_live` a
job queued with its attempts spent would never be decided.

**OutboxRelay.** `RelayInv` adds to its type that a token in the hands of a process is
one its row has granted (`HoldersAreGranted`; a row grants none before its
insertion or after its deletion), so that the next lease is larger than all of
them, and that a process that is about to mark has printed
(`PrintedWasDelivered`). `LeasesHaveOneHolder` and `NoEventIsLost` follow, and
`RelaysImplementDelivery`: a print is a delivery whatever became of the lease, a
mark is the publication, and every other step leaves the ledger alone.

**ExecutionSaga.** `IInv` is `TypeOK`, the history (`VersionsAreOneHistory`),
the order of tokens, `WrittenTogether`, and two facts about what callers may
still do: the live lease is the newest token, above those of all confirmed
effects (`LeaseIsNewest`), and a permit of the present epoch is known to the
guard and has seen the version current when its token was issued
(`PermitsKnown`). These two make the rest inductive: a confirmation passes the
fence, so it holds the newest token and the current version, so the new effect
extends the history at its end. After a reset an old permit can pass the fence
without having seen the version; then `Confirm`'s own check of the version
catches it, which is why both checks are needed.

**BrowserExecution.** `CInv` adds to the invariant of `ExecutionSaga`: `OneEpoch`
(no reset in this composition), `SagasLive` (an effect has its saga), `PermitsHeld`
and `TokensHeldOnce` (a running call holds a permit for its own request, and no
two calls hold the same), `AnswersKnown` (what a copy of the records calls
completed is confirmed) and `ConfirmedWasWritten`. `CallsUseTheRuntime` shows
every step to be a step of `ExecutionSaga` or a stutter, hence the invariants of
`ExecutionSagaProofs` hold of it without being proved again.

**BatchExecution.** `IInv` adds to the type and to the checked invariants what a
call knows at each of its steps (`KnowledgeHolds`: the item it claimed is
running, the task it loaded can be resumed, the task it verified is completed),
that no two calls claim one item or resume one task (`ClaimsDistinct`,
`OneResumes`), that only a stopped task can be unknown (`UnknownStopped`), and
that a count of "completed" stays true until it is written (`CountsHold`, since
no item leaves "completed"). The lemma `Framed` carries the knowledge of the
other calls over a step: a row changes only under a call that has it to itself.

**TaskSessions.** `TaskInv` adds to the type that a question in hand was open when
it was read or is its task's own (`HoldsOpenOrOwn`, from which `SetAsideIsKept`
follows for any number of messages at a time), that nothing names a message to
come (`Fresh`), and, while `regular` holds, `Orderly`: one message is in hand,
what it knows at each step is still so (`Knows`), a clarification belongs to the
thread of its own task and that thread is at its interrupt, also while it is put
aside, and only the active task's question waits. `OpenQuestionIsLive` alone is
not inductive: a question that was put aside becomes the one in hand again, so
its thread must not have moved meanwhile. It does not, since a task is run only
when it has no question.

**WorkflowRun.** `FlowInv` is `FlowTypeOK` with four facts. `RunHolds`: the nodes
that run are those of the batch, the browser's waits for a completed review that
is not being repaired, and the task is sound: no node is ahead of those it depends
on but a review whose writers are at work again (`InOrder`), a completed review
that is not under repair passed its plan, a completed browser node has its plan's
record completed. `FilesHold`: the checkpoint and the copy still to be saved are
sound too, and settled. `WriterHolds`: a thread in the
write holds the record, in progress, of a plan that passed; so do the threads
that were given up on, for the plans they will ask to write. `ShopHolds`: what the
shop received is the plan of the record, and a completed record is in the shop.
The checked invariants alone are not inductive: that a thread abandoned long ago
writes a reviewed plan needs what it carries, and that a task is not written
twice needs that a record is taken over only by its own plan.

`TaskKeepsPlanLedger` maps the record to the plan taken on and the checkpoints
that say "completed" to the reports; a step that ends a run is a report, which
needs that a completed task's record is completed (`FilesHold`). Three further
results rest on `InOrder`, for any bounds:

- `OnlyWritersRunTogether`: only the two writers are ever ready at once, after any
  revisions, retries, timeouts and recoveries. The order of a batch in
  `Dispatch` is justified by it, and a run counts at most `MaxSteps + 1` steps.
- `TasksKeepTheirBudgets`: what a task may ask of its agents is bounded over all
  its runs. The budget is checked node by node before the batch is counted, so
  the proof needs to know which batches there are.
- `RunsWindDown`: each step the scheduler owes a run lowers `Rank`, a natural
  number (steps left, then what is left of the batch, then the last save), and
  nothing but a start or a recovery raises it, however often reviews send nodes
  back. With the fairness of `RunStep` this is why `RunEnds` holds.

**ConversationTurns.** `TurnInv` says who owns what. A thread between taking up a
request and finishing its job has its stream to itself, and no two work on one
request (`Apart`); it knows the state its stream is in and that its job is no
longer queued (`Streaming`), and that an answer it is about to publish is given
(`Given`): stored with its own request, or strayed to a turn that has a response
(`Informed`, `StreamsHold`). A stream belongs to one job and stays open while that is queued
(`JobsHold`). Each step of a turn and of a stream is taken by the thread that
owns it, so the lemma `Publishing` is about one thread and leaves the others alone;
`Moving` covers the steps that change nothing others rely on. `CompleteTurn` is the
exception: it may write a turn its thread does not own. `Turning` therefore is
about any turn that no other thread is at work on, and rests on responses being
overwritten and never taken away.
`OneAnswerPerRequest` depends on `begin_turn` never reopening a turn and on
`complete_turn` adding no second message, `EndsOnce`
on jobs of one attempt: with two, a reclaimed job would have two threads at one
stream. `TurnsKeepAnswerLedger` maps a turn's responses to answers, a job to the
request its stream was accepted for, and each event that is stored to the end of
the stream it is about; `CompleteTurn` is `Answer` or `Stray`, or a stutter when it
writes the same turn again; the two halves of `complete()`, between which a thread may
stall or die, are two steps of the ledger.

**ToolCalls.** `ToolInv` is `ToolTypeOK`, `SlotsCounted` (free slots and running
calls make up the capacity, by the cardinality lemmas of the library) and
`NoUncertainRepeat`. `NoSlotIsLost` says that no error, timeout or refusal keeps
a slot, for any number of callers and any capacity.
`CallsWindDown` is the measure behind `EveryCallEnds`: each step of a call lowers
what it has still to go through (`Togo`), no other call raises it, and a call
that waits for a slot finds another one inside the tool, which has its own.

**Compositions.** `PlatformIsItsParts`, `TablesAreTheirParts` and
`ConversationIsItsParts` show that a behaviour of a composed run is one of each of
its components, fairness included, so what is proved of a component is proved of
what the run checks: `PlatformTypeCorrect` and `TablesKeepTheirLedgers` are such
consequences. `CallsKeepTheLedger` is the chain of two refinements: the calls of
`browser_execute` implement `ExecutionSaga`, which implements `EffectLedger`.

Only model-checked: the liveness properties `EveryJobSettles`,
`EveryEventIsDelivered`, `RunEnds`, `PageIsAnswered` and `EveryCallEnds`, which
need fairness and ENABLED, outside
the prover's reach (the measures of `RunEnds` and `EveryCallEnds` are proved); and
the six divergences, which are existence statements. All
other properties of the passing runs are theorems.
None of the modules with theorems uses a RECURSIVE operator.

## 5. Abstractions

- *Queue*: payloads are opaque; metrics rows are left out; a worker runs one job
  at a time, as `run_once` does.
- *Saga*: replay permits, payload hashes and the texts of errors are left out.
  An event is its plan and its kind.
- *Store write*: the fields of a plan are abstracted to which plan a product
  shows. Requests carry one plan for ever, so the conflict of fingerprints in
  `execute_once` cannot occur. A half-written `records.tmp` is left out, since
  the file is replaced in one step. A full bulkhead is one of the reasons for
  `BackendRaises`. `records.tmp` is one name for all processes
  (`idempotency.py:112`): two writers at a time can replace the file by the other's
  copy, or fail over one that is gone. The model has one copy per process, each
  replaced whole, so it keeps that copies are old and not that they are swapped;
  whatever copy lands calls completed what its writer had confirmed.
  `browser_verify` changes nothing. `reset_seller_center` is
  not in this composition; the runtime's part of it is in `ExecutionSaga`.
- *Batches*: the response snapshot kept with the turn, the counters of the
  report and the texts of errors are left out. A checkpoint whose version changed
  since the confirmation, a task being resumed elsewhere and a plan that needs
  input are all `RefuseTask`, which may happen at any time. A full bulkhead and
  every other error of the workflow are `FailTask`; whether the outcome counts as
  unknown is free, as the code derives it from the text of the error. An error
  between the record of "completed" and the end of its `try`
  (`batch_execution.py:181`) makes the `except` record the failure of an item that
  is no longer running; that raises and leaves `execute` without its finalize
  (`RecordExecution`). A resume
  through `/tasks/{id}/resume` that plans again is not modelled, nor is
  `reconcile_unknown_writes`, which nothing in the application calls. An item
  whose process died stays "running"; no path of the code leads out of it.
- *The write to the shop is not fenced*, and the model keeps it so: a stalled
  process may submit its form after its lease was taken over. No document
  promises otherwise, and no property forbids it.
- *Workflow*: the contents of artifacts, the trace and the messages are left out.
  One task; the workflows of one node (market research, product performance) run
  the same loop and write nothing. Which descendants a node has is computed by
  hand from the plan (`Below`). One save past the claim is modelled, the one after
  the first run (`FirstRunEnds`); `graph.py:871` and `932` and `facade.py:439` save
  a settled state again later. Each of those copies is settled like the first one,
  which may already land arbitrarily late in a recovery. A capability grant that
  cannot be issued (`executor.py:307`) refuses its node as `DispatchRefused` does,
  but after its delegation was counted; the model counts none, so the budgets there
  are counted from below in this one case.
- *Turns*: what the conversation graph does within a turn is one step that runs a
  task, answers or raises. The row of a stream and its first event are two
  transactions in the code (`events.py` 34-56); `OpenStream` is both, as the first
  event ends nothing and a process that dies between them leaves a stream no one
  has been told of. The tasks of a batch are saved with the turn of its message, which
  answers without a task; no other message is led to them before that. A request names its conversation and message for ever. The branch of
  `facade.py:119` that answers from a task view serves rows of older versions only.
- *Tasks*: the status of a session, which is only displayed, the sessions of a
  batch's items, the index of tasks and the texts are left out. That the router
  may be led to any task makes the model allow what some wording does.
- *Tools*: the arguments, the audit records and the cryptography of tokens are
  left out; every reason to refuse a call is one refusal. The threads of timed-out
  attempts are not followed here; those of the browser are in `WorkflowRun`. A
  conflict is recognised by the word in the error's text (`classifier.py:34`) and
  is assumed to come before the write, as the classifier assumes; the one write
  tool registered today declares no retries (`registry.py:332`), so
  `NoUncertainRepeat` is about the rule any other write tool would run under.

## 6. Not modelled, and the plan

What would come next, in this order:

1. `BrowserTickets`: use at most once and expiry, with `reset_seller_center`
   clearing the shop, the tickets, the records and the runtime's rows in four
   steps.
2. The index of tasks, messages and product links of a conversation.
3. Dead letters and the retry budget, which the executor copies for its threads
   and binds again, so that what an abandoned thread spends is lost
   (`executor.py` 838-857, against `docs/V36_TECHNICAL.md:30`).
4. Discovery and deduplication of `a2a.py`, and the workflows of one node.

Not planned: language understanding, prompts, model providers, SQL analytics,
the product catalogue, access checks, the safety gateway's rules, memory compression, user interfaces, evaluation and
reporting. They parse, render and query; their state is that of the parts above.
