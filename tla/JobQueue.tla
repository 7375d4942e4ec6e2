------------------------------ MODULE JobQueue ------------------------------
(***************************************************************************)
(* The durable job queue of app/distributed/runtime.py: tenants enqueue    *)
(* jobs, workers lease them for a bounded time, run a handler, and commit  *)
(* or fail the job under the lease token they were given.                  *)
(*                                                                         *)
(* Every method of DistributedRuntime is one BEGIN IMMEDIATE transaction,  *)
(* hence one action.  Time is relative: a row carries the ticks left until *)
(* lease_expires_at (ttl) and until available_at (delay), and Tick ages    *)
(* them.  Most methods read the clock BEFORE the transaction gets SQLite's *)
(* write lock; such a reading may be up to ClockLag ticks old when used.   *)
(***************************************************************************)
EXTENDS Integers, FiniteSets

CONSTANTS
  JobIds,         \* fresh job_id values, one per accepted enqueue
  Tenants, Keys, Payloads, Pools,
  Handled,        \* <<pool, payload>>: the pool's workers handle that job_type
  Priorities,     \* priorities clients use
  AttemptLimits,  \* max_attempts values clients use
  Workers,        \* threads or processes that run run_once in a loop
  Names, NameOf,  \* worker_id strings, and the one each worker goes by
  PoolOf,         \* the pool each worker serves
  Hosts, HostOf,  \* operating-system processes, and the one of each worker
  Capacity,       \* bulkhead capacity of each pool, per process
  GlobalLimit, TenantLimit,   \* queue depth limits
  RateLimit, RateWindow,      \* requests per window, and its length in ticks
  LeaseTicks,     \* lease_seconds
  ClockLag,       \* longest wait for the write lock, in ticks
  NoName, NoJob

ASSUME QueueAssumption ==
  /\ Handled \subseteq Pools \X Payloads
  /\ Priorities \subseteq Int
  /\ AttemptLimits \subseteq Nat \ {0}
  /\ NameOf \in [Workers -> Names] /\ NoName \notin Names
  /\ PoolOf \in [Workers -> Pools]
  /\ HostOf \in [Workers -> Hosts]
  /\ Capacity \in [Pools -> Nat \ {0}]
  /\ GlobalLimit \in Nat \ {0} /\ TenantLimit \in Nat \ {0}
  /\ RateLimit \in Nat \ {0} /\ RateWindow \in Nat \ {0}
  /\ LeaseTicks \in Nat \ {0} /\ ClockLag \in Nat
  /\ NoJob \notin JobIds
  /\ IsFiniteSet(JobIds)

VARIABLES
  req,      \* req[j]: what the client asked for (NULL columns before enqueue)
  job,      \* job[j]: the mutable columns of row j of runtime_jobs
  served,   \* tenant_dispatch_state.served_count
  rate,     \* tenant_rate_windows
  worker    \* program counter and LeaseGrant of each worker

vars == <<req, job, served, rate, worker>>

Lags == 0 .. ClockLag

Request == [tenant : Tenants, key : Keys, payload : Payloads, pool : Pools,
            priority : Priorities, maxAttempts : AttemptLimits]

Status == {"absent", "queued", "leased", "completed", "dead", "deleted"}

Lease == [owner : Names \cup {NoName}, ttl : Int]

Row == [status : Status, attempts : Nat, token : Nat, lease : Lease,
        delay : Int, created : Nat,
        result : Nat]     \* the token whose handler produced `result`; 0 is NULL

PC == {"idle", "granted", "running", "returned", "failing"}

TypeOK ==
  /\ req \in [JobIds -> Request \cup {NoJob}]
  /\ job \in [JobIds -> Row]
  /\ \A j \in JobIds : job[j].status # "absent" => req[j] \in Request
  /\ served \in [Tenants -> Nat]
  /\ rate \in [Tenants -> [age : Nat, count : 0 .. RateLimit]]
  /\ worker \in [Workers -> [pc : PC, job : JobIds \cup {NoJob}, token : Nat]]
  /\ \A w \in Workers : worker[w].pc # "idle" => worker[w].job \in JobIds

NoLease == [owner |-> NoName, ttl |-> 0]      \* lease_owner, lease_expires_at NULL

NoRow == [status |-> "absent", attempts |-> 0, token |-> 0, lease |-> NoLease,
          delay |-> 0, created |-> 0, result |-> 0]

Idle == [pc |-> "idle", job |-> NoJob, token |-> 0]

Init ==
  /\ req = [j \in JobIds |-> NoJob]
  /\ job = [j \in JobIds |-> NoRow]
  /\ served = [t \in Tenants |-> 0]
  /\ rate = [t \in Tenants |-> [age |-> RateWindow + ClockLag, count |-> 0]]
  /\ worker = [w \in Workers |-> Idle]

-----------------------------------------------------------------------------
(* The client side: enqueue.                                               *)

Active == {j \in JobIds : job[j].status \in {"queued", "leased"}}
Live   == {j \in JobIds : job[j].status \notin {"absent", "deleted"}}

HasRoom_GlobalOnly(t) == Cardinality(Active) < GlobalLimit

(* _check_backpressure                                                     *)
HasRoom(t) ==
  /\ Cardinality(Active) < GlobalLimit
  /\ Cardinality({j \in Active : req[j].tenant = t}) < TenantLimit

(* _consume_rate_slot: a fixed window, restarted by the first request that *)
(* finds it at least a minute old.                                         *)
ConsumeRateSlot(t, lag) ==
  IF rate[t].age - lag >= RateWindow
  THEN rate' = [rate EXCEPT ![t] = [age |-> lag, count |-> 1]]
  ELSE /\ rate[t].count < RateLimit
       /\ rate' = [rate EXCEPT ![t].count = @ + 1]

Enqueue_NoReplay(j, r, enforceRate, lag) ==
  /\ job[j].status = "absent"
  /\ HasRoom(r.tenant)
  /\ IF enforceRate THEN ConsumeRateSlot(r.tenant, lag) ELSE UNCHANGED rate
  /\ req' = [req EXCEPT ![j] = r]
  /\ job' = [job EXCEPT ![j] = [NoRow EXCEPT !.status = "queued"]]
  /\ UNCHANGED <<served, worker>>

(* An idempotency key that is already live is replayed or refused, which   *)
(* changes no row; so does a request refused by a limit (rolled back).     *)
Enqueue(j, r, enforceRate, lag) ==
  /\ job[j].status = "absent"
  /\ \A i \in Live : <<req[i].tenant, req[i].key>> # <<r.tenant, r.key>>
  /\ HasRoom(r.tenant)
  /\ IF enforceRate THEN ConsumeRateSlot(r.tenant, lag) ELSE UNCHANGED rate
  /\ req' = [req EXCEPT ![j] = r]
  /\ job' = [job EXCEPT ![j] =
       [NoRow EXCEPT !.status = "queued",
                     !.created = Cardinality({i \in JobIds : job[i].status # "absent"})]]
  /\ UNCHANGED <<served, worker>>

-----------------------------------------------------------------------------
(* The worker side: run_once and the methods it calls.                     *)

Expired_AnyStatus(row, lag) == row.status # "absent" /\ row.lease.ttl + lag <= 0

Expired(row, lag) == row.status = "leased" /\ row.lease.ttl + lag <= 0

(* The lease columns are cleared with every change of status.              *)
Released(row, status, delay) ==
  [row EXCEPT !.status = status, !.lease = NoLease, !.delay = delay]

(* A lost or failed attempt is retried while attempts remain.              *)
AfterLoss(row, r) == IF row.attempts >= r.maxAttempts THEN "dead" ELSE "queued"

Reclaimed_OnlyRetryable(lag) ==
  [j \in JobIds |->
     IF Expired(job[j], lag) /\ job[j].attempts < req[j].maxAttempts
     THEN Released(job[j], "queued", -lag) ELSE job[j]]

(* _reclaim_expired: every expired lease of every pool and tenant.         *)
Reclaimed(lag) ==
  [j \in JobIds |->
     IF Expired(job[j], lag)
     THEN Released(job[j], AfterLoss(job[j], req[j]), -lag) ELSE job[j]]

(* ORDER BY served_count ASC, priority DESC, created_at ASC                *)
DispatchedBefore(i, j) ==
  LET si == served[req[i].tenant]  sj == served[req[j].tenant]
      pi == req[i].priority        pj == req[j].priority
  IN  \/ si < sj
      \/ si = sj /\ pi > pj
      \/ si = sj /\ pi = pj /\ job[i].created < job[j].created

Ready(rows, pool, lag) ==
  {j \in JobIds : /\ rows[j].status = "queued"
                  /\ req[j].pool = pool
                  /\ rows[j].delay + lag <= 0}

Attempted_SameToken(row) == [row EXCEPT !.attempts = row.attempts + 1]

(* Every lease spends an attempt and gets a token of its own.              *)
Attempted(row) ==
  [row EXCEPT !.attempts = row.attempts + 1, !.token = row.token + 1]

Leased(row, w, lag) ==
  [Attempted(row) EXCEPT
     !.status = "leased", !.lease = [owner |-> NameOf[w], ttl |-> LeaseTicks - lag]]

Grant(w, j, lag) ==
  LET rows == Reclaimed(lag)  ready == Ready(rows, PoolOf[w], lag)
  IN  /\ j \in ready
      /\ \A i \in ready : ~DispatchedBefore(i, j)
      /\ job' = [rows EXCEPT ![j] = Leased(rows[j], w, lag)]
      /\ served' = [served EXCEPT ![req[j].tenant] = @ + 1]
      /\ worker' = [worker EXCEPT ![w] =
                      [pc |-> "granted", job |-> j, token |-> Leased(rows[j], w, lag).token]]

(* lease_next commits the reclaim even when no job is ready.               *)
LeaseNext(w, lag) ==
  /\ worker[w].pc = "idle"
  /\ \/ \E j \in JobIds : Grant(w, j, lag)
     \/ /\ Ready(Reclaimed(lag), PoolOf[w], lag) = {}
        /\ job' = Reclaimed(lag)
        /\ UNCHANGED <<served, worker>>
  /\ UNCHANGED <<req, rate>>

Holds_AnyToken(w, j) ==
  /\ worker[w].pc # "idle" /\ worker[w].job = j
  /\ job[j].status = "leased"
  /\ job[j].lease.owner = NameOf[w]

(* The guard of heartbeat, _owned_job: status, owner, token and expiry.    *)
Holds(w, j) ==
  /\ worker[w].pc # "idle" /\ worker[w].job = j
  /\ job[j].status = "leased"
  /\ job[j].lease.owner = NameOf[w]
  /\ job[j].token = worker[w].token

Owns(w) == \E j \in JobIds : Holds(w, j) /\ job[j].lease.ttl > 0

Goto(w, pc) == worker' = [worker EXCEPT ![w].pc = pc]
Finish(w)   == worker' = [worker EXCEPT ![w] = Idle]

(* Handlers running in w's process under w's pool: the bulkhead's count.   *)
Occupied(w) ==
  Cardinality({v \in Workers : /\ worker[v].pc = "running"
                               /\ HostOf[v] = HostOf[w] /\ PoolOf[v] = PoolOf[w]})

HasHandler(w) == <<PoolOf[w], req[worker[w].job].payload>> \in Handled

StartHandler(w) ==
  /\ worker[w].pc = "granted"
  /\ HasHandler(w)
  /\ Occupied(w) < Capacity[PoolOf[w]]
  /\ Goto(w, "running")
  /\ UNCHANGED <<req, job, served, rate>>

(* No handler is registered, or the bulkhead is full (acquire does not     *)
(* block): the attempt is spent without running anything.                  *)
RefuseHandler(w) ==
  /\ worker[w].pc = "granted"
  /\ \/ ~HasHandler(w)
     \/ Occupied(w) >= Capacity[PoolOf[w]]
  /\ Goto(w, "failing")
  /\ UNCHANGED <<req, job, served, rate>>

HandlerReturns(w) ==
  /\ worker[w].pc = "running"
  /\ Goto(w, "returned")
  /\ UNCHANGED <<req, job, served, rate>>

HandlerRaises(w) ==
  /\ worker[w].pc = "running"
  /\ Goto(w, "failing")
  /\ UNCHANGED <<req, job, served, rate>>

(* heartbeat reads the clock twice before its UPDATE: once for the guard,  *)
(* later for the new expiry.                                               *)
Heartbeat(w, lag, lag2) ==
  /\ worker[w].pc = "running" /\ lag2 <= lag
  /\ \E j \in JobIds :
       /\ Holds(w, j) /\ job[j].lease.ttl + lag > 0
       /\ job' = [job EXCEPT ![j].lease.ttl = LeaseTicks - lag2]
  /\ UNCHANGED <<req, served, rate, worker>>

(* complete: StaleLeaseError is caught by run_once, which then calls fail. *)
Complete(w) ==
  /\ worker[w].pc = "returned"
  /\ LET j == worker[w].job
     IN IF Owns(w)
        THEN /\ job' = [job EXCEPT ![j] =
                  [Released(job[j], "completed", job[j].delay) EXCEPT !.result = worker[w].token]]
             /\ Finish(w)
        ELSE Goto(w, "failing") /\ UNCHANGED job
  /\ UNCHANGED <<req, served, rate>>

(* fail: StaleLeaseError leaves run_once and ends the worker's loop; its   *)
(* place is taken by a fresh loop.                                         *)
Fail(w) ==
  /\ worker[w].pc = "failing"
  /\ LET j == worker[w].job
     IN IF Owns(w)
        THEN job' = [job EXCEPT ![j] = Released(job[j], AfterLoss(job[j], req[j]), 0)]
        ELSE UNCHANGED job
  /\ Finish(w)
  /\ UNCHANGED <<req, served, rate>>

(* The process dies and is restarted; nothing it held is released.         *)
Crash(w) ==
  /\ worker[w].pc # "idle"
  /\ Finish(w)
  /\ UNCHANGED <<req, job, served, rate>>

-----------------------------------------------------------------------------
(* reset_tenant deletes every row of the tenant.  A deleted id never comes *)
(* back (ids are uuids), so it is kept as a tombstone.                     *)
ResetTenant(t) ==
  /\ \E j \in Live : req[j].tenant = t
  /\ job' = [j \in JobIds |->
               IF j \in Live /\ req[j].tenant = t
               THEN [job[j] EXCEPT !.status = "deleted"] ELSE job[j]]
  /\ served' = [served EXCEPT ![t] = 0]
  /\ rate' = [rate EXCEPT ![t] = [age |-> RateWindow + ClockLag, count |-> 0]]
  /\ UNCHANGED <<req, worker>>

(* One tick of the wall clock.  Readings older than ClockLag do not exist, *)
(* so ages saturate there.                                                 *)
Floor(n) == IF n < -ClockLag THEN -ClockLag ELSE n

Aged(row) ==
  CASE row.status = "leased" -> [row EXCEPT !.lease.ttl = Floor(row.lease.ttl - 1)]
    [] row.status = "queued" -> [row EXCEPT !.delay = Floor(row.delay - 1)]
    [] OTHER -> row

Tick ==
  /\ job' = [j \in JobIds |-> Aged(job[j])]
  /\ rate' = [t \in Tenants |->
                IF rate[t].age < RateWindow + ClockLag
                THEN [rate[t] EXCEPT !.age = @ + 1] ELSE rate[t]]
  /\ UNCHANGED <<req, served, worker>>

-----------------------------------------------------------------------------
WorkerStep(w) ==
  \/ \E lag \in Lags : LeaseNext(w, lag)
  \/ StartHandler(w) \/ RefuseHandler(w)
  \/ HandlerReturns(w) \/ HandlerRaises(w)
  \/ Complete(w) \/ Fail(w)

Next ==
  \/ \E j \in JobIds, r \in Request, e \in BOOLEAN, lag \in Lags : Enqueue(j, r, e, lag)
  \/ \E w \in Workers : WorkerStep(w) \/ Crash(w)
  \/ \E w \in Workers, lag, lag2 \in Lags : Heartbeat(w, lag, lag2)
  \/ \E t \in Tenants : ResetTenant(t)
  \/ Tick

Spec == Init /\ [][Next]_vars

(* Worker loops poll forever and handlers end; the clock advances.         *)
Fairness == WF_vars(Tick) /\ \A w \in Workers : WF_vars(WorkerStep(w))

FairSpec == Spec /\ Fairness

-----------------------------------------------------------------------------
(* Properties.                                                             *)

(* Of all the grants in the hands of workers, slow, duplicated or revived, *)
(* at most one per job can still commit, even between workers that share a *)
(* worker_id: lease_next issues a new lease_token each time.               *)
AtMostOneValidGrant ==
  \A j \in JobIds : \A v, w \in Workers : Holds(v, j) /\ Holds(w, j) => v = w

(* A completed job carries the result of its latest lease: a worker whose  *)
(* lease was taken over never gets its result stored by complete.          *)
ResultFromLatestLease ==
  \A j \in JobIds : job[j].status = "completed" => job[j].result = job[j].token

(* A queued job can always be leased once more: reclaim and fail bury a    *)
(* job exactly when its last attempt is spent, never later.                *)
QueuedHasAttemptsLeft ==
  \A j \in JobIds :
    /\ job[j].status = "queued" => job[j].attempts < req[j].maxAttempts
    /\ job[j].status = "leased" => job[j].attempts \in 1 .. req[j].maxAttempts

(* Backpressure: retries and reclaims re-queue jobs without asking for     *)
(* room, and still neither limit of _check_backpressure is ever passed.    *)
ActiveBounded ==
  /\ Cardinality(Active) <= GlobalLimit
  /\ \A t \in Tenants : Cardinality({j \in Active : req[j].tenant = t}) <= TenantLimit

(* One live row per (tenant, idempotency key): a repeated request is       *)
(* answered from the first one's row.                                      *)
UniqueLiveKey ==
  \A i, j \in Live :
    <<req[i].tenant, req[i].key>> = <<req[j].tenant, req[j].key>> => i = j

(* A decided job is never run, re-queued or decided again by a scan, a     *)
(* late worker or a replayed request; only its tenant's reset removes it.  *)
DecidedIsFinal ==
  [][\A j \in JobIds : job[j].status \in {"completed", "dead"} =>
        job'[j] = job[j] \/ job'[j].status = "deleted"]_vars

(* Every accepted job is eventually completed or buried, whatever crashes, *)
(* raises or is refused by a bulkhead on the way.                          *)
EveryJobSettles ==
  \A j \in JobIds : job[j].status \in {"queued", "leased"} ~>
                       job[j].status \in {"completed", "dead", "deleted"}

(* The queue implements the ledger its clients see.                        *)
Shown(status) == IF status \in {"queued", "leased"} THEN "pending" ELSE status

RowsOf(r) == {j \in Live : req[j].tenant = r[1] /\ req[j].key = r[2]}

Phase == [r \in Tenants \X Keys |->
            IF RowsOf(r) = {} THEN "none"
            ELSE Shown(job[CHOOSE j \in RowsOf(r) : TRUE].status)]

Ledger == INSTANCE RequestLedger WITH phase <- Phase

(* Each request is accepted at most once and decided at most once, and     *)
(* every step of the queue is a step of the ledger or invisible in it.     *)
ImplementsLedger == Ledger!Spec
=============================================================================
