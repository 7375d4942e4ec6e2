--------------------------- MODULE JobQueueProofs ---------------------------
(***************************************************************************)
(* Theorems about JobQueue, for every number of jobs, tenants and workers, *)
(* every limit, lease length and clock lag.                                *)
(***************************************************************************)
EXTENDS JobQueue, FiniteSetTheorems, TLAPS

-----------------------------------------------------------------------------
(* What the row-level operators do to a row.                               *)

LEMMA ReleasedRow ==
  ASSUME NEW row \in Row, NEW s \in Status, NEW d \in Int
  PROVE  /\ Released(row, s, d) \in Row
         /\ Released(row, s, d).status = s
         /\ Released(row, s, d).token = row.token
         /\ Released(row, s, d).attempts = row.attempts
         /\ Released(row, s, d).result = row.result
<1>1. NoLease \in Lease
  BY DEF NoLease, Lease
<1>. QED BY <1>1 DEF Released, Row

LEMMA LeasedRow ==
  ASSUME NEW row \in Row, NEW w \in Workers, NEW lag \in Lags
  PROVE  /\ Leased(row, w, lag) \in Row
         /\ Leased(row, w, lag).status = "leased"
         /\ Leased(row, w, lag).token = row.token + 1
         /\ Leased(row, w, lag).attempts = row.attempts + 1
         /\ Leased(row, w, lag).result = row.result
<1>. DEFINE lease == [owner |-> NameOf[w], ttl |-> LeaseTicks - lag]
<1>1. lease \in Lease /\ "leased" \in Status
  BY QueueAssumption DEF Lags, Lease, Status
<1>2. /\ Attempted(row) \in Row
      /\ Attempted(row).token = row.token + 1
      /\ Attempted(row).attempts = row.attempts + 1
      /\ Attempted(row).result = row.result
  <2>1. row.token + 1 \in Nat /\ row.attempts + 1 \in Nat
    BY DEF Row
  <2>2. Attempted(row) \in Row
    BY <2>1 DEF Attempted, Row
  <2>3. Attempted(row).token = row.token + 1
    BY DEF Attempted, Row
  <2>4. Attempted(row).attempts = row.attempts + 1
    BY DEF Attempted, Row
  <2>5. Attempted(row).result = row.result
    BY DEF Attempted, Row
  <2>. QED BY <2>2, <2>3, <2>4, <2>5
<1>. HIDE DEF lease
<1>3. Leased(row, w, lag) = [Attempted(row) EXCEPT !.status = "leased", !.lease = lease]
  BY DEF Leased, lease
<1>4. Leased(row, w, lag) \in Row
  BY <1>1, <1>2, <1>3 DEF Row
<1>5. /\ Leased(row, w, lag).status = "leased"
      /\ Leased(row, w, lag).token = Attempted(row).token
      /\ Leased(row, w, lag).attempts = Attempted(row).attempts
      /\ Leased(row, w, lag).result = Attempted(row).result
  BY <1>2, <1>3 DEF Row
<1>. QED BY <1>2, <1>4, <1>5

LEMMA AgedRow ==
  ASSUME NEW row \in Row
  PROVE  /\ Aged(row) \in Row
         /\ Aged(row).status = row.status /\ Aged(row).token = row.token
         /\ Aged(row).attempts = row.attempts /\ Aged(row).result = row.result
         /\ row.status \in {"completed", "dead"} => Aged(row) = row
<1>1. \A n \in Int : Floor(n) \in Int
  BY QueueAssumption DEF Floor
<1>2. Floor(row.lease.ttl - 1) \in Int /\ Floor(row.delay - 1) \in Int
  BY <1>1 DEF Row, Lease
<1>3. CASE row.status = "leased"
  BY <1>2, <1>3 DEF Aged, Row, Lease
<1>4. CASE row.status = "queued"
  BY <1>2, <1>4 DEF Aged, Row
<1>5. CASE row.status \notin {"leased", "queued"}
  BY <1>5 DEF Aged, Row
<1>. QED BY <1>3, <1>4, <1>5

(* What an expiry scan may do to one row.                                  *)
LEMMA ReclaimedRow ==
  ASSUME TypeOK, NEW lag \in Lags, NEW j \in JobIds
  PROVE  LET row == Reclaimed(lag)[j]
         IN  /\ row \in Row
             /\ row.token = job[j].token /\ row.attempts = job[j].attempts
             /\ row.result = job[j].result
             /\ \/ row = job[j]
                \/ /\ job[j].status = "leased"
                   /\ row.status = AfterLoss(job[j], req[j])
<1>1. job[j] \in Row /\ -lag \in Int /\ AfterLoss(job[j], req[j]) \in Status
  BY QueueAssumption DEF TypeOK, Lags, AfterLoss, Status
<1>2. CASE ~Expired(job[j], lag)
  BY <1>1, <1>2 DEF Reclaimed
<1>3. CASE Expired(job[j], lag)
  <2>1. Reclaimed(lag)[j] = Released(job[j], AfterLoss(job[j], req[j]), -lag)
    BY <1>3 DEF Reclaimed
  <2>. QED BY <1>1, <1>3, <2>1, ReleasedRow DEF Expired
<1>. QED BY <1>2, <1>3
-----------------------------------------------------------------------------
(* Type correctness.                                                       *)

LEMMA InitTypeOK == Init => TypeOK
<1>. SUFFICES ASSUME Init PROVE TypeOK
  OBVIOUS
<1>1. NoRow \in Row
  BY DEF NoRow, NoLease, Row, Lease, Status
<1>2. RateWindow + ClockLag \in Nat /\ 0 \in 0 .. RateLimit
  BY QueueAssumption
<1>3. Idle \in [pc : PC, job : JobIds \cup {NoJob}, token : Nat] /\ Idle.pc = "idle"
  BY DEF Idle, PC
<1>. QED BY <1>1, <1>2, <1>3 DEF Init, TypeOK, NoRow

(* Moving a worker's program counter, or dropping its grant, keeps types.  *)
LEMMA WorkerMoves ==
  ASSUME TypeOK, NEW w \in Workers,
         \/ \E pc \in PC : worker[w].pc # "idle" /\ Goto(w, pc)
         \/ Finish(w)
  PROVE  /\ worker' \in [Workers -> [pc : PC, job : JobIds \cup {NoJob}, token : Nat]]
         /\ \A v \in Workers : worker'[v].pc # "idle" =>
              /\ worker[v].pc # "idle"
              /\ worker'[v].job = worker[v].job /\ worker'[v].token = worker[v].token
<1>1. CASE \E pc \in PC : worker[w].pc # "idle" /\ Goto(w, pc)
  BY <1>1 DEF TypeOK, Goto
<1>2. CASE Finish(w)
  BY <1>2 DEF TypeOK, Finish, Idle, PC
<1>. QED BY <1>1, <1>2

LEMMA EnqueueType ==
  ASSUME TypeOK, NEW j \in JobIds, NEW r \in Request, NEW e \in BOOLEAN, NEW lag \in Lags,
         Enqueue(j, r, e, lag)
  PROVE  TypeOK'
<1>. DEFINE n == Cardinality({i \in JobIds : job[i].status # "absent"})
            new == [NoRow EXCEPT !.status = "queued", !.created = n]
<1>1. n \in Nat
  BY QueueAssumption, FS_Subset, FS_CardinalityType
<1>2. new \in Row
  <2>1. NoRow \in Row
    BY DEF NoRow, NoLease, Row, Lease, Status
  <2>2. \A k \in Nat, s \in Status : [NoRow EXCEPT !.status = s, !.created = k] \in Row
    BY <2>1 DEF Row
  <2>. QED BY <1>1, <2>2 DEF Status
<1>3. job' = [job EXCEPT ![j] = new] /\ req' = [req EXCEPT ![j] = r]
  BY DEF Enqueue
<1>. HIDE DEF new
<1>4. job' \in [JobIds -> Row] /\ req' \in [JobIds -> Request \cup {NoJob}]
  BY <1>2, <1>3 DEF TypeOK
<1>5. \A i \in JobIds : job'[i].status # "absent" => req'[i] \in Request
  <2>. SUFFICES ASSUME NEW i \in JobIds, job'[i].status # "absent"
                PROVE  req'[i] \in Request
    OBVIOUS
  <2>1. CASE i = j
    BY <1>3, <2>1 DEF TypeOK
  <2>2. CASE i # j
    BY <1>3, <2>2 DEF TypeOK
  <2>. QED BY <2>1, <2>2
<1>6. rate' \in [Tenants -> [age : Nat, count : 0 .. RateLimit]]
  <2>1. r.tenant \in Tenants /\ lag \in Nat
    BY QueueAssumption DEF Request, Lags
  <2>2. CASE e
    <3>1. rate[r.tenant] \in [age : Nat, count : 0 .. RateLimit]
      BY <2>1 DEF TypeOK
    <3>2. CASE rate[r.tenant].age - lag >= RateWindow
      <4>1. [age |-> lag, count |-> 1] \in [age : Nat, count : 0 .. RateLimit]
        BY <2>1, QueueAssumption
      <4>2. rate' = [rate EXCEPT ![r.tenant] = [age |-> lag, count |-> 1]]
        BY <2>2, <3>2 DEF Enqueue, ConsumeRateSlot
      <4>. QED BY <4>1, <4>2 DEF TypeOK
    <3>3. CASE ~(rate[r.tenant].age - lag >= RateWindow)
      <4>1. rate[r.tenant].count + 1 \in 0 .. RateLimit
        BY <2>2, <3>1, <3>3, QueueAssumption DEF Enqueue, ConsumeRateSlot
      <4>2. rate' = [rate EXCEPT ![r.tenant].count = rate[r.tenant].count + 1]
        BY <2>2, <3>3 DEF Enqueue, ConsumeRateSlot
      <4>. QED BY <3>1, <4>1, <4>2 DEF TypeOK
    <3>. QED BY <3>2, <3>3
  <2>3. CASE ~e
    BY <2>3 DEF Enqueue, TypeOK
  <2>. QED BY <2>2, <2>3
<1>. QED BY <1>4, <1>5, <1>6 DEF TypeOK, Enqueue

LEMMA LeaseNextType ==
  ASSUME TypeOK, NEW w \in Workers, NEW lag \in Lags, LeaseNext(w, lag)
  PROVE  TypeOK'
<1>1. Reclaimed(lag) \in [JobIds -> Row]
  BY ReclaimedRow DEF Reclaimed
<1>2. \A i \in JobIds : Reclaimed(lag)[i].status # "absent" => req[i] \in Request
  BY ReclaimedRow DEF TypeOK
<1>3. CASE job' = Reclaimed(lag) /\ UNCHANGED <<served, worker>>
  BY <1>1, <1>2, <1>3 DEF LeaseNext, TypeOK
<1>4. ASSUME NEW j \in JobIds, Grant(w, j, lag)
      PROVE  TypeOK'
  <2>1. Reclaimed(lag)[j] \in Row /\ Reclaimed(lag)[j].status = "queued"
    BY <1>1, <1>4 DEF Grant, Ready
  <2>2. job' = [Reclaimed(lag) EXCEPT ![j] = Leased(Reclaimed(lag)[j], w, lag)]
    BY <1>4 DEF Grant
  <2>3. job' \in [JobIds -> Row]
    BY <1>1, <2>1, <2>2, LeasedRow
  <2>4. \A i \in JobIds : job'[i].status # "absent" => req'[i] \in Request
    BY <1>1, <1>2, <2>1, <2>2, LeasedRow DEF LeaseNext
  <2>5. req[j].tenant \in Tenants
    BY <1>2, <2>1 DEF Request
  <2>6. served' \in [Tenants -> Nat]
    BY <1>4, <2>5 DEF Grant, TypeOK
  <2>7. Leased(Reclaimed(lag)[j], w, lag).token \in Nat
    BY <2>1, LeasedRow DEF Row
  <2>8. /\ worker' \in [Workers -> [pc : PC, job : JobIds \cup {NoJob}, token : Nat]]
        /\ \A v \in Workers : worker'[v].pc # "idle" => worker'[v].job \in JobIds
    BY <1>4, <2>7 DEF Grant, TypeOK, PC
  <2>. QED BY <2>3, <2>4, <2>6, <2>8 DEF LeaseNext, TypeOK
<1>. QED BY <1>3, <1>4 DEF LeaseNext

LEMMA WorkerStepType ==
  ASSUME TypeOK, NEW w \in Workers,
         \/ StartHandler(w) \/ RefuseHandler(w) \/ HandlerReturns(w) \/ HandlerRaises(w)
         \/ Complete(w) \/ Fail(w) \/ Crash(w)
  PROVE  TypeOK'
<1>1. ASSUME UNCHANGED <<req, job, served, rate>>,
             \/ \E pc \in PC : worker[w].pc # "idle" /\ Goto(w, pc)
             \/ Finish(w)
      PROVE  TypeOK'
  BY <1>1, WorkerMoves DEF TypeOK
<1>2. CASE StartHandler(w) \/ RefuseHandler(w) \/ HandlerReturns(w) \/ HandlerRaises(w)
  BY <1>1, <1>2 DEF StartHandler, RefuseHandler, HandlerReturns, HandlerRaises, PC
<1>3. CASE Crash(w)
  BY <1>1, <1>3 DEF Crash
<1>. DEFINE j == worker[w].job
<1>4. CASE Complete(w)
  <2>1. CASE ~Owns(w)
    BY <1>1, <1>4, <2>1 DEF Complete, PC
  <2>2. CASE Owns(w)
    <3>1. j \in JobIds /\ worker[w].token \in Nat /\ job[j] \in Row /\ req[j] \in Request
      BY <2>2 DEF Owns, Holds, TypeOK
    <3>2. Released(job[j], "completed", job[j].delay) \in Row
      <4>1. "completed" \in Status /\ job[j].delay \in Int
        BY <3>1 DEF Row, Status
      <4>. QED BY <3>1, <4>1, ReleasedRow
    <3>3. [Released(job[j], "completed", job[j].delay) EXCEPT !.result = worker[w].token] \in Row
      BY <3>1, <3>2 DEF Row
    <3>4. job' = [job EXCEPT ![j] =
             [Released(job[j], "completed", job[j].delay) EXCEPT !.result = worker[w].token]]
      BY <1>4, <2>2 DEF Complete
    <3>5. job' \in [JobIds -> Row]
      BY <3>1, <3>3, <3>4 DEF TypeOK
    <3>6. \A i \in JobIds : job'[i].status # "absent" => req[i] \in Request
      BY <3>1, <3>4 DEF TypeOK
    <3>. QED BY <1>4, <2>2, <3>5, <3>6, WorkerMoves DEF Complete, TypeOK
  <2>. QED BY <2>1, <2>2
<1>5. CASE Fail(w)
  <2>1. CASE ~Owns(w)
    BY <1>1, <1>5, <2>1 DEF Fail
  <2>2. CASE Owns(w)
    <3>1. j \in JobIds /\ job[j] \in Row /\ req[j] \in Request
      BY <2>2 DEF Owns, Holds, TypeOK
    <3>2. Released(job[j], AfterLoss(job[j], req[j]), 0) \in Row
      <4>1. AfterLoss(job[j], req[j]) \in Status
        BY DEF AfterLoss, Status
      <4>. QED BY <3>1, <4>1, ReleasedRow
    <3>3. job' = [job EXCEPT ![j] = Released(job[j], AfterLoss(job[j], req[j]), 0)]
      BY <1>5, <2>2 DEF Fail
    <3>4. /\ job' \in [JobIds -> Row]
          /\ \A i \in JobIds : job'[i].status # "absent" => req[i] \in Request
      BY <3>1, <3>2, <3>3 DEF TypeOK
    <3>. QED BY <1>5, <3>4, WorkerMoves DEF Fail, TypeOK
  <2>. QED BY <2>1, <2>2
<1>. QED BY <1>2, <1>3, <1>4, <1>5

LEMMA HeartbeatType ==
  ASSUME TypeOK, NEW w \in Workers, NEW lag \in Lags, NEW lag2 \in Lags,
         Heartbeat(w, lag, lag2)
  PROVE  /\ TypeOK'
         /\ \A j \in JobIds : /\ job'[j].status = job[j].status
                              /\ job'[j].token = job[j].token
                              /\ job'[j].attempts = job[j].attempts
                              /\ job'[j].result = job[j].result
                              /\ job[j].status # "leased" => job'[j] = job[j]
<1>1. PICK j \in JobIds : Holds(w, j) /\ job' = [job EXCEPT ![j].lease.ttl = LeaseTicks - lag2]
  BY DEF Heartbeat
<1>2. LeaseTicks - lag2 \in Int
  BY QueueAssumption DEF Lags
<1>3. job[j] \in Row /\ job[j].status = "leased"
  BY <1>1 DEF TypeOK, Holds
<1>. DEFINE row == [job[j] EXCEPT !.lease.ttl = LeaseTicks - lag2]
<1>4. /\ row \in Row /\ row.status = job[j].status /\ row.token = job[j].token
      /\ row.attempts = job[j].attempts /\ row.result = job[j].result
  BY <1>2, <1>3 DEF Row, Lease
<1>5. job' = [job EXCEPT ![j] = row]
  BY <1>1
<1>. HIDE DEF row
<1>6. job' \in [JobIds -> Row]
  BY <1>4, <1>5 DEF TypeOK
<1>. QED BY <1>3, <1>4, <1>5, <1>6 DEF Heartbeat, TypeOK

LEMMA ResetType ==
  ASSUME TypeOK, NEW t \in Tenants, ResetTenant(t)
  PROVE  /\ TypeOK'
         /\ \A j \in JobIds : /\ job'[j].token = job[j].token
                              /\ job'[j].attempts = job[j].attempts
                              /\ job'[j].result = job[j].result
                              /\ job'[j] = job[j] \/ job'[j].status = "deleted"
<1>1. \A row \in Row : LET gone == [row EXCEPT !.status = "deleted"]
                        IN  /\ gone \in Row /\ gone.status = "deleted"
                            /\ gone.token = row.token /\ gone.attempts = row.attempts
                            /\ gone.result = row.result
  BY DEF Row, Status
<1>2. \A j \in JobIds : /\ job'[j] \in Row /\ job'[j].token = job[j].token
                        /\ job'[j].attempts = job[j].attempts
                        /\ job'[j].result = job[j].result
                        /\ \/ job'[j] = job[j]
                           \/ j \in Live /\ job'[j].status = "deleted"
  BY <1>1 DEF ResetTenant, TypeOK
<1>3. job' \in [JobIds -> Row]
  BY <1>2 DEF ResetTenant
<1>4. \A j \in JobIds : job'[j].status # "absent" => req'[j] \in Request
  BY <1>2 DEF ResetTenant, TypeOK, Live
<1>5. [age |-> RateWindow + ClockLag, count |-> 0] \in [age : Nat, count : 0 .. RateLimit]
  BY QueueAssumption
<1>6. rate' \in [Tenants -> [age : Nat, count : 0 .. RateLimit]]
  BY <1>5 DEF ResetTenant, TypeOK
<1>. QED BY <1>2, <1>3, <1>4, <1>6 DEF ResetTenant, TypeOK

LEMMA TickType ==
  ASSUME TypeOK, Tick
  PROVE  TypeOK'
<1>1. job' \in [JobIds -> Row]
  BY AgedRow DEF Tick, TypeOK
<1>2. \A j \in JobIds : job'[j].status # "absent" => req'[j] \in Request
  BY AgedRow DEF Tick, TypeOK
<1>3. \A q \in [age : Nat, count : 0 .. RateLimit] :
        [q EXCEPT !.age = q.age + 1] \in [age : Nat, count : 0 .. RateLimit]
  OBVIOUS
<1>4. rate' \in [Tenants -> [age : Nat, count : 0 .. RateLimit]]
  BY <1>3 DEF Tick, TypeOK
<1>. QED BY <1>1, <1>2, <1>4 DEF Tick, TypeOK

LEMMA NextTypeOK == TypeOK /\ [Next]_vars => TypeOK'
<1>. SUFFICES ASSUME TypeOK, [Next]_vars PROVE TypeOK'
  OBVIOUS
<1>1. CASE UNCHANGED vars
  BY <1>1 DEF vars, TypeOK
<1>2. ASSUME NEW j \in JobIds, NEW r \in Request, NEW e \in BOOLEAN, NEW lag \in Lags,
             Enqueue(j, r, e, lag)
      PROVE  TypeOK'
  BY <1>2, EnqueueType
<1>3. ASSUME NEW w \in Workers, WorkerStep(w) \/ Crash(w) PROVE TypeOK'
  BY <1>3, LeaseNextType, WorkerStepType DEF WorkerStep
<1>4. ASSUME NEW w \in Workers, NEW lag \in Lags, NEW lag2 \in Lags, Heartbeat(w, lag, lag2)
      PROVE  TypeOK'
  BY <1>4, HeartbeatType
<1>5. ASSUME NEW t \in Tenants, ResetTenant(t) PROVE TypeOK'
  BY <1>5, ResetType
<1>6. CASE Tick
  BY <1>6, TickType
<1>. QED BY <1>1, <1>2, <1>3, <1>4, <1>5, <1>6 DEF Next

(* The tables, the workers' grants and the rate windows keep their types.  *)
THEOREM QueueTypeCorrect == Spec => []TypeOK
BY InitTypeOK, NextTypeOK, PTL DEF Spec
-----------------------------------------------------------------------------
(* The inductive invariant.  That at most one grant per job can commit is  *)
(* not inductive by itself: it needs every grant ever handed out to be     *)
(* older than the row's token, and no two workers to hold the same one.    *)

GrantsIssued ==
  \A w \in Workers : worker[w].pc # "idle" =>
    /\ job[worker[w].job].status # "absent"
    /\ worker[w].token \in 1 .. job[worker[w].job].token

GrantsDistinct ==
  \A v, w \in Workers :
    /\ worker[v].pc # "idle" /\ worker[w].pc # "idle"
    /\ worker[v].job = worker[w].job /\ worker[v].token = worker[w].token
    => v = w

IInv == /\ TypeOK
        /\ GrantsIssued /\ GrantsDistinct
        /\ ResultFromLatestLease /\ QueuedHasAttemptsLeft /\ UniqueLiveKey

LEMMA InitIInv == Init => IInv
<1>. SUFFICES ASSUME Init PROVE IInv
  OBVIOUS
<1>1. TypeOK
  BY InitTypeOK
<1>2. GrantsIssued /\ GrantsDistinct
  BY DEF Init, Idle, GrantsIssued, GrantsDistinct
<1>3. ResultFromLatestLease /\ QueuedHasAttemptsLeft /\ UniqueLiveKey
  BY DEF Init, NoRow, ResultFromLatestLease, QueuedHasAttemptsLeft, UniqueLiveKey, Live
<1>. QED BY <1>1, <1>2, <1>3 DEF IInv

(* Most steps only move a row's status, and never hand out a grant.        *)
Frame(j) ==
  /\ job'[j].token = job[j].token /\ job'[j].attempts = job[j].attempts
  /\ job'[j].result = job[j].result
  /\ \/ job'[j].status = job[j].status
     \/ job'[j].status = "deleted"
     \/ job[j].status = "leased" /\ job'[j].status = AfterLoss(job[j], req[j])

KeepsGrants ==
  \A v \in Workers : worker'[v].pc # "idle" =>
    /\ worker[v].pc # "idle"
    /\ worker'[v].job = worker[v].job /\ worker'[v].token = worker[v].token

LEMMA FrameStep ==
  ASSUME IInv, TypeOK', req' = req, KeepsGrants, \A j \in JobIds : Frame(j)
  PROVE  IInv'
<1>1. GrantsIssued'
  BY DEF IInv, GrantsIssued, KeepsGrants, Frame, AfterLoss, TypeOK
<1>2. GrantsDistinct'
  BY DEF IInv, GrantsDistinct, KeepsGrants
<1>3. ResultFromLatestLease'
  BY DEF IInv, ResultFromLatestLease, Frame, AfterLoss
<1>4. QueuedHasAttemptsLeft'
  <2>. SUFFICES ASSUME NEW j \in JobIds, job'[j].status \in {"queued", "leased"}
                PROVE  /\ job'[j].status = "queued" => job'[j].attempts < req'[j].maxAttempts
                       /\ job'[j].status = "leased" => job'[j].attempts \in 1 .. req'[j].maxAttempts
    BY DEF QueuedHasAttemptsLeft
  <2>1. Frame(j)
    OBVIOUS
  <2>2. job[j].status \in {"queued", "leased"}
    BY <2>1 DEF Frame
  <2>3. job[j].attempts \in Nat /\ req[j].maxAttempts \in Nat
    BY <2>2, QueueAssumption DEF IInv, TypeOK, Row, Request
  <2>. QED BY <2>1, <2>2, <2>3 DEF IInv, QueuedHasAttemptsLeft, Frame, AfterLoss
<1>5. UniqueLiveKey'
  <2>1. Live' \subseteq Live
    BY DEF Live, Frame
  <2>. QED BY <2>1 DEF IInv, UniqueLiveKey
<1>. QED BY <1>1, <1>2, <1>3, <1>4, <1>5 DEF IInv

LEMMA EnqueueIInv ==
  ASSUME IInv, TypeOK', NEW j \in JobIds, NEW r \in Request, NEW e \in BOOLEAN,
         NEW lag \in Lags, Enqueue(j, r, e, lag)
  PROVE  IInv'
<1>1. /\ job[j].status = "absent" /\ job'[j].status = "queued" /\ job'[j].attempts = 0
      /\ req'[j] = r
      /\ \A i \in JobIds \ {j} : job'[i] = job[i] /\ req'[i] = req[i]
  BY DEF Enqueue, IInv, TypeOK, NoRow, Row
<1>2. r.maxAttempts \in Nat \ {0}
  BY QueueAssumption DEF Request
<1>3. GrantsIssued' /\ GrantsDistinct'
  <2>1. worker' = worker
    BY DEF Enqueue
  <2>2. \A w \in Workers : worker[w].pc # "idle" => worker[w].job # j
    BY <1>1 DEF IInv, GrantsIssued
  <2>. QED BY <1>1, <2>1, <2>2 DEF IInv, GrantsIssued, GrantsDistinct, TypeOK
<1>4. ResultFromLatestLease'
  BY <1>1 DEF IInv, ResultFromLatestLease
<1>5. QueuedHasAttemptsLeft'
  BY <1>1, <1>2 DEF IInv, QueuedHasAttemptsLeft
<1>6. UniqueLiveKey'
  BY <1>1 DEF IInv, UniqueLiveKey, Live, Enqueue
<1>. QED BY <1>3, <1>4, <1>5, <1>6 DEF IInv
LEMMA LeaseNextIInv ==
  ASSUME IInv, TypeOK', NEW w \in Workers, NEW lag \in Lags, LeaseNext(w, lag)
  PROVE  IInv'
<1>. DEFINE rows == Reclaimed(lag)
<1>1. TypeOK /\ req' = req /\ worker[w].pc = "idle"
  BY DEF IInv, LeaseNext
<1>2. \A i \in JobIds :
        /\ rows[i] \in Row
        /\ rows[i].token = job[i].token /\ rows[i].attempts = job[i].attempts
        /\ rows[i].result = job[i].result
        /\ \/ rows[i] = job[i]
           \/ job[i].status = "leased" /\ rows[i].status = AfterLoss(job[i], req[i])
  BY <1>1, ReclaimedRow
<1>3. CASE job' = rows /\ UNCHANGED <<served, worker>>
  <2>1. \A i \in JobIds : Frame(i)
    BY <1>2, <1>3 DEF Frame
  <2>2. KeepsGrants
    BY <1>3 DEF KeepsGrants
  <2>. QED BY <1>1, <2>1, <2>2, FrameStep
<1>4. ASSUME NEW j \in JobIds, Grant(w, j, lag)
      PROVE  IInv'
  <2>1. rows[j].status = "queued"
    BY <1>4 DEF Grant, Ready
  <2>2. /\ job'[j].status = "leased" /\ job'[j].token = job[j].token + 1
        /\ job'[j].attempts = job[j].attempts + 1 /\ job'[j].result = job[j].result
        /\ \A i \in JobIds \ {j} : job'[i] = rows[i]
        /\ worker'[w].job = j /\ worker'[w].token = job[j].token + 1
        /\ \A v \in Workers \ {w} : worker'[v] = worker[v]
    <3>1. job' = [rows EXCEPT ![j] = Leased(rows[j], w, lag)] /\ rows[j] \in Row
      BY <1>2, <1>4 DEF Grant
    <3>2. /\ Leased(rows[j], w, lag).status = "leased"
          /\ Leased(rows[j], w, lag).token = job[j].token + 1
          /\ Leased(rows[j], w, lag).attempts = job[j].attempts + 1
          /\ Leased(rows[j], w, lag).result = job[j].result
      BY <1>2, <3>1, LeasedRow
    <3>3. job'[j] = Leased(rows[j], w, lag) /\ \A i \in JobIds \ {j} : job'[i] = rows[i]
      BY <3>1 DEF Reclaimed
    <3>4. worker' = [worker EXCEPT ![w] =
             [pc |-> "granted", job |-> j, token |-> Leased(rows[j], w, lag).token]]
      BY <1>4 DEF Grant
    <3>5. /\ worker'[w].job = j /\ worker'[w].token = job[j].token + 1
          /\ \A v \in Workers \ {w} : worker'[v] = worker[v]
      BY <1>1, <3>2, <3>4 DEF TypeOK
    <3>. QED BY <3>2, <3>3, <3>5
  <2>3. job[j].token \in Nat /\ job[j].attempts \in Nat /\ req[j].maxAttempts \in Nat
    <3>1. job[j].status # "absent"
      BY <1>2, <2>1
    <3>. QED BY <1>1, <3>1, QueueAssumption DEF TypeOK, Row, Request
  <2>4. GrantsIssued'
    <3>. SUFFICES ASSUME NEW v \in Workers, worker'[v].pc # "idle"
                  PROVE  /\ job'[worker'[v].job].status # "absent"
                         /\ worker'[v].token \in 1 .. job'[worker'[v].job].token
      BY DEF GrantsIssued
    <3>1. CASE v = w
      BY <2>2, <2>3, <3>1
    <3>2. CASE v # w
      <4>1. worker'[v] = worker[v] /\ worker[v].job \in JobIds
        BY <1>1, <2>2, <3>2 DEF TypeOK
      <4>2. /\ job[worker[v].job].status # "absent"
            /\ worker[v].token \in 1 .. job[worker[v].job].token
        BY <4>1 DEF IInv, GrantsIssued
      <4>3. CASE worker[v].job = j
        BY <2>2, <2>3, <4>1, <4>2, <4>3
      <4>4. CASE worker[v].job # j
        BY <1>2, <2>2, <4>1, <4>2, <4>4 DEF AfterLoss
      <4>. QED BY <4>3, <4>4
    <3>. QED BY <3>1, <3>2
  <2>5. GrantsDistinct'
    <3>1. \A v \in Workers \ {w} : worker'[v].pc # "idle" =>
            ~(worker'[v].job = j /\ worker'[v].token = job[j].token + 1)
      BY <2>2, <2>3 DEF IInv, GrantsIssued
    <3>. QED BY <2>2, <3>1 DEF IInv, GrantsDistinct
  <2>6. ResultFromLatestLease'
    BY <1>2, <2>2 DEF IInv, ResultFromLatestLease, AfterLoss
  <2>7. QueuedHasAttemptsLeft'
    <3>. SUFFICES ASSUME NEW i \in JobIds
                  PROVE  /\ job'[i].status = "queued" => job'[i].attempts < req[i].maxAttempts
                         /\ job'[i].status = "leased" => job'[i].attempts \in 1 .. req[i].maxAttempts
      BY <1>1 DEF QueuedHasAttemptsLeft
    <3>1. CASE i = j
      <4>1. job[j].attempts < req[j].maxAttempts
        BY <1>2, <2>1, <2>3 DEF IInv, QueuedHasAttemptsLeft, AfterLoss
      <4>. QED BY <2>2, <2>3, <3>1, <4>1
    <3>2. CASE i # j
      <4>1. job'[i] = rows[i]
        BY <2>2, <3>2
      <4>2. CASE rows[i] = job[i]
        BY <4>1, <4>2 DEF IInv, QueuedHasAttemptsLeft
      <4>3. CASE job[i].status = "leased" /\ rows[i].status = AfterLoss(job[i], req[i])
        <5>1. job[i].attempts \in Nat /\ req[i].maxAttempts \in Nat
          BY <1>1, <4>3, QueueAssumption DEF TypeOK, Row, Request
        <5>. QED BY <1>2, <4>1, <4>3, <5>1 DEF AfterLoss
      <4>. QED BY <1>2, <4>2, <4>3
    <3>. QED BY <3>1, <3>2
  <2>8. UniqueLiveKey'
    <3>1. Live' \subseteq Live
      <4>1. job[j].status = "queued" \/ job[j].status = "leased"
        BY <1>2, <2>1
      <4>. QED BY <1>2, <2>2, <4>1 DEF Live, AfterLoss
    <3>. QED BY <1>1, <3>1 DEF IInv, UniqueLiveKey
  <2>. QED BY <2>4, <2>5, <2>6, <2>7, <2>8 DEF IInv
<1>. QED BY <1>3, <1>4 DEF LeaseNext
(* A worker that commits or fails does so on the row it owns, with the     *)
(* row's own token.                                                        *)
LEMMA OwnedRow ==
  ASSUME TypeOK, NEW w \in Workers, Owns(w)
  PROVE  LET j == worker[w].job
         IN  /\ j \in JobIds /\ job[j] \in Row /\ req[j] \in Request
             /\ job[j].status = "leased" /\ worker[w].token = job[j].token
BY DEF Owns, Holds, TypeOK

LEMMA WorkerStepIInv ==
  ASSUME IInv, TypeOK', NEW w \in Workers,
         \/ StartHandler(w) \/ RefuseHandler(w) \/ HandlerReturns(w) \/ HandlerRaises(w)
         \/ Complete(w) \/ Fail(w) \/ Crash(w)
  PROVE  IInv'
<1>1. TypeOK
  BY DEF IInv
<1>2. req' = req
  BY DEF StartHandler, RefuseHandler, HandlerReturns, HandlerRaises, Complete, Fail, Crash
<1>3. KeepsGrants
  <2>1. \/ \E pc \in PC : worker[w].pc # "idle" /\ Goto(w, pc)
        \/ Finish(w)
    BY DEF StartHandler, RefuseHandler, HandlerReturns, HandlerRaises, Complete, Fail,
           Crash, PC
  <2>. QED BY <1>1, <2>1, WorkerMoves DEF KeepsGrants
<1>4. CASE job' = job
  BY <1>2, <1>3, <1>4, FrameStep DEF Frame
<1>. DEFINE j == worker[w].job
            done == [Released(job[j], "completed", job[j].delay) EXCEPT !.result = worker[w].token]
<1>5. CASE Complete(w) /\ Owns(w)
  <2>1. /\ j \in JobIds /\ job[j] \in Row /\ job[j].status = "leased"
        /\ worker[w].token = job[j].token /\ job[j].token \in Nat
    BY <1>1, <1>5, OwnedRow DEF Row
  <2>2. job' = [job EXCEPT ![j] = done]
    BY <1>5 DEF Complete
  <2>3. "completed" \in Status /\ job[j].delay \in Int
    BY <2>1 DEF Row, Status
  <2>4. LET row == Released(job[j], "completed", job[j].delay)
        IN  /\ row \in Row /\ row.status = "completed" /\ row.token = job[j].token
            /\ row.attempts = job[j].attempts
    BY <2>1, <2>3, ReleasedRow
  <2>5. /\ done.status = "completed" /\ done.token = job[j].token
        /\ done.attempts = job[j].attempts /\ done.result = job[j].token
    BY <2>1, <2>4 DEF Row
  <2>. HIDE DEF done
  <2>6. /\ job'[j] = done /\ \A i \in JobIds \ {j} : job'[i] = job[i]
    BY <1>1, <2>1, <2>2 DEF TypeOK
  <2>7. GrantsIssued'
    BY <1>1, <1>3, <2>5, <2>6 DEF IInv, GrantsIssued, KeepsGrants, TypeOK
  <2>8. GrantsDistinct'
    BY <1>3 DEF IInv, GrantsDistinct, KeepsGrants
  <2>9. ResultFromLatestLease'
    BY <2>5, <2>6 DEF IInv, ResultFromLatestLease
  <2>10. QueuedHasAttemptsLeft'
    BY <1>2, <2>5, <2>6 DEF IInv, QueuedHasAttemptsLeft
  <2>11. UniqueLiveKey'
    BY <1>2, <2>1, <2>5, <2>6 DEF IInv, UniqueLiveKey, Live
  <2>. QED BY <2>7, <2>8, <2>9, <2>10, <2>11 DEF IInv
<1>6. CASE Fail(w) /\ Owns(w)
  <2>1. /\ j \in JobIds /\ job[j] \in Row /\ job[j].status = "leased"
    BY <1>1, <1>6, OwnedRow
  <2>2. job' = [job EXCEPT ![j] = Released(job[j], AfterLoss(job[j], req[j]), 0)]
    BY <1>6 DEF Fail
  <2>3. AfterLoss(job[j], req[j]) \in Status
    BY DEF AfterLoss, Status
  <2>4. LET row == Released(job[j], AfterLoss(job[j], req[j]), 0)
        IN  /\ row.status = AfterLoss(job[j], req[j]) /\ row.token = job[j].token
            /\ row.attempts = job[j].attempts /\ row.result = job[j].result
    BY <2>1, <2>3, ReleasedRow
  <2>5. \A i \in JobIds : Frame(i)
    BY <1>1, <2>1, <2>2, <2>4 DEF Frame, TypeOK
  <2>. QED BY <1>2, <1>3, <2>5, FrameStep
<1>. QED BY <1>4, <1>5, <1>6
     DEF StartHandler, RefuseHandler, HandlerReturns, HandlerRaises, Complete, Fail, Crash

LEMMA HeartbeatIInv ==
  ASSUME IInv, NEW w \in Workers, NEW lag \in Lags, NEW lag2 \in Lags,
         Heartbeat(w, lag, lag2)
  PROVE  IInv'
<1>1. TypeOK
  BY DEF IInv
<1>2. /\ TypeOK'
      /\ \A j \in JobIds : /\ job'[j].status = job[j].status
                           /\ job'[j].token = job[j].token
                           /\ job'[j].attempts = job[j].attempts
                           /\ job'[j].result = job[j].result
                           /\ job[j].status # "leased" => job'[j] = job[j]
  BY <1>1, HeartbeatType
<1>3. \A j \in JobIds : Frame(j)
  BY <1>2 DEF Frame
<1>4. req' = req /\ KeepsGrants
  BY DEF Heartbeat, KeepsGrants
<1>. QED BY <1>2, <1>3, <1>4, FrameStep

LEMMA ResetIInv ==
  ASSUME IInv, NEW t \in Tenants, ResetTenant(t)
  PROVE  IInv'
<1>1. TypeOK
  BY DEF IInv
<1>2. /\ TypeOK'
      /\ \A j \in JobIds : /\ job'[j].token = job[j].token
                           /\ job'[j].attempts = job[j].attempts
                           /\ job'[j].result = job[j].result
                           /\ job'[j] = job[j] \/ job'[j].status = "deleted"
  BY <1>1, ResetType
<1>3. \A j \in JobIds : Frame(j)
  BY <1>2 DEF Frame
<1>4. req' = req /\ KeepsGrants
  BY DEF ResetTenant, KeepsGrants
<1>. QED BY <1>2, <1>3, <1>4, FrameStep

LEMMA NextIInv == IInv /\ [Next]_vars => IInv'
<1>. SUFFICES ASSUME IInv, [Next]_vars PROVE IInv'
  OBVIOUS
<1>1. TypeOK /\ TypeOK'
  BY NextTypeOK DEF IInv
<1>2. CASE UNCHANGED vars
  BY <1>1, <1>2, FrameStep DEF vars, Frame, KeepsGrants
<1>3. ASSUME NEW j \in JobIds, NEW r \in Request, NEW e \in BOOLEAN, NEW lag \in Lags,
             Enqueue(j, r, e, lag)
      PROVE  IInv'
  BY <1>1, <1>3, EnqueueIInv
<1>4. ASSUME NEW w \in Workers, WorkerStep(w) \/ Crash(w) PROVE IInv'
  BY <1>1, <1>4, LeaseNextIInv, WorkerStepIInv DEF WorkerStep
<1>5. ASSUME NEW w \in Workers, NEW lag \in Lags, NEW lag2 \in Lags, Heartbeat(w, lag, lag2)
      PROVE  IInv'
  BY <1>5, HeartbeatIInv
<1>6. ASSUME NEW t \in Tenants, ResetTenant(t) PROVE IInv'
  BY <1>6, ResetIInv
<1>7. CASE Tick
  <2>1. \A j \in JobIds : Frame(j)
    BY <1>1, <1>7, AgedRow DEF Frame, Tick, TypeOK
  <2>2. req' = req /\ KeepsGrants
    BY <1>7 DEF Tick, KeepsGrants
  <2>. QED BY <1>1, <2>1, <2>2, FrameStep
<1>. QED BY <1>2, <1>3, <1>4, <1>5, <1>6, <1>7 DEF Next

LEMMA AlwaysIInv == Spec => []IInv
BY InitIInv, NextIInv, PTL DEF Spec

LEMMA GrantsDistinctGivesFencing == IInv => AtMostOneValidGrant
BY DEF IInv, GrantsDistinct, AtMostOneValidGrant, Holds

(* Of all grants ever handed out for a job, at most one can still commit,  *)
(* whichever workers crashed, stalled or share a worker_id.                *)
THEOREM LeaseFencing == Spec => []AtMostOneValidGrant
BY AlwaysIInv, GrantsDistinctGivesFencing, PTL

(* The result of a completed job was produced under its latest lease.      *)
THEOREM CompletedUnderLatestLease == Spec => []ResultFromLatestLease
<1>1. IInv => ResultFromLatestLease
  BY DEF IInv
<1>. QED BY <1>1, AlwaysIInv, PTL

(* No queued job has spent its attempts: what waits can still be leased.   *)
THEOREM NoExhaustedJobWaits == Spec => []QueuedHasAttemptsLeft
<1>1. IInv => QueuedHasAttemptsLeft
  BY DEF IInv
<1>. QED BY <1>1, AlwaysIInv, PTL

(* One live row per idempotency key of a tenant.                           *)
THEOREM OneJobPerKey == Spec => []UniqueLiveKey
<1>1. IInv => UniqueLiveKey
  BY DEF IInv
<1>. QED BY <1>1, AlwaysIInv, PTL

-----------------------------------------------------------------------------
(* Backpressure.  Only enqueue adds an active row, and it asks for room.   *)

ActiveOf(t) == {j \in Active : req[j].tenant = t}

LEMMA ActiveFinite ==
  IsFiniteSet(JobIds) => IsFiniteSet(Active) /\ \A t : IsFiniteSet(ActiveOf(t))
BY FS_Subset DEF Active, ActiveOf

(* A step that activates no row and renames no tenant keeps the bounds.    *)
LEMMA ShrinkingActive ==
  ASSUME ActiveBounded, req' = req, Active' \subseteq Active
  PROVE  ActiveBounded'
<1>1. Cardinality(Active') <= Cardinality(Active)
  BY QueueAssumption, ActiveFinite, FS_Subset
<1>2. ASSUME NEW t \in Tenants
      PROVE  Cardinality(ActiveOf(t)') <= Cardinality(ActiveOf(t))
  <2>1. ActiveOf(t)' \subseteq ActiveOf(t)
    BY DEF ActiveOf
  <2>. QED BY <2>1, QueueAssumption, ActiveFinite, FS_Subset
<1>3. Cardinality(Active) \in Nat /\ Cardinality(Active') \in Nat
  <2>1. IsFiniteSet(Active) /\ IsFiniteSet(Active')
    BY QueueAssumption, ActiveFinite, FS_Subset
  <2>. QED BY <2>1, FS_CardinalityType
<1>4. \A t \in Tenants : Cardinality(ActiveOf(t)) \in Nat /\ Cardinality(ActiveOf(t)') \in Nat
  <2>1. \A t \in Tenants : IsFiniteSet(ActiveOf(t)) /\ IsFiniteSet(ActiveOf(t)')
    BY QueueAssumption, ActiveFinite, FS_Subset DEF ActiveOf
  <2>. QED BY <2>1, FS_CardinalityType
<1>5. Cardinality(Active') <= GlobalLimit
  BY <1>1, <1>3, QueueAssumption DEF ActiveBounded
<1>6. ASSUME NEW t \in Tenants
      PROVE  Cardinality(ActiveOf(t)') <= TenantLimit
  <2>1. Cardinality(ActiveOf(t)) <= TenantLimit
    BY DEF ActiveBounded, ActiveOf
  <2>. QED BY <1>2, <1>4, <2>1, QueueAssumption
<1>. QED BY <1>5, <1>6 DEF ActiveBounded, ActiveOf

LEMMA EnqueueBounded ==
  ASSUME TypeOK, ActiveBounded, NEW j \in JobIds, NEW r \in Request, NEW e \in BOOLEAN,
         NEW lag \in Lags, Enqueue(j, r, e, lag)
  PROVE  ActiveBounded'
<1>1. /\ job[j].status = "absent" /\ job'[j].status = "queued" /\ req'[j] = r
      /\ \A i \in JobIds \ {j} : job'[i] = job[i] /\ req'[i] = req[i]
  BY DEF Enqueue, TypeOK, NoRow
<1>2. Active' = Active \cup {j} /\ j \notin Active
  BY <1>1 DEF Active
<1>3. \A t : j \notin ActiveOf(t) /\ ActiveOf(t)' = ActiveOf(t) \cup (IF t = r.tenant THEN {j} ELSE {})
  BY <1>1, <1>2 DEF ActiveOf, Active
<1>4. \A t : ActiveOf(t)' = IF t = r.tenant THEN ActiveOf(t) \cup {j} ELSE ActiveOf(t)
  BY <1>3
<1>5. Cardinality(Active') = Cardinality(Active) + 1 /\ Cardinality(Active) \in Nat
  BY <1>2, QueueAssumption, ActiveFinite, FS_AddElement, FS_CardinalityType
<1>6. \A t : Cardinality(ActiveOf(t)) \in Nat
             /\ Cardinality(ActiveOf(t) \cup {j}) = Cardinality(ActiveOf(t)) + 1
  BY <1>3, QueueAssumption, ActiveFinite, FS_AddElement, FS_CardinalityType
<1>7. Cardinality(Active) < GlobalLimit /\ Cardinality(ActiveOf(r.tenant)) < TenantLimit
  BY DEF Enqueue, HasRoom, ActiveOf
<1>8. Cardinality(Active') <= GlobalLimit
  BY <1>5, <1>7, QueueAssumption
<1>9. ASSUME NEW t \in Tenants
      PROVE  Cardinality(ActiveOf(t)') <= TenantLimit
  <2>1. CASE t = r.tenant
    <3>1. Cardinality(ActiveOf(t)') = Cardinality(ActiveOf(t)) + 1
      BY <1>4, <1>6, <2>1
    <3>. QED BY <1>6, <1>7, <2>1, <3>1, QueueAssumption
  <2>2. CASE t # r.tenant
    BY <1>4, <2>2 DEF ActiveBounded, ActiveOf
  <2>. QED BY <2>1, <2>2
<1>. QED BY <1>8, <1>9 DEF ActiveBounded, ActiveOf

-----------------------------------------------------------------------------
(* The steps of workers and of the clock add no row, take none away, and   *)
(* leave decided rows alone.                                               *)

Undecided == {"queued", "leased"}

Advances(j) ==
  /\ \/ job'[j].status = job[j].status
     \/ job[j].status \in Undecided /\ job'[j].status \in Undecided \cup {"completed", "dead"}
  /\ job[j].status \in {"completed", "dead"} => job'[j] = job[j]

Steady ==
  \/ \E w \in Workers : WorkerStep(w) \/ Crash(w)
  \/ \E w \in Workers, lag, lag2 \in Lags : Heartbeat(w, lag, lag2)
  \/ Tick
  \/ UNCHANGED vars

LEMMA LeaseNextAdvances ==
  ASSUME TypeOK, NEW w \in Workers, NEW lag \in Lags, LeaseNext(w, lag), NEW i \in JobIds
  PROVE  Advances(i)
<1>. DEFINE rows == Reclaimed(lag)
<1>1. /\ rows[i] \in Row
      /\ \/ rows[i] = job[i]
         \/ job[i].status = "leased" /\ rows[i].status \in {"queued", "dead"}
  BY ReclaimedRow DEF AfterLoss
<1>2. CASE job' = rows
  BY <1>1, <1>2 DEF Advances, Undecided
<1>3. ASSUME NEW j \in JobIds, Grant(w, j, lag)
      PROVE  Advances(i)
  <2>1. job' = [rows EXCEPT ![j] = Leased(rows[j], w, lag)] /\ rows[j].status = "queued"
    BY <1>3 DEF Grant, Ready
  <2>2. CASE i # j
    <3>1. job'[i] = rows[i]
      BY <2>1, <2>2 DEF Reclaimed
    <3>. QED BY <1>1, <3>1 DEF Advances, Undecided
  <2>3. CASE i = j
    <3>1. job'[i] = Leased(rows[i], w, lag)
      BY <2>1, <2>3 DEF Reclaimed
    <3>2. job'[i].status = "leased"
      BY <1>1, <3>1, LeasedRow
    <3>. QED BY <1>1, <2>1, <2>3, <3>2 DEF Advances, Undecided
  <2>. QED BY <2>2, <2>3
<1>. QED BY <1>2, <1>3 DEF LeaseNext

LEMMA WorkerAdvances ==
  ASSUME TypeOK, NEW w \in Workers,
         \/ StartHandler(w) \/ RefuseHandler(w) \/ HandlerReturns(w) \/ HandlerRaises(w)
         \/ Complete(w) \/ Fail(w) \/ Crash(w),
         NEW i \in JobIds
  PROVE  Advances(i)
<1>. DEFINE j == worker[w].job
            done == [Released(job[j], "completed", job[j].delay) EXCEPT !.result = worker[w].token]
<1>1. CASE job' = job
  BY <1>1 DEF Advances
<1>2. CASE Complete(w) /\ Owns(w)
  <2>1. j \in JobIds /\ job[j] \in Row /\ job[j].status = "leased"
    BY <1>2, OwnedRow
  <2>2. job' = [job EXCEPT ![j] = done]
    BY <1>2 DEF Complete
  <2>3. "completed" \in Status /\ job[j].delay \in Int
    BY <2>1 DEF Row, Status
  <2>4. LET row == Released(job[j], "completed", job[j].delay)
        IN  row \in Row /\ row.status = "completed"
    BY <2>1, <2>3, ReleasedRow
  <2>5. done.status = "completed"
    BY <2>4 DEF Row
  <2>. HIDE DEF done
  <2>. QED BY <2>1, <2>2, <2>5 DEF TypeOK, Advances, Undecided
<1>3. CASE Fail(w) /\ Owns(w)
  <2>1. j \in JobIds /\ job[j] \in Row /\ job[j].status = "leased"
    BY <1>3, OwnedRow
  <2>2. job' = [job EXCEPT ![j] = Released(job[j], AfterLoss(job[j], req[j]), 0)]
    BY <1>3 DEF Fail
  <2>3. AfterLoss(job[j], req[j]) \in Status /\ AfterLoss(job[j], req[j]) \in {"queued", "dead"}
    BY DEF AfterLoss, Status
  <2>4. Released(job[j], AfterLoss(job[j], req[j]), 0).status \in {"queued", "dead"}
    BY <2>1, <2>3, ReleasedRow
  <2>. QED BY <2>1, <2>2, <2>4 DEF TypeOK, Advances, Undecided
<1>. QED BY <1>1, <1>2, <1>3
     DEF StartHandler, RefuseHandler, HandlerReturns, HandlerRaises, Complete, Fail, Crash

LEMMA SteadyRows ==
  ASSUME TypeOK, Steady
  PROVE  req' = req /\ \A i \in JobIds : Advances(i)
<1>1. req' = req
  BY DEF Steady, WorkerStep, LeaseNext, StartHandler, RefuseHandler, HandlerReturns,
         HandlerRaises, Complete, Fail, Crash, Heartbeat, Tick, vars
<1>2. ASSUME NEW w \in Workers, WorkerStep(w) \/ Crash(w)
      PROVE  \A i \in JobIds : Advances(i)
  BY <1>2, LeaseNextAdvances, WorkerAdvances DEF WorkerStep
<1>3. ASSUME NEW w \in Workers, NEW lag \in Lags, NEW lag2 \in Lags, Heartbeat(w, lag, lag2)
      PROVE  \A i \in JobIds : Advances(i)
  <2>. SUFFICES ASSUME NEW i \in JobIds PROVE Advances(i)
    OBVIOUS
  <2>1. job'[i].status = job[i].status
    BY <1>3, HeartbeatType
  <2>2. job[i].status # "leased" => job'[i] = job[i]
    BY <1>3, HeartbeatType
  <2>. QED BY <2>1, <2>2 DEF Advances
<1>4. ASSUME Tick
      PROVE  \A i \in JobIds : Advances(i)
  <2>. SUFFICES ASSUME NEW i \in JobIds PROVE Advances(i)
    OBVIOUS
  <2>1. job'[i] = Aged(job[i]) /\ job[i] \in Row
    BY <1>4 DEF Tick, TypeOK
  <2>2. /\ Aged(job[i]).status = job[i].status
        /\ job[i].status \in {"completed", "dead"} => Aged(job[i]) = job[i]
    BY <2>1, AgedRow
  <2>. QED BY <2>1, <2>2 DEF Advances
<1>5. CASE UNCHANGED vars
  BY <1>5 DEF vars, Advances
<1>. QED BY <1>1, <1>2, <1>3, <1>4, <1>5 DEF Steady

LEMMA NextSplit ==
  [Next]_vars =>
    \/ \E j \in JobIds, r \in Request, e \in BOOLEAN, lag \in Lags : Enqueue(j, r, e, lag)
    \/ \E t \in Tenants : ResetTenant(t)
    \/ Steady
BY DEF Next, Steady

LEMMA ResetRows ==
  ASSUME TypeOK, NEW t \in Tenants, ResetTenant(t)
  PROVE  \A j \in JobIds : IF j \in Live /\ req[j].tenant = t
                          THEN job'[j].status = "deleted" ELSE job'[j] = job[j]
<1>1. \A row \in Row : [row EXCEPT !.status = "deleted"].status = "deleted"
  BY DEF Row
<1>2. \A j \in JobIds : job'[j] = IF j \in Live /\ req[j].tenant = t
                                 THEN [job[j] EXCEPT !.status = "deleted"] ELSE job[j]
  BY DEF ResetTenant
<1>3. \A j \in JobIds : job[j] \in Row
  BY DEF TypeOK
<1>. QED BY <1>1, <1>2, <1>3

LEMMA SteadySets ==
  ASSUME TypeOK, Steady
  PROVE  Live' = Live /\ Active' \subseteq Active
BY SteadyRows DEF Live, Active, Advances, Undecided

LEMMA NextBounded == TypeOK /\ ActiveBounded /\ [Next]_vars => ActiveBounded'
<1>. SUFFICES ASSUME TypeOK, ActiveBounded, [Next]_vars PROVE ActiveBounded'
  OBVIOUS
<1>1. CASE Steady
  BY <1>1, SteadyRows, SteadySets, ShrinkingActive
<1>2. ASSUME NEW j \in JobIds, NEW r \in Request, NEW e \in BOOLEAN, NEW lag \in Lags,
             Enqueue(j, r, e, lag)
      PROVE  ActiveBounded'
  BY <1>2, EnqueueBounded
<1>3. ASSUME NEW t \in Tenants, ResetTenant(t) PROVE ActiveBounded'
  <2>1. req' = req
    BY <1>3 DEF ResetTenant
  <2>2. Active' \subseteq Active
    BY <1>3, ResetRows DEF Active
  <2>. QED BY <2>1, <2>2, ShrinkingActive
<1>. QED BY <1>1, <1>2, <1>3, NextSplit

LEMMA InitBounded == Init => ActiveBounded
<1>. SUFFICES ASSUME Init PROVE ActiveBounded
  OBVIOUS
<1>1. Active = {}
  BY DEF Init, Active, NoRow
<1>2. \A t \in Tenants : {j \in Active : req[j].tenant = t} = {}
  BY <1>1
<1>. QED BY <1>1, <1>2, FS_EmptySet, QueueAssumption DEF ActiveBounded

(* Neither the global nor a tenant's limit is ever passed, although        *)
(* retries and reclaims re-queue jobs without asking for room.             *)
THEOREM BackpressureHolds == Spec => []ActiveBounded
<1>1. Init => TypeOK /\ ActiveBounded
  BY InitTypeOK, InitBounded
<1>2. TypeOK /\ ActiveBounded /\ [Next]_vars => (TypeOK /\ ActiveBounded)'
  BY NextTypeOK, NextBounded
<1>. QED BY <1>1, <1>2, PTL DEF Spec

-----------------------------------------------------------------------------
(* Decisions are final.                                                    *)

LEMMA FinalStep ==
  ASSUME TypeOK, [Next]_vars, NEW j \in JobIds, job[j].status \in {"completed", "dead"}
  PROVE  job'[j] = job[j] \/ job'[j].status = "deleted"
<1>1. CASE Steady
  BY <1>1, SteadyRows DEF Advances
<1>2. ASSUME NEW i \in JobIds, NEW r \in Request, NEW e \in BOOLEAN, NEW lag \in Lags,
             Enqueue(i, r, e, lag)
      PROVE  job'[j] = job[j]
  BY <1>2 DEF Enqueue, TypeOK
<1>3. ASSUME NEW t \in Tenants, ResetTenant(t)
      PROVE  job'[j] = job[j] \/ job'[j].status = "deleted"
  BY <1>3, ResetRows
<1>. QED BY <1>1, <1>2, <1>3, NextSplit

(* A completed or buried job never changes again, until its tenant's data  *)
(* is reset.                                                               *)
THEOREM DecisionsAreFinal == Spec => DecidedIsFinal
<1>1. TypeOK /\ [Next]_vars =>
        [\A j \in JobIds : job[j].status \in {"completed", "dead"} =>
           job'[j] = job[j] \/ job'[j].status = "deleted"]_vars
  BY FinalStep
<1>. QED BY <1>1, QueueTypeCorrect, PTL DEF Spec, DecidedIsFinal

-----------------------------------------------------------------------------
(* The refinement.  A request's phase is read off its one live row.        *)

LEMMA OneRow ==
  ASSUME TypeOK, UniqueLiveKey, NEW j \in Live
  PROVE  LET r == <<req[j].tenant, req[j].key>>
         IN  r \in Tenants \X Keys /\ RowsOf(r) = {j} /\ Phase[r] = Shown(job[j].status)
<1>. DEFINE r == <<req[j].tenant, req[j].key>>
<1>1. j \in JobIds /\ req[j] \in Request
  BY DEF Live, TypeOK
<1>2. r \in Tenants \X Keys
  BY <1>1 DEF Request
<1>3. RowsOf(r) = {j}
  BY DEF RowsOf, UniqueLiveKey
<1>4. (CHOOSE i \in RowsOf(r) : TRUE) = j
  BY <1>3
<1>. QED BY <1>2, <1>3, <1>4 DEF Phase

LEMMA NoRows ==
  ASSUME NEW r \in Tenants \X Keys
  PROVE  RowsOf(r) = {} => Phase[r] = "none"
BY DEF Phase

LEMMA PhaseType ==
  ASSUME TypeOK, UniqueLiveKey
  PROVE  Phase \in [Tenants \X Keys -> {"none", "pending", "completed", "dead"}]
<1>. SUFFICES ASSUME NEW r \in Tenants \X Keys
              PROVE  Phase[r] \in {"none", "pending", "completed", "dead"}
  BY DEF Phase
<1>1. CASE RowsOf(r) = {}
  BY <1>1, NoRows
<1>2. ASSUME NEW j \in RowsOf(r)
      PROVE  Phase[r] \in {"none", "pending", "completed", "dead"}
  <2>1. j \in Live /\ r = <<req[j].tenant, req[j].key>>
    BY <1>2 DEF RowsOf
  <2>2. Phase[r] = Shown(job[j].status)
    BY <2>1, OneRow
  <2>3. job[j].status \in {"queued", "leased", "completed", "dead"}
    BY <2>1 DEF Live, TypeOK, Row, Status
  <2>. QED BY <2>2, <2>3 DEF Shown
<1>. QED BY <1>1, <1>2

LEMMA LedgerTyped == TypeOK /\ UniqueLiveKey => Ledger!TypeOK
BY PhaseType DEF Ledger!TypeOK, Ledger!Requests, Ledger!Decided

LEMMA LedgerTypedNext == (TypeOK /\ UniqueLiveKey)' => Ledger!TypeOK'
BY LedgerTyped, PTL

LEMMA SteadyDecides ==
  ASSUME TypeOK, TypeOK', UniqueLiveKey, UniqueLiveKey', Steady
  PROVE  Ledger!Decide
<1>1. /\ req' = req /\ Live' = Live
      /\ \A i \in JobIds : Advances(i)
  BY SteadyRows, SteadySets
<1>2. Ledger!TypeOK'
  BY LedgerTypedNext
<1>3. ASSUME NEW r \in Tenants \X Keys, Phase'[r] # Phase[r]
      PROVE  Phase[r] = "pending" /\ Phase'[r] \in {"completed", "dead"}
  <2>1. RowsOf(r)' = RowsOf(r)
    BY <1>1 DEF RowsOf
  <2>2. RowsOf(r) # {}
    BY <1>3, <2>1 DEF Phase
  <2>3. PICK j \in RowsOf(r) : TRUE
    BY <2>2
  <2>4. j \in Live /\ j \in JobIds /\ r = <<req[j].tenant, req[j].key>>
    BY <2>3 DEF RowsOf, Live
  <2>5. Phase[r] = Shown(job[j].status)
    BY <2>4, OneRow
  <2>6. Phase'[r] = Shown(job'[j].status)
    <3>1. j \in Live' /\ r = <<req'[j].tenant, req'[j].key>>
      BY <1>1, <2>4
    <3>2. \A i \in RowsOf(r)' : i = j
      BY <2>4, <3>1 DEF RowsOf, UniqueLiveKey
    <3>3. RowsOf(r)' = {j}
      BY <2>1, <2>3, <3>2
    <3>4. (CHOOSE i \in RowsOf(r)' : TRUE) = j
      BY <3>3
    <3>. QED BY <3>3, <3>4 DEF Phase
  <2>7. Advances(j)
    BY <1>1, <2>4
  <2>. QED BY <1>3, <2>5, <2>6, <2>7 DEF Advances, Undecided, Shown
<1>. QED BY <1>2, <1>3 DEF Ledger!Decide, Ledger!Requests, Ledger!Decided

LEMMA EnqueueAccepts ==
  ASSUME TypeOK, TypeOK', UniqueLiveKey, UniqueLiveKey',
         NEW j \in JobIds, NEW q \in Request, NEW e \in BOOLEAN, NEW lag \in Lags,
         Enqueue(j, q, e, lag)
  PROVE  Ledger!Accept(<<q.tenant, q.key>>) /\ <<q.tenant, q.key>> \in Tenants \X Keys
<1>. DEFINE a == <<q.tenant, q.key>>
<1>1. /\ job[j].status = "absent" /\ job'[j].status = "queued" /\ req'[j] = q
      /\ \A i \in JobIds \ {j} : job'[i] = job[i] /\ req'[i] = req[i]
  BY DEF Enqueue, TypeOK, NoRow
<1>2. a \in Tenants \X Keys
  BY DEF Request
<1>3. Live' = Live \cup {j} /\ j \notin Live
  BY <1>1 DEF Live
<1>4. RowsOf(a) = {} /\ RowsOf(a)' = {j}
  BY <1>1, <1>3 DEF Enqueue, RowsOf, Live
<1>5. Phase[a] = "none"
  BY <1>2, <1>4, NoRows
<1>6. Phase'[a] = "pending"
  <2>1. (CHOOSE i \in RowsOf(a)' : TRUE) = j
    BY <1>4
  <2>. QED BY <1>1, <1>2, <1>4, <2>1 DEF Phase, Shown
<1>7. ASSUME NEW r \in Tenants \X Keys, r # a PROVE Phase'[r] = Phase[r]
  <2>1. RowsOf(r)' = RowsOf(r) /\ j \notin RowsOf(r)
    BY <1>1, <1>3, <1>7 DEF RowsOf, Live
  <2>2. \A i \in RowsOf(r) : job'[i] = job[i]
    BY <1>1, <2>1 DEF RowsOf, Live
  <2>3. CASE RowsOf(r) = {}
    BY <2>1, <2>3 DEF Phase
  <2>4. CASE RowsOf(r) # {}
    <3>1. (CHOOSE i \in RowsOf(r) : TRUE) \in RowsOf(r)
      BY <2>4
    <3>. QED BY <2>1, <2>2, <2>4, <3>1 DEF Phase
  <2>. QED BY <2>3, <2>4
<1>8. Phase' = [Phase EXCEPT ![a] = "pending"]
  BY <1>2, <1>6, <1>7 DEF Phase
<1>. QED BY <1>2, <1>5, <1>8 DEF Ledger!Accept

LEMMA ResetForgets ==
  ASSUME TypeOK, UniqueLiveKey, NEW t \in Tenants, ResetTenant(t)
  PROVE  Ledger!Forget(t)
<1>1. \A j \in JobIds : IF j \in Live /\ req[j].tenant = t
                       THEN job'[j].status = "deleted" ELSE job'[j] = job[j]
  BY ResetRows
<1>2. req' = req
  BY DEF ResetTenant
<1>3. ASSUME NEW r \in Tenants \X Keys, r[1] = t PROVE Phase'[r] = "none"
  <2>1. RowsOf(r)' = {}
    BY <1>1, <1>2, <1>3 DEF RowsOf, Live
  <2>. QED BY <2>1 DEF Phase
<1>4. ASSUME NEW r \in Tenants \X Keys, r[1] # t PROVE Phase'[r] = Phase[r]
  <2>1. RowsOf(r)' = RowsOf(r)
    BY <1>1, <1>2, <1>4 DEF RowsOf, Live
  <2>2. \A i \in RowsOf(r) : job'[i] = job[i]
    BY <1>1, <1>4 DEF RowsOf, Live
  <2>3. CASE RowsOf(r) = {}
    BY <2>1, <2>3 DEF Phase
  <2>4. CASE RowsOf(r) # {}
    <3>1. (CHOOSE i \in RowsOf(r) : TRUE) \in RowsOf(r)
      BY <2>4
    <3>. QED BY <2>1, <2>2, <2>4, <3>1 DEF Phase
  <2>. QED BY <2>3, <2>4
<1>. QED BY <1>3, <1>4 DEF Ledger!Forget, Ledger!Requests, Phase

LEMMA LedgerStep == IInv /\ IInv' /\ [Next]_vars => [Ledger!Next]_Phase
<1>. SUFFICES ASSUME IInv, IInv', [Next]_vars PROVE Ledger!Next
  OBVIOUS
<1>1. TypeOK /\ TypeOK' /\ UniqueLiveKey /\ UniqueLiveKey'
  BY DEF IInv
<1>2. CASE Steady
  BY <1>1, <1>2, SteadyDecides DEF Ledger!Next
<1>3. ASSUME NEW j \in JobIds, NEW r \in Request, NEW e \in BOOLEAN, NEW lag \in Lags,
             Enqueue(j, r, e, lag)
      PROVE  Ledger!Next
  BY <1>1, <1>3, EnqueueAccepts DEF Ledger!Next, Ledger!Requests
<1>4. ASSUME NEW t \in Tenants, ResetTenant(t) PROVE Ledger!Next
  BY <1>1, <1>4, ResetForgets DEF Ledger!Next
<1>. QED BY <1>2, <1>3, <1>4, NextSplit

(* The queue implements the request ledger: every request is accepted at   *)
(* most once and decided at most once, whatever happens to its workers.    *)
THEOREM QueueImplementsLedger == Spec => ImplementsLedger
<1>1. Init => Ledger!Init
  <2>. SUFFICES ASSUME Init PROVE Ledger!Init
    OBVIOUS
  <2>1. Live = {}
    BY DEF Init, Live, NoRow
  <2>2. \A r \in Tenants \X Keys : RowsOf(r) = {}
    BY <2>1 DEF RowsOf
  <2>. QED BY <2>2 DEF Phase, Ledger!Init, Ledger!Requests
<1>. QED BY <1>1, LedgerStep, AlwaysIInv, PTL DEF Spec, ImplementsLedger, Ledger!Spec
=============================================================================
