--------------------------- MODULE ExecutionSaga ---------------------------
(***************************************************************************)
(* Resource-level concurrency control of app/distributed/runtime.py: a     *)
(* caller prepares an execution and gets a permit (a lease on the resource *)
(* with a fencing token), marks it started, and confirms or fails it.      *)
(*                                                                         *)
(* A permit is a value in the hands of a caller, who may present it late,  *)
(* twice, or never: `permits` only grows, and every operation that takes a *)
(* permit may be given any permit ever issued.  Each operation is one      *)
(* BEGIN IMMEDIATE transaction, hence one action.  The rows are those of   *)
(* one tenant: every query selects by tenant_id or by a unique saga_id.    *)
(* A leased row carries the ticks left until lease_expires_at.             *)
(***************************************************************************)
EXTENDS Integers, FiniteSets

CONSTANTS
  Keys,         \* idempotency keys: fingerprints of (resource, operation, plan)
  Resources, ResourceOf,
  Owners,       \* owner_id strings
  LeaseTicks,   \* lease_seconds
  ClockLag,     \* how old prepare's clock reading may be when it is used
  MaxPermits,   \* bound: permits issued
  MaxResets,    \* bound: resets of the tenant
  NoOwner, NoEffect

ASSUME SagaAssumption ==
  /\ ResourceOf \in [Keys -> Resources]
  /\ NoOwner \notin Owners
  /\ LeaseTicks \in Nat \ {0} /\ ClockLag \in Nat
  /\ MaxPermits \in Nat /\ MaxResets \in Nat
  /\ NoEffect \notin [version : Nat, token : Nat, epoch : Nat]
  /\ IsFiniteSet(Keys)

VARIABLES
  guard,    \* guard[r]: the row of resource_guards
  saga,     \* saga[k]: the row of execution_sagas (saga_id: k and the epoch)
  effect,   \* effect[k]: the row of business_effects
  outbox,   \* the kinds of event in transactional_outbox, per key
  permits,  \* every ExecutionPermit issued
  epoch     \* resets so far: saga_ids of different epochs differ

vars == <<guard, saga, effect, outbox, permits, epoch>>

Lags == 0 .. ClockLag

Guard  == [version : Nat, counter : Nat, active : Nat, lease : [owner : Owners \cup {NoOwner}, ttl : Int]]
Saga   == [status : {"absent", "prepared", "executing", "completed", "failed", "needs_attention"},
           token : Nat, expected : Nat]
Effect == [version : Nat, token : Nat, epoch : Nat]
Permit == [key : Keys, owner : Owners, token : Nat, expected : Nat, epoch : Nat]
Event  == [key : Keys, kind : {"prepared", "confirmed", "failed", "needs_attention"}]

Free == [owner |-> NoOwner, ttl |-> 0]      \* lease_owner, lease_expires_at NULL

NoGuard == [version |-> 0, counter |-> 0, active |-> 0, lease |-> Free]
NoSaga  == [status |-> "absent", token |-> 0, expected |-> 0]

TypeOK ==
  /\ guard \in [Resources -> Guard]
  /\ saga \in [Keys -> Saga]
  /\ effect \in [Keys -> Effect \cup {NoEffect}]
  /\ outbox \subseteq Event
  /\ permits \subseteq Permit
  /\ epoch \in Nat

Init ==
  /\ guard = [r \in Resources |-> NoGuard]
  /\ saga = [k \in Keys |-> NoSaga]
  /\ effect = [k \in Keys |-> NoEffect]
  /\ outbox = {} /\ permits = {} /\ epoch = 0

-----------------------------------------------------------------------------
(* prepare_execution.  A key whose effect is confirmed is answered with a  *)
(* replay permit, with which no operation changes anything; a resource     *)
(* leased by another owner is refused (rolled back).                       *)

Leased(r)       == guard[r].lease.owner # NoOwner
Expired(r, lag) == Leased(r) /\ guard[r].lease.ttl + lag <= 0
Available(r, o, lag) == ~Leased(r) \/ Expired(r, lag) \/ guard[r].lease.owner = o

Open == {"prepared", "executing"}

(* The saga an expired lease leaves behind needs a human.                  *)
Superseded(r, lag) ==
  [k \in Keys |->
     IF /\ Expired(r, lag) /\ ResourceOf[k] = r
        /\ saga[k].token = guard[r].active /\ saga[k].status \in Open
     THEN [saga[k] EXCEPT !.status = "needs_attention"] ELSE saga[k]]

NextToken_NotAdvanced(r) == guard[r].counter

NextToken(r) == guard[r].counter + 1

Prepare(o, k, lag) ==
  LET r == ResourceOf[k]  token == NextToken(r)  expected == guard[r].version
  IN  /\ Cardinality(permits) < MaxPermits
      /\ effect[k] = NoEffect
      /\ Available(r, o, lag)
      /\ guard' = [guard EXCEPT ![r] =
           [version |-> expected, counter |-> token, active |-> token,
            lease |-> [owner |-> o, ttl |-> LeaseTicks - lag]]]
      /\ saga' = [Superseded(r, lag) EXCEPT ![k] =
           [status |-> "prepared", token |-> token, expected |-> expected]]
      /\ outbox' = outbox \cup {[key |-> k, kind |-> "prepared"]}
      /\ permits' = permits \cup
           {[key |-> k, owner |-> o, token |-> token, expected |-> expected, epoch |-> epoch]}
      /\ UNCHANGED <<effect, epoch>>

-----------------------------------------------------------------------------
(* The operations on a permit.                                             *)

Released(g) == [g EXCEPT !.lease = Free]
Advanced(g) == [Released(g) EXCEPT !.version = g.version + 1]

HasLease_OwnerOnly(p) == guard[ResourceOf[p.key]].lease.owner = p.owner

(* WHERE active_token=? AND lease_owner=?                                  *)
HasLease(p) ==
  LET g == guard[ResourceOf[p.key]] IN g.active = p.token /\ g.lease.owner = p.owner

(* _validate_fence: the lease is the permit's and has not expired.         *)
Fenced(p) == HasLease(p) /\ guard[ResourceOf[p.key]].lease.ttl > 0

(* UPDATE execution_sagas ... WHERE saga_id: a no-op if the row is gone.   *)
HasSaga(p) == p.epoch = epoch /\ saga[p.key].status # "absent"

SetStatus(p, status) ==
  saga' = IF HasSaga(p) THEN [saga EXCEPT ![p.key].status = status] ELSE saga

MarkStarted(p) ==
  /\ Fenced(p)
  /\ SetStatus(p, "executing")
  /\ UNCHANGED <<guard, effect, outbox, permits, epoch>>

Confirm_KeepsVersion(p) ==
  LET r == ResourceOf[p.key]
  IN  /\ effect[p.key] = NoEffect /\ Fenced(p) /\ guard[r].version = p.expected
      /\ effect' = [effect EXCEPT ![p.key] =
           [version |-> guard[r].version + 1, token |-> p.token, epoch |-> p.epoch]]
      /\ guard' = [guard EXCEPT ![r] = Released(guard[r])]
      /\ SetStatus(p, "completed")
      /\ outbox' = outbox \cup {[key |-> p.key, kind |-> "confirmed"]}
      /\ UNCHANGED <<permits, epoch>>

Confirm_NoSaga(p) ==
  LET r == ResourceOf[p.key]
  IN  /\ effect[p.key] = NoEffect /\ Fenced(p) /\ guard[r].version = p.expected
      /\ effect' = [effect EXCEPT ![p.key] =
           [version |-> guard[r].version + 1, token |-> p.token, epoch |-> p.epoch]]
      /\ guard' = [guard EXCEPT ![r] = Advanced(guard[r])]
      /\ outbox' = outbox \cup {[key |-> p.key, kind |-> "confirmed"]}
      /\ UNCHANGED <<saga, permits, epoch>>

(* confirm_execution.  An effect that exists is returned as a replay; a    *)
(* stale permit or an unexpected version is refused.                       *)
Confirm(p) ==
  LET r == ResourceOf[p.key]
  IN  /\ effect[p.key] = NoEffect
      /\ Fenced(p)
      /\ guard[r].version = p.expected
      /\ effect' = [effect EXCEPT ![p.key] =
           [version |-> guard[r].version + 1, token |-> p.token, epoch |-> p.epoch]]
      /\ guard' = [guard EXCEPT ![r] = Advanced(guard[r])]
      /\ SetStatus(p, "completed")
      /\ outbox' = outbox \cup {[key |-> p.key, kind |-> "confirmed"]}
      /\ UNCHANGED <<permits, epoch>>

FailStatus == {"failed", "needs_attention"}

FailExecution_AnyStatus(p, status) ==
  LET r == ResourceOf[p.key]
  IN  /\ SetStatus(p, status)
      /\ guard' = [guard EXCEPT ![r] = IF HasLease(p) THEN Released(guard[r]) ELSE @]
      /\ outbox' = outbox \cup {[key |-> p.key, kind |-> status]}
      /\ UNCHANGED <<effect, permits, epoch>>

(* fail_execution checks no fence: whatever its token, the permit moves    *)
(* its saga unless that is completed; only the lease is token-checked.     *)
FailExecution(p, status) ==
  LET r == ResourceOf[p.key]
  IN  /\ IF saga[p.key].status = "completed" THEN UNCHANGED saga ELSE SetStatus(p, status)
      /\ guard' = [guard EXCEPT ![r] = IF HasLease(p) THEN Released(guard[r]) ELSE @]
      /\ outbox' = outbox \cup {[key |-> p.key, kind |-> status]}
      /\ UNCHANGED <<effect, permits, epoch>>

-----------------------------------------------------------------------------
ResetTenant_KeepsGuards ==
  /\ epoch < MaxResets
  /\ saga' = [k \in Keys |-> NoSaga]
  /\ effect' = [k \in Keys |-> NoEffect]
  /\ outbox' = {}
  /\ epoch' = epoch + 1
  /\ UNCHANGED <<guard, permits>>

(* reset_tenant deletes the tenant's rows, the fence counters among them,  *)
(* and takes no permit out of anyone's hands.                              *)
ResetTenant ==
  /\ epoch < MaxResets
  /\ guard' = [r \in Resources |-> NoGuard]
  /\ saga' = [k \in Keys |-> NoSaga]
  /\ effect' = [k \in Keys |-> NoEffect]
  /\ outbox' = {}
  /\ epoch' = epoch + 1
  /\ UNCHANGED permits

Aged(lease) ==
  IF lease.owner # NoOwner /\ lease.ttl > -ClockLag
  THEN [lease EXCEPT !.ttl = @ - 1] ELSE lease

Tick ==
  /\ guard' = [r \in Resources |-> [guard[r] EXCEPT !.lease = Aged(@)]]
  /\ UNCHANGED <<saga, effect, outbox, permits, epoch>>

Next ==
  \/ \E o \in Owners, k \in Keys, lag \in Lags : Prepare(o, k, lag)
  \/ \E p \in permits : MarkStarted(p) \/ Confirm(p)
  \/ \E p \in permits, status \in FailStatus : FailExecution(p, status)
  \/ ResetTenant
  \/ Tick

Spec == Init /\ [][Next]_vars

-----------------------------------------------------------------------------
(* Properties.                                                             *)

Confirmed(r) == {k \in Keys : ResourceOf[k] = r /\ effect[k] # NoEffect}

(* The confirmed effects of a resource carry exactly the versions          *)
(* 1 .. resource_version: none is lost, skipped or shared.                 *)
VersionsAreOneHistory ==
  \A r \in Resources :
    /\ {effect[k].version : k \in Confirmed(r)} = 1 .. guard[r].version
    /\ \A i, k \in Confirmed(r) : effect[i].version = effect[k].version => i = k

(* An older token never confirms after a newer one: along a resource's     *)
(* history the fencing tokens rise with the versions.                      *)
TokensRiseWithVersions ==
  \A r \in Resources : \A i, k \in Confirmed(r) :
    effect[i].version < effect[k].version => effect[i].token < effect[k].token

(* Effect, saga and outbox event are written together: of a key, either    *)
(* the effect exists with its event and its saga is completed, or none.  A *)
(* permit that outlived a reset has no saga left to complete.              *)
WrittenTogether ==
  \A k \in Keys :
    /\ effect[k] # NoEffect <=> [key |-> k, kind |-> "confirmed"] \in outbox
    /\ saga[k].status = "completed" <=> effect[k] # NoEffect /\ effect[k].epoch = epoch

(* A permit that passes the fence saw the current resource version: until  *)
(* a reset lets an old token match again, the optimistic version check is  *)
(* a second line that the fence never lets anyone reach.                   *)
FenceImpliesVersion ==
  \A p \in permits :
    p.epoch = epoch /\ Fenced(p) => p.expected = guard[ResourceOf[p.key]].version

(* No caller, however late, undoes a confirmed effect or reopens its saga, *)
(* and no saga goes back to "executing" behind a newer lease's back.       *)
ConfirmedIsFinal ==
  [][\A k \in Keys :
       /\ effect[k] # NoEffect => effect'[k] = effect[k] \/ epoch' # epoch
       /\ saga[k].status = "completed" => saga'[k] = saga[k] \/ epoch' # epoch
       /\ saga[k].status # "executing" /\ saga'[k].status = "executing" =>
            saga[k].token = guard[ResourceOf[k]].active]_vars

(* The runtime implements the ledger of effects.                           *)
Applied == [k \in Keys |-> IF effect[k] = NoEffect THEN 0 ELSE effect[k].version]

Ledger == INSTANCE EffectLedger WITH applied <- Applied

(* Whatever callers, leases and clocks do, the confirmed effects evolve as *)
(* the ledger says: one key at a time, once, at the next version.          *)
ImplementsLedger == Ledger!Spec

(* docs/V38_TECHNICAL.md: an old token can never override a newer one.  A  *)
(* saga whose lease is live is only failed by the caller that gives that   *)
(* very lease up.                                                          *)
OldTokenNeverOverrides ==
  [][\A k \in Keys :
       LET r == ResourceOf[k]
       IN  /\ saga[k].status \in Open /\ saga'[k].status \in FailStatus
           /\ saga[k].token = guard[r].active /\ Leased(r) /\ guard[r].lease.ttl > 0
           => guard'[r].lease = Free]_vars
=============================================================================
