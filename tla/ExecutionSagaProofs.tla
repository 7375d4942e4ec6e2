------------------------ MODULE ExecutionSagaProofs ------------------------
(***************************************************************************)
(* Theorems about ExecutionSaga, for every set of keys, resources and      *)
(* owners, every lease length and clock lag, and every bound.              *)
(***************************************************************************)
EXTENDS ExecutionSaga, FiniteSetTheorems, TLAPS

-----------------------------------------------------------------------------
(* Type correctness.                                                       *)

LEMMA KeyResource == ASSUME NEW k \in Keys PROVE ResourceOf[k] \in Resources
BY SagaAssumption

LEMMA InitType == Init => TypeOK
BY SagaAssumption
   DEF Init, TypeOK, NoGuard, NoSaga, Free, Guard, Saga, Event, Permit

(* Setting the status of a permit's saga touches at most that status.      *)
LEMMA SetStatusType ==
  ASSUME TypeOK, NEW p \in permits,
         NEW s \in {"executing", "completed", "failed", "needs_attention"},
         SetStatus(p, s)
  PROVE  /\ saga' \in [Keys -> Saga]
         /\ \A k \in Keys \ {p.key} : saga'[k] = saga[k]
         /\ saga'[p.key].token = saga[p.key].token
         /\ IF HasSaga(p) THEN saga'[p.key].status = s ELSE saga'[p.key] = saga[p.key]
<1>1. p.key \in Keys
  BY DEF TypeOK, Permit
<1>. QED BY <1>1 DEF TypeOK, SetStatus, Saga

LEMMA ReleasedGuard ==
  ASSUME NEW g \in Guard
  PROVE  /\ Released(g) \in Guard /\ Released(g).version = g.version
         /\ Released(g).counter = g.counter /\ Released(g).active = g.active
         /\ Released(g).lease = Free
<1>1. Free \in [owner : Owners \cup {NoOwner}, ttl : Int]
  BY DEF Free
<1>. QED BY <1>1 DEF Released, Guard

LEMMA AdvancedGuard ==
  ASSUME NEW g \in Guard
  PROVE  /\ Advanced(g) \in Guard /\ Advanced(g).version = g.version + 1
         /\ Advanced(g).counter = g.counter /\ Advanced(g).active = g.active
         /\ Advanced(g).lease = Free
<1>. DEFINE h == Released(g)
<1>1. /\ h \in Guard /\ h.counter = g.counter /\ h.active = g.active /\ h.lease = Free
  BY ReleasedGuard
<1>2. g.version + 1 \in Nat
  BY DEF Guard
<1>. HIDE DEF h
<1>3. Advanced(g) = [h EXCEPT !.version = g.version + 1]
  BY DEF Advanced, h
<1>. QED BY <1>1, <1>2, <1>3 DEF Guard

LEMMA PrepareType ==
  ASSUME TypeOK, NEW o \in Owners, NEW k \in Keys, NEW lag \in Lags, Prepare(o, k, lag)
  PROVE  TypeOK'
<1>. DEFINE r == ResourceOf[k]
            token == guard[r].counter + 1
            expected == guard[r].version
<1>1. r \in Resources /\ token \in Nat /\ expected \in Nat /\ LeaseTicks - lag \in Int
  BY SagaAssumption DEF TypeOK, Guard, Lags
<1>2. [version |-> expected, counter |-> token, active |-> token,
       lease |-> [owner |-> o, ttl |-> LeaseTicks - lag]] \in Guard
  BY <1>1 DEF Guard
<1>3. guard' \in [Resources -> Guard]
  BY <1>1, <1>2 DEF Prepare, NextToken, TypeOK
<1>4. Superseded(r, lag) \in [Keys -> Saga]
  BY DEF Superseded, TypeOK, Saga
<1>5. [status |-> "prepared", token |-> token, expected |-> expected] \in Saga
  BY <1>1 DEF Saga
<1>6. saga' \in [Keys -> Saga]
  BY <1>4, <1>5 DEF Prepare, NextToken
<1>7. outbox' \subseteq Event
  BY DEF Prepare, TypeOK, Event
<1>8. permits' \subseteq Permit
  BY <1>1 DEF Prepare, NextToken, TypeOK, Permit
<1>. QED BY <1>3, <1>6, <1>7, <1>8 DEF Prepare, TypeOK

LEMMA StartType ==
  ASSUME TypeOK, NEW p \in permits, MarkStarted(p)
  PROVE  TypeOK'
BY SetStatusType DEF MarkStarted, TypeOK

LEMMA ConfirmType ==
  ASSUME TypeOK, NEW p \in permits, Confirm(p)
  PROVE  TypeOK'
<1>. DEFINE r == ResourceOf[p.key]
<1>1. p \in Permit /\ p.key \in Keys /\ r \in Resources
  BY KeyResource DEF TypeOK, Permit
<1>2. guard[r].version + 1 \in Nat /\ p.token \in Nat /\ p.epoch \in Nat
  BY <1>1 DEF TypeOK, Guard, Permit
<1>3. effect' \in [Keys -> Effect \cup {NoEffect}]
  BY <1>1, <1>2 DEF Confirm, TypeOK, Effect
<1>4. guard' \in [Resources -> Guard]
  BY <1>1, AdvancedGuard DEF Confirm, TypeOK
<1>5. saga' \in [Keys -> Saga]
  BY SetStatusType DEF Confirm
<1>6. outbox' \subseteq Event
  BY <1>1 DEF Confirm, TypeOK, Event
<1>. QED BY <1>3, <1>4, <1>5, <1>6 DEF Confirm, TypeOK

LEMMA FailType ==
  ASSUME TypeOK, NEW p \in permits, NEW s \in FailStatus, FailExecution(p, s)
  PROVE  TypeOK'
<1>. DEFINE r == ResourceOf[p.key]
<1>1. p.key \in Keys /\ r \in Resources
  BY KeyResource DEF TypeOK, Permit
<1>2. saga' \in [Keys -> Saga]
  BY SetStatusType DEF FailExecution, FailStatus, TypeOK
<1>3. guard' \in [Resources -> Guard]
  BY <1>1, ReleasedGuard DEF FailExecution, TypeOK
<1>4. outbox' \subseteq Event
  BY <1>1 DEF FailExecution, TypeOK, Event, FailStatus
<1>. QED BY <1>2, <1>3, <1>4 DEF FailExecution, TypeOK

LEMMA AgedGuard ==
  ASSUME NEW g \in Guard
  PROVE  LET h == [g EXCEPT !.lease = Aged(g.lease)]
         IN  /\ h \in Guard /\ h.version = g.version /\ h.counter = g.counter
             /\ h.active = g.active /\ h.lease.owner = g.lease.owner
<1>1. Aged(g.lease) \in [owner : Owners \cup {NoOwner}, ttl : Int]
  BY DEF Aged, Guard
<1>2. Aged(g.lease).owner = g.lease.owner
  BY DEF Aged, Guard
<1>. HIDE DEF Aged
<1>. QED BY <1>1, <1>2 DEF Guard

LEMMA TickGuard ==
  ASSUME TypeOK, Tick
  PROVE  /\ guard' \in [Resources -> Guard]
         /\ \A r \in Resources :
              /\ guard'[r].version = guard[r].version
              /\ guard'[r].counter = guard[r].counter
              /\ guard'[r].active = guard[r].active
              /\ guard'[r].lease.owner = guard[r].lease.owner
<1>1. \A r \in Resources : guard'[r] = [guard[r] EXCEPT !.lease = Aged(guard[r].lease)]
  BY DEF Tick
<1>2. \A r \in Resources : guard[r] \in Guard
  BY DEF TypeOK
<1>. QED BY <1>1, <1>2, AgedGuard DEF Tick

LEMMA NextType == TypeOK /\ [Next]_vars => TypeOK'
<1>. SUFFICES ASSUME TypeOK, [Next]_vars PROVE TypeOK'
  OBVIOUS
<1>1. ASSUME NEW o \in Owners, NEW k \in Keys, NEW lag \in Lags, Prepare(o, k, lag)
      PROVE  TypeOK'
  BY <1>1, PrepareType
<1>2. ASSUME NEW p \in permits, MarkStarted(p) \/ Confirm(p) PROVE TypeOK'
  BY <1>2, StartType, ConfirmType
<1>3. ASSUME NEW p \in permits, NEW s \in FailStatus, FailExecution(p, s) PROVE TypeOK'
  BY <1>3, FailType
<1>4. CASE ResetTenant
  BY <1>4 DEF ResetTenant, TypeOK, NoGuard, NoSaga, Free, Guard, Saga
<1>5. CASE Tick
  BY <1>5, TickGuard DEF Tick, TypeOK
<1>6. CASE UNCHANGED vars
  BY <1>6 DEF vars, TypeOK
<1>. QED BY <1>1, <1>2, <1>3, <1>4, <1>5, <1>6 DEF Next

(* Every table keeps its schema.                                           *)
THEOREM SagaTypeCorrect == Spec => []TypeOK
BY InitType, NextType, PTL DEF Spec
-----------------------------------------------------------------------------
(* The inductive invariant.  The versions and the tokens of the effects    *)
(* are only ordered because the token of a live lease is newer than every  *)
(* effect, and because a permit knows the version only while its token is  *)
(* the active one.  Nothing is claimed of permits that outlived a reset.   *)

LeaseIsNewest ==
  \A r \in Resources :
    /\ guard[r].active <= guard[r].counter
    /\ Leased(r) => guard[r].active = guard[r].counter
    /\ \A k \in Confirmed(r) :
         /\ effect[k].token <= guard[r].counter
         /\ Leased(r) => effect[k].token < guard[r].active

PermitsKnown ==
  \A p \in permits :
    /\ p.epoch <= epoch
    /\ p.epoch = epoch =>
         /\ saga[p.key].status # "absent"
         /\ p.token <= guard[ResourceOf[p.key]].counter
         /\ effect[p.key] # NoEffect => p.token <= effect[p.key].token
         /\ Leased(ResourceOf[p.key]) /\ p.token = guard[ResourceOf[p.key]].active =>
              /\ p.expected = guard[ResourceOf[p.key]].version
              /\ p.token = saga[p.key].token

IInv == /\ TypeOK
        /\ VersionsAreOneHistory /\ TokensRiseWithVersions /\ WrittenTogether
        /\ LeaseIsNewest /\ PermitsKnown

LEMMA InitIInv == Init => IInv
<1>. SUFFICES ASSUME Init PROVE IInv
  OBVIOUS
<1>1. TypeOK
  BY InitType
<1>2. \A r \in Resources : Confirmed(r) = {}
  BY DEF Init, Confirmed
<1>3. VersionsAreOneHistory
  <2>1. \A r \in Resources : guard[r].version = 0
    BY DEF Init, NoGuard
  <2>. QED BY <1>2, <2>1 DEF VersionsAreOneHistory
<1>4. TokensRiseWithVersions
  BY <1>2 DEF TokensRiseWithVersions
<1>5. WrittenTogether
  BY DEF Init, WrittenTogether, NoSaga
<1>6. LeaseIsNewest
  BY <1>2 DEF LeaseIsNewest, Init, NoGuard, Free, Leased
<1>7. PermitsKnown
  BY DEF Init, PermitsKnown
<1>. QED BY <1>1, <1>3, <1>4, <1>5, <1>6, <1>7 DEF IInv

(* A step that confirms nothing, issues no permit and moves no counter.    *)
SameGuard(r) ==
  /\ guard'[r].version = guard[r].version
  /\ guard'[r].counter = guard[r].counter
  /\ guard'[r].active = guard[r].active
  /\ guard'[r].lease.owner \in {guard[r].lease.owner, NoOwner}

SameSaga(k) ==
  /\ saga'[k].token = saga[k].token
  /\ saga'[k].status = "absent" <=> saga[k].status = "absent"
  /\ saga'[k].status = "completed" <=> saga[k].status = "completed"
  /\ [key |-> k, kind |-> "confirmed"] \in outbox' <=>
       [key |-> k, kind |-> "confirmed"] \in outbox

LEMMA QuietStep ==
  ASSUME IInv, TypeOK', UNCHANGED <<effect, permits, epoch>>,
         \A r \in Resources : SameGuard(r),
         \A k \in Keys : SameSaga(k)
  PROVE  IInv'
<1>1. \A r \in Resources : Confirmed(r)' = Confirmed(r) /\ (Leased(r)' => Leased(r))
  BY DEF Confirmed, Leased, SameGuard
<1>2. VersionsAreOneHistory'
  BY <1>1 DEF IInv, VersionsAreOneHistory, SameGuard
<1>3. TokensRiseWithVersions'
  BY <1>1 DEF IInv, TokensRiseWithVersions
<1>4. WrittenTogether'
  BY DEF IInv, WrittenTogether, SameSaga
<1>5. LeaseIsNewest'
  BY <1>1 DEF IInv, LeaseIsNewest, SameGuard
<1>6. PermitsKnown'
  <2>1. \A p \in permits : p.key \in Keys /\ ResourceOf[p.key] \in Resources
    BY KeyResource DEF IInv, TypeOK, Permit
  <2>. QED BY <1>1, <2>1 DEF IInv, PermitsKnown, SameGuard, SameSaga
<1>. QED BY <1>2, <1>3, <1>4, <1>5, <1>6 DEF IInv

(* Who passes the fence without an effect of its own key in the way.       *)
LEMMA FencedPermit ==
  ASSUME IInv, NEW p \in permits, Fenced(p)
  PROVE  LET r == ResourceOf[p.key]
         IN  /\ p \in Permit /\ p.key \in Keys /\ r \in Resources
             /\ Leased(r) /\ p.token = guard[r].active /\ guard[r].active = guard[r].counter
             /\ p.epoch = epoch => /\ saga[p.key].status \notin {"absent", "completed"}
                                   /\ p.expected = guard[r].version
                                   /\ p.token = saga[p.key].token
<1>. DEFINE r == ResourceOf[p.key]
<1>1. p \in Permit /\ p.key \in Keys /\ r \in Resources
  BY KeyResource DEF IInv, TypeOK, Permit
<1>2. Leased(r) /\ p.token = guard[r].active
  BY <1>1, SagaAssumption DEF Fenced, HasLease, Leased, Permit
<1>3. guard[r].active = guard[r].counter
  BY <1>1, <1>2 DEF IInv, LeaseIsNewest
<1>4. ASSUME p.epoch = epoch
      PROVE  /\ saga[p.key].status \notin {"absent", "completed"}
             /\ p.expected = guard[r].version /\ p.token = saga[p.key].token
  <2>1. /\ saga[p.key].status # "absent" /\ p.expected = guard[r].version
        /\ p.token = saga[p.key].token
        /\ effect[p.key] # NoEffect => p.token <= effect[p.key].token
    BY <1>2, <1>4 DEF IInv, PermitsKnown
  <2>2. effect[p.key] = NoEffect
    <3>. SUFFICES ASSUME effect[p.key] # NoEffect PROVE FALSE
      OBVIOUS
    <3>1. p.key \in Confirmed(r)
      BY <1>1 DEF Confirmed
    <3>2. effect[p.key].token < guard[r].active
      BY <1>1, <1>2, <3>1 DEF IInv, LeaseIsNewest
    <3>3. effect[p.key].token \in Nat /\ p.token \in Nat
      BY <1>1 DEF IInv, TypeOK, Effect, Permit
    <3>. QED BY <1>2, <2>1, <3>2, <3>3
  <2>3. saga[p.key].status # "completed"
    BY <1>1, <2>2 DEF IInv, WrittenTogether
  <2>. QED BY <2>1, <2>3
<1>. QED BY <1>1, <1>2, <1>3, <1>4
-----------------------------------------------------------------------------
(* Every step keeps the invariant.                                         *)

LEMMA StartIInv ==
  ASSUME IInv, NEW p \in permits, MarkStarted(p)
  PROVE  IInv'
<1>1. TypeOK /\ Fenced(p) /\ SetStatus(p, "executing")
  BY DEF IInv, MarkStarted
<1>2. TypeOK'
  BY <1>1, StartType
<1>3. HasSaga(p) => saga[p.key].status \notin {"absent", "completed"}
  BY <1>1, FencedPermit DEF HasSaga
<1>4. \A k \in Keys : SameSaga(k)
  BY <1>1, <1>3, SetStatusType DEF SameSaga, MarkStarted
<1>5. \A r \in Resources : SameGuard(r)
  BY DEF SameGuard, MarkStarted
<1>. QED BY <1>2, <1>4, <1>5, QuietStep DEF MarkStarted

LEMMA FailIInv ==
  ASSUME IInv, NEW p \in permits, NEW s \in FailStatus, FailExecution(p, s)
  PROVE  IInv'
<1>. DEFINE r == ResourceOf[p.key]
<1>1. TypeOK /\ p.key \in Keys /\ r \in Resources
  BY KeyResource DEF IInv, TypeOK, Permit
<1>2. TypeOK'
  BY <1>1, FailType
<1>3. \A k \in Keys : /\ saga'[k].token = saga[k].token
                      /\ saga'[k].status = "absent" <=> saga[k].status = "absent"
                      /\ saga'[k].status = "completed" <=> saga[k].status = "completed"
  <2>1. CASE saga[p.key].status = "completed"
    BY <2>1 DEF FailExecution
  <2>2. CASE saga[p.key].status # "completed"
    <3>1. SetStatus(p, s) /\ s \in {"executing", "completed", "failed", "needs_attention"}
      BY <2>2 DEF FailExecution, FailStatus
    <3>2. s \notin {"absent", "completed"}
      BY DEF FailStatus
    <3>. QED BY <1>1, <2>2, <3>1, <3>2, SetStatusType DEF HasSaga
  <2>. QED BY <2>1, <2>2
<1>4. \A k \in Keys : [key |-> k, kind |-> "confirmed"] \in outbox' <=>
                      [key |-> k, kind |-> "confirmed"] \in outbox
  BY DEF FailExecution, FailStatus
<1>5. \A k \in Keys : SameSaga(k)
  BY <1>3, <1>4 DEF SameSaga
<1>6. \A q \in Resources : SameGuard(q)
  <2>1. \A q \in Resources : guard'[q] = guard[q] \/ guard'[q] = Released(guard[q])
    BY <1>1 DEF FailExecution, TypeOK
  <2>2. \A q \in Resources : guard[q] \in Guard
    BY <1>1 DEF TypeOK
  <2>. QED BY <2>1, <2>2, ReleasedGuard DEF SameGuard, Free
<1>. QED BY <1>2, <1>5, <1>6, QuietStep DEF FailExecution

(* An expired lease only moves the status of the saga it leaves behind.    *)
LEMMA SupersededSaga ==
  ASSUME TypeOK, NEW r, NEW lag, NEW i \in Keys
  PROVE  /\ Superseded(r, lag)[i].token = saga[i].token
         /\ \/ Superseded(r, lag)[i].status = saga[i].status
            \/ /\ saga[i].status \in Open
               /\ Superseded(r, lag)[i].status = "needs_attention"
<1>1. saga[i] \in Saga
  BY DEF TypeOK
<1>2. \/ Superseded(r, lag)[i] = saga[i]
      \/ /\ saga[i].status \in Open
         /\ Superseded(r, lag)[i] = [saga[i] EXCEPT !.status = "needs_attention"]
  BY DEF Superseded
<1>. QED BY <1>1, <1>2 DEF Saga

LEMMA PrepareIInv ==
  ASSUME IInv, NEW o \in Owners, NEW k \in Keys, NEW lag \in Lags, Prepare(o, k, lag)
  PROVE  IInv'
<1>. DEFINE r == ResourceOf[k]
            token == guard[r].counter + 1
            p == [key |-> k, owner |-> o, token |-> token, expected |-> guard[r].version,
                  epoch |-> epoch]
<1>1. TypeOK /\ TypeOK' /\ r \in Resources /\ guard[r].counter \in Nat
  BY KeyResource, PrepareType DEF IInv, TypeOK, Guard
<1>2. /\ guard'[r].version = guard[r].version /\ guard'[r].counter = token
      /\ guard'[r].active = token /\ Leased(r)'
      /\ \A q \in Resources \ {r} : guard'[q] = guard[q]
  BY <1>1, SagaAssumption DEF Prepare, NextToken, TypeOK, Leased
<1>3. /\ effect' = effect /\ epoch' = epoch /\ effect[k] = NoEffect
      /\ permits' = permits \cup {p}
      /\ \A i \in Keys : [key |-> i, kind |-> "confirmed"] \in outbox' <=>
                         [key |-> i, kind |-> "confirmed"] \in outbox
  BY DEF Prepare, NextToken
<1>4. /\ saga'[k].status = "prepared" /\ saga'[k].token = token
      /\ \A i \in Keys \ {k} :
           /\ saga'[i].token = saga[i].token
           /\ saga'[i].status = "absent" <=> saga[i].status = "absent"
           /\ saga'[i].status = "completed" <=> saga[i].status = "completed"
  <2>2. saga' = [Superseded(r, lag) EXCEPT ![k] =
           [status |-> "prepared", token |-> token, expected |-> guard[r].version]]
    BY DEF Prepare, NextToken
  <2>3. saga'[k] = [status |-> "prepared", token |-> token, expected |-> guard[r].version]
    BY <2>2 DEF Superseded
  <2>4. \A i \in Keys \ {k} : saga'[i] = Superseded(r, lag)[i]
    BY <2>2 DEF Superseded
  <2>5. \A i \in Keys : /\ Superseded(r, lag)[i].token = saga[i].token
                       /\ \/ Superseded(r, lag)[i].status = saga[i].status
                          \/ /\ saga[i].status \in Open
                             /\ Superseded(r, lag)[i].status = "needs_attention"
    BY <1>1, SupersededSaga
  <2>. QED BY <2>3, <2>4, <2>5 DEF Open
<1>5. \A q \in Resources : Confirmed(q)' = Confirmed(q)
  BY <1>3 DEF Confirmed
<1>6. VersionsAreOneHistory'
  BY <1>2, <1>3, <1>5 DEF IInv, VersionsAreOneHistory
<1>7. TokensRiseWithVersions'
  BY <1>3, <1>5 DEF IInv, TokensRiseWithVersions
<1>8. WrittenTogether'
  BY <1>3, <1>4 DEF IInv, WrittenTogether
<1>9. LeaseIsNewest'
  <2>1. \A i \in Confirmed(r) : effect[i].token \in Nat /\ effect[i].token <= guard[r].counter
    BY <1>1 DEF IInv, TypeOK, LeaseIsNewest, Confirmed, Effect
  <2>2. /\ guard'[r].active <= guard'[r].counter /\ guard'[r].active = guard'[r].counter
        /\ \A i \in Confirmed(r) : effect[i].token <= guard'[r].counter
                                 /\ effect[i].token < guard'[r].active
    BY <1>1, <1>2, <2>1
  <2>3. \A q \in Resources \ {r} : Leased(q)' = Leased(q)
    BY <1>2 DEF Leased
  <2>. QED BY <1>2, <1>3, <1>5, <2>2, <2>3 DEF IInv, LeaseIsNewest
<1>10. PermitsKnown'
  <2>. SUFFICES ASSUME NEW x \in permits'
                PROVE  /\ x.epoch <= epoch'
                       /\ x.epoch = epoch' =>
                            /\ saga'[x.key].status # "absent"
                            /\ x.token <= guard'[ResourceOf[x.key]].counter
                            /\ effect'[x.key] # NoEffect => x.token <= effect'[x.key].token
                            /\ Leased(ResourceOf[x.key])' /\ x.token = guard'[ResourceOf[x.key]].active =>
                                 /\ x.expected = guard'[ResourceOf[x.key]].version
                                 /\ x.token = saga'[x.key].token
    BY DEF PermitsKnown
  <2>1. CASE x = p
    BY <1>1, <1>2, <1>3, <1>4, <2>1 DEF TypeOK
  <2>2. CASE x \in permits
    <3>1. x.key \in Keys /\ ResourceOf[x.key] \in Resources /\ x.token \in Nat
      BY <1>1, <2>2, KeyResource DEF TypeOK, Permit
    <3>2. CASE x.epoch # epoch
      BY <1>3, <2>2, <3>2 DEF IInv, PermitsKnown
    <3>3. CASE x.epoch = epoch
      <4>1. /\ x.epoch <= epoch /\ saga[x.key].status # "absent"
            /\ x.token <= guard[ResourceOf[x.key]].counter
            /\ effect[x.key] # NoEffect => x.token <= effect[x.key].token
        BY <2>2, <3>3 DEF IInv, PermitsKnown
      <4>2. CASE ResourceOf[x.key] = r
        BY <1>1, <1>2, <1>3, <1>4, <3>1, <4>1, <4>2
      <4>3. CASE ResourceOf[x.key] # r
        <5>1. x.key # k /\ guard'[ResourceOf[x.key]] = guard[ResourceOf[x.key]]
          BY <1>2, <3>1, <4>3
        <5>. QED BY <1>3, <1>4, <2>2, <3>1, <3>3, <4>1, <5>1 DEF IInv, PermitsKnown, Leased
      <4>. QED BY <4>2, <4>3
    <3>. QED BY <3>2, <3>3
  <2>. QED BY <1>3, <2>1, <2>2
<1>. QED BY <1>1, <1>6, <1>7, <1>8, <1>9, <1>10 DEF IInv

LEMMA ConfirmIInv ==
  ASSUME IInv, NEW p \in permits, Confirm(p)
  PROVE  IInv'
<1>. DEFINE k == p.key
            r == ResourceOf[p.key]
            version == guard[r].version + 1
<1>1. TypeOK /\ TypeOK' /\ Fenced(p) /\ effect[k] = NoEffect /\ epoch' = epoch /\ permits' = permits
  BY ConfirmType DEF IInv, Confirm
<1>2. /\ p \in Permit /\ k \in Keys /\ r \in Resources
      /\ Leased(r) /\ p.token = guard[r].active /\ guard[r].active = guard[r].counter
      /\ p.epoch = epoch => saga[k].status \notin {"absent", "completed"}
  BY <1>1, FencedPermit
<1>3. guard[r].version \in Nat /\ p.token \in Nat /\ p.epoch \in Nat
  BY <1>1, <1>2 DEF TypeOK, Guard, Permit
<1>4. /\ effect'[k] = [version |-> version, token |-> p.token, epoch |-> p.epoch]
      /\ \A i \in Keys \ {k} : effect'[i] = effect[i]
  BY <1>1, <1>2 DEF Confirm, TypeOK
<1>5. /\ guard'[r].version = version /\ guard'[r].counter = guard[r].counter
      /\ guard'[r].active = guard[r].active /\ guard'[r].lease = Free
      /\ \A q \in Resources \ {r} : guard'[q] = guard[q]
  <2>1. guard' = [guard EXCEPT ![r] = Advanced(guard[r])] /\ guard[r] \in Guard
    BY <1>1, <1>2 DEF Confirm, TypeOK
  <2>. QED BY <1>1, <1>2, <2>1, AdvancedGuard DEF TypeOK
<1>6. effect'[k] # NoEffect
  <2>1. [version |-> version, token |-> p.token, epoch |-> p.epoch]
          \in [version : Nat, token : Nat, epoch : Nat]
    BY <1>3
  <2>. QED BY <1>4, <2>1, SagaAssumption
<1>7. /\ Confirmed(r)' = Confirmed(r) \cup {k} /\ k \notin Confirmed(r)
      /\ \A q \in Resources \ {r} : Confirmed(q)' = Confirmed(q)
      /\ \A q \in Resources \ {r} : k \notin Confirmed(q)
  BY <1>1, <1>2, <1>4, <1>6 DEF Confirmed
<1>8. \A i \in Confirmed(r) :
        /\ effect'[i] = effect[i] /\ effect[i].version \in 1 .. guard[r].version
        /\ effect[i].token \in Nat /\ effect[i].token < p.token
  <2>. SUFFICES ASSUME NEW i \in Confirmed(r)
                PROVE  /\ effect'[i] = effect[i] /\ effect[i].version \in 1 .. guard[r].version
                       /\ effect[i].token \in Nat /\ effect[i].token < p.token
    OBVIOUS
  <2>1. effect'[i] = effect[i] /\ effect[i].token \in Nat
    BY <1>1, <1>4, <1>7 DEF Confirmed, TypeOK, Effect
  <2>2. effect[i].version \in 1 .. guard[r].version
    BY <1>2 DEF IInv, VersionsAreOneHistory
  <2>3. effect[i].token < p.token
    BY <1>2 DEF IInv, LeaseIsNewest
  <2>. QED BY <2>1, <2>2, <2>3
<1>9. VersionsAreOneHistory'
  <2>1. {effect'[i].version : i \in Confirmed(r)'} = 1 .. guard'[r].version
    <3>1. {effect[i].version : i \in Confirmed(r)} = 1 .. guard[r].version
      BY <1>2 DEF IInv, VersionsAreOneHistory
    <3>2. {effect'[i].version : i \in Confirmed(r)'} = (1 .. guard[r].version) \cup {version}
      BY <1>4, <1>7, <1>8, <3>1
    <3>. QED BY <1>3, <1>5, <3>2
  <2>2. \A i, j \in Confirmed(r)' : effect'[i].version = effect'[j].version => i = j
    <3>1. \A i, j \in Confirmed(r) : effect[i].version = effect[j].version => i = j
      BY <1>2 DEF IInv, VersionsAreOneHistory
    <3>2. \A i \in Confirmed(r) : effect'[i].version # version
      BY <1>3, <1>8
    <3>. QED BY <1>4, <1>7, <1>8, <3>1, <3>2
  <2>3. \A q \in Resources \ {r} :
          /\ {effect'[i].version : i \in Confirmed(q)'} = 1 .. guard'[q].version
          /\ \A i, j \in Confirmed(q)' : effect'[i].version = effect'[j].version => i = j
    <3>1. \A q \in Resources \ {r} : \A i \in Confirmed(q) : effect'[i] = effect[i]
      BY <1>4, <1>7 DEF Confirmed
    <3>. QED BY <1>5, <1>7, <3>1 DEF IInv, VersionsAreOneHistory
  <2>. QED BY <2>1, <2>2, <2>3 DEF VersionsAreOneHistory
<1>10. TokensRiseWithVersions'
  <2>1. \A i, j \in Confirmed(r)' :
          effect'[i].version < effect'[j].version => effect'[i].token < effect'[j].token
    <3>1. \A i, j \in Confirmed(r) :
            effect[i].version < effect[j].version => effect[i].token < effect[j].token
      BY <1>2 DEF IInv, TokensRiseWithVersions
    <3>2. \A i \in Confirmed(r) : ~(version < effect[i].version)
      BY <1>3, <1>8
    <3>. QED BY <1>3, <1>4, <1>7, <1>8, <3>1, <3>2
  <2>2. \A q \in Resources \ {r} : \A i, j \in Confirmed(q)' :
          effect'[i].version < effect'[j].version => effect'[i].token < effect'[j].token
    <3>1. \A q \in Resources \ {r} : \A i \in Confirmed(q) : effect'[i] = effect[i]
      BY <1>4, <1>7 DEF Confirmed
    <3>. QED BY <1>7, <3>1 DEF IInv, TokensRiseWithVersions
  <2>. QED BY <2>1, <2>2 DEF TokensRiseWithVersions
<1>11. /\ \A i \in Keys \ {k} : saga'[i] = saga[i]
       /\ saga'[k].token = saga[k].token
       /\ IF HasSaga(p) THEN saga'[k].status = "completed" ELSE saga'[k] = saga[k]
  BY <1>1, SetStatusType DEF Confirm
<1>12. WrittenTogether'
  <2>1. \A i \in Keys : [key |-> i, kind |-> "confirmed"] \in outbox' <=>
                        i = k \/ [key |-> i, kind |-> "confirmed"] \in outbox
    BY DEF Confirm
  <2>2. saga'[k].status = "completed" <=> p.epoch = epoch
    <3>1. saga[k].status # "completed"
      BY <1>1, <1>2 DEF IInv, WrittenTogether
    <3>. QED BY <1>2, <1>11, <3>1 DEF HasSaga
  <2>3. effect'[k].epoch = p.epoch
    BY <1>4
  <2>. QED BY <1>1, <1>4, <1>6, <1>11, <2>1, <2>2, <2>3 DEF IInv, WrittenTogether
<1>13. LeaseIsNewest'
  <2>1. ~Leased(r)' /\ \A q \in Resources \ {r} : Leased(q)' = Leased(q)
    BY <1>5 DEF Leased, Free
  <2>2. \A i \in Confirmed(r)' : effect'[i].token <= guard'[r].counter
    BY <1>2, <1>3, <1>4, <1>5, <1>7, <1>8
  <2>3. guard'[r].active <= guard'[r].counter
    BY <1>2, <1>5 DEF IInv, LeaseIsNewest
  <2>4. \A q \in Resources \ {r} : \A i \in Confirmed(q) : effect'[i] = effect[i]
    BY <1>4, <1>7 DEF Confirmed
  <2>. QED BY <1>5, <1>7, <2>1, <2>2, <2>3, <2>4 DEF IInv, LeaseIsNewest
<1>14. PermitsKnown'
  <2>. SUFFICES ASSUME NEW x \in permits, x.epoch = epoch
                PROVE  /\ saga'[x.key].status # "absent"
                       /\ x.token <= guard'[ResourceOf[x.key]].counter
                       /\ effect'[x.key] # NoEffect => x.token <= effect'[x.key].token
                       /\ Leased(ResourceOf[x.key])' /\ x.token = guard'[ResourceOf[x.key]].active =>
                            /\ x.expected = guard'[ResourceOf[x.key]].version
                            /\ x.token = saga'[x.key].token
    BY <1>1 DEF IInv, PermitsKnown
  <2>1. x.key \in Keys /\ ResourceOf[x.key] \in Resources
    BY <1>1, KeyResource DEF TypeOK, Permit
  <2>2. /\ saga[x.key].status # "absent"
        /\ x.token <= guard[ResourceOf[x.key]].counter
        /\ effect[x.key] # NoEffect => x.token <= effect[x.key].token
    BY DEF IInv, PermitsKnown
  <2>3. saga'[x.key].status # "absent" /\ saga'[x.key].token = saga[x.key].token
    BY <1>11, <2>1, <2>2
  <2>4. x.token <= guard'[ResourceOf[x.key]].counter
    BY <1>5, <2>1, <2>2
  <2>5. effect'[x.key] # NoEffect => x.token <= effect'[x.key].token
    BY <1>2, <1>4, <2>1, <2>2
  <2>6. CASE ResourceOf[x.key] = r
    BY <1>5, <2>3, <2>4, <2>5, <2>6 DEF Leased, Free
  <2>7. CASE ResourceOf[x.key] # r
    BY <1>5, <2>1, <2>3, <2>4, <2>5, <2>7 DEF IInv, PermitsKnown, Leased
  <2>. QED BY <2>6, <2>7
<1>. QED BY <1>1, <1>9, <1>10, <1>12, <1>13, <1>14 DEF IInv

LEMMA ResetIInv ==
  ASSUME IInv, TypeOK', ResetTenant
  PROVE  IInv'
<1>1. \A r \in Resources : Confirmed(r)' = {}
  BY DEF ResetTenant, Confirmed
<1>2. VersionsAreOneHistory'
  <2>1. \A r \in Resources : guard'[r].version = 0
    BY DEF ResetTenant, NoGuard
  <2>. QED BY <1>1, <2>1 DEF VersionsAreOneHistory
<1>3. TokensRiseWithVersions'
  BY <1>1 DEF TokensRiseWithVersions
<1>4. WrittenTogether'
  BY DEF ResetTenant, WrittenTogether, NoSaga
<1>5. LeaseIsNewest'
  BY <1>1 DEF LeaseIsNewest, ResetTenant, NoGuard, Free, Leased
<1>6. PermitsKnown'
  <2>1. \A p \in permits : p.epoch \in Nat /\ p.epoch <= epoch
    BY DEF IInv, TypeOK, Permit, PermitsKnown
  <2>. QED BY <2>1 DEF ResetTenant, PermitsKnown, IInv, TypeOK
<1>. QED BY <1>2, <1>3, <1>4, <1>5, <1>6 DEF IInv

LEMMA TickIInv ==
  ASSUME IInv, TypeOK', Tick
  PROVE  IInv'
<1>1. \A r \in Resources : SameGuard(r)
  BY TickGuard DEF IInv, SameGuard
<1>2. \A k \in Keys : SameSaga(k)
  BY DEF Tick, SameSaga
<1>. QED BY <1>1, <1>2, QuietStep DEF Tick

LEMMA NextIInv == IInv /\ [Next]_vars => IInv'
<1>. SUFFICES ASSUME IInv, [Next]_vars PROVE IInv'
  OBVIOUS
<1>1. TypeOK'
  BY NextType DEF IInv
<1>2. ASSUME NEW o \in Owners, NEW k \in Keys, NEW lag \in Lags, Prepare(o, k, lag)
      PROVE  IInv'
  BY <1>2, PrepareIInv
<1>3. ASSUME NEW p \in permits, MarkStarted(p) \/ Confirm(p) PROVE IInv'
  BY <1>3, StartIInv, ConfirmIInv
<1>4. ASSUME NEW p \in permits, NEW s \in FailStatus, FailExecution(p, s) PROVE IInv'
  BY <1>4, FailIInv
<1>5. CASE ResetTenant
  BY <1>1, <1>5, ResetIInv
<1>6. CASE Tick
  BY <1>1, <1>6, TickIInv
<1>7. CASE UNCHANGED vars
  BY <1>1, <1>7, QuietStep DEF vars, SameGuard, SameSaga
<1>. QED BY <1>2, <1>3, <1>4, <1>5, <1>6, <1>7 DEF Next

LEMMA AlwaysIInv == Spec => []IInv
BY InitIInv, NextIInv, PTL DEF Spec

(* The versions of a resource's effects are 1 .. resource_version, each    *)
(* taken once, whatever fails, expires, or is presented late.              *)
THEOREM EffectsFormOneHistory == Spec => []VersionsAreOneHistory
<1>1. IInv => VersionsAreOneHistory
  BY DEF IInv
<1>. QED BY <1>1, AlwaysIInv, PTL

(* A newer effect on a resource carries a newer fencing token.             *)
THEOREM NewerEffectNewerToken == Spec => []TokensRiseWithVersions
<1>1. IInv => TokensRiseWithVersions
  BY DEF IInv
<1>. QED BY <1>1, AlwaysIInv, PTL

(* Effect, completed saga and confirmed event exist together or not at all.*)
THEOREM EffectSagaOutboxAgree == Spec => []WrittenTogether
<1>1. IInv => WrittenTogether
  BY DEF IInv
<1>. QED BY <1>1, AlwaysIInv, PTL

(* A permit that passes the fence saw the current version.                 *)
THEOREM FenceSubsumesVersionCheck == Spec => []FenceImpliesVersion
<1>1. IInv => FenceImpliesVersion
  BY FencedPermit DEF FenceImpliesVersion
<1>. QED BY <1>1, AlwaysIInv, PTL

-----------------------------------------------------------------------------
(* The refinement.  The mapping sends an effect to its version, so what    *)
(* must be shown of a confirmation is that resource_version counts the     *)
(* effects confirmed so far.                                               *)

LEMMA HistoryIsConfirmed ==
  ASSUME IInv, NEW r \in Resources
  PROVE  Ledger!History(r) = Confirmed(r)
<1>1. \A k \in Confirmed(r) : effect[k].version \in 1 .. guard[r].version
  BY DEF IInv, VersionsAreOneHistory
<1>2. guard[r].version \in Nat
  BY DEF IInv, TypeOK, Guard
<1>. QED BY <1>1, <1>2 DEF Ledger!History, Applied, Confirmed

LEMMA VersionCountsEffects ==
  ASSUME IInv, NEW r \in Resources
  PROVE  Cardinality(Confirmed(r)) = guard[r].version
<1>. DEFINE C == Confirmed(r)
            n == guard[r].version
            f == [k \in C |-> effect[k].version]
<1>1. IsFiniteSet(C)
  BY SagaAssumption, FS_Subset DEF Confirmed
<1>2. n \in Nat
  BY DEF IInv, TypeOK, Guard
<1>3. {effect[k].version : k \in C} = 1 .. n
      /\ \A i, k \in C : effect[i].version = effect[k].version => i = k
  BY DEF IInv, VersionsAreOneHistory
<1>. HIDE DEF C, n
<1>4. f \in Bijection(C, 1 .. n)
  BY <1>3, Zenon DEF Bijection, Injection, Surjection, IsInjective
<1>. HIDE DEF f
<1>5. Cardinality(C) = Cardinality(1 .. n)
  BY <1>1, <1>4, FS_Bijection DEF ExistsBijection
<1>6. Cardinality(1 .. n) = n
  BY <1>2, FS_Interval
<1>. QED BY <1>5, <1>6 DEF C, n

LEMMA ConfirmApplies ==
  ASSUME IInv, NEW p \in permits, Confirm(p)
  PROVE  Ledger!Apply(p.key)
<1>. DEFINE k == p.key
            r == ResourceOf[p.key]
            version == guard[r].version + 1
<1>1. k \in Keys /\ r \in Resources /\ p.token \in Nat /\ p.epoch \in Nat
  BY KeyResource DEF IInv, TypeOK, Permit
<1>2. version \in Nat
  BY <1>1 DEF IInv, TypeOK, Guard
<1>3. effect[k] = NoEffect /\ effect' = [effect EXCEPT ![k] =
         [version |-> version, token |-> p.token, epoch |-> p.epoch]]
  BY DEF Confirm
<1>4. [version |-> version, token |-> p.token, epoch |-> p.epoch] # NoEffect
  <2>1. [version |-> version, token |-> p.token, epoch |-> p.epoch]
          \in [version : Nat, token : Nat, epoch : Nat]
    BY <1>1, <1>2
  <2>. QED BY <2>1, SagaAssumption
<1>5. Applied[k] = 0
  BY <1>1, <1>3 DEF Applied
<1>6. Applied' = [Applied EXCEPT ![k] = version]
  <2>1. effect \in [Keys -> Effect \cup {NoEffect}]
    BY DEF IInv, TypeOK
  <2>2. effect'[k] # NoEffect /\ effect'[k].version = version
    BY <1>1, <1>3, <1>4, <2>1
  <2>3. \A i \in Keys \ {k} : effect'[i] = effect[i]
    BY <1>3, <2>1
  <2>. QED BY <1>1, <2>2, <2>3 DEF Applied
<1>7. Ledger!Cardinality(Ledger!History(r)) = guard[r].version
  <2>1. Cardinality(Ledger!History(r)) = guard[r].version
    BY <1>1, HistoryIsConfirmed, VersionCountsEffects
  <2>. QED BY <2>1, Zenon DEF Cardinality, Ledger!Cardinality, IsFiniteSet, Ledger!IsFiniteSet
<1>. QED BY <1>5, <1>6, <1>7 DEF Ledger!Apply

LEMMA LedgerStep == IInv /\ [Next]_vars => [Ledger!Next]_Applied
<1>. SUFFICES ASSUME IInv, [Next]_vars PROVE Ledger!Next \/ Applied' = Applied
  OBVIOUS
<1>1. CASE effect' = effect
  BY <1>1 DEF Applied
<1>2. ASSUME NEW p \in permits, Confirm(p) PROVE Ledger!Next
  <2>1. p.key \in Keys
    BY DEF IInv, TypeOK, Permit
  <2>. QED BY <1>2, <2>1, ConfirmApplies DEF Ledger!Next
<1>3. CASE ResetTenant
  BY <1>3 DEF ResetTenant, Applied, Ledger!Next, Ledger!Clear
<1>. QED BY <1>1, <1>2, <1>3
     DEF Next, vars, Prepare, MarkStarted, FailExecution, Tick

(* The runtime refines the ledger of effects: each business key is applied *)
(* at most once, at the next version of its resource.                      *)
THEOREM SagaImplementsLedger == Spec => ImplementsLedger
<1>1. Init => Ledger!Init
  BY DEF Init, Ledger!Init, Applied
<1>. QED BY <1>1, LedgerStep, AlwaysIInv, PTL DEF Spec, ImplementsLedger, Ledger!Spec

-----------------------------------------------------------------------------
(* What no step may do.                                                    *)

LEMMA FinalStep ==
  ASSUME IInv, [Next]_vars, NEW k \in Keys
  PROVE  /\ effect[k] # NoEffect => effect'[k] = effect[k] \/ epoch' # epoch
         /\ saga[k].status = "completed" => saga'[k] = saga[k] \/ epoch' # epoch
         /\ saga[k].status # "executing" /\ saga'[k].status = "executing" =>
              saga[k].token = guard[ResourceOf[k]].active
<1>1. TypeOK
  BY DEF IInv
<1>2. ASSUME NEW o \in Owners, NEW i \in Keys, NEW lag \in Lags, Prepare(o, i, lag)
      PROVE  /\ effect' = effect
             /\ saga[k].status = "completed" => saga'[k] = saga[k]
             /\ saga'[k].status = "executing" => saga[k].status = "executing"
  <2>1. effect' = effect /\ effect[i] = NoEffect
    BY <1>2 DEF Prepare
  <2>2. saga' = [Superseded(ResourceOf[i], lag) EXCEPT ![i] =
           [status |-> "prepared", token |-> NextToken(ResourceOf[i]),
            expected |-> guard[ResourceOf[i]].version]]
    BY <1>2 DEF Prepare
  <2>3. saga[i].status # "completed"
    BY <2>1 DEF IInv, WrittenTogether
  <2>4. CASE i = k
    BY <2>1, <2>2, <2>3, <2>4 DEF Superseded
  <2>5. CASE i # k
    <3>1. saga'[k] = Superseded(ResourceOf[i], lag)[k]
      BY <2>2, <2>5 DEF Superseded
    <3>2. saga[k].status = "completed" => saga'[k] = saga[k]
      BY <3>1 DEF Superseded, Open
    <3>. QED BY <1>1, <2>1, <3>1, <3>2, SupersededSaga
  <2>. QED BY <2>4, <2>5
<1>3. ASSUME NEW p \in permits, MarkStarted(p)
      PROVE  /\ effect' = effect
             /\ saga[k].status = "completed" => saga'[k] = saga[k]
             /\ saga[k].status # "executing" /\ saga'[k].status = "executing" =>
                  saga[k].token = guard[ResourceOf[k]].active
  <2>1. Fenced(p) /\ SetStatus(p, "executing") /\ effect' = effect
    BY <1>3 DEF MarkStarted
  <2>2. /\ p.token = guard[ResourceOf[p.key]].active
        /\ p.epoch = epoch => saga[p.key].status # "completed" /\ p.token = saga[p.key].token
    BY <2>1, FencedPermit
  <2>3. CASE k # p.key
    BY <1>1, <2>1, <2>3, SetStatusType
  <2>4. CASE k = p.key
    BY <1>1, <2>1, <2>2, <2>4, SetStatusType DEF HasSaga
  <2>. QED BY <2>3, <2>4
<1>4. ASSUME NEW p \in permits, Confirm(p)
      PROVE  /\ effect[k] # NoEffect => effect'[k] = effect[k]
             /\ saga[k].status = "completed" => saga'[k] = saga[k]
             /\ saga'[k].status = "executing" => saga[k].status = "executing"
  <2>1. SetStatus(p, "completed") /\ effect[p.key] = NoEffect
    BY <1>4 DEF Confirm
  <2>2. effect[k] # NoEffect => effect'[k] = effect[k]
    BY <1>1, <1>4 DEF Confirm, TypeOK
  <2>3. p.key \in Keys
    BY <1>1 DEF TypeOK, Permit
  <2>4. saga[p.key].status # "completed"
    BY <2>1, <2>3 DEF IInv, WrittenTogether
  <2>5. CASE k # p.key
    BY <1>1, <2>1, <2>2, <2>5, SetStatusType
  <2>6. CASE k = p.key
    BY <1>1, <2>1, <2>2, <2>4, <2>6, SetStatusType
  <2>. QED BY <2>5, <2>6
<1>5. ASSUME NEW p \in permits, NEW s \in FailStatus, FailExecution(p, s)
      PROVE  /\ effect' = effect
             /\ saga[k].status = "completed" => saga'[k] = saga[k]
             /\ saga'[k].status = "executing" => saga[k].status = "executing"
  <2>1. CASE saga[p.key].status = "completed"
    BY <1>5, <2>1 DEF FailExecution
  <2>2. CASE saga[p.key].status # "completed"
    <3>1. SetStatus(p, s) /\ s \in {"failed", "needs_attention"} /\ effect' = effect
      BY <1>5, <2>2 DEF FailExecution, FailStatus
    <3>2. CASE k # p.key
      BY <1>1, <3>1, <3>2, SetStatusType
    <3>3. CASE k = p.key
      BY <1>1, <2>2, <3>1, <3>3, SetStatusType
    <3>. QED BY <3>2, <3>3
  <2>. QED BY <2>1, <2>2
<1>6. ResetTenant => epoch' # epoch /\ saga'[k].status = "absent"
  BY <1>1 DEF ResetTenant, NoSaga, TypeOK
<1>7. Tick \/ UNCHANGED vars => UNCHANGED <<effect, saga>>
  BY DEF Tick, vars
<1>. QED BY <1>2, <1>3, <1>4, <1>5, <1>6, <1>7 DEF Next

(* A confirmed effect and its completed saga stand until the tenant is     *)
(* reset, and only the active token's saga is ever marked as executing.    *)
THEOREM ConfirmedStaysFinal == Spec => ConfirmedIsFinal
<1>1. IInv /\ [Next]_vars =>
        [\A k \in Keys :
           /\ effect[k] # NoEffect => effect'[k] = effect[k] \/ epoch' # epoch
           /\ saga[k].status = "completed" => saga'[k] = saga[k] \/ epoch' # epoch
           /\ saga[k].status # "executing" /\ saga'[k].status = "executing" =>
                saga[k].token = guard[ResourceOf[k]].active]_vars
  BY FinalStep
<1>. QED BY <1>1, AlwaysIInv, PTL DEF Spec, ConfirmedIsFinal
=============================================================================
