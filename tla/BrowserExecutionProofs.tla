----------------------- MODULE BrowserExecutionProofs -----------------------
(***************************************************************************)
(* Theorems about BrowserExecution, for every set of requests, plans,      *)
(* products and processes and for both browser backends.  Every step is    *)
(* shown to be a step of ExecutionSaga, so that the invariant proved there *)
(* holds of these callers too.                                             *)
(***************************************************************************)
EXTENDS BrowserExecution, ExecutionSagaProofs

-----------------------------------------------------------------------------
(* The inductive invariant.                                                *)

(* browser_execute never resets the tenant.                                *)
OneEpoch == \A m \in permits : m.epoch = epoch

(* It only ever reports an uncertain failure.                              *)
SagasLive == \A m \in permits : saga[m.key].status \notin {"absent", "failed"}

Holding == {"permitted", "started", "submitted", "applied", "failing"}

PermitsHeld ==
  \A p \in Processes :
    /\ call[p].pc \in Holding => call[p].permit # NoPermit
    /\ call[p].permit # NoPermit =>
         call[p].pc # "idle" /\ call[p].permit \in permits /\ call[p].permit.key = Plan(p)
    /\ call[p].pc = "applied" => call[p].permit \in landed

(* A token is held by one call, as prepare counts tokens up per product.   *)
TokensHeldOnce ==
  \A p1, p2 \in Processes :
    /\ call[p1].permit # NoPermit /\ call[p2].permit # NoPermit /\ p1 # p2
    /\ ResourceOf[call[p1].permit.key] = ResourceOf[call[p2].permit.key]
    => call[p1].permit.token # call[p2].permit.token

(* What a copy of the records says of other requests stays true.           *)
AnswersKnown ==
  /\ AcknowledgedIsConfirmed
  /\ \A p \in Processes :
       /\ call[p].pc \in {"succeeded", "replaying"} => effect[Plan(p)] # NoEffect
       /\ \A q \in Requests : call[p].copy[q] = "completed" => effect[PlanOf[q]] # NoEffect

CInv == /\ CallTypeOK /\ IInv
        /\ OneEpoch /\ SagasLive /\ PermitsHeld /\ TokensHeldOnce
        /\ AnswersKnown /\ ConfirmedWasWritten

LEMMA CallInitCInv == CallInit => CInv
<1>. SUFFICES ASSUME CallInit PROVE CInv
  OBVIOUS
<1>1. IInv /\ permits = {} /\ effect = [k \in Keys |-> NoEffect]
  BY InitIInv DEF CallInit, Init
<1>2. \A p \in Processes : call[p] = Idle
  BY DEF CallInit
<1>3. Fresh \in [Requests -> RecordStatus] /\ \A q \in Requests : Fresh[q] # "completed"
  BY DEF Fresh, RecordStatus
<1>4. Idle \in Call
  BY <1>3 DEF Idle, Call, PC
<1>5. CallTypeOK
  BY <1>1, <1>2, <1>3, <1>4 DEF CallTypeOK, CallInit, IInv, Idle, Bare
<1>6. OneEpoch /\ SagasLive
  BY <1>1 DEF OneEpoch, SagasLive
<1>7. PermitsHeld /\ TokensHeldOnce
  BY <1>2 DEF PermitsHeld, TokensHeldOnce, Idle, Holding
<1>8. AnswersKnown
  BY <1>2, <1>3 DEF AnswersKnown, AcknowledgedIsConfirmed, CallInit, Idle
<1>9. ConfirmedWasWritten
  BY <1>1 DEF ConfirmedWasWritten
<1>. QED BY <1>1, <1>5, <1>6, <1>7, <1>8, <1>9 DEF CInv

-----------------------------------------------------------------------------
(* The runtime's side of a step.                                           *)

(* What no step of browser_execute does to the runtime.                    *)
Monotone ==
  /\ permits \subseteq permits' /\ epoch' = epoch
  /\ \A k \in Keys : effect[k] # NoEffect => effect'[k] = effect[k]

RuntimeStep == [Next]_vars /\ Monotone /\ OneEpoch' /\ SagasLive'

LEMMA PlanType ==
  ASSUME CallTypeOK, NEW p \in Processes, call[p].pc # "idle"
  PROVE  call[p].req \in Requests /\ Plan(p) \in Keys /\ Resource(p) \in Resources
BY BrowserAssumption, KeyResource DEF CallTypeOK, Plan, Resource

LEMMA QuietRuntime ==
  ASSUME CInv, UNCHANGED vars
  PROVE  RuntimeStep
BY DEF CInv, RuntimeStep, Monotone, OneEpoch, SagasLive, vars

LEMMA PrepareRuntime ==
  ASSUME CInv, NEW o \in Owners, NEW k \in Keys, NEW lag \in Lags, Prepare(o, k, lag)
  PROVE  RuntimeStep
<1>1. Next
  BY DEF Next
<1>2. Monotone
  BY DEF Prepare, Monotone
<1>3. permits' = permits \cup {[key |-> k, owner |-> o, token |-> NextToken(ResourceOf[k]),
                     expected |-> guard[ResourceOf[k]].version, epoch |-> epoch]}
  BY DEF Prepare
<1>4. OneEpoch'
  BY <1>2, <1>3 DEF CInv, OneEpoch, Monotone
<1>5. \A i \in Keys : i # k => saga'[i] = Superseded(ResourceOf[k], lag)[i]
  BY DEF Prepare, Superseded
<1>6. saga'[k].status = "prepared"
  BY DEF Prepare, Superseded
<1>7. \A i \in Keys : \/ Superseded(ResourceOf[k], lag)[i].status = saga[i].status
                      \/ Superseded(ResourceOf[k], lag)[i].status = "needs_attention"
  BY SupersededSaga DEF CInv, IInv
<1>8. SagasLive'
  <2>. SUFFICES ASSUME NEW m \in permits' PROVE saga'[m.key].status \notin {"absent", "failed"}
    BY DEF SagasLive
  <2>1. CASE m.key = k
    BY <2>1, <1>6
  <2>2. CASE m.key # k
    <3>1. m \in permits /\ m.key \in Keys
      BY <2>2, <1>3 DEF CInv, IInv, TypeOK, Permit
    <3>2. saga[m.key].status \notin {"absent", "failed"}
      BY <3>1 DEF CInv, SagasLive
    <3>. QED BY <2>2, <3>1, <3>2, <1>5, <1>7
  <2>. QED BY <2>1, <2>2
<1>. QED BY <1>1, <1>2, <1>4, <1>8 DEF RuntimeStep

(* The other operations issue no permit and set one of these statuses.     *)
LEMMA StatusRuntime ==
  ASSUME CInv, NEW p \in permits, NEW s \in {"executing", "completed", "needs_attention"},
         SetStatus(p, s) \/ UNCHANGED saga,
         UNCHANGED <<permits, epoch>>
  PROVE  OneEpoch' /\ SagasLive'
<1>1. OneEpoch'
  BY DEF CInv, OneEpoch
<1>2. \A k \in Keys : saga'[k].status \in {saga[k].status, s}
  BY SetStatusType DEF CInv, IInv
<1>3. \A m \in permits : m.key \in Keys
  BY DEF CInv, IInv, TypeOK, Permit
<1>. QED BY <1>1, <1>2, <1>3 DEF CInv, SagasLive

LEMMA StartRuntime ==
  ASSUME CInv, NEW p \in permits, MarkStarted(p)
  PROVE  RuntimeStep
<1>1. OneEpoch' /\ SagasLive'
  BY StatusRuntime DEF MarkStarted
<1>. QED BY <1>1 DEF RuntimeStep, Monotone, Next, MarkStarted

LEMMA ConfirmRuntime ==
  ASSUME CInv, NEW p \in permits, Confirm(p)
  PROVE  RuntimeStep
<1>1. OneEpoch' /\ SagasLive'
  BY StatusRuntime DEF Confirm
<1>2. p.key \in Keys
  BY DEF CInv, IInv, TypeOK, Permit
<1>3. Monotone
  BY <1>2 DEF CInv, IInv, TypeOK, Confirm, Monotone
<1>. QED BY <1>1, <1>3 DEF RuntimeStep, Next

LEMMA FailRuntime ==
  ASSUME CInv, NEW p \in permits, FailExecution(p, "needs_attention")
  PROVE  RuntimeStep
<1>1. OneEpoch' /\ SagasLive'
  BY StatusRuntime DEF FailExecution
<1>. QED BY <1>1 DEF RuntimeStep, Monotone, Next, FailExecution, FailStatus

LEMMA TickRuntime ==
  ASSUME CInv, Tick
  PROVE  RuntimeStep
BY DEF CInv, RuntimeStep, Monotone, OneEpoch, SagasLive, Next, Tick

LEMMA StepRuntime ==
  ASSUME CInv, [CallNext]_callVars
  PROVE  RuntimeStep
<1>1. CASE UNCHANGED callVars
  BY <1>1, QuietRuntime DEF callVars, vars
<1>2. CASE CallsTick
  BY <1>2, TickRuntime DEF CallsTick
<1>3. ASSUME NEW m \in posted, Land(m) \/ Lose(m) PROVE RuntimeStep
  BY <1>3, QuietRuntime DEF Land, Lose
<1>4. ASSUME NEW p \in Processes, CallStep(p) \/ Crash(p) PROVE RuntimeStep
  <2>. DEFINE pm == call[p].permit
  <2>1. call[p].pc \in Holding => pm \in permits
    BY DEF CInv, PermitsHeld
  <2>2. CASE PrepareCall(p)
    <3>1. call[p].pc # "idle"
      BY <2>2 DEF PrepareCall
    <3>2. call[p].req \in Owners /\ Plan(p) \in Keys
      BY <3>1, PlanType DEF CInv, Requests
    <3>. QED BY <2>2, <3>2, PrepareRuntime, QuietRuntime DEF PrepareCall
  <2>3. CASE StartCall(p)
    BY <2>1, <2>3, StartRuntime, QuietRuntime DEF StartCall, Holding
  <2>4. CASE ConfirmCall(p)
    BY <2>1, <2>4, ConfirmRuntime, QuietRuntime DEF ConfirmCall, Holding
  <2>5. CASE FailCall(p)
    BY <2>1, <2>5, FailRuntime DEF FailCall, Holding
  <2>6. CASE (\E q \in Requests : LoadRecords(p, q)) \/ ClaimRequest(p) \/ SaveResult(p) \/ Crash(p)
    BY <2>6, QuietRuntime DEF LoadRecords, ClaimRequest, SaveResult, Crash
  <2>7. CASE Replay(p) \/ ApplyPlan(p) \/ Submit(p) \/ Respond(p) \/ BackendRaises(p)
    BY <2>7, QuietRuntime DEF Replay, ApplyPlan, Submit, Respond, BackendRaises
  <2>. QED BY <1>4, <2>2, <2>3, <2>4, <2>5, <2>6, <2>7 DEF CallStep
<1>. QED BY <1>1, <1>2, <1>3, <1>4 DEF CallNext

-----------------------------------------------------------------------------
(* The calls' side of a step.                                              *)

LEMMA GotoCall ==
  ASSUME CallTypeOK, NEW p \in Processes, NEW pc \in PC, Goto(p, pc),
         call[p].pc # "idle"
  PROVE  /\ call' \in [Processes -> Call]
         /\ \A o \in Processes \ {p} : call'[o] = call[o]
         /\ call'[p].pc = pc /\ call'[p].req = call[p].req
         /\ call'[p].copy = call[p].copy /\ call'[p].permit = call[p].permit
         /\ call'[p].req \in Requests
<1>1. call[p] \in Call /\ call[p].req \in Requests
  BY DEF CallTypeOK
<1>2. call'[p] = [call[p] EXCEPT !.pc = pc]
  BY DEF CallTypeOK, Goto
<1>3. call'[p] \in Call
  BY <1>1, <1>2 DEF Call
<1>. QED BY <1>1, <1>2, <1>3 DEF CallTypeOK, Goto, Call

LEMMA FreshType ==
  /\ Fresh \in [Requests -> RecordStatus] /\ \A q \in Requests : Fresh[q] # "completed"
  /\ Idle \in Call
<1>1. Fresh \in [Requests -> RecordStatus] /\ \A q \in Requests : Fresh[q] # "completed"
  BY DEF Fresh, RecordStatus
<1>. QED BY <1>1 DEF Idle, Call, PC

LEMMA NewPermitType ==
  ASSUME CallTypeOK, NEW p \in Processes, call[p].pc # "idle"
  PROVE  NewPermit(p) \in Permit
<1>1. /\ call[p].req \in Owners /\ Plan(p) \in Keys /\ Resource(p) \in Resources
  BY PlanType DEF Requests
<1>2. guard[Resource(p)] \in Guard /\ epoch \in Nat
  BY <1>1 DEF CallTypeOK, TypeOK
<1>. QED BY <1>1, <1>2 DEF NewPermit, NextToken, Permit, Guard

(* Each step of a call changes that call alone.                            *)
LEMMA StepCall ==
  ASSUME CallTypeOK, NEW p \in Processes, CallStep(p) \/ Crash(p)
  PROVE  /\ call' \in [Processes -> Call]
         /\ \A o \in Processes \ {p} : call'[o] = call[o]
         /\ call'[p].pc # "idle" => call'[p].req \in Requests
<1>. DEFINE Done ==
       /\ call' \in [Processes -> Call]
       /\ \A o \in Processes \ {p} : call'[o] = call[o]
       /\ call'[p].pc # "idle" => call'[p].req \in Requests
<1>0. call \in [Processes -> Call] /\ call[p] \in Call /\ record \in [Requests -> RecordStatus]
  BY DEF CallTypeOK
<1>1. ASSUME NEW q \in Requests, LoadRecords(p, q) PROVE Done
  <2>1. call'[p] = [pc |-> "loaded", req |-> q, copy |-> record, permit |-> NoPermit]
    BY <1>0, <1>1 DEF LoadRecords
  <2>2. call'[p] \in Call
    BY <1>0, <2>1 DEF Call, PC
  <2>. QED BY <1>0, <1>1, <2>1, <2>2 DEF LoadRecords
<1>2. CASE ClaimRequest(p)
  <2>. DEFINE copy == [call[p].copy EXCEPT ![call[p].req] = "in_progress"]
  <2>1. call[p].req \in Requests /\ copy \in [Requests -> RecordStatus]
    BY <1>0, <1>2 DEF ClaimRequest, CallTypeOK, Call, RecordStatus
  <2>2. call' = [call EXCEPT ![p] = [call[p] EXCEPT !.pc = "claimed", !.copy = copy]]
    BY <1>0, <1>2 DEF ClaimRequest
  <2>3. /\ [call[p] EXCEPT !.pc = "claimed", !.copy = copy] \in Call
        /\ [call[p] EXCEPT !.pc = "claimed", !.copy = copy].req = call[p].req
    BY <1>0, <2>1 DEF Call, PC
  <2>. HIDE DEF copy
  <2>. QED BY <1>0, <2>1, <2>2, <2>3
<1>3. ASSUME PrepareCall(p),
             call' = [call EXCEPT ![p].pc = "permitted", ![p].permit = NewPermit(p)]
      PROVE  Done
  <2>1. NewPermit(p) \in Permit /\ call[p].req \in Requests
    BY <1>3, NewPermitType, PlanType DEF PrepareCall
  <2>2. call' = [call EXCEPT ![p] = [call[p] EXCEPT !.pc = "permitted", !.permit = NewPermit(p)]]
    BY <1>0, <1>3
  <2>3. /\ [call[p] EXCEPT !.pc = "permitted", !.permit = NewPermit(p)] \in Call
        /\ [call[p] EXCEPT !.pc = "permitted", !.permit = NewPermit(p)].req = call[p].req
    BY <1>0, <2>1 DEF Call, PC
  <2>. QED BY <1>0, <2>1, <2>2, <2>3
<1>5. CASE SaveResult(p) \/ Crash(p)
  BY <1>0, <1>5, FreshType DEF SaveResult, Crash, Idle
<1>6. ASSUME call[p].pc # "idle",
             \/ Goto(p, "replaying") \/ Goto(p, "raising") \/ Goto(p, "succeeded")
             \/ Goto(p, "started") \/ Goto(p, "applied") \/ Goto(p, "submitted")
             \/ Goto(p, "failing")
      PROVE  Done
  <2>1. PICK pc \in PC : Goto(p, pc)
    BY <1>6 DEF PC
  <2>. QED BY <1>6, <2>1, GotoCall
<1>7. CASE PrepareCall(p)
  BY <1>3, <1>6, <1>7 DEF PrepareCall
<1>8. CASE Replay(p) \/ StartCall(p) \/ ApplyPlan(p) \/ Submit(p) \/ Respond(p)
  BY <1>6, <1>8 DEF Replay, StartCall, ApplyPlan, Submit, Respond
<1>9. CASE BackendRaises(p) \/ ConfirmCall(p) \/ FailCall(p)
  BY <1>6, <1>9 DEF BackendRaises, ConfirmCall, FailCall
<1>. QED BY <1>1, <1>2, <1>5, <1>7, <1>8, <1>9 DEF CallStep

LEMMA StepTypes ==
  ASSUME CInv, RuntimeStep, NEW p \in Processes, CallStep(p) \/ Crash(p)
  PROVE  CallTypeOK'
<1>0. CallTypeOK /\ PermitsHeld /\ permits \subseteq permits'
  BY DEF CInv, RuntimeStep, Monotone
<1>1. TypeOK'
  BY NextType DEF CallTypeOK, RuntimeStep, CInv
<1>2. record' \in [Requests -> RecordStatus]
  <2>1. record \in [Requests -> RecordStatus] /\ call[p].copy \in [Requests -> RecordStatus]
    BY <1>0 DEF CallTypeOK, Call
  <2>2. ClaimRequest(p) => record' = [call[p].copy EXCEPT ![call[p].req] = "in_progress"]
    BY DEF ClaimRequest
  <2>3. SaveResult(p) => \E s \in {"completed", "failed"} :
                           record' = [call[p].copy EXCEPT ![call[p].req] = s]
    BY DEF SaveResult
  <2>4. ~ClaimRequest(p) /\ ~SaveResult(p) => record' = record
    BY DEF CallStep, Crash, LoadRecords, PrepareCall, Replay, StartCall, ApplyPlan, Submit,
           Respond, BackendRaises, ConfirmCall, FailCall
  <2>. QED BY <2>1, <2>2, <2>3, <2>4 DEF RecordStatus
<1>3. posted' \subseteq permits' /\ landed' \subseteq permits'
  <2>1. ApplyPlan(p) \/ Submit(p) => call[p].permit \in permits
    BY <1>0 DEF ApplyPlan, Submit, PermitsHeld, Holding
  <2>2. /\ posted' \subseteq posted \cup {call[p].permit}
        /\ landed' \subseteq landed \cup {call[p].permit}
        /\ ~ApplyPlan(p) /\ ~Submit(p) => posted' = posted /\ landed' = landed
    BY DEF CallStep, Crash, LoadRecords, ClaimRequest, SaveResult, PrepareCall, Replay,
           StartCall, ApplyPlan, Submit, Respond, BackendRaises, ConfirmCall, FailCall
  <2>. QED BY <1>0, <2>1, <2>2 DEF CallTypeOK
<1>4. shop' \in [Stores -> [Resources -> Keys \cup {NoPlan}]]
  <2>0. shop \in [Stores -> [Resources -> Keys \cup {NoPlan}]]
    BY <1>0 DEF CallTypeOK
  <2>1. CASE Replay(p) \/ ApplyPlan(p)
    <3>1. Plan(p) \in Keys
      BY <1>0, <2>1, PlanType DEF Replay, ApplyPlan
    <3>2. shop' = shop \/ Show(p, Plan(p))
      BY <2>1 DEF Replay, ApplyPlan
    <3>. QED BY <2>0, <3>1, <3>2 DEF Show
  <2>2. CASE Crash(p)
    <3>1. Bare \in [Resources -> Keys \cup {NoPlan}]
      BY DEF Bare
    <3>. QED BY <2>0, <2>2, <3>1 DEF Crash
  <2>3. CASE ~(Replay(p) \/ ApplyPlan(p)) /\ ~Crash(p)
    <3>1. shop' = shop
      BY <2>3 DEF CallStep, LoadRecords, ClaimRequest, SaveResult, PrepareCall,
           StartCall, Submit, Respond, BackendRaises, ConfirmCall, FailCall
    <3>. QED BY <2>0, <3>1
  <2>. QED BY <2>1, <2>2, <2>3
<1>5. /\ call' \in [Processes -> Call]
      /\ \A o \in Processes : call'[o].pc # "idle" => call'[o].req \in Requests
  BY <1>0, StepCall DEF CallTypeOK
<1>. QED BY <1>1, <1>2, <1>3, <1>4, <1>5 DEF CallTypeOK

LEMMA StepHeld ==
  ASSUME CInv, RuntimeStep, NEW p \in Processes, CallStep(p) \/ Crash(p)
  PROVE  PermitsHeld'
<1>. DEFINE Held(c) ==
       /\ c.pc \in Holding => c.permit # NoPermit
       /\ c.permit # NoPermit =>
            /\ c.pc # "idle" /\ c.permit \in permits'
            /\ c.permit.key = PlanOf[c.req]
       /\ c.pc = "applied" => c.permit \in landed'
<1>0. CallTypeOK /\ PermitsHeld /\ permits \subseteq permits'
  BY DEF CInv, RuntimeStep, Monotone
<1>1. landed \subseteq landed'
  BY DEF CallStep, Crash, LoadRecords, ClaimRequest, SaveResult, PrepareCall, Replay,
         StartCall, ApplyPlan, Submit, Respond, BackendRaises, ConfirmCall, FailCall
<1>2. \A o \in Processes : Held(call[o])
  BY <1>0, <1>1 DEF PermitsHeld, Plan
<1>3. \A o \in Processes \ {p} : Held(call'[o])
  <2>1. \A o \in Processes \ {p} : call'[o] = call[o]
    BY <1>0, StepCall
  <2>. QED BY <1>2, <2>1
<1>4. ASSUME NEW pc \in PC \ {"idle"}, Goto(p, pc), call[p].pc # "idle",
             pc \in Holding => call[p].pc \in Holding,
             pc = "applied" => call[p].permit \in landed'
      PROVE  Held(call'[p])
  <2>1. /\ call'[p].pc = pc /\ call'[p].req = call[p].req
        /\ call'[p].permit = call[p].permit
    BY <1>0, <1>4, GotoCall
  <2>. QED BY <1>2, <1>4, <2>1
<1>5. ASSUME call[p].pc # "idle",
             \/ Goto(p, "replaying") \/ Goto(p, "raising") \/ Goto(p, "succeeded")
      PROVE  Held(call'[p])
  <2>1. PICK pc \in {"replaying", "raising", "succeeded"} : Goto(p, pc)
    BY <1>5
  <2>2. pc \in PC \ {"idle"} /\ pc \notin Holding /\ pc # "applied"
    BY DEF PC, Holding
  <2>. QED BY <1>4, <1>5, <2>1, <2>2
<1>6. ASSUME call[p].pc \in Holding, Goto(p, "started") \/ Goto(p, "submitted") \/ Goto(p, "failing")
      PROVE  Held(call'[p])
  <2>1. PICK pc \in {"started", "submitted", "failing"} : Goto(p, pc)
    BY <1>6
  <2>2. pc \in PC \ {"idle"} /\ pc \in Holding /\ pc # "applied" /\ call[p].pc # "idle"
    BY <1>6 DEF PC, Holding
  <2>. QED BY <1>4, <1>6, <2>1, <2>2
<1>7. ASSUME call[p].pc \in Holding, Goto(p, "applied"), call[p].permit \in landed'
      PROVE  Held(call'[p])
  <2>1. "applied" \in PC \ {"idle"} /\ "applied" \in Holding /\ call[p].pc # "idle"
    BY <1>7 DEF PC, Holding
  <2>. QED BY <1>4, <1>7, <2>1
<1>8. Held(call'[p])
  <2>0. call[p] \in Call /\ call \in [Processes -> Call]
    BY <1>0 DEF CallTypeOK
  <2>1. ASSUME NEW q \in Requests, LoadRecords(p, q) PROVE Held(call'[p])
    BY <2>0, <2>1 DEF LoadRecords, Holding
  <2>2. CASE ClaimRequest(p)
    <3>1. call'[p].pc = "claimed" /\ call'[p].permit = call[p].permit /\ call'[p].req = call[p].req
      BY <2>0, <2>2 DEF ClaimRequest, Call
    <3>. QED BY <3>1, <1>2 DEF Holding
  <2>3. CASE SaveResult(p) \/ Crash(p)
    BY <2>0, <2>3 DEF SaveResult, Crash, Idle, Holding
  <2>4. ASSUME NEW lag \in Lags, Prepare(call[p].req, Plan(p), lag), call[p].pc = "claimed",
               call' = [call EXCEPT ![p].pc = "permitted", ![p].permit = NewPermit(p)]
        PROVE  Held(call'[p])
    <3>1. /\ call'[p].pc = "permitted" /\ call'[p].permit = NewPermit(p)
          /\ call'[p].req = call[p].req
      BY <2>0, <2>4 DEF Call
    <3>2. NewPermit(p) \in Permit /\ NewPermit(p) # NoPermit
      BY <1>0, <2>4, NewPermitType, BrowserAssumption
    <3>3. NewPermit(p) \in permits'
      BY <2>4 DEF Prepare, NewPermit, Resource
    <3>4. NewPermit(p).key = PlanOf[call[p].req]
      BY DEF NewPermit, Plan
    <3>. QED BY <3>1, <3>2, <3>3, <3>4
  <2>5. CASE PrepareCall(p)
    BY <1>5, <2>4, <2>5 DEF PrepareCall
  <2>6. CASE Replay(p)
    BY <1>5, <2>6 DEF Replay
  <2>7. CASE StartCall(p)
    BY <1>5, <1>6, <2>7 DEF StartCall, Holding
  <2>8. CASE ApplyPlan(p) \/ Respond(p)
    BY <1>7, <2>8 DEF ApplyPlan, Respond, Holding
  <2>9. CASE Submit(p) \/ BackendRaises(p)
    BY <1>6, <2>9 DEF Submit, BackendRaises, Holding
  <2>10. CASE ConfirmCall(p)
    BY <1>5, <1>6, <2>10 DEF ConfirmCall, Holding
  <2>11. CASE FailCall(p)
    BY <1>5, <2>11 DEF FailCall
  <2>. QED BY <2>1, <2>2, <2>3, <2>5, <2>6, <2>7, <2>8, <2>9, <2>10, <2>11 DEF CallStep
<1>. QED BY <1>3, <1>8 DEF PermitsHeld, Plan

(* What prepare hands out is newer than anything another call holds.       *)
LEMMA StepTokens ==
  ASSUME CInv, RuntimeStep, NEW p \in Processes, CallStep(p) \/ Crash(p)
  PROVE  TokensHeldOnce'
<1>0. CallTypeOK /\ IInv /\ OneEpoch /\ PermitsHeld /\ TokensHeldOnce
  BY DEF CInv
<1>1. call[p] \in Call /\ call \in [Processes -> Call]
  BY <1>0 DEF CallTypeOK
<1>2. \A o \in Processes \ {p} : call'[o] = call[o]
  BY <1>0, StepCall
<1>3. CASE call'[p].permit \in {call[p].permit, NoPermit}
  BY <1>0, <1>2, <1>3 DEF TokensHeldOnce
<1>4. CASE /\ PrepareCall(p)
           /\ call' = [call EXCEPT ![p].pc = "permitted", ![p].permit = NewPermit(p)]
  <2>1. call'[p].permit = NewPermit(p) /\ call[p].pc # "idle"
    BY <1>1, <1>4 DEF Call, PrepareCall
  <2>2. /\ NewPermit(p).key = Plan(p)
        /\ NewPermit(p).token = guard[ResourceOf[Plan(p)]].counter + 1
    BY DEF NewPermit, Resource, NextToken
  <2>3. ResourceOf[Plan(p)] \in Resources /\ guard[ResourceOf[Plan(p)]].counter \in Nat
    BY <1>0, <2>1, PlanType DEF Resource, CallTypeOK, TypeOK, Guard
  <2>4. ASSUME NEW o \in Processes, call[o].permit # NoPermit,
               ResourceOf[call[o].permit.key] = ResourceOf[Plan(p)]
        PROVE  call[o].permit.token # NewPermit(p).token
    <3>1. call[o].permit \in permits /\ call[o].permit.epoch = epoch
      BY <1>0, <2>4 DEF PermitsHeld, OneEpoch
    <3>2. call[o].permit.token <= guard[ResourceOf[Plan(p)]].counter
      BY <1>0, <2>4, <3>1 DEF IInv, PermitsKnown
    <3>3. call[o].permit.token \in Nat
      BY <1>0, <3>1 DEF CallTypeOK, TypeOK, Permit
    <3>. QED BY <2>2, <2>3, <3>2, <3>3
  <2>. QED BY <1>0, <1>2, <2>1, <2>2, <2>4 DEF TokensHeldOnce
<1>5. \/ call'[p].permit \in {call[p].permit, NoPermit}
      \/ /\ PrepareCall(p)
         /\ call' = [call EXCEPT ![p].pc = "permitted", ![p].permit = NewPermit(p)]
  <2>1. CASE (\E q \in Requests : LoadRecords(p, q)) \/ SaveResult(p) \/ Crash(p)
    BY <1>1, <2>1 DEF LoadRecords, SaveResult, Crash, Idle
  <2>2. CASE ClaimRequest(p)
    BY <1>1, <2>2 DEF ClaimRequest, Call
  <2>3. CASE PrepareCall(p)
    BY <1>1, <2>3 DEF PrepareCall, Goto, Call
  <2>4. CASE Replay(p) \/ StartCall(p) \/ ApplyPlan(p) \/ Submit(p) \/ Respond(p)
    BY <1>1, <2>4 DEF Replay, StartCall, ApplyPlan, Submit, Respond, Goto, Call
  <2>5. CASE BackendRaises(p) \/ ConfirmCall(p) \/ FailCall(p)
    BY <1>1, <2>5 DEF BackendRaises, ConfirmCall, FailCall, Goto, Call
  <2>. QED BY <2>1, <2>2, <2>3, <2>4, <2>5 DEF CallStep
<1>. QED BY <1>3, <1>4, <1>5

LEMMA StepAnswers ==
  ASSUME CInv, RuntimeStep, NEW p \in Processes, CallStep(p) \/ Crash(p)
  PROVE  AnswersKnown'
<1>. DEFINE Known(copy) == \A q \in Requests : copy[q] = "completed" => effect'[PlanOf[q]] # NoEffect
            Answered(c) == c.pc \in {"succeeded", "replaying"} => effect'[PlanOf[c.req]] # NoEffect
<1>0. /\ CallTypeOK /\ AnswersKnown /\ PermitsHeld
      /\ \A k \in Keys : effect[k] # NoEffect => effect'[k] = effect[k]
  BY DEF CInv, RuntimeStep, Monotone
<1>1. call[p] \in Call /\ call \in [Processes -> Call] /\ \A q \in Requests : PlanOf[q] \in Keys
  BY <1>0, BrowserAssumption DEF CallTypeOK
<1>2. Known(record) /\ \A o \in Processes : Known(call[o].copy)
  BY <1>0, <1>1 DEF AnswersKnown, AcknowledgedIsConfirmed
<1>3. \A o \in Processes : Answered(call[o])
  <2>. SUFFICES ASSUME NEW o \in Processes, call[o].pc \in {"succeeded", "replaying"}
                PROVE  effect'[PlanOf[call[o].req]] # NoEffect
    OBVIOUS
  <2>1. PlanOf[call[o].req] \in Keys /\ effect[PlanOf[call[o].req]] # NoEffect
    BY <1>0, PlanType DEF AnswersKnown, Plan
  <2>. QED BY <1>0, <2>1
<1>4. \A o \in Processes \ {p} : call'[o] = call[o]
  BY <1>0, StepCall
<1>5. ASSUME NEW pc \in PC, Goto(p, pc), call[p].pc # "idle", record' = record,
             pc \in {"succeeded", "replaying"} => effect'[Plan(p)] # NoEffect
      PROVE  Known(record') /\ Known(call'[p].copy) /\ Answered(call'[p])
  <2>1. call'[p].pc = pc /\ call'[p].req = call[p].req /\ call'[p].copy = call[p].copy
    BY <1>0, <1>5, GotoCall
  <2>. QED BY <1>2, <1>5, <2>1 DEF Plan
<1>6. ASSUME call[p].pc # "idle", record' = record,
             \/ Goto(p, "raising") \/ Goto(p, "started") \/ Goto(p, "submitted")
             \/ Goto(p, "failing") \/ Goto(p, "applied")
      PROVE  Known(record') /\ Known(call'[p].copy) /\ Answered(call'[p])
  <2>1. PICK pc \in {"raising", "started", "submitted", "failing", "applied"} : Goto(p, pc)
    BY <1>6
  <2>2. pc \in PC /\ pc \notin {"succeeded", "replaying"}
    BY DEF PC
  <2>. HIDE DEF Known, Answered
  <2>. QED BY <1>5, <1>6, <2>1, <2>2
<1>7. ASSUME call[p].pc # "idle", record' = record, effect'[Plan(p)] # NoEffect,
             Goto(p, "succeeded") \/ Goto(p, "replaying")
      PROVE  Known(record') /\ Known(call'[p].copy) /\ Answered(call'[p])
  <2>1. PICK pc \in {"succeeded", "replaying"} : Goto(p, pc)
    BY <1>7
  <2>2. pc \in PC
    BY DEF PC
  <2>. HIDE DEF Known, Answered
  <2>. QED BY <1>5, <1>7, <2>1, <2>2
<1>8. Known(record') /\ Known(call'[p].copy) /\ Answered(call'[p])
  <2>. DEFINE Goal == Known(record') /\ Known(call'[p].copy) /\ Answered(call'[p])
  <2>1. ASSUME NEW q \in Requests, LoadRecords(p, q) PROVE Goal
    BY <1>1, <1>2, <2>1 DEF LoadRecords
  <2>2. CASE ClaimRequest(p)
    <3>. DEFINE copy == [call[p].copy EXCEPT ![call[p].req] = "in_progress"]
    <3>1. record' = copy /\ call'[p].copy = copy /\ call'[p].pc = "claimed"
      BY <1>1, <2>2 DEF ClaimRequest, Call
    <3>2. call[p].copy \in [Requests -> RecordStatus]
      BY <1>1 DEF Call
    <3>3. \A q \in Requests : copy[q] = "completed" => call[p].copy[q] = "completed"
      BY <3>2
    <3>. HIDE DEF copy
    <3>. QED BY <1>2, <3>1, <3>3
  <2>3. CASE SaveResult(p)
    <3>1. PICK s \in {"completed", "failed"} :
            /\ record' = [call[p].copy EXCEPT ![call[p].req] = s]
            /\ s = "completed" => call[p].pc = "succeeded"
      BY <2>3 DEF SaveResult
    <3>2. call[p].copy \in [Requests -> RecordStatus]
      BY <1>1 DEF Call
    <3>3. \A q \in Requests : record'[q] = "completed" =>
             call[p].copy[q] = "completed" \/ (q = call[p].req /\ call[p].pc = "succeeded")
      BY <3>1, <3>2
    <3>4. Known(record')
      BY <1>2, <1>3, <3>3
    <3>5. call'[p] = Idle
      BY <1>1, <2>3 DEF SaveResult
    <3>. QED BY <3>4, <3>5, FreshType DEF Idle
  <2>4. CASE Crash(p)
    BY <1>1, <1>2, <2>4, FreshType DEF Crash, Idle
  <2>5. ASSUME PrepareCall(p),
               call' = [call EXCEPT ![p].pc = "permitted", ![p].permit = NewPermit(p)]
        PROVE  Goal
    <3>1. call'[p].pc = "permitted" /\ call'[p].copy = call[p].copy /\ record' = record
      BY <1>1, <2>5 DEF Call, PrepareCall
    <3>. QED BY <1>2, <3>1
  <2>. HIDE DEF Known, Answered
  <2>6. call[p].pc # "idle" => Plan(p) \in Keys
    BY <1>0, PlanType
  <2>7. CASE PrepareCall(p)
    BY <1>0, <1>6, <1>7, <2>5, <2>6, <2>7 DEF PrepareCall
  <2>8. CASE Replay(p)
    <3>1. effect'[Plan(p)] # NoEffect
      BY <1>0, <2>6, <2>8 DEF Replay, AnswersKnown
    <3>. QED BY <1>6, <1>7, <2>8, <3>1 DEF Replay
  <2>9. CASE StartCall(p) \/ ApplyPlan(p) \/ Submit(p) \/ Respond(p)
    BY <1>6, <2>9 DEF StartCall, ApplyPlan, Submit, Respond
  <2>10. CASE BackendRaises(p) \/ FailCall(p)
    BY <1>6, <2>10 DEF BackendRaises, FailCall
  <2>11. CASE ConfirmCall(p)
    <3>1. ASSUME Confirm(call[p].permit) PROVE effect'[Plan(p)] # NoEffect
      <4>1. call[p].permit.key = Plan(p) /\ call[p].permit \in permits /\ Plan(p) \in Keys
        BY <1>0, <2>6, <2>11 DEF PermitsHeld, Holding, ConfirmCall
      <4>2. ResourceOf[Plan(p)] \in Resources /\ call[p].permit \in Permit
        BY <1>0, <4>1, KeyResource DEF CallTypeOK, TypeOK
      <4>3. /\ guard[ResourceOf[Plan(p)]].version + 1 \in Nat
            /\ call[p].permit.token \in Nat /\ call[p].permit.epoch \in Nat
        BY <1>0, <4>2 DEF CallTypeOK, TypeOK, Guard, Permit
      <4>4. effect'[Plan(p)] \in [version : Nat, token : Nat, epoch : Nat]
        BY <1>0, <3>1, <4>1, <4>3 DEF Confirm, CallTypeOK, TypeOK
      <4>. QED BY <4>4, SagaAssumption
    <3>. QED BY <1>0, <1>6, <1>7, <2>6, <2>11, <3>1 DEF ConfirmCall
  <2>. QED BY <2>1, <2>2, <2>3, <2>4, <2>7, <2>8, <2>9, <2>10, <2>11 DEF CallStep
<1>. QED BY <1>1, <1>2, <1>3, <1>4, <1>8 DEF AnswersKnown, AcknowledgedIsConfirmed, Plan

LEMMA StepWritten ==
  ASSUME CInv, RuntimeStep, NEW p \in Processes, CallStep(p) \/ Crash(p)
  PROVE  ConfirmedWasWritten'
<1>0. CallTypeOK /\ PermitsHeld /\ ConfirmedWasWritten
  BY DEF CInv
<1>1. landed \subseteq landed'
  BY DEF CallStep, Crash, LoadRecords, ClaimRequest, SaveResult, PrepareCall, Replay,
         StartCall, ApplyPlan, Submit, Respond, BackendRaises, ConfirmCall, FailCall
<1>2. CASE effect' = effect
  BY <1>0, <1>1, <1>2 DEF ConfirmedWasWritten
<1>3. CASE ConfirmCall(p) /\ Confirm(call[p].permit)
  <2>. DEFINE m == call[p].permit
  <2>1. m \in landed /\ m \in permits
    BY <1>0, <1>3 DEF ConfirmCall, PermitsHeld, Holding
  <2>2. m.key \in Keys
    BY <1>0, <2>1 DEF CallTypeOK, TypeOK, Permit
  <2>3. /\ \A k \in Keys \ {m.key} : effect'[k] = effect[k]
        /\ effect'[m.key].token = m.token
    BY <1>0, <1>3, <2>2 DEF Confirm, CallTypeOK, TypeOK
  <2>. HIDE DEF m
  <2>. QED BY <1>0, <1>1, <2>1, <2>2, <2>3 DEF ConfirmedWasWritten
<1>4. effect' = effect \/ (ConfirmCall(p) /\ Confirm(call[p].permit))
  BY DEF CallStep, Crash, LoadRecords, ClaimRequest, SaveResult, PrepareCall, Prepare, Replay,
         StartCall, MarkStarted, ApplyPlan, Submit, Respond, BackendRaises, ConfirmCall,
         FailCall, FailExecution, vars
<1>. QED BY <1>2, <1>3, <1>4

(* The shop answers, or not; no call moves.                                *)
LEMMA FormStep ==
  ASSUME CInv, RuntimeStep, NEW m \in posted, Land(m) \/ Lose(m)
  PROVE  CInv'
<1>0. /\ CallTypeOK /\ permits' = permits /\ effect' = effect /\ call' = call /\ record' = record
      /\ posted' \subseteq posted /\ landed \subseteq landed' /\ landed' \subseteq landed \cup {m}
  BY DEF CInv, Land, Lose, vars
<1>1. TypeOK' /\ IInv' /\ OneEpoch' /\ SagasLive'
  BY NextIInv DEF CInv, RuntimeStep, IInv
<1>2. shop' \in [Stores -> [Resources -> Keys \cup {NoPlan}]]
  <2>1. m.key \in Keys
    BY <1>0 DEF CallTypeOK, TypeOK, Permit
  <2>2. shop \in [Stores -> [Resources -> Keys \cup {NoPlan}]]
    BY <1>0 DEF CallTypeOK
  <2>. QED BY <2>1, <2>2 DEF Land, Lose
<1>3. CallTypeOK'
  BY <1>0, <1>1, <1>2 DEF CallTypeOK
<1>4. PermitsHeld' /\ TokensHeldOnce'
  BY <1>0 DEF CInv, PermitsHeld, TokensHeldOnce, Plan
<1>5. AnswersKnown' /\ ConfirmedWasWritten'
  BY <1>0 DEF CInv, AnswersKnown, AcknowledgedIsConfirmed, ConfirmedWasWritten, Plan
<1>. QED BY <1>1, <1>3, <1>4, <1>5 DEF CInv

LEMMA IdleStep ==
  ASSUME CInv, RuntimeStep, CallsTick \/ UNCHANGED callVars
  PROVE  CInv'
<1>0. /\ permits' = permits /\ effect' = effect
      /\ UNCHANGED <<record, call, posted, landed, shop>>
  BY DEF CallsTick, Tick, callVars
<1>1. TypeOK' /\ IInv' /\ OneEpoch' /\ SagasLive'
  BY NextIInv DEF CInv, RuntimeStep, IInv
<1>2. CallTypeOK'
  BY <1>0, <1>1 DEF CInv, CallTypeOK
<1>3. PermitsHeld' /\ TokensHeldOnce'
  BY <1>0 DEF CInv, PermitsHeld, TokensHeldOnce, Plan
<1>4. AnswersKnown' /\ ConfirmedWasWritten'
  BY <1>0 DEF CInv, AnswersKnown, AcknowledgedIsConfirmed, ConfirmedWasWritten, Plan
<1>. QED BY <1>1, <1>2, <1>3, <1>4 DEF CInv

LEMMA CallNextCInv == CInv /\ [CallNext]_callVars => CInv'
<1>. SUFFICES ASSUME CInv, [CallNext]_callVars PROVE CInv'
  OBVIOUS
<1>0. RuntimeStep
  BY StepRuntime
<1>1. ASSUME NEW p \in Processes, CallStep(p) \/ Crash(p) PROVE CInv'
  <2>1. IInv' /\ OneEpoch' /\ SagasLive'
    BY <1>0, NextIInv DEF CInv, RuntimeStep
  <2>. QED BY <1>0, <1>1, <2>1, StepTypes, StepHeld, StepTokens, StepAnswers, StepWritten DEF CInv
<1>2. ASSUME NEW m \in posted, Land(m) \/ Lose(m) PROVE CInv'
  BY <1>0, <1>2, FormStep
<1>3. CASE CallsTick \/ UNCHANGED callVars
  BY <1>0, <1>3, IdleStep
<1>. QED BY <1>1, <1>2, <1>3 DEF CallNext

LEMMA AlwaysCInv == CallSpec => []CInv
BY CallInitCInv, CallNextCInv, PTL DEF CallSpec

-----------------------------------------------------------------------------
(* Theorems.                                                               *)

(* browser_execute is a caller ExecutionSaga describes, with either        *)
(* backend: every theorem of ExecutionSagaProofs holds of its executions.  *)
THEOREM CallsUseTheRuntime == CallSpec => UsesRuntimeAsSpecified
<1>1. CallInit => Init
  BY DEF CallInit
<1>2. CInv /\ [CallNext]_callVars => [Next]_vars
  BY StepRuntime DEF RuntimeStep
<1>. QED BY <1>1, <1>2, AlwaysCInv, PTL DEF CallSpec, UsesRuntimeAsSpecified, Spec

(* By both refinements, the calls keep the promises of EffectLedger: one   *)
(* history of effects per product, and each plan in it at most once.       *)
THEOREM CallsKeepTheLedger == CallSpec => ImplementsLedger
BY CallsUseTheRuntime, SagaImplementsLedger, PTL DEF UsesRuntimeAsSpecified

(* Every variable of the calls, the records and the shop keeps its type.   *)
THEOREM CallTypeCorrect == CallSpec => []CallTypeOK
<1>1. CInv => CallTypeOK
  BY DEF CInv
<1>. QED BY <1>1, AlwaysCInv, PTL

(* Behind every confirmed effect there is a write the shop applied under   *)
(* the token that was confirmed.                                           *)
THEOREM ConfirmationsAreWrites == CallSpec => []ConfirmedWasWritten
<1>1. CInv => ConfirmedWasWritten
  BY DEF CInv
<1>. QED BY <1>1, AlwaysCInv, PTL

(* A write that landed is confirmed, in progress, or waits for a human,    *)
(* however late it landed and whatever died in between.                    *)
THEOREM WritesAreRemembered == CallSpec => []NoWriteIsForgotten
<1>1. CInv => NoWriteIsForgotten
  <2>. SUFFICES ASSUME CInv, NEW m \in landed
                PROVE  \/ effect[m.key] # NoEffect
                       \/ saga[m.key].status \in Open \cup {"needs_attention"}
    BY DEF NoWriteIsForgotten
  <2>1. m \in permits /\ m.key \in Keys
    BY DEF CInv, CallTypeOK, TypeOK, Permit
  <2>2. saga[m.key].status \in {"prepared", "executing", "completed", "needs_attention"}
    BY <2>1 DEF CInv, SagasLive, CallTypeOK, TypeOK, Saga
  <2>3. saga[m.key].status = "completed" => effect[m.key] # NoEffect
    BY <2>1 DEF CInv, IInv, WrittenTogether
  <2>. QED BY <2>2, <2>3 DEF Open
<1>. QED BY <1>1, AlwaysCInv, PTL

(* A request answered "completed" has its effect confirmed, whichever      *)
(* process last wrote the file of records.                                 *)
THEOREM AnswersAreConfirmed == CallSpec => []AcknowledgedIsConfirmed
<1>1. CInv => AcknowledgedIsConfirmed
  BY DEF CInv, AnswersKnown
<1>. QED BY <1>1, AlwaysCInv, PTL

(* At most one call could confirm a write on a product, although one       *)
(* request may run in several processes under one owner_id.                *)
THEOREM OneWriterPerProduct == CallSpec => []OneFencedWriter
<1>1. CInv => OneFencedWriter
  <2>. SUFFICES ASSUME CInv, NEW p1 \in Processes, NEW p2 \in Processes,
                       call[p1].permit # NoPermit, call[p2].permit # NoPermit,
                       ResourceOf[call[p1].permit.key] = ResourceOf[call[p2].permit.key],
                       Fenced(call[p1].permit), Fenced(call[p2].permit)
                PROVE  p1 = p2
    BY DEF OneFencedWriter
  <2>1. call[p1].permit.token = call[p2].permit.token
    BY DEF Fenced, HasLease
  <2>. QED BY <2>1 DEF CInv, TokensHeldOnce
<1>. QED BY <1>1, AlwaysCInv, PTL
=============================================================================
