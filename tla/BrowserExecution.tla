-------------------------- MODULE BrowserExecution --------------------------
(***************************************************************************)
(* browser_execute of app/tools/browser_tools.py, the one way a plan is    *)
(* written to a shop: inside IdempotencyStore.execute_once it prepares an  *)
(* execution, drives a browser backend, and confirms or fails the          *)
(* execution in the runtime that ExecutionSaga models.                     *)
(*                                                                         *)
(* The store's lock is a class attribute held for the whole operation, so  *)
(* a process runs one call at a time and `call` has one entry per process. *)
(* Other processes share the JSON file of records, which each call reads   *)
(* whole at its start and writes whole from that copy, without any lock    *)
(* between processes.  owner_id is the request's idempotency key.          *)
(***************************************************************************)
EXTENDS ExecutionSaga

CONSTANTS
  PlanOf,       \* the plan each request carries
  Processes,
  Mock,         \* BROWSER_BACKEND = "mock"
  Site, NoPlan, NoRequest, NoPermit

Requests == Owners   \* owner_id=idempotency_key

ASSUME BrowserAssumption ==
  /\ PlanOf \in [Requests -> Keys]
  /\ Mock \in BOOLEAN
  /\ NoPlan \notin Keys /\ NoRequest \notin Requests /\ NoPermit \notin Permit

VARIABLES
  record,   \* record[q].status in records.json
  call,     \* call[p]: the call that holds the lock of process p
  posted,   \* submissions of the editor form the shop has not answered
  landed,   \* submissions the shop applied
  shop      \* shop[s][r]: the plan whose content product r shows in store s

callVars == <<guard, saga, effect, outbox, permits, epoch, record, call, posted, landed, shop>>

(* The mock backend writes the memory of its own process.                  *)
StoreOf(p) == IF Mock THEN p ELSE Site
Stores     == Processes \cup {Site}

RecordStatus == {"none", "in_progress", "failed", "completed"}

PC == {"idle", "loaded", "claimed", "permitted", "replaying", "started",
       "submitted", "applied", "failing", "raising", "succeeded"}

Call == [pc : PC, req : Requests \cup {NoRequest},
         copy : [Requests -> RecordStatus],          \* `records`, as read
         permit : Permit \cup {NoPermit}]

CallTypeOK ==
  /\ TypeOK
  /\ record \in [Requests -> RecordStatus]
  /\ call \in [Processes -> Call]
  /\ \A p \in Processes : call[p].pc # "idle" => call[p].req \in Requests
  /\ posted \subseteq permits /\ landed \subseteq permits
  /\ shop \in [Stores -> [Resources -> Keys \cup {NoPlan}]]

Bare  == [r \in Resources |-> NoPlan]
Fresh == [q \in Requests |-> "none"]
Idle  == [pc |-> "idle", req |-> NoRequest, copy |-> Fresh, permit |-> NoPermit]

CallInit ==
  /\ Init
  /\ record = Fresh
  /\ call = [p \in Processes |-> Idle]
  /\ posted = {} /\ landed = {}
  /\ shop = [s \in Stores |-> Bare]

Plan(p)     == PlanOf[call[p].req]
Resource(p) == ResourceOf[Plan(p)]

Goto(p, pc) == call' = [call EXCEPT ![p].pc = pc]

-----------------------------------------------------------------------------
(* execute_once.                                                           *)

(* A completed request is answered from its record, one in progress is     *)
(* refused: neither changes anything.  A failed one runs again.            *)
LoadRecords(p, q) ==
  /\ call[p].pc = "idle"
  /\ record[q] \in {"none", "failed"}
  /\ call' = [call EXCEPT ![p] =
       [pc |-> "loaded", req |-> q, copy |-> record, permit |-> NoPermit]]
  /\ UNCHANGED <<vars, record, posted, landed, shop>>

(* _save writes the copy, whatever other processes saved in the meantime.  *)
ClaimRequest(p) ==
  /\ call[p].pc = "loaded"
  /\ LET copy == [call[p].copy EXCEPT ![call[p].req] = "in_progress"]
     IN  /\ record' = copy
         /\ call' = [call EXCEPT ![p].pc = "claimed", ![p].copy = copy]
  /\ UNCHANGED <<vars, posted, landed, shop>>

SaveResult_AlwaysCompleted(p) ==
  /\ call[p].pc \in {"succeeded", "raising"}
  /\ record' = [call[p].copy EXCEPT ![call[p].req] = "completed"]
  /\ call' = [call EXCEPT ![p] = Idle]
  /\ UNCHANGED <<vars, posted, landed, shop>>

SaveResult(p) ==
  /\ call[p].pc \in {"succeeded", "raising"}
  /\ record' = [call[p].copy EXCEPT ![call[p].req] =
                  IF call[p].pc = "succeeded" THEN "completed" ELSE "failed"]
  /\ call' = [call EXCEPT ![p] = Idle]
  /\ UNCHANGED <<vars, posted, landed, shop>>

-----------------------------------------------------------------------------
(* The operation it guards: `apply` of browser_execute.                    *)

NewPermit(p) ==
  [key |-> Plan(p), owner |-> call[p].req, token |-> NextToken(Resource(p)),
   expected |-> guard[Resource(p)].version, epoch |-> epoch]

(* A plan with a confirmed effect gets a replay permit; a product that     *)
(* another request is writing makes the call fail.                         *)
PrepareCall(p) ==
  /\ call[p].pc = "claimed"
  /\ \/ /\ \E lag \in Lags : Prepare(call[p].req, Plan(p), lag)
        /\ call' = [call EXCEPT ![p].pc = "permitted", ![p].permit = NewPermit(p)]
     \/ /\ effect[Plan(p)] # NoEffect
        /\ Goto(p, "replaying") /\ UNCHANGED vars
     \/ /\ effect[Plan(p)] = NoEffect
        /\ \E lag \in Lags : ~Available(Resource(p), call[p].req, lag)
        /\ Goto(p, "raising") /\ UNCHANGED vars
  /\ UNCHANGED <<record, posted, landed, shop>>

Show(p, k) == shop' = [shop EXCEPT ![StoreOf(p)][ResourceOf[k]] = k]

Shows(p, k) == shop[StoreOf(p)][ResourceOf[k]] = k

(* A replay of the mock backend writes the plan again if the process's     *)
(* shop does not show it.  The bulkhead may be full.                       *)
Replay(p) ==
  /\ call[p].pc = "replaying"
  /\ \/ /\ IF Mock /\ ~Shows(p, Plan(p)) THEN Show(p, Plan(p)) ELSE UNCHANGED shop
        /\ Goto(p, "succeeded")
     \/ Mock /\ ~Shows(p, Plan(p)) /\ Goto(p, "raising") /\ UNCHANGED shop
  /\ UNCHANGED <<vars, record, posted, landed>>

StartCall_Unfenced(p) ==
  /\ call[p].pc = "permitted"
  /\ saga' = [saga EXCEPT ![Plan(p)].status = "executing"]
  /\ Goto(p, "started")
  /\ UNCHANGED <<guard, effect, outbox, permits, epoch, record, posted, landed, shop>>

(* mark_execution_started is called outside the try: a stale permit raises *)
(* without failing the execution.                                          *)
StartCall(p) ==
  /\ call[p].pc = "permitted"
  /\ \/ MarkStarted(call[p].permit) /\ Goto(p, "started")
     \/ ~Fenced(call[p].permit) /\ Goto(p, "raising") /\ UNCHANGED vars
  /\ UNCHANGED <<record, posted, landed, shop>>

(* The mock backend writes the store in one step.                          *)
ApplyPlan(p) ==
  /\ call[p].pc = "started" /\ Mock
  /\ Show(p, Plan(p))
  /\ landed' = landed \cup {call[p].permit}
  /\ Goto(p, "applied")
  /\ UNCHANGED <<vars, record, posted>>

(* The Playwright backend submits the editor form with a one-time ticket.  *)
Submit(p) ==
  /\ call[p].pc = "started" /\ ~Mock
  /\ posted' = posted \cup {call[p].permit}
  /\ Goto(p, "submitted")
  /\ UNCHANGED <<vars, record, landed, shop>>

Respond_Unseen(p) ==
  /\ call[p].pc = "submitted"
  /\ Goto(p, "applied")
  /\ UNCHANGED <<vars, record, posted, landed, shop>>

(* The result page says "applied".                                         *)
Respond(p) ==
  /\ call[p].pc = "submitted" /\ call[p].permit \in landed
  /\ Goto(p, "applied")
  /\ UNCHANGED <<vars, record, posted, landed, shop>>

(* A full bulkhead, a rejected plan, a timeout or a lost page, before or   *)
(* after the shop has taken the form.                                      *)
BackendRaises(p) ==
  /\ call[p].pc \in {"started", "submitted"}
  /\ Goto(p, "failing")
  /\ UNCHANGED <<vars, record, posted, landed, shop>>

(* An effect that is already there is returned as a replay.                *)
ConfirmCall(p) ==
  /\ call[p].pc = "applied"
  /\ \/ Confirm(call[p].permit) /\ Goto(p, "succeeded")
     \/ effect[Plan(p)] # NoEffect /\ Goto(p, "succeeded") /\ UNCHANGED vars
     \/ /\ effect[Plan(p)] = NoEffect
        /\ \/ ~Fenced(call[p].permit)
           \/ guard[Resource(p)].version # call[p].permit.expected
        /\ Goto(p, "failing") /\ UNCHANGED vars
  /\ UNCHANGED <<record, posted, landed, shop>>

FailCall_AsKnownFailure(p) ==
  /\ call[p].pc = "failing"
  /\ FailExecution(call[p].permit, "failed")
  /\ Goto(p, "raising")
  /\ UNCHANGED <<record, posted, landed, shop>>

FailCall_UndeclaredStatus(p) ==
  /\ call[p].pc = "failing"
  /\ FailExecution(call[p].permit, "uncertain")
  /\ Goto(p, "raising")
  /\ UNCHANGED <<record, posted, landed, shop>>

FailCall(p) ==
  /\ call[p].pc = "failing"
  /\ FailExecution(call[p].permit, "needs_attention")
  /\ Goto(p, "raising")
  /\ UNCHANGED <<record, posted, landed, shop>>

-----------------------------------------------------------------------------
(* The shop and the environment.                                           *)

(* execute_ticketed_plan on the site: the ticket is consumed, the plan is  *)
(* applied, whether or not the browser that sent the form still waits.     *)
Land(m) ==
  /\ posted' = posted \ {m}
  /\ landed' = landed \cup {m}
  /\ shop' = [shop EXCEPT ![Site][ResourceOf[m.key]] = m.key]
  /\ UNCHANGED <<vars, record, call>>

(* The ticket has expired, or the form never arrives.                      *)
Lose(m) ==
  /\ posted' = posted \ {m}
  /\ UNCHANGED <<vars, record, call, landed, shop>>

(* The process dies; records.json keeps what was last saved, a mock shop   *)
(* is gone.                                                                *)
Crash(p) ==
  /\ call' = [call EXCEPT ![p] = Idle]
  /\ shop' = IF Mock THEN [shop EXCEPT ![p] = Bare] ELSE shop
  /\ UNCHANGED <<vars, record, posted, landed>>

CallsTick == Tick /\ UNCHANGED <<record, call, posted, landed, shop>>

CallStep(p) ==
  \/ \E q \in Requests : LoadRecords(p, q)
  \/ ClaimRequest(p) \/ PrepareCall(p) \/ Replay(p) \/ StartCall(p)
  \/ ApplyPlan(p) \/ Submit(p) \/ Respond(p) \/ BackendRaises(p)
  \/ ConfirmCall(p) \/ FailCall(p) \/ SaveResult(p)

CallNext ==
  \/ \E p \in Processes : CallStep(p) \/ Crash(p)
  \/ \E m \in posted : Land(m) \/ Lose(m)
  \/ CallsTick

CallSpec == CallInit /\ [][CallNext]_callVars

-----------------------------------------------------------------------------
(* Properties.                                                             *)

(* browser_execute uses the runtime only as ExecutionSaga allows: whatever *)
(* is proved there of every caller holds of these callers.                 *)
UsesRuntimeAsSpecified == Spec

(* Nothing is confirmed on trust: behind every confirmed effect there is a *)
(* write the shop applied under the very token that was confirmed.         *)
ConfirmedWasWritten ==
  \A k \in Keys : effect[k] # NoEffect =>
    \E m \in landed : m.key = k /\ m.token = effect[k].token

(* A write the shop applied is never booked as a failure that had no       *)
(* effect: it is confirmed, or its saga is open or asks for a human, even  *)
(* if the form arrived after its caller had given up or died.              *)
NoWriteIsForgotten ==
  \A m \in landed :
    \/ effect[m.key] # NoEffect
    \/ saga[m.key].status \in Open \cup {"needs_attention"}

(* A request is only answered "completed" if its plan's effect is          *)
(* confirmed, although each process writes back a stale copy of everyone's *)
(* records.                                                                *)
AcknowledgedIsConfirmed ==
  \A q \in Requests : record[q] = "completed" => effect[PlanOf[q]] # NoEffect

(* Two processes never both hold a lease they could confirm under on one   *)
(* product, even when a lost record lets them run the same request under   *)
(* the same owner_id.                                                      *)
OneFencedWriter ==
  \A p1, p2 \in Processes :
    /\ call[p1].permit # NoPermit /\ call[p2].permit # NoPermit
    /\ ResourceOf[call[p1].permit.key] = ResourceOf[call[p2].permit.key]
    /\ Fenced(call[p1].permit) /\ Fenced(call[p2].permit)
    => p1 = p2

(* docs/V38_TECHNICAL.md: after a disconnect behind the submission the     *)
(* saga needs attention and the write is not blindly repeated.             *)
UncertainIsNotRewritten ==
  [][\A m \in posted' \ posted : ~\E n \in landed : n.key = m.key]_callVars
=============================================================================
