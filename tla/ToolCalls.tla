----------------------------- MODULE ToolCalls ------------------------------
(* ToolRegistry.call: one tool of one tenant and the calls that agents make *)
(* of it. A call passes the circuit breaker, the permission check, the      *)
(* capability token and the cache of answers, waits for a slot of its       *)
(* worker pool, and then tries the tool as often as its declaration allows. *)
(*                                                                          *)
(* A caller is a delegation: one agent at work on one task, with one token. *)
(* All callers are the same agent, so that the signature of an error is the *)
(* fault itself, and they call the tool with the same arguments, so that a  *)
(* task has one answer to remember.                                         *)
EXTENDS Integers, FiniteSets

CONSTANTS
    Callers,
    Kinds,       \* operation types tried, of "read" and "write"
    Threshold,   \* circuit_failure_threshold
    Window,      \* recovery_seconds, in ticks
    Retries,     \* max_retries
    Capacity,    \* of the worker pool
    MaxUses      \* CAPABILITY_MAX_USES

VARIABLES
    kind,      \* operation_type of the tool
    circuit,   \* CircuitSnapshot; age: ticks since opened_at
    quiet,     \* ticks since an error of the tool was last reported to the
               \* circuit breaker, counted up to Window
    free,      \* value of the pool's semaphore
    uses,      \* uses[c]: what the token of c still allows, 0 when it is revoked
    answers,   \* callers whose task remembers an answer
    op         \* op[c]: the call that c has under way

toolVars == <<kind, circuit, quiet, free, uses, answers, op>>

ASSUME ToolAssumption ==
    /\ IsFiniteSet(Callers) /\ Kinds \subseteq {"read", "write"}
    /\ Threshold \in Nat \ {0, 1} /\ Window \in Nat \ {0}
    /\ Retries \in Nat /\ Capacity \in Nat \ {0} /\ MaxUses \in Nat \ {0}

(* What the tool may raise, and what the registry raises around it.        *)
ToolFaults == {"transient", "conflict", "unknown", "final"}
Faults     == ToolFaults \cup {"unconfirmed", "open", "unapproved", "refused"}

CallPC  == {"idle", "admitted", "ready", "running", "returned", "failing"}
NoCall  == [pc |-> "idle", attempt |-> 0, fault |-> "none"]
Closed  == [state |-> "closed", failures |-> 0, sign |-> "none", age |-> 0]

ToolInit ==
    /\ kind \in Kinds
    /\ circuit = Closed /\ quiet = Window
    /\ free = Capacity
    /\ uses = [c \in Callers |-> MaxUses]
    /\ answers \in {{}, Callers}       \* seed_recovery_results
    /\ op = [c \in Callers |-> NoCall]

Proceeds(c, pc) == op' = [op EXCEPT ![c].pc = pc]
Raises(c, f)    == op' = [op EXCEPT ![c] = [pc |-> "failing", attempt |-> 0, fault |-> f]]

(***************************************************************************)
(* Before the tool: before_call, assert_tool_permission, the approval,     *)
(* verify_and_consume, the arguments and the remembered answer.            *)
(***************************************************************************)
Admit(c) ==
    /\ op[c].pc = "idle"
    /\ circuit.state = "open" => circuit.age >= Window
    /\ circuit' = [circuit EXCEPT !.state = IF @ = "open" THEN "half_open" ELSE @]
    /\ Proceeds(c, "admitted")
    /\ UNCHANGED <<kind, quiet, free, uses, answers>>

(* CircuitOpenError is raised, and handled, like any error of the call.    *)
Reject(c) ==
    /\ op[c].pc = "idle"
    /\ circuit.state = "open" /\ circuit.age < Window
    /\ Raises(c, "open")
    /\ UNCHANGED <<kind, circuit, quiet, free, uses, answers>>

(* An agent without permission; a token that is missing, used up, revoked, *)
(* expired or of another delegation.                                       *)
(* ToolApprovalRequiredError is an OSError, and thus taken for transient.  *)
Refuse(c) ==
    /\ op[c].pc = "admitted"
    /\ Raises(c, "refused") \/ (kind = "write" /\ Raises(c, "unapproved"))
    /\ UNCHANGED <<kind, circuit, quiet, free, uses, answers>>

(* A use is spent before the arguments are validated.                      *)
Authorise(c) ==
    /\ op[c].pc = "admitted"
    /\ uses[c] > 0 /\ uses' = [uses EXCEPT ![c] = @ - 1]
    /\ Proceeds(c, "ready") \/ Raises(c, "refused")
    /\ UNCHANGED <<kind, circuit, quiet, free, answers>>

Remembered(c) == kind = "read" /\ c \in answers

FromCache(c) ==
    /\ op[c].pc = "ready" /\ Remembered(c)
    /\ Proceeds(c, "returned")
    /\ UNCHANGED <<kind, circuit, quiet, free, uses, answers>>

-----------------------------------------------------------------------------
(***************************************************************************)
(* The tool: GLOBAL_BULKHEADS.acquire, which blocks, and around it         *)
(* _execute_with_retries. A timeout is one of the transient faults.        *)
(***************************************************************************)
Enter(c) ==
    /\ op[c].pc = "ready" /\ ~Remembered(c)
    /\ free > 0 /\ free' = free - 1
    /\ op' = [op EXCEPT ![c] = [pc |-> "running", attempt |-> 1, fault |-> "none"]]
    /\ UNCHANGED <<kind, circuit, quiet, uses, answers>>

Returns(c) ==
    /\ op[c].pc = "running"
    /\ free' = free + 1
    /\ op' = [op EXCEPT ![c] = [pc |-> "returned", attempt |-> 1, fault |-> "none"]]
    /\ UNCHANGED <<kind, circuit, quiet, uses, answers>>

(* A write that did not confirm may have happened.                         *)
Unconfirmed_TimeoutsOnly(f) ==  \* mutant: only an unclassified error is uncertain
    kind = "write" /\ f = "unknown"

Unconfirmed(f) == kind = "write" /\ f \in {"transient", "unknown"}

(* retryable_errors, max_retries, and the three attempts of both policies. *)
MayRetry(c, f) ==
    /\ ~Unconfirmed(f) /\ f \in {"transient", "conflict"}
    /\ op[c].attempt <= Retries /\ op[c].attempt < 3

(* The retry budget of the task allows it.                                 *)
TryAgain(c) == \E f \in ToolFaults :
    /\ op[c].pc = "running" /\ MayRetry(c, f)
    /\ op' = [op EXCEPT ![c] = [pc |-> "running", attempt |-> @.attempt + 1, fault |-> f]]
    /\ UNCHANGED <<kind, circuit, quiet, free, uses, answers>>

GiveUp_KeepsSlot(c) == \E f \in ToolFaults :  \* mutant: no `finally` around the slot
    /\ op[c].pc = "running"
    /\ Raises(c, IF Unconfirmed(f) THEN "unconfirmed" ELSE f)
    /\ UNCHANGED <<kind, circuit, quiet, free, uses, answers>>

(* It does not, or no retry is due.                                        *)
GiveUp(c) == \E f \in ToolFaults :
    /\ op[c].pc = "running"
    /\ free' = free + 1
    /\ Raises(c, IF Unconfirmed(f) THEN "unconfirmed" ELSE f)
    /\ UNCHANGED <<kind, circuit, quiet, uses, answers>>

-----------------------------------------------------------------------------
(***************************************************************************)
(* After the tool: the validator of the result, the cache, success() and   *)
(* failure() of the circuit breaker.                                       *)
(***************************************************************************)
Invalid(c) ==
    /\ op[c].pc = "returned"
    /\ Raises(c, "final")
    /\ UNCHANGED <<kind, circuit, quiet, free, uses, answers>>

(* An answer that was remembered took no attempt and is not stored again.  *)
Succeed(c) ==
    /\ op[c].pc = "returned"
    /\ answers' = IF kind = "read" /\ op[c].attempt > 0 THEN answers \cup {c} ELSE answers
    /\ circuit' = Closed
    /\ op' = [op EXCEPT ![c] = NoCall]
    /\ UNCHANGED <<kind, quiet, free, uses>>

(* classify_failure: transient, rate_limit or unknown.                     *)
Counts(f) == f \in {"transient", "unknown", "unconfirmed", "open", "unapproved"}

AfterFailure(f) ==
    LET n == IF circuit.sign = f THEN circuit.failures + 1 ELSE 1
    IN  IF n >= Threshold
        THEN [state |-> "open", failures |-> Threshold, sign |-> f, age |-> 0]
        ELSE [circuit EXCEPT !.failures = n, !.sign = f]

Fail(c) ==
    /\ op[c].pc = "failing"
    /\ circuit' = IF Counts(op[c].fault) THEN AfterFailure(op[c].fault) ELSE circuit
    /\ quiet' = IF op[c].fault \in {"transient", "unknown", "unconfirmed"} THEN 0 ELSE quiet
    /\ op' = [op EXCEPT ![c] = NoCall]
    /\ UNCHANGED <<kind, free, uses, answers>>

-----------------------------------------------------------------------------
(* The delegation ends, also under a call that is still running.           *)
Revoke(c) ==
    /\ uses[c] > 0 /\ uses' = [uses EXCEPT ![c] = 0]
    /\ UNCHANGED <<kind, circuit, quiet, free, answers, op>>

(* clear_task_result_cache.                                                *)
Forget(c) ==
    /\ c \in answers /\ answers' = answers \ {c}
    /\ UNCHANGED <<kind, circuit, quiet, free, uses, op>>

(* Beyond Window the clocks make no difference.                            *)
Later(n) == IF n < Window THEN n + 1 ELSE n

(* Handling an error takes no time.                                        *)
ToolTick ==
    /\ \A c \in Callers : op[c].pc # "failing"
    /\ quiet' = Later(quiet)
    /\ circuit' = [circuit EXCEPT !.age = IF circuit.state = "open" THEN Later(@) ELSE @]
    /\ UNCHANGED <<kind, free, uses, answers, op>>

ToolStep(c) ==
    \/ Refuse(c) \/ Authorise(c) \/ FromCache(c)
    \/ Enter(c) \/ Returns(c) \/ TryAgain(c) \/ GiveUp(c)
    \/ Invalid(c) \/ Succeed(c) \/ Fail(c)

ToolNext ==
    \/ \E c \in Callers : Admit(c) \/ Reject(c) \/ ToolStep(c) \/ Revoke(c) \/ Forget(c)
    \/ ToolTick

(* A thread within a call runs on; nobody has to call.                     *)
ToolFairness == \A c \in Callers : WF_toolVars(ToolStep(c))

ToolSpec == ToolInit /\ [][ToolNext]_toolVars /\ ToolFairness

-----------------------------------------------------------------------------
(* Properties.                                                             *)

ToolTypeOK ==
    /\ kind \in Kinds
    /\ circuit \in [state : {"closed", "open", "half_open"}, failures : 0..Threshold,
                    sign : Faults \cup {"none"}, age : 0..Window]
    /\ quiet \in 0..Window /\ free \in 0..Capacity
    /\ uses \in [Callers -> 0..MaxUses]
    /\ answers \subseteq Callers
    /\ op \in [Callers -> [pc : CallPC, attempt : 0..(Retries + 1),
                           fault : Faults \cup {"none"}]]

(* A write is tried again only after a conflict: never after a timeout or  *)
(* an error that leaves open whether the write happened.  That a conflict  *)
(* comes before the write is assumed, as the classifier does: it knows one *)
(* by the word in its text.  The one write tool registered today allows no *)
(* retry; the rule is for any other.                                       *)
NoUncertainRepeat ==
    \A c \in Callers :
        kind = "write" /\ op[c].pc = "running" /\ op[c].attempt > 1
            => op[c].fault = "conflict"

(* Every call ends, with its answer or an error: retries run out, and no   *)
(* call keeps the slot another one waits for.  From every state a caller   *)
(* comes to be idle.                                                       *)
EveryCallEnds == \A c \in Callers : []<>(op[c].pc = "idle")

(* "After the recovery window half-open probing": when no error of the     *)
(* tool has been reported for a whole window, a circuit that is still open *)
(* admits the next call.                                                   *)
RecoveryProbes ==
    circuit.state = "open" /\ quiet >= Window => circuit.age >= Window
=============================================================================
