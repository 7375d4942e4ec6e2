--------------------------- MODULE PlatformProofs ---------------------------
(***************************************************************************)
(* Theorems about ToolCalls, for any callers, thresholds, windows and      *)
(* sizes of the pool, and then about the components of PlatformMC in one   *)
(* behaviour: each of them goes by its own specification.                  *)
(***************************************************************************)
EXTENDS PlatformMC, WorkflowRunProofs, ConversationTurnsProofs

Inside(o) == {c \in Callers : o[c].pc = "running"}

(* Every slot that is not free is held by a call inside the tool.          *)
SlotsCounted == free = Capacity - Cardinality(Inside(op))

ToolInv == ToolTypeOK /\ SlotsCounted /\ NoUncertainRepeat

Op == [pc : CallPC, attempt : 0..(Retries + 1), fault : Faults \cup {"none"}]

Circuit == [state : {"closed", "open", "half_open"}, failures : 0..Threshold,
            sign : Faults \cup {"none"}, age : 0..Window]

(* A state of which every part but the calls is as it was.                 *)
Elsewhere == kind' = kind /\ circuit' \in Circuit /\ quiet' \in 0..Window
             /\ uses' \in [Callers -> 0..MaxUses] /\ answers' \subseteq Callers

-----------------------------------------------------------------------------
LEMMA InsideFinite ==
  ASSUME NEW o
  PROVE  IsFiniteSet(Inside(o)) /\ Cardinality(Inside(o)) \in Nat
<1>1. Inside(o) \in SUBSET Callers  BY DEF Inside
<1>2. IsFiniteSet(Callers)  BY ToolAssumption
<1>3. IsFiniteSet(Inside(o))  BY <1>1, <1>2, FS_Subset
<1> QED  BY <1>3, FS_CardinalityType

(* A call that changes, and is not inside the tool before or afterwards,   *)
(* leaves the slots alone.                                                 *)
LEMMA Outside ==
  ASSUME ToolTypeOK, SlotsCounted, NoUncertainRepeat, Elsewhere, free' = free,
         NEW c \in Callers, op[c].pc # "running",
         NEW u \in Op, u.pc # "running", op' = [op EXCEPT ![c] = u]
  PROVE  ToolInv'
<1>1. op' \in [Callers -> Op] /\ \A d \in Callers : op'[d] = IF d = c THEN u ELSE op[d]
  BY DEF ToolTypeOK, Op
<1>2. Inside(op') = Inside(op)
  BY <1>1 DEF Inside
<1>3. ToolTypeOK'
  BY <1>1 DEF ToolTypeOK, Elsewhere, Op, Circuit
<1>4. SlotsCounted'
  BY <1>2 DEF SlotsCounted
<1>5. NoUncertainRepeat'
  BY <1>1 DEF NoUncertainRepeat, Elsewhere
<1> QED  BY <1>3, <1>4, <1>5 DEF ToolInv

(* A call that leaves the tool gives its slot back.                        *)
LEMMA Leaving ==
  ASSUME ToolTypeOK, SlotsCounted, NoUncertainRepeat, Elsewhere, free' = free + 1,
         NEW c \in Callers, op[c].pc = "running",
         NEW u \in Op, u.pc # "running", op' = [op EXCEPT ![c] = u]
  PROVE  ToolInv'
<1>1. op' \in [Callers -> Op] /\ \A d \in Callers : op'[d] = IF d = c THEN u ELSE op[d]
  BY DEF ToolTypeOK, Op
<1>2. Inside(op') = Inside(op) \ {c} /\ c \in Inside(op)
  BY <1>1 DEF Inside
<1>3. Cardinality(Inside(op')) = Cardinality(Inside(op)) - 1
  BY <1>2, InsideFinite, FS_RemoveElement
<1>4. Cardinality(Inside(op)) \in Nat /\ Cardinality(Inside(op')) \in Nat
  BY InsideFinite
<1>5. free' = Capacity - Cardinality(Inside(op')) /\ free' \in 0..Capacity
  BY <1>3, <1>4, ToolAssumption DEF SlotsCounted, ToolTypeOK
<1>6. ToolTypeOK'
  BY <1>1, <1>5 DEF ToolTypeOK, Elsewhere, Op, Circuit
<1>7. NoUncertainRepeat'
  BY <1>1 DEF NoUncertainRepeat, Elsewhere
<1> QED  BY <1>5, <1>6, <1>7 DEF ToolInv, SlotsCounted

-----------------------------------------------------------------------------
LEMMA ToolBegins == ToolInit => ToolInv
<1> SUFFICES ASSUME ToolInit PROVE ToolInv  OBVIOUS
<1>1. ToolTypeOK
  BY ToolAssumption DEF ToolInit, ToolTypeOK, Closed, NoCall, CallPC, Faults, ToolFaults
<1>2. Inside(op) = {}
  BY DEF Inside, ToolInit, NoCall
<1>3. SlotsCounted
  BY <1>2, FS_EmptySet, ToolAssumption DEF SlotsCounted, ToolInit
<1>4. NoUncertainRepeat
  BY DEF NoUncertainRepeat, ToolInit, NoCall
<1> QED  BY <1>1, <1>3, <1>4 DEF ToolInv

LEMMA RaisedIsCall ==
  ASSUME NEW f \in Faults
  PROVE  [pc |-> "failing", attempt |-> 0, fault |-> f] \in Op
BY ToolAssumption DEF Op, CallPC

LEMMA AfterFailureTyped ==
  ASSUME circuit \in Circuit, NEW f \in Faults
  PROVE  AfterFailure(f) \in Circuit
<1> DEFINE n == IF circuit.sign = f THEN circuit.failures + 1 ELSE 1
<1>1. n \in Nat /\ circuit.failures \in 0..Threshold
  BY ToolAssumption DEF Circuit
<1>2. CASE n >= Threshold
  BY <1>2, ToolAssumption DEF AfterFailure, Circuit
<1>3. CASE ~(n >= Threshold)
  <2>1. n \in 0..Threshold  BY <1>1, <1>3, ToolAssumption
  <2>2. AfterFailure(f) = [circuit EXCEPT !.failures = n, !.sign = f]
    BY <1>3 DEF AfterFailure
  <2> HIDE DEF n
  <2> QED  BY <2>1, <2>2 DEF Circuit
<1> QED  BY <1>2, <1>3

(* The pc of a call, moved.                                                *)
LEMMA Proceeding ==
  ASSUME ToolTypeOK, NEW c \in Callers, NEW pc \in CallPC
  PROVE  /\ [op[c] EXCEPT !.pc = pc] \in Op
         /\ [op[c] EXCEPT !.pc = pc].pc = pc
         /\ [op EXCEPT ![c].pc = pc] = [op EXCEPT ![c] = [op[c] EXCEPT !.pc = pc]]
BY DEF ToolTypeOK, Op

LEMMA AnsweredTyped ==
  /\ NoCall \in Op /\ NoCall.pc # "running"
  /\ [pc |-> "returned", attempt |-> 1, fault |-> "none"] \in Op
BY ToolAssumption DEF NoCall, Op, CallPC

-----------------------------------------------------------------------------
LEMMA BeforeTheTool ==
  ASSUME ToolInv, NEW c \in Callers,
         Admit(c) \/ Reject(c) \/ Refuse(c) \/ Authorise(c) \/ FromCache(c)
  PROVE  ToolInv'
<1> USE DEF ToolInv
<1>0. /\ {"open", "refused", "unapproved", "final"} \subseteq Faults
      /\ {"admitted", "ready", "returned"} \subseteq CallPC
      /\ circuit \in Circuit /\ op \in [Callers -> Op]
  BY DEF Faults, ToolFaults, CallPC, ToolTypeOK, Circuit, Op
<1>1. CASE Admit(c)
  <2>1. circuit' \in Circuit  BY <1>0, <1>1 DEF Admit, Circuit
  <2>2. Elsewhere /\ free' = free  BY <2>1, <1>1 DEF Admit, Elsewhere, ToolTypeOK
  <2> QED  BY <2>2, <1>0, <1>1, Proceeding, Outside DEF Admit, Proceeds
<1>2. CASE Reject(c) \/ Refuse(c)
  <2>1. Elsewhere /\ free' = free /\ op[c].pc # "running"
    BY <1>0, <1>2 DEF Reject, Refuse, Elsewhere, ToolTypeOK
  <2>2. \E f \in Faults : op' = [op EXCEPT ![c] = [pc |-> "failing", attempt |-> 0, fault |-> f]]
    BY <1>0, <1>2 DEF Reject, Refuse, Raises
  <2> QED  BY <2>1, <2>2, RaisedIsCall, Outside
<1>3. CASE Authorise(c)
  <2>1. uses[c] \in 0..MaxUses /\ uses[c] - 1 \in 0..MaxUses
    BY <1>3, ToolAssumption DEF Authorise, ToolTypeOK
  <2>2. uses' \in [Callers -> 0..MaxUses]
    BY <2>1, <1>3 DEF Authorise, ToolTypeOK
  <2>3. Elsewhere /\ free' = free /\ op[c].pc # "running"
    BY <2>2, <1>0, <1>3 DEF Authorise, Elsewhere, ToolTypeOK
  <2>4. CASE Proceeds(c, "ready")
    BY <2>3, <2>4, <1>0, Proceeding, Outside DEF Proceeds
  <2>5. CASE Raises(c, "refused")
    BY <2>3, <2>5, <1>0, RaisedIsCall, Outside DEF Raises
  <2> QED  BY <2>4, <2>5, <1>3 DEF Authorise
<1>4. CASE FromCache(c)
  <2>1. Elsewhere /\ free' = free  BY <1>0, <1>4 DEF FromCache, Elsewhere, ToolTypeOK
  <2> QED  BY <2>1, <1>0, <1>4, Proceeding, Outside DEF FromCache, Proceeds
<1> QED  BY <1>1, <1>2, <1>3, <1>4

LEMMA InTheTool ==
  ASSUME ToolInv, NEW c \in Callers, Enter(c) \/ Returns(c) \/ TryAgain(c) \/ GiveUp(c)
  PROVE  ToolInv'
<1> USE DEF ToolInv
<1>0. /\ ToolFaults \cup {"unconfirmed"} \subseteq Faults
      /\ circuit \in Circuit /\ op \in [Callers -> Op]
  BY DEF Faults, ToolTypeOK, Circuit, Op
<1>e. ASSUME UNCHANGED <<kind, circuit, quiet, uses, answers>> PROVE Elsewhere
  BY <1>0, <1>e DEF Elsewhere, ToolTypeOK
<1>1. CASE Enter(c)
  <2> DEFINE u == [pc |-> "running", attempt |-> 1, fault |-> "none"]
  <2>1. u \in Op  BY ToolAssumption DEF Op, CallPC
  <2>2. /\ op' = [op EXCEPT ![c] = u] /\ op[c].pc = "ready"
        /\ free > 0 /\ free' = free - 1
        /\ UNCHANGED <<kind, circuit, quiet, uses, answers>>
    BY <1>1 DEF Enter
  <2>3. op' \in [Callers -> Op] /\ \A d \in Callers : op'[d] = IF d = c THEN u ELSE op[d]
    BY <1>0, <2>1, <2>2
  <2>4. Inside(op') = Inside(op) \cup {c} /\ c \notin Inside(op)
    BY <2>2, <2>3 DEF Inside
  <2>5. Cardinality(Inside(op')) = Cardinality(Inside(op)) + 1
    BY <2>4, InsideFinite, FS_AddElement
  <2>6. Cardinality(Inside(op)) \in Nat  BY InsideFinite
  <2>7. free' = Capacity - Cardinality(Inside(op')) /\ free' \in 0..Capacity
    BY <2>2, <2>5, <2>6, ToolAssumption DEF SlotsCounted, ToolTypeOK
  <2>8. ToolTypeOK'
    BY <2>3, <2>7, <2>2 DEF ToolTypeOK, Op
  <2>9. NoUncertainRepeat'
    BY <2>2, <2>3 DEF NoUncertainRepeat
  <2> QED  BY <2>7, <2>8, <2>9 DEF SlotsCounted
<1>2. CASE Returns(c)
  <2>1. op[c].pc = "running" /\ free' = free + 1 /\ Elsewhere
    BY <1>2, <1>e DEF Returns
  <2> QED  BY <2>1, <1>2, AnsweredTyped, Leaving DEF Returns
<1>3. CASE TryAgain(c)
  <2>1. PICK f \in ToolFaults :
          /\ op[c].pc = "running" /\ MayRetry(c, f)
          /\ op' = [op EXCEPT ![c] = [pc |-> "running", attempt |-> @.attempt + 1,
                                      fault |-> f]]
          /\ UNCHANGED <<kind, circuit, quiet, free, uses, answers>>
    BY <1>3 DEF TryAgain
  <2> DEFINE u == [pc |-> "running", attempt |-> op[c].attempt + 1, fault |-> f]
  <2>2. op[c] \in Op /\ op[c].attempt + 1 \in 0..(Retries + 1)
    BY <2>1, <1>0, ToolAssumption DEF MayRetry, Op
  <2>3. u \in Op  BY <2>2, <1>0 DEF Op, CallPC
  <2>4. op' = [op EXCEPT ![c] = u]  BY <2>1
  <2>5. op' \in [Callers -> Op] /\ \A d \in Callers : op'[d] = IF d = c THEN u ELSE op[d]
    BY <1>0, <2>3, <2>4
  <2>6. u.pc = "running" /\ u.fault = f /\ (kind = "write" => f = "conflict")
    BY <2>1 DEF MayRetry, Unconfirmed
  <2> HIDE DEF u
  <2>7. Inside(op') = Inside(op)
    BY <2>1, <2>5, <2>6 DEF Inside
  <2>8. ToolTypeOK' /\ SlotsCounted'
    BY <2>1, <2>5, <2>7 DEF ToolTypeOK, SlotsCounted, Op
  <2>9. NoUncertainRepeat'
    BY <2>1, <2>5, <2>6 DEF NoUncertainRepeat
  <2> QED  BY <2>8, <2>9
<1>4. CASE GiveUp(c)
  <2>1. op[c].pc = "running" /\ free' = free + 1 /\ Elsewhere
    BY <1>4, <1>e DEF GiveUp
  <2>2. \E f \in Faults : op' = [op EXCEPT ![c] = [pc |-> "failing", attempt |-> 0, fault |-> f]]
    BY <1>0, <1>4 DEF GiveUp, Raises
  <2> QED  BY <2>1, <2>2, RaisedIsCall, Leaving
<1> QED  BY <1>1, <1>2, <1>3, <1>4

LEMMA AfterTheTool ==
  ASSUME ToolInv, NEW c \in Callers, Invalid(c) \/ Succeed(c) \/ Fail(c)
  PROVE  ToolInv'
<1> USE DEF ToolInv
<1>0. /\ "final" \in Faults /\ circuit \in Circuit /\ op \in [Callers -> Op]
      /\ op[c].fault \in Faults \cup {"none"}
  BY DEF Faults, ToolFaults, ToolTypeOK, Circuit, Op
<1>1. CASE Invalid(c)
  <2>1. Elsewhere /\ free' = free /\ op[c].pc # "running"
    BY <1>0, <1>1 DEF Invalid, Elsewhere, ToolTypeOK
  <2> QED  BY <2>1, <1>0, <1>1, RaisedIsCall, Outside DEF Invalid, Raises
<1>2. CASE Succeed(c)
  <2>1. Closed \in Circuit  BY ToolAssumption DEF Closed, Circuit
  <2>2. Elsewhere /\ free' = free /\ op[c].pc # "running"
    BY <2>1, <1>2 DEF Succeed, Elsewhere, ToolTypeOK
  <2> QED  BY <2>2, <1>2, AnsweredTyped, Outside DEF Succeed
<1>3. CASE Fail(c)
  <2>1. circuit' \in Circuit
    BY <1>0, <1>3, AfterFailureTyped DEF Fail, Counts, Faults, ToolFaults
  <2>2. quiet' \in 0..Window  BY <1>3, ToolAssumption DEF Fail, ToolTypeOK
  <2>3. Elsewhere /\ free' = free /\ op[c].pc # "running"
    BY <2>1, <2>2, <1>3 DEF Fail, Elsewhere, ToolTypeOK
  <2> QED  BY <2>3, <1>3, AnsweredTyped, Outside DEF Fail
<1> QED  BY <1>1, <1>2, <1>3

LEMMA AroundTheCalls ==
  ASSUME ToolInv, (\E c \in Callers : Revoke(c) \/ Forget(c)) \/ ToolTick
  PROVE  ToolInv'
<1> USE DEF ToolInv
<1>1. op' = op /\ free' = free /\ kind' = kind
  BY DEF Revoke, Forget, ToolTick
<1>2. uses' \in [Callers -> 0..MaxUses] /\ answers' \subseteq Callers
  BY ToolAssumption DEF Revoke, Forget, ToolTick, ToolTypeOK
<1>3. \A n \in 0..Window : Later(n) \in 0..Window
  BY ToolAssumption DEF Later
<1>4. circuit' \in Circuit /\ quiet' \in 0..Window
  BY <1>3 DEF Revoke, Forget, ToolTick, ToolTypeOK, Circuit
<1>5. ToolTypeOK'  BY <1>1, <1>2, <1>4 DEF ToolTypeOK, Circuit
<1> QED  BY <1>1, <1>5 DEF SlotsCounted, NoUncertainRepeat

LEMMA ToolGoesOn == ToolInv /\ [ToolNext]_toolVars => ToolInv'
<1> SUFFICES ASSUME ToolInv, [ToolNext]_toolVars PROVE ToolInv'  OBVIOUS
<1>1. CASE UNCHANGED toolVars
  BY <1>1 DEF toolVars, ToolInv, ToolTypeOK, SlotsCounted, NoUncertainRepeat
<1>2. CASE ToolNext
  BY <1>2, BeforeTheTool, InTheTool, AfterTheTool, AroundTheCalls DEF ToolNext, ToolStep
<1> QED  BY <1>1, <1>2

-----------------------------------------------------------------------------
(* The calls of a tool, its breaker and its pool keep their types: the     *)
(* semaphore stays within its capacity, and nobody is tried more often     *)
(* than declared (app/tools/registry.py, bulkhead.py, circuit_breaker.py). *)
THEOREM CallsWellTyped == ToolSpec => []ToolTypeOK
<1>1. ToolSpec => []ToolInv  BY ToolBegins, ToolGoesOn, PTL DEF ToolSpec
<1>2. ToolInv => ToolTypeOK  BY DEF ToolInv
<1> QED  BY <1>1, <1>2, PTL

(* A slot that is not free is held by a call that is inside the tool: on   *)
(* no way out of acquire is one lost, or given back twice.                 *)
THEOREM NoSlotIsLost == ToolSpec => []SlotsCounted
<1>1. ToolSpec => []ToolInv  BY ToolBegins, ToolGoesOn, PTL DEF ToolSpec
<1>2. ToolInv => SlotsCounted  BY DEF ToolInv
<1> QED  BY <1>1, <1>2, PTL

(* _execute_with_retries runs a write again only after a conflict.         *)
THEOREM WritesNotRepeated == ToolSpec => []NoUncertainRepeat
<1>1. ToolSpec => []ToolInv  BY ToolBegins, ToolGoesOn, PTL DEF ToolSpec
<1>2. ToolInv => NoUncertainRepeat  BY DEF ToolInv
<1> QED  BY <1>1, <1>2, PTL

-----------------------------------------------------------------------------
(* Every call winds down.                                                  *)

(* What a call has still to go through, at most.                           *)
Togo(o) == IF o.pc = "idle" THEN 0
           ELSE IF o.pc = "failing" THEN 1
           ELSE IF o.pc = "returned" THEN 2
           ELSE IF o.pc = "running" THEN Retries + 4 - o.attempt
           ELSE IF o.pc = "ready" THEN Retries + 5
           ELSE Retries + 6

LEMMA TogoFacts ==
  ASSUME NEW o \in Op
  PROVE  Togo(o) \in Nat /\ (o.pc # "idle" => Togo(o) > 0)
BY ToolAssumption DEF Togo, Op, CallPC

LEMMA CallStepLowers ==
  ASSUME ToolTypeOK, NEW c \in Callers, ToolStep(c)
  PROVE  Togo(op'[c]) < Togo(op[c]) /\ \A d \in Callers : d # c => op'[d] = op[d]
<1>1. op \in [Callers -> Op] /\ op[c] \in Op /\ Retries \in Nat
  BY ToolAssumption DEF ToolTypeOK, Op
<1>2. \A d \in Callers : d # c => op'[d] = op[d]
  BY <1>1 DEF ToolStep, Refuse, Authorise, FromCache, Enter, Returns, TryAgain, GiveUp, Invalid,
     Succeed, Fail, Raises, Proceeds
<1>3. CASE Refuse(c) \/ Authorise(c)
  <2>1. op[c].pc = "admitted" /\ op'[c].pc \in {"failing", "ready"}
    BY <1>1, <1>3 DEF Refuse, Authorise, Raises, Proceeds, Op
  <2>. QED BY <1>1, <1>2, <2>1 DEF Togo
<1>4. CASE FromCache(c)
  <2>1. op[c].pc = "ready" /\ op'[c].pc = "returned"
    BY <1>1, <1>4 DEF FromCache, Proceeds, Op
  <2>. QED BY <1>1, <1>2, <2>1 DEF Togo
<1>5. CASE Enter(c)
  <2>1. op[c].pc = "ready" /\ op'[c].pc = "running" /\ op'[c].attempt = 1
    BY <1>1, <1>5 DEF Enter
  <2>. QED BY <1>1, <1>2, <2>1 DEF Togo
<1>6. CASE TryAgain(c)
  <2>1. /\ op[c].pc = "running" /\ op'[c].pc = "running"
        /\ op'[c].attempt = op[c].attempt + 1 /\ op[c].attempt \in Nat
    BY <1>1, <1>6 DEF TryAgain, Op
  <2>. QED BY <1>1, <1>2, <2>1 DEF Togo
<1>7. CASE Returns(c) \/ GiveUp(c)
  <2>1. op[c].pc = "running" /\ op'[c].pc \in {"returned", "failing"}
    BY <1>1, <1>7 DEF Returns, GiveUp, Raises
  <2>2. op[c].attempt \in 0..(Retries + 1)
    BY <1>1 DEF Op
  <2>. QED BY <1>1, <1>2, <2>1, <2>2 DEF Togo
<1>8. CASE Invalid(c)
  <2>1. op[c].pc = "returned" /\ op'[c].pc = "failing"
    BY <1>1, <1>8 DEF Invalid, Raises
  <2>. QED BY <1>1, <1>2, <2>1 DEF Togo
<1>9. CASE Succeed(c) \/ Fail(c)
  <2>1. op[c].pc \in {"returned", "failing"} /\ op'[c].pc = "idle"
    BY <1>1, <1>9 DEF Succeed, Fail, NoCall
  <2>. QED BY <1>1, <1>2, <2>1 DEF Togo
<1>. QED BY <1>3, <1>4, <1>5, <1>6, <1>7, <1>8, <1>9 DEF ToolStep

CallsWind == \A c \in Callers :
               /\ ToolStep(c) => Togo(op'[c]) < Togo(op[c])
               /\ op'[c] = op[c] \/ Admit(c) \/ Reject(c) \/ ToolStep(c)

LEMMA CallsWinding == ToolTypeOK /\ [ToolNext]_toolVars => [CallsWind]_toolVars
<1>. SUFFICES ASSUME ToolTypeOK, ToolNext PROVE CallsWind
  OBVIOUS
<1>1. \A c \in Callers : ToolStep(c) => Togo(op'[c]) < Togo(op[c])
  BY CallStepLowers
<1>2. CASE \E c \in Callers : ToolStep(c)
  BY <1>1, <1>2, CallStepLowers DEF CallsWind
<1>3. CASE \E c \in Callers : Admit(c) \/ Reject(c)
  <2>1. PICK c \in Callers : Admit(c) \/ Reject(c)
    BY <1>3
  <2>2. \A d \in Callers : d # c => op'[d] = op[d]
    BY <2>1 DEF Admit, Reject, Proceeds, Raises, ToolTypeOK
  <2>. QED BY <1>1, <2>1, <2>2 DEF CallsWind
<1>4. CASE op' = op
  BY <1>1, <1>4 DEF CallsWind
<1>. QED BY <1>2, <1>3, <1>4 DEF ToolNext, Revoke, Forget, ToolTick

(* ToolRegistry.call always gets to its end: whatever errors the tool      *)
(* raises and whatever other callers do, each step of a call lowers what   *)
(* it has still to go through, nobody else raises it, and when a call      *)
(* waits for a slot of the bulkhead, some other call is inside the tool    *)
(* to give one back.                                                       *)
THEOREM CallsWindDown ==
  ToolSpec => /\ [][CallsWind]_toolVars
              /\ [](\A c \in Callers :
                       /\ Togo(op[c]) \in Nat /\ (op[c].pc # "idle" => Togo(op[c]) > 0)
                       /\ op[c].pc = "ready" /\ free = 0
                            => \E d \in Callers : d # c /\ op[d].pc = "running")
<1>1. ToolSpec => []ToolInv
  BY ToolBegins, ToolGoesOn, PTL DEF ToolSpec
<1>2. ToolInv => \A c \in Callers :
                    /\ Togo(op[c]) \in Nat /\ (op[c].pc # "idle" => Togo(op[c]) > 0)
                    /\ op[c].pc = "ready" /\ free = 0
                         => \E d \in Callers : d # c /\ op[d].pc = "running"
  <2>. SUFFICES ASSUME ToolInv, NEW c \in Callers
                PROVE  /\ Togo(op[c]) \in Nat /\ (op[c].pc # "idle" => Togo(op[c]) > 0)
                       /\ op[c].pc = "ready" /\ free = 0
                            => \E d \in Callers : d # c /\ op[d].pc = "running"
    OBVIOUS
  <2>1. op[c] \in Op
    BY DEF ToolInv, ToolTypeOK, Op
  <2>2. free = 0 => Inside(op) # {}
    <3>1. Cardinality(Inside(op)) \in Nat /\ Capacity \in Nat \ {0}
      BY InsideFinite, ToolAssumption
    <3>. QED BY <3>1, FS_EmptySet DEF ToolInv, SlotsCounted
  <2>3. op[c].pc = "ready" => c \notin Inside(op)
    BY DEF Inside
  <2>. QED BY <2>1, <2>2, <2>3, TogoFacts DEF Inside
<1>3. ToolInv => ToolTypeOK
  BY DEF ToolInv
<1>. QED BY <1>1, <1>2, <1>3, CallsWinding, PTL DEF ToolSpec

-----------------------------------------------------------------------------
(***************************************************************************)
(* The three components in one behaviour.                                  *)
(***************************************************************************)
(* Which component moves is chosen once, and the others stay as they are:  *)
(* a behaviour of PlatformMC is one of each component, fairness included,  *)
(* so that every theorem about WorkflowRun, ConversationTurns and ToolCalls *)
(* is one about the composition that the run checks.                       *)
THEOREM PlatformIsItsParts == PlatformSpec => FlowSpec /\ TurnSpec /\ ToolSpec
<1>1. PlatformInit => FlowInit /\ TurnInit /\ ToolInit
  BY DEF PlatformInit
<1>2. [PlatformNext]_platformVars =>
         [FlowNext]_flowVars /\ [TurnNext]_turnVars /\ [ToolNext]_toolVars
  BY DEF PlatformNext, platformVars
<1> QED  BY <1>1, <1>2, PTL DEF PlatformSpec, FlowSpec, TurnSpec, ToolSpec

(* All the variables of the platform keep their types.                     *)
THEOREM PlatformTypeCorrect == PlatformSpec => []PlatformTypeOK
<1>1. FlowTypeOK /\ TurnTypeOK /\ ToolTypeOK => PlatformTypeOK
  BY DEF PlatformTypeOK
<1> QED  BY <1>1, PlatformIsItsParts, FlowTypeCorrect, TurnTypeCorrect, CallsWellTyped, PTL
=============================================================================
