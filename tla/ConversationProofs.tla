------------------------- MODULE ConversationProofs -------------------------
(***************************************************************************)
(* Theorems about BatchExecution and TaskSessions, for any number of items, *)
(* calls, attempts and messages, and their proofs.                         *)
(***************************************************************************)
EXTENDS ConversationMC, SequenceTheorems, TLAPS

(* What a call knows of the rows it works on, at each program counter.     *)
Holds(c) ==
  /\ Claimed(c) => item[call[c].at].status = "running"
  /\ call[c].pc = "loaded" => Resumable(call[c].at)
  /\ call[c].pc = "executing" => /\ task[call[c].at].status = "running"
                                 /\ ~task[call[c].at].unknown
  /\ call[c].pc = "answered" => task[call[c].at].status = "completed"

KnowledgeHolds == \A c \in Calls : Holds(c)

ClaimsDistinct ==
  \A c, d \in Calls : Claimed(c) /\ Claimed(d) /\ call[c].at = call[d].at => c = d

OneResumes ==
  \A c, d \in Calls : \A i \in Items : Resuming(c, i) /\ Resuming(d, i) => c = d

CountsHold ==
  \A c \in Calls : call[c].pc = "counted" /\ call[c].total = "completed" =>
    \A i \in Items : item[i].status = "completed"

UnknownStopped == \A i \in Items : task[i].unknown => task[i].status = "stopped"

IInv ==
  /\ BatchTypeOK
  /\ KnowledgeHolds
  /\ UnknownStopped
  /\ ClaimsDistinct
  /\ OneResumes
  /\ CountsHold
  /\ AttemptsAccounted
  /\ CompletedWasVerified
  /\ NoFalseSuccess

-----------------------------------------------------------------------------
(* Types.                                                                  *)

LEMMA EndedType == Ended \in Call
  BY DEF Ended, Call, PC, Operations, BatchStatus, Read

LEMMA SeenType == ASSUME BatchTypeOK, NEW i \in Items PROVE Seen(i) \in Read
  BY DEF BatchTypeOK, Seen, Read, Item

LEMMA AggregateType == Aggregate \in BatchStatus
  BY DEF Aggregate, BatchStatus

(* A call that moves on keeps the type of its record.                      *)
LEMMA GotoType ==
  ASSUME BatchTypeOK, NEW c \in Calls, NEW pc \in PC, Goto(c, pc),
         pc \in OnItem => call[c].at \in Items
  PROVE  /\ call' \in [Calls -> Call]
         /\ \A d \in Calls : call'[d].pc \in OnItem => call'[d].at \in Items
  BY DEF BatchTypeOK, Goto, Call

LEMMA EndType ==
  ASSUME BatchTypeOK, NEW c \in Calls, End(c)
  PROVE  /\ call' \in [Calls -> Call]
         /\ \A d \in Calls : call'[d].pc \in OnItem => call'[d].at \in Items
<1>1. call' \in [Calls -> Call]
  BY EndedType DEF BatchTypeOK, End
<1>. QED BY <1>1 DEF BatchTypeOK, End, Ended, OnItem

(* Fields of a call's record after each kind of update.                    *)
LEMMA AtFacts ==
  ASSUME NEW r \in Call, NEW pc \in PC, NEW i \in Items \cup {NoItem}
  PROVE  /\ At(r, pc, i) \in Call
         /\ At(r, pc, i).pc = pc /\ At(r, pc, i).at = i
         /\ At(r, pc, i).kind = r.kind /\ At(r, pc, i).seen = r.seen
         /\ At(r, pc, i).total = r.total
BY DEF At, Call

LEMMA NotedFacts ==
  ASSUME NEW r \in Call, NEW i \in Items, NEW row \in Read \cup {NoItem}
  PROVE  /\ Noted(r, i, row) \in Call
         /\ Noted(r, i, row).pc = r.pc /\ Noted(r, i, row).at = r.at
         /\ Noted(r, i, row).kind = r.kind /\ Noted(r, i, row).total = r.total
<1>1. [r.seen EXCEPT ![i] = row] \in [Items -> Read \cup {NoItem}]
  BY DEF Call
<1>. QED BY <1>1 DEF Noted, Call

LEMMA DoneFacts ==
  ASSUME NEW r \in Call, NEW i \in Items
  PROVE  /\ Done(r, i) \in Call
         /\ Done(r, i).pc = "next" /\ Done(r, i).at = NoItem
         /\ Done(r, i).kind = r.kind /\ Done(r, i).total = r.total
<1>1. "next" \in PC
  BY DEF PC
<1>. QED BY <1>1, AtFacts, NotedFacts DEF Done

LEMMA BegunFacts ==
  ASSUME NEW r \in Call, NEW kind \in Operations,
         NEW seen \in [Items -> Read \cup {NoItem}]
  PROVE  LET s == [r EXCEPT !.pc = "next", !.kind = kind, !.seen = seen]
         IN  s \in Call /\ s.pc = "next"
BY DEF Call, PC

LEMMA CountedFacts ==
  ASSUME NEW r \in Call, NEW total \in BatchStatus
  PROVE  LET s == [r EXCEPT !.pc = "counted", !.total = total]
         IN  s \in Call /\ s.pc = "counted" /\ s.total = total
BY DEF Call, PC

LEMMA ApprovingFacts ==
  ASSUME NEW r \in Call, NEW i \in Items
  PROVE  LET s == [At(r, "claimed", i) EXCEPT !.kind = "task"]
         IN  s \in Call /\ s.pc = "claimed" /\ s.at = i /\ s.kind = "task"
<1>1. "claimed" \in PC
  BY DEF PC
<1>2. /\ At(r, "claimed", i) \in Call /\ At(r, "claimed", i).pc = "claimed"
      /\ At(r, "claimed", i).at = i
  BY <1>1, AtFacts
<1>. QED BY <1>2 DEF Call

(* Replacing the record of one call by another of the type.                *)
LEMMA ReplaceType ==
  ASSUME BatchTypeOK, NEW c \in Calls, NEW r \in Call,
         call' = [call EXCEPT ![c] = r],
         r.pc \in OnItem => r.at \in Items
  PROVE  /\ call' \in [Calls -> Call]
         /\ \A d \in Calls : call'[d].pc \in OnItem => call'[d].at \in Items
BY DEF BatchTypeOK

(* Steps that leave the rows alone change the record of one call.          *)
LEMMA CallType ==
  ASSUME BatchTypeOK, UNCHANGED <<batch, item, task>>,
         call' \in [Calls -> Call],
         \A d \in Calls : call'[d].pc \in OnItem => call'[d].at \in Items
  PROVE  BatchTypeOK'
BY DEF BatchTypeOK

LEMMA DoneType ==
  ASSUME BatchTypeOK, NEW c \in Calls, NEW i \in Items,
         call' = [call EXCEPT ![c] = Done(@, i)]
  PROVE  /\ call' \in [Calls -> Call]
         /\ \A d \in Calls : call'[d].pc \in OnItem => call'[d].at \in Items
<1>1. call[c] \in Call
  BY DEF BatchTypeOK
<1>2. Done(call[c], i) \in Call /\ Done(call[c], i).pc \notin OnItem
  BY <1>1, DoneFacts DEF OnItem
<1>. QED BY <1>2, ReplaceType

LEMMA RaiseType ==
  ASSUME BatchTypeOK, NEW c \in Calls, call[c].at \in Items, Raise(c)
  PROVE  /\ call' \in [Calls -> Call]
         /\ \A d \in Calls : call'[d].pc \in OnItem => call'[d].at \in Items
<1>1. CASE End(c)
  BY <1>1, EndType
<1>2. CASE Goto(c, "failing")
  <2>1. "failing" \in PC
    BY DEF PC
  <2>. QED BY <1>2, <2>1, GotoType
<1>. QED BY <1>1, <1>2 DEF Raise

LEMMA InitType == BatchInit => BatchTypeOK
<1>. SUFFICES ASSUME BatchInit PROVE BatchTypeOK
  OBVIOUS
<1>1. << >> \in Seq(Entry)
  OBVIOUS
<1>2. item \in [Items -> Item] /\ task \in [Items -> Task]
  BY <1>1 DEF BatchInit, Item, ItemStatus, Task
<1>3. batch \in BatchStatus
  BY DEF BatchInit, BatchStatus
<1>4. call \in [Calls -> Call] /\ \A c \in Calls : call[c].pc \notin OnItem
  BY EndedType DEF BatchInit, Ended, OnItem
<1>. QED BY <1>2, <1>3, <1>4 DEF BatchTypeOK

LEMMA BeginType ==
  ASSUME BatchTypeOK, NEW c \in Calls, NEW kind \in Operations,
         NEW selected \in SUBSET Items, Begin(c, kind, selected)
  PROVE  BatchTypeOK'
<1>. DEFINE seen == [i \in Items |-> IF i \in selected THEN Seen(i) ELSE NoItem]
            r == [call[c] EXCEPT !.pc = "next", !.kind = kind, !.seen = seen]
<1>1. seen \in [Items -> Read \cup {NoItem}]
  BY SeenType
<1>2. call' = [call EXCEPT ![c] = r]
  BY DEF Begin
<1>3. call[c] \in Call
  BY DEF BatchTypeOK
<1>. HIDE DEF seen
<1>4. r \in Call /\ r.pc = "next"
  BY <1>1, <1>3, BegunFacts
<1>. HIDE DEF r
<1>5. r.pc \notin OnItem
  BY <1>4 DEF OnItem
<1>. QED BY <1>2, <1>4, <1>5, ReplaceType DEF BatchTypeOK, Begin

LEMMA RereadType ==
  ASSUME BatchTypeOK, NEW c \in Calls, Reread(c)
  PROVE  BatchTypeOK'
<1>. DEFINE i == call[c].at
            r == Noted(At(call[c], "next", NoItem), i, Seen(i))
<1>1. i \in Items /\ call[c] \in Call /\ "next" \in PC
  BY DEF BatchTypeOK, Reread, OnItem, PC
<1>2. r \in Call /\ r.pc = "next"
  BY <1>1, SeenType, AtFacts, NotedFacts
<1>3. call' = [call EXCEPT ![c] = r]
  BY DEF Reread
<1>. HIDE DEF r
<1>4. r.pc \notin OnItem
  BY <1>2 DEF OnItem
<1>. QED BY <1>2, <1>3, <1>4, ReplaceType DEF BatchTypeOK, Reread

LEMMA LoggedType ==
  ASSUME NEW r \in Item, NEW s \in {"completed", "needs_attention"}
  PROVE  /\ Logged(r, s) \in Item
         /\ Logged(r, s).status = s /\ Logged(r, s).attempts = r.attempts
         /\ Logged(r, s).history = Append(r.history, [attempt |-> r.attempts, status |-> s])
<1>1. [attempt |-> r.attempts, status |-> s] \in Entry
  BY DEF Item, Entry
<1>2. Append(r.history, [attempt |-> r.attempts, status |-> s]) \in Seq(Entry)
  BY <1>1 DEF Item
<1>. QED BY <1>2 DEF Logged, Item, ItemStatus

(* The steps of a call that belong to one selected item.                   *)
LEMMA ItemStepType ==
  ASSUME BatchTypeOK, NEW c \in Calls, NEW i \in Items,
         PassOver(c, i) \/ DecideRetry(c, i) \/ ClaimExecution(c, i) \/ ApproveTask(c, i)
  PROVE  BatchTypeOK'
<1>1. CASE PassOver(c, i)
  BY <1>1, DoneType, CallType DEF PassOver
<1>2. CASE DecideRetry(c, i)
  <2>1. "reopening" \in PC /\ call[c] \in Call
    BY DEF PC, BatchTypeOK
  <2>2. At(call[c], "reopening", i) \in Call /\ At(call[c], "reopening", i).at = i
    BY <2>1, AtFacts
  <2>. QED BY <1>2, <2>2, ReplaceType, CallType DEF DecideRetry
<1>3. CASE ApproveTask(c, i)
  <2>. DEFINE r == [At(call[c], "claimed", i) EXCEPT !.kind = "task"]
  <2>1. call[c] \in Call
    BY DEF BatchTypeOK
  <2>2. r \in Call /\ r.at = i
    BY <2>1, ApprovingFacts
  <2>3. call' = [call EXCEPT ![c] = r] /\ UNCHANGED <<batch, item, task>>
    BY <1>3 DEF ApproveTask
  <2>. HIDE DEF r
  <2>. QED BY <2>2, <2>3, ReplaceType, CallType
<1>4. CASE ClaimExecution(c, i)
  <2>1. CASE Claimable(i)
    <3>1. item' = [item EXCEPT ![i].status = "running", ![i].attempts = @ + 1]
      BY <1>4, <2>1 DEF ClaimExecution
    <3>2. item' \in [Items -> Item]
      BY <3>1 DEF BatchTypeOK, Item, ItemStatus
    <3>3. call' = [call EXCEPT ![c] = At(@, "claimed", i)] /\ batch' = "running" /\ task' = task
      BY <1>4, <2>1 DEF ClaimExecution
    <3>4. "claimed" \in PC /\ call[c] \in Call
      BY DEF PC, BatchTypeOK
    <3>5. At(call[c], "claimed", i) \in Call /\ At(call[c], "claimed", i).at = i
      BY <3>4, AtFacts
    <3>6. /\ call' \in [Calls -> Call]
          /\ \A d \in Calls : call'[d].pc \in OnItem => call'[d].at \in Items
      BY <3>3, <3>5, ReplaceType
    <3>. QED BY <3>2, <3>3, <3>6 DEF BatchTypeOK, BatchStatus
  <2>2. CASE ~Claimable(i)
    BY <1>4, <2>2, EndType, CallType DEF ClaimExecution
  <2>. QED BY <2>1, <2>2
<1>. QED BY <1>1, <1>2, <1>3, <1>4

LEMMA PrepareRetryType ==
  ASSUME BatchTypeOK, NEW c \in Calls, PrepareRetry(c)
  PROVE  BatchTypeOK'
<1>1. call[c].at \in Items /\ call[c].pc = "reopening"
  BY DEF PrepareRetry, BatchTypeOK, OnItem
<1>2. CASE Reopenable(call[c].at)
  <2>1. item' = [item EXCEPT ![call[c].at].status = "awaiting_approval"]
    BY <1>2 DEF PrepareRetry
  <2>2. item' \in [Items -> Item]
    BY <1>1, <2>1 DEF BatchTypeOK, Item, ItemStatus
  <2>3. Goto(c, "rereading") /\ batch' = "running" /\ task' = task
    BY <1>2 DEF PrepareRetry
  <2>4. "rereading" \in PC
    BY DEF PC
  <2>5. /\ call' \in [Calls -> Call]
        /\ \A d \in Calls : call'[d].pc \in OnItem => call'[d].at \in Items
    BY <1>1, <2>3, <2>4, GotoType
  <2>. QED BY <2>2, <2>3, <2>5 DEF BatchTypeOK, BatchStatus
<1>3. CASE ~Reopenable(call[c].at)
  BY <1>3, EndType, CallType DEF PrepareRetry
<1>. QED BY <1>2, <1>3

(* The approver's steps.                                                   *)
LEMMA ApproverType ==
  ASSUME BatchTypeOK, NEW c \in Calls,
         \/ LoadTask(c) \/ RefuseTask(c) \/ RunTask(c) \/ VerifyTask(c) \/ LoseAnswer(c)
         \/ \E unknown \in BOOLEAN : FailTask(c, unknown)
  PROVE  BatchTypeOK'
<1>1. call[c].at \in Items
  BY DEF BatchTypeOK, OnItem, LoadTask, RefuseTask, RunTask, VerifyTask, LoseAnswer, FailTask
<1>2. "loaded" \in PC /\ "executing" \in PC /\ "answered" \in PC
  BY DEF PC
<1>3. CASE LoadTask(c)
  BY <1>1, <1>2, <1>3, GotoType, CallType DEF LoadTask
<1>4. CASE RefuseTask(c)
  BY <1>1, <1>4, RaiseType, CallType DEF RefuseTask
<1>5. CASE LoseAnswer(c)
  BY <1>1, <1>5, RaiseType, CallType DEF LoseAnswer
<1>6. CASE RunTask(c)
  <2>1. task' \in [Items -> Task]
    BY <1>1, <1>6 DEF RunTask, BatchTypeOK, Task
  <2>. QED BY <1>1, <1>2, <1>6, <2>1, GotoType DEF RunTask, BatchTypeOK
<1>7. CASE VerifyTask(c)
  <2>1. task' \in [Items -> Task]
    BY <1>1, <1>7 DEF VerifyTask, BatchTypeOK, Task
  <2>. QED BY <1>1, <1>2, <1>7, <2>1, GotoType DEF VerifyTask, BatchTypeOK
<1>8. ASSUME NEW unknown \in BOOLEAN, FailTask(c, unknown) PROVE BatchTypeOK'
  <2>1. [status |-> "stopped", unknown |-> unknown] \in Task
    BY DEF Task
  <2>2. task' \in [Items -> Task]
    BY <1>1, <1>8, <2>1 DEF FailTask, BatchTypeOK
  <2>. QED BY <1>1, <1>8, <2>2, RaiseType DEF FailTask, BatchTypeOK
<1>. QED BY <1>3, <1>4, <1>5, <1>6, <1>7, <1>8

(* Recording and finalizing.                                               *)
LEMMA OutcomeType ==
  ASSUME BatchTypeOK, NEW c \in Calls,
         RecordExecution(c) \/ ReturnTask(c) \/ CountItems(c) \/ FinalizeExecution(c)
  PROVE  BatchTypeOK'
<1>1. CASE RecordExecution(c)
  <2>. DEFINE s == IF call[c].pc = "answered" THEN "completed" ELSE "needs_attention"
  <2>1. call[c].at \in Items
    BY <1>1 DEF RecordExecution, BatchTypeOK, OnItem
  <2>2. Logged(item[call[c].at], s) \in Item
    BY <2>1, LoggedType DEF BatchTypeOK
  <2>3. item' \in [Items -> Item]
    BY <1>1, <2>1, <2>2 DEF RecordExecution, BatchTypeOK
  <2>4. /\ call' \in [Calls -> Call]
        /\ \A d \in Calls : call'[d].pc \in OnItem => call'[d].at \in Items
    <3>1. CASE call' = [call EXCEPT ![c] = Done(@, call[c].at)]
      BY <2>1, <3>1, DoneType
    <3>2. CASE End(c)
      BY <3>2, EndType
    <3>. QED BY <1>1, <3>1, <3>2 DEF RecordExecution
  <2>. QED BY <1>1, <2>3, <2>4 DEF RecordExecution, BatchTypeOK
<1>2. CASE ReturnTask(c)
  BY <1>2, EndType, CallType DEF ReturnTask
<1>3. CASE CountItems(c)
  <2>. DEFINE r == [call[c] EXCEPT !.pc = "counted", !.total = Aggregate]
  <2>1. call[c] \in Call
    BY DEF BatchTypeOK
  <2>2. r \in Call /\ r.pc = "counted"
    BY <2>1, AggregateType, CountedFacts
  <2>3. call' = [call EXCEPT ![c] = r] /\ UNCHANGED <<batch, item, task>>
    BY <1>3 DEF CountItems
  <2>. HIDE DEF r
  <2>4. r.pc \notin OnItem
    BY <2>2 DEF OnItem
  <2>. QED BY <2>2, <2>3, <2>4, ReplaceType, CallType
<1>4. CASE FinalizeExecution(c)
  <2>1. batch' \in BatchStatus
    BY <1>4 DEF FinalizeExecution, BatchTypeOK, Call
  <2>. QED BY <1>4, <2>1, EndType DEF FinalizeExecution, BatchTypeOK
<1>. QED BY <1>1, <1>2, <1>3, <1>4

LEMMA CrashType == ASSUME BatchTypeOK, BatchCrash PROVE BatchTypeOK'
<1>1. Ended.pc \notin OnItem
  BY DEF Ended, OnItem
<1>. QED BY <1>1, EndedType DEF BatchCrash, BatchTypeOK


LEMMA TypeStep == BatchTypeOK /\ [BatchNext]_batchVars => BatchTypeOK'
<1>. SUFFICES ASSUME BatchTypeOK, [BatchNext]_batchVars PROVE BatchTypeOK'
  OBVIOUS
<1>1. ASSUME NEW c \in Calls, NEW kind \in Operations, NEW selected \in SUBSET Items,
             Begin(c, kind, selected)
      PROVE  BatchTypeOK'
  BY <1>1, BeginType
<1>2. ASSUME NEW c \in Calls, NEW i \in Items,
             PassOver(c, i) \/ DecideRetry(c, i) \/ ClaimExecution(c, i) \/ ApproveTask(c, i)
      PROVE  BatchTypeOK'
  BY <1>2, ItemStepType
<1>3. ASSUME NEW c \in Calls, ExecuteStep(c) PROVE BatchTypeOK'
  BY <1>2, <1>3, PrepareRetryType, RereadType, ApproverType, OutcomeType DEF ExecuteStep
<1>4. CASE UNCHANGED batchVars
  BY <1>4 DEF batchVars, BatchTypeOK
<1>. QED BY <1>1, <1>2, <1>3, <1>4, CrashType DEF BatchNext

(* No row and no call ever leaves its type.                                *)
THEOREM BatchTypeCorrect == BatchSpec => []BatchTypeOK
<1>. QED BY InitType, TypeStep, PTL DEF BatchSpec

-----------------------------------------------------------------------------
(* The inductive invariant.                                                *)

OthersKept(c) == \A d \in Calls \ {c} : call'[d] = call[d]

LEMMA GotoFacts ==
  ASSUME BatchTypeOK, NEW c \in Calls, NEW pc, Goto(c, pc)
  PROVE  /\ OthersKept(c)
         /\ call'[c].pc = pc /\ call'[c].at = call[c].at
         /\ call'[c].kind = call[c].kind /\ call'[c].total = call[c].total
BY DEF BatchTypeOK, Goto, Call, OthersKept

LEMMA EndFacts ==
  ASSUME BatchTypeOK, NEW c \in Calls, End(c)
  PROVE  OthersKept(c) /\ call'[c].pc = "idle"
BY DEF BatchTypeOK, End, Ended, OthersKept

LEMMA ReplaceFacts ==
  ASSUME BatchTypeOK, NEW c \in Calls, NEW r, call' = [call EXCEPT ![c] = r]
  PROVE  OthersKept(c) /\ call'[c] = r
BY DEF BatchTypeOK, OthersKept

LEMMA RaiseFacts ==
  ASSUME BatchTypeOK, NEW c \in Calls, Raise(c)
  PROVE  /\ OthersKept(c)
         /\ \/ call'[c].pc = "idle"
            \/ /\ call'[c].pc = "failing" /\ call'[c].at = call[c].at
               /\ call'[c].kind = call[c].kind /\ call[c].kind # "task"
BY EndFacts, GotoFacts DEF Raise

(* One call moves, and with it at most one item and that item's task.  A   *)
(* row changes only under a call that has it to itself, and what the mover *)
(* then knows is true.                                                     *)
OneMoves(c, i) ==
  /\ OthersKept(c)
  /\ \A j \in Items \ {i} : item'[j] = item[j] /\ task'[j] = task[j]
  /\ item'[i] # item[i] =>
       /\ item[i].status # "completed"
       /\ \A d \in Calls \ {c} : Claimed(d) => call[d].at # i
  /\ task'[i] # task[i] => Resuming(c, i) /\ task[i].status # "completed"
  /\ Holds(c)'
  /\ Claimed(c)' => \A d \in Calls \ {c} : Claimed(d) => call[d].at # call'[c].at
  /\ \A j \in Items : Resuming(c, j)' => \A d \in Calls \ {c} : ~Resuming(d, j)
  /\ call'[c].pc = "counted" /\ call'[c].total = "completed" =>
       \A j \in Items : item'[j].status = "completed"

(* What the other calls know still holds then.                             *)
LEMMA Framed ==
  ASSUME IInv, BatchTypeOK', NEW c \in Calls, NEW i \in Items, OneMoves(c, i)
  PROVE  KnowledgeHolds' /\ ClaimsDistinct' /\ OneResumes' /\ CountsHold'
<1>1. ASSUME NEW d \in Calls \ {c} PROVE Holds(d)'
  <2>1. Holds(d) /\ call'[d] = call[d]
    BY DEF IInv, KnowledgeHolds, OneMoves, OthersKept
  <2>2. call[d].pc \in OnItem => call[d].at \in Items
    BY DEF IInv, BatchTypeOK
  <2>3. Claimed(d) => item'[call[d].at] = item[call[d].at]
    BY <2>2 DEF OneMoves, Claimed, OnItem
  <2>4. call[d].pc \in {"loaded", "executing"} => task'[call[d].at] = task[call[d].at]
    BY <2>2 DEF OneMoves, IInv, OneResumes, Resuming, OnItem
  <2>5. call[d].pc = "answered" => task'[call[d].at] = task[call[d].at]
    BY <2>1, <2>2 DEF OneMoves, Holds, OnItem
  <2>. QED BY <2>1, <2>3, <2>4, <2>5 DEF Holds, Claimed, Resumable
<1>2. ClaimsDistinct'
  <2>1. \A d \in Calls \ {c} : Claimed(d)' <=> Claimed(d)
    BY DEF OneMoves, OthersKept, Claimed
  <2>. QED BY <2>1 DEF OneMoves, IInv, ClaimsDistinct, OthersKept
<1>3. OneResumes'
  <2>1. \A d \in Calls \ {c} : \A j \in Items : Resuming(d, j)' <=> Resuming(d, j)
    BY DEF OneMoves, OthersKept, Resuming
  <2>. QED BY <2>1 DEF OneMoves, IInv, OneResumes
<1>4. CountsHold'
  <2>1. \A j \in Items : item[j].status = "completed" /\ item[i].status = "completed"
                           => item'[j].status = "completed"
    BY DEF OneMoves
  <2>. QED BY <2>1 DEF OneMoves, IInv, CountsHold, OthersKept
<1>5. Holds(c)'
  BY DEF OneMoves
<1>. QED BY <1>1, <1>2, <1>3, <1>4, <1>5 DEF KnowledgeHolds

LEMMA AttemptsKept == ASSUME AttemptsAccounted, item' = item PROVE AttemptsAccounted'
BY DEF AttemptsAccounted

(* The rest of the invariant speaks of the rows alone.                     *)
LEMMA RowsKept ==
  ASSUME IInv, UNCHANGED <<batch, item, task>>
  PROVE  UnknownStopped' /\ AttemptsAccounted' /\ CompletedWasVerified' /\ NoFalseSuccess'
<1>1. UnknownStopped'
  BY DEF IInv, UnknownStopped
<1>2. AttemptsAccounted'
  BY AttemptsKept DEF IInv
<1>3. CompletedWasVerified' /\ NoFalseSuccess'
  BY DEF IInv, CompletedWasVerified, NoFalseSuccess
<1>. QED BY <1>1, <1>2, <1>3

(* A step that changes no row, into a state in which nothing is claimed.   *)
LEMMA Quiet ==
  ASSUME IInv, BatchTypeOK', NEW c \in Calls,
         UNCHANGED <<batch, item, task>>, OthersKept(c),
         call'[c].pc \in {"idle", "next", "reopening", "rereading"}
  PROVE  IInv'
<1>1. PICK i \in Items : TRUE
  BY BatchAssumption
<1>2. Holds(c)' /\ ~Claimed(c)' /\ \A j \in Items : ~Resuming(c, j)'
  BY DEF Holds, Claimed, Resuming
<1>3. OneMoves(c, i)
  BY <1>2 DEF OneMoves
<1>4. KnowledgeHolds' /\ ClaimsDistinct' /\ OneResumes' /\ CountsHold'
  BY <1>3, Framed
<1>. QED BY <1>4, RowsKept DEF IInv

LEMMA CallMoves ==
  ASSUME IInv, BatchTypeOK', NEW c \in Calls, NEW i \in Items, OneMoves(c, i),
         UNCHANGED <<batch, item, task>>
  PROVE  IInv'
BY Framed, RowsKept DEF IInv

LEMMA EndKeeps ==
  ASSUME IInv, BatchTypeOK', NEW c \in Calls, End(c), UNCHANGED <<batch, item, task>>
  PROVE  IInv'
<1>1. OthersKept(c) /\ call'[c].pc = "idle"
  BY EndFacts DEF IInv
<1>. QED BY <1>1, Quiet

LEMMA QuietSteps ==
  ASSUME IInv, BatchTypeOK', NEW c \in Calls, NEW i \in Items,
         PassOver(c, i) \/ DecideRetry(c, i) \/ Reread(c) \/ ReturnTask(c)
  PROVE  IInv'
<1>1. call[c] \in Call /\ "next" \in PC /\ "reopening" \in PC
  BY DEF IInv, BatchTypeOK, PC
<1>2. CASE PassOver(c, i)
  <2>1. OthersKept(c) /\ call'[c] = Done(call[c], i)
    BY <1>2, ReplaceFacts DEF PassOver, IInv
  <2>. QED BY <1>1, <1>2, <2>1, DoneFacts, Quiet DEF PassOver
<1>3. CASE DecideRetry(c, i)
  <2>1. OthersKept(c) /\ call'[c] = At(call[c], "reopening", i)
    BY <1>3, ReplaceFacts DEF DecideRetry, IInv
  <2>. QED BY <1>1, <1>3, <2>1, AtFacts, Quiet DEF DecideRetry
<1>4. CASE Reread(c)
  <2>1. call[c].at \in Items
    BY <1>4 DEF Reread, IInv, BatchTypeOK, OnItem
  <2>. DEFINE q == At(call[c], "next", NoItem)
              r == Noted(q, call[c].at, Seen(call[c].at))
  <2>2. BatchTypeOK
    BY DEF IInv
  <2>3. Seen(call[c].at) \in Read
    BY <2>1, <2>2, SeenType
  <2>4. r.pc = "next"
    <3>1. q \in Call /\ q.pc = "next"
      BY <1>1, AtFacts
    <3>. HIDE DEF q
    <3>. QED BY <2>1, <2>3, <3>1, NotedFacts
  <2>5. call' = [call EXCEPT ![c] = r] /\ UNCHANGED <<batch, item, task>>
    BY <1>4 DEF Reread
  <2>. HIDE DEF r
  <2>6. OthersKept(c) /\ call'[c] = r
    BY <2>2, <2>5, ReplaceFacts
  <2>. QED BY <2>4, <2>5, <2>6, Quiet
<1>5. CASE ReturnTask(c)
  BY <1>5, EndKeeps DEF ReturnTask
<1>. QED BY <1>2, <1>3, <1>4, <1>5

LEMMA BeginKeeps ==
  ASSUME IInv, BatchTypeOK', NEW c \in Calls, NEW kind \in Operations,
         NEW selected \in SUBSET Items, Begin(c, kind, selected)
  PROVE  IInv'
<1>. DEFINE seen == [i \in Items |-> IF i \in selected THEN Seen(i) ELSE NoItem]
            r == [call[c] EXCEPT !.pc = "next", !.kind = kind, !.seen = seen]
<1>1. seen \in [Items -> Read \cup {NoItem}]
  BY SeenType DEF IInv
<1>2. call' = [call EXCEPT ![c] = r] /\ UNCHANGED <<batch, item, task>>
  BY DEF Begin
<1>3. call[c] \in Call
  BY DEF IInv, BatchTypeOK
<1>. HIDE DEF seen
<1>4. r.pc = "next"
  BY <1>1, <1>3, BegunFacts
<1>. HIDE DEF r
<1>5. OthersKept(c) /\ call'[c] = r
  BY <1>2, ReplaceFacts DEF IInv
<1>. QED BY <1>2, <1>4, <1>5, Quiet

LEMMA ApproveTaskKeeps ==
  ASSUME IInv, BatchTypeOK', NEW c \in Calls, NEW i \in Items, ApproveTask(c, i)
  PROVE  IInv'
<1>. DEFINE r == [At(call[c], "claimed", i) EXCEPT !.kind = "task"]
<1>1. call[c] \in Call
  BY DEF IInv, BatchTypeOK
<1>2. r.pc = "claimed" /\ r.kind = "task"
  BY <1>1, ApprovingFacts
<1>3. call' = [call EXCEPT ![c] = r] /\ UNCHANGED <<batch, item, task>>
  BY DEF ApproveTask
<1>. HIDE DEF r
<1>4. OthersKept(c) /\ call'[c].pc = "claimed" /\ call'[c].kind = "task"
  BY <1>2, <1>3, ReplaceFacts DEF IInv
<1>5. OneMoves(c, i)
  BY <1>3, <1>4 DEF OneMoves, Holds, Claimed, Resuming
<1>. QED BY <1>3, <1>5, CallMoves

(* A call that had claimed its item goes on with it.                       *)
LEMMA StillClaimed ==
  ASSUME IInv, NEW c \in Calls, Claimed(c)
  PROVE  \A d \in Calls \ {c} : Claimed(d) => call[d].at # call[c].at
BY DEF IInv, ClaimsDistinct

LEMMA RaiseKeeps ==
  ASSUME IInv, BatchTypeOK', NEW c \in Calls, Raise(c), UNCHANGED <<batch, item, task>>,
         call[c].pc \in {"claimed", "loaded", "answered"}
  PROVE  IInv'
<1>1. PICK i \in Items : TRUE
  BY BatchAssumption
<1>2. /\ OthersKept(c)
      /\ \/ call'[c].pc = "idle"
         \/ /\ call'[c].pc = "failing" /\ call'[c].at = call[c].at
            /\ call'[c].kind = call[c].kind /\ call[c].kind # "task"
  BY RaiseFacts DEF IInv
<1>3. CASE call'[c].pc = "idle"
  BY <1>2, <1>3, Quiet
<1>4. CASE call'[c].pc = "failing"
  <2>1. Claimed(c) /\ call'[c].at = call[c].at
    BY <1>2, <1>4 DEF Claimed
  <2>2. item[call[c].at].status = "running"
    BY <2>1 DEF IInv, KnowledgeHolds, Holds
  <2>3. OneMoves(c, i)
    BY <1>2, <1>4, <2>1, <2>2, StillClaimed DEF OneMoves, Holds, Claimed, Resuming
  <2>. QED BY <2>3, CallMoves
<1>. QED BY <1>2, <1>3, <1>4

LEMMA LoadTaskKeeps ==
  ASSUME IInv, BatchTypeOK', NEW c \in Calls, LoadTask(c)
  PROVE  IInv'
<1>. DEFINE i == call[c].at
<1>1. i \in Items /\ call[c].pc = "claimed" /\ Resumable(i)
  BY DEF LoadTask, IInv, BatchTypeOK, OnItem
<1>2. /\ OthersKept(c)
      /\ call'[c].pc = "loaded" /\ call'[c].at = i /\ call'[c].kind = call[c].kind
      /\ UNCHANGED <<batch, item, task>>
  BY GotoFacts DEF LoadTask, IInv
<1>3. Claimed(c)' <=> Claimed(c)
  BY <1>1, <1>2 DEF Claimed
<1>4. Holds(c)'
  <2>1. Holds(c) /\ UNCHANGED <<item, task>>
    BY <1>2 DEF IInv, KnowledgeHolds
  <2>. QED BY <1>1, <1>2, <1>3, <2>1 DEF Holds, Resumable
<1>5. \A d \in Calls \ {c} : ~Resuming(d, i)
  BY DEF LoadTask
<1>6. \A j \in Items : Resuming(c, j)' => j = i
  BY <1>2 DEF Resuming
<1>7. OneMoves(c, i)
  BY <1>2, <1>3, <1>4, <1>5, <1>6, StillClaimed DEF OneMoves
<1>. QED BY <1>1, <1>2, <1>7, CallMoves

LEMMA CountItemsKeeps ==
  ASSUME IInv, BatchTypeOK', NEW c \in Calls, CountItems(c)
  PROVE  IInv'
<1>1. PICK i \in Items : TRUE
  BY BatchAssumption
<1>. DEFINE r == [call[c] EXCEPT !.pc = "counted", !.total = Aggregate]
<1>2. r.pc = "counted" /\ r.total = Aggregate
  BY AggregateType, CountedFacts DEF IInv, BatchTypeOK
<1>3. call' = [call EXCEPT ![c] = r] /\ UNCHANGED <<batch, item, task>>
  BY DEF CountItems
<1>. HIDE DEF r
<1>4. OthersKept(c) /\ call'[c].pc = "counted" /\ call'[c].total = Aggregate
  BY <1>2, <1>3, ReplaceFacts DEF IInv
<1>5. Aggregate = "completed" => \A j \in Items : item[j].status = "completed"
  BY DEF Aggregate, ItemsWith
<1>6. Holds(c)' /\ ~Claimed(c)' /\ \A j \in Items : ~Resuming(c, j)'
  BY <1>4 DEF Holds, Claimed, Resuming
<1>7. OneMoves(c, i)
  BY <1>3, <1>4, <1>5, <1>6 DEF OneMoves
<1>. QED BY <1>3, <1>7, CallMoves

-----------------------------------------------------------------------------
(* Steps that change the task.                                             *)

(* Only an unsettled task changes, and only to one of these outcomes.      *)
LEMMA TaskMoves ==
  ASSUME IInv, BatchTypeOK', NEW c \in Calls, NEW i \in Items, OneMoves(c, i),
         UNCHANGED <<batch, item>>,
         task[i].status # "completed",
         task'[i].unknown => task'[i].status = "stopped"
  PROVE  IInv'
<1>1. KnowledgeHolds' /\ ClaimsDistinct' /\ OneResumes' /\ CountsHold'
  BY Framed
<1>2. UnknownStopped'
  BY DEF IInv, UnknownStopped, OneMoves
<1>3. AttemptsAccounted'
  BY AttemptsKept DEF IInv
<1>4. CompletedWasVerified' /\ NoFalseSuccess'
  BY DEF IInv, CompletedWasVerified, NoFalseSuccess, OneMoves
<1>. QED BY <1>1, <1>2, <1>3, <1>4 DEF IInv

(* Who resumes a task knows that it is not settled.                        *)
LEMMA Unsettled ==
  ASSUME IInv, NEW c \in Calls, NEW i \in Items, Resuming(c, i)
  PROVE  /\ task[i].status # "completed" /\ ~task[i].unknown
         /\ call[c].pc = "loaded" => task[i].status = "stopped"
         /\ call[c].at = i /\ \A d \in Calls \ {c} : ~Resuming(d, i)
<1>1. Holds(c) /\ call[c].at = i
  BY DEF IInv, KnowledgeHolds, Resuming
<1>2. task[i].unknown => task[i].status = "stopped"
  BY DEF IInv, UnknownStopped
<1>3. CASE call[c].pc = "loaded"
  BY <1>1, <1>2, <1>3 DEF Holds, Resumable, IInv, OneResumes
<1>4. CASE call[c].pc = "executing"
  BY <1>1, <1>4 DEF Holds, IInv, OneResumes
<1>. QED BY <1>3, <1>4 DEF Resuming

LEMMA RunTaskKeeps ==
  ASSUME IInv, BatchTypeOK', NEW c \in Calls, RunTask(c)
  PROVE  IInv'
<1>. DEFINE i == call[c].at
<1>1. i \in Items /\ call[c].pc = "loaded"
  BY DEF RunTask, IInv, BatchTypeOK, OnItem
<1>2. /\ OthersKept(c)
      /\ call'[c].pc = "executing" /\ call'[c].at = i /\ call'[c].kind = call[c].kind
      /\ UNCHANGED <<batch, item>>
  BY GotoFacts DEF RunTask, IInv
<1>3. Resuming(c, i) /\ (Claimed(c)' <=> Claimed(c))
  BY <1>1, <1>2 DEF Claimed, Resuming
<1>4. task'[i].status = "running" /\ task'[i].unknown = task[i].unknown
  BY <1>1 DEF RunTask, IInv, BatchTypeOK, Task
<1>5. \A j \in Items \ {i} : task'[j] = task[j]
  BY <1>1 DEF RunTask, IInv, BatchTypeOK
<1>6. ~task[i].unknown /\ task[i].status # "completed" /\ \A d \in Calls \ {c} : ~Resuming(d, i)
  BY <1>1, <1>3, Unsettled
<1>7. Holds(c)'
  <2>1. Holds(c)
    BY DEF IInv, KnowledgeHolds
  <2>. QED BY <1>2, <1>3, <1>4, <1>6, <2>1 DEF Holds
<1>8. \A j \in Items : Resuming(c, j)' => j = i
  BY <1>2 DEF Resuming
<1>9. OneMoves(c, i)
  BY <1>2, <1>3, <1>5, <1>6, <1>7, <1>8, StillClaimed DEF OneMoves
<1>. QED BY <1>1, <1>2, <1>4, <1>6, <1>9, TaskMoves

LEMMA VerifyTaskKeeps ==
  ASSUME IInv, BatchTypeOK', NEW c \in Calls, VerifyTask(c)
  PROVE  IInv'
<1>. DEFINE i == call[c].at
<1>1. i \in Items /\ call[c].pc = "executing"
  BY DEF VerifyTask, IInv, BatchTypeOK, OnItem
<1>2. /\ OthersKept(c)
      /\ call'[c].pc = "answered" /\ call'[c].at = i /\ call'[c].kind = call[c].kind
      /\ UNCHANGED <<batch, item>>
  BY GotoFacts DEF VerifyTask, IInv
<1>3. Resuming(c, i) /\ (Claimed(c)' <=> Claimed(c)) /\ \A j \in Items : ~Resuming(c, j)'
  BY <1>1, <1>2 DEF Claimed, Resuming
<1>4. task'[i].status = "completed" /\ task'[i].unknown = task[i].unknown
  BY <1>1 DEF VerifyTask, IInv, BatchTypeOK, Task
<1>5. \A j \in Items \ {i} : task'[j] = task[j]
  BY <1>1 DEF VerifyTask, IInv, BatchTypeOK
<1>6. ~task[i].unknown /\ task[i].status # "completed"
  BY <1>1, <1>3, Unsettled
<1>7. Holds(c)'
  <2>1. Holds(c)
    BY DEF IInv, KnowledgeHolds
  <2>. QED BY <1>2, <1>3, <1>4, <2>1 DEF Holds
<1>8. OneMoves(c, i)
  BY <1>2, <1>3, <1>5, <1>6, <1>7, StillClaimed DEF OneMoves
<1>. QED BY <1>1, <1>2, <1>4, <1>6, <1>8, TaskMoves

LEMMA FailTaskKeeps ==
  ASSUME IInv, BatchTypeOK', NEW c \in Calls, NEW unknown \in BOOLEAN, FailTask(c, unknown)
  PROVE  IInv'
<1>. DEFINE i == call[c].at
<1>1. i \in Items /\ call[c].pc = "executing" /\ UNCHANGED <<batch, item>>
  BY DEF FailTask, IInv, BatchTypeOK, OnItem
<1>2. /\ OthersKept(c)
      /\ \/ call'[c].pc = "idle"
         \/ /\ call'[c].pc = "failing" /\ call'[c].at = i
            /\ call'[c].kind = call[c].kind /\ call[c].kind # "task"
  BY RaiseFacts DEF FailTask, IInv
<1>3. Resuming(c, i) /\ \A j \in Items : ~Resuming(c, j)'
  BY <1>1, <1>2 DEF Resuming
<1>4. task'[i].status = "stopped" /\ \A j \in Items \ {i} : task'[j] = task[j]
  BY <1>1 DEF FailTask, IInv, BatchTypeOK
<1>5. task[i].status # "completed"
  BY <1>1, <1>3, Unsettled
<1>6. Claimed(c)' => Claimed(c) /\ call'[c].at = i
  BY <1>1, <1>2 DEF Claimed
<1>7. Holds(c)'
  <2>1. Claimed(c) => item[i].status = "running"
    BY DEF IInv, KnowledgeHolds, Holds
  <2>. QED BY <1>1, <1>2, <1>6, <2>1 DEF Holds
<1>8. OneMoves(c, i)
  BY <1>1, <1>2, <1>3, <1>4, <1>5, <1>6, <1>7, StillClaimed DEF OneMoves
<1>. QED BY <1>1, <1>4, <1>5, <1>8, TaskMoves

-----------------------------------------------------------------------------
(* Steps that change the item.                                             *)

LEMMA ItemMoves ==
  ASSUME IInv, BatchTypeOK', NEW c \in Calls, NEW i \in Items, OneMoves(c, i),
         task' = task,
         Accounted(item[i]) => Accounted(item'[i]),
         item'[i].status = "completed" => task[i].status = "completed",
         batch' # "completed"
  PROVE  IInv'
<1>1. KnowledgeHolds' /\ ClaimsDistinct' /\ OneResumes' /\ CountsHold'
  BY Framed
<1>2. UnknownStopped'
  BY DEF IInv, UnknownStopped
<1>3. AttemptsAccounted'
  BY DEF IInv, AttemptsAccounted, OneMoves
<1>4. CompletedWasVerified' /\ NoFalseSuccess'
  BY DEF IInv, CompletedWasVerified, NoFalseSuccess, OneMoves
<1>. QED BY <1>1, <1>2, <1>3, <1>4 DEF IInv

(* An item that is not running is claimed by nobody.                       *)
LEMMA Unclaimed ==
  ASSUME IInv, NEW i \in Items, item[i].status # "running"
  PROVE  \A d \in Calls : Claimed(d) => call[d].at # i
BY DEF IInv, KnowledgeHolds, Holds

LEMMA PrepareRetryKeeps ==
  ASSUME IInv, BatchTypeOK', NEW c \in Calls, PrepareRetry(c)
  PROVE  IInv'
<1>. DEFINE i == call[c].at
<1>1. i \in Items
  BY DEF PrepareRetry, IInv, BatchTypeOK, OnItem
<1>2. CASE ~Reopenable(i)
  <2>1. End(c) /\ UNCHANGED <<batch, item, task>>
    BY <1>2 DEF PrepareRetry
  <2>. QED BY <2>1, EndKeeps
<1>3. CASE Reopenable(i)
  <2>1. /\ item' = [item EXCEPT ![i].status = "awaiting_approval"]
        /\ batch' = "running" /\ task' = task
        /\ Goto(c, "rereading")
    BY <1>3 DEF PrepareRetry
  <2>2. /\ item[i].status = "needs_attention" /\ item[i].attempts < MaxAttempts
        /\ item[i] \in Item
    BY <1>1, <1>3 DEF Reopenable, IInv, BatchTypeOK
  <2>3. OthersKept(c) /\ call'[c].pc = "rereading"
    BY <2>1, GotoFacts DEF IInv
  <2>4. /\ item'[i] = [item[i] EXCEPT !.status = "awaiting_approval"]
        /\ \A j \in Items \ {i} : item'[j] = item[j]
    BY <1>1, <2>1 DEF IInv, BatchTypeOK
  <2>5. /\ item'[i].status = "awaiting_approval" /\ item'[i].attempts = item[i].attempts
        /\ item'[i].history = item[i].history
    BY <2>2, <2>4 DEF Item
  <2>6. Accounted(item[i]) => Accounted(item'[i])
    BY <2>2, <2>5 DEF Accounted
  <2>7. Holds(c)' /\ ~Claimed(c)' /\ \A j \in Items : ~Resuming(c, j)'
    BY <2>3 DEF Holds, Claimed, Resuming
  <2>8. OneMoves(c, i)
    BY <1>1, <2>1, <2>2, <2>3, <2>4, <2>7, Unclaimed DEF OneMoves
  <2>. QED BY <1>1, <2>1, <2>5, <2>6, <2>8, ItemMoves
<1>. QED BY <1>2, <1>3

LEMMA ClaimExecutionKeeps ==
  ASSUME IInv, BatchTypeOK', NEW c \in Calls, NEW i \in Items, ClaimExecution(c, i)
  PROVE  IInv'
<1>1. CASE ~Claimable(i)
  <2>1. End(c) /\ UNCHANGED <<batch, item, task>>
    BY <1>1 DEF ClaimExecution
  <2>. QED BY <2>1, EndKeeps
<1>2. CASE Claimable(i)
  <2>1. /\ item' = [item EXCEPT ![i].status = "running", ![i].attempts = @ + 1]
        /\ batch' = "running" /\ task' = task
        /\ call' = [call EXCEPT ![c] = At(@, "claimed", i)]
    BY <1>2 DEF ClaimExecution
  <2>2. /\ item[i].status = "awaiting_approval" /\ item[i].attempts < MaxAttempts
        /\ item[i] \in Item /\ call[c] \in Call /\ "claimed" \in PC
    BY <1>2 DEF Claimable, IInv, BatchTypeOK, PC
  <2>3. OthersKept(c) /\ call'[c].pc = "claimed" /\ call'[c].at = i
    <3>. DEFINE r == At(call[c], "claimed", i)
    <3>1. r.pc = "claimed" /\ r.at = i
      BY <2>2, AtFacts
    <3>2. call' = [call EXCEPT ![c] = r]
      BY <2>1
    <3>. HIDE DEF r
    <3>. QED BY <3>1, <3>2, ReplaceFacts DEF IInv
  <2>4. /\ item'[i] = [item[i] EXCEPT !.status = "running", !.attempts = @ + 1]
        /\ \A j \in Items \ {i} : item'[j] = item[j]
    BY <2>1 DEF IInv, BatchTypeOK
  <2>5. /\ item'[i].status = "running" /\ item'[i].attempts = item[i].attempts + 1
        /\ item'[i].history = item[i].history
    BY <2>2, <2>4 DEF Item
  <2>6. Accounted(item[i]) => Accounted(item'[i])
    BY <2>2, <2>5, BatchAssumption DEF Accounted, Item
  <2>7. Holds(c)' /\ \A j \in Items : ~Resuming(c, j)'
    BY <2>3, <2>5 DEF Holds, Claimed, Resuming
  <2>8. OneMoves(c, i)
    BY <2>1, <2>2, <2>3, <2>4, <2>7, Unclaimed DEF OneMoves
  <2>. QED BY <2>1, <2>5, <2>6, <2>8, ItemMoves
<1>. QED BY <1>1, <1>2

(* The history grows by the attempt that was running.                      *)
LEMMA LoggedAccounted ==
  ASSUME NEW r \in Item, Accounted(r), r.status = "running",
         NEW s \in {"completed", "needs_attention"}
  PROVE  Accounted(Logged(r, s))
<1>. DEFINE h == r.history
            e == [attempt |-> r.attempts, status |-> s]
            g == Append(h, e)
<1>1. h \in Seq(Entry) /\ e \in Entry /\ r.attempts \in Nat
  BY DEF Item, Entry
<1>2. r.attempts <= MaxAttempts /\ Len(h) + 1 = r.attempts
  BY DEF Accounted
<1>3. \A n \in 1 .. Len(h) : h[n].attempt = n /\ h[n].status # "completed"
  BY DEF Accounted
<1>4. Len(g) = Len(h) + 1 /\ g[Len(h) + 1] = e /\ \A n \in 1 .. Len(h) : g[n] = h[n]
  BY <1>1
<1>5. /\ Logged(r, s).status = s /\ Logged(r, s).attempts = r.attempts
      /\ Logged(r, s).history = g
  BY LoggedType
<1>6. ASSUME NEW n \in 1 .. Len(g)
      PROVE  g[n].attempt = n /\ (g[n].status = "completed" <=> n = Len(g) /\ s = "completed")
  <2>1. CASE n = Len(g)
    BY <1>1, <1>2, <1>4, <2>1
  <2>2. CASE n # Len(g)
    <3>1. n \in 1 .. Len(h)
      BY <1>1, <1>4, <2>2
    <3>. QED BY <1>3, <1>4, <2>2, <3>1
  <2>. QED BY <2>1, <2>2
<1>. HIDE DEF g, h
<1>. QED BY <1>2, <1>4, <1>5, <1>6 DEF Accounted

LEMMA RecordExecutionKeeps ==
  ASSUME IInv, BatchTypeOK', NEW c \in Calls, RecordExecution(c)
  PROVE  IInv'
<1>. DEFINE i == call[c].at
            s == IF call[c].pc = "answered" THEN "completed" ELSE "needs_attention"
<1>1. /\ i \in Items /\ Claimed(c) /\ task' = task /\ batch' = batch
      /\ call[c] \in Call /\ item[i] \in Item
  BY DEF RecordExecution, IInv, BatchTypeOK, OnItem, Claimed
<1>2. item[i].status = "running" /\ (s = "completed" => task[i].status = "completed")
  BY <1>1 DEF IInv, KnowledgeHolds, Holds
<1>3. item'[i] = Logged(item[i], s) /\ \A j \in Items \ {i} : item'[j] = item[j]
  BY <1>1 DEF RecordExecution, IInv, BatchTypeOK
<1>4. s \in {"completed", "needs_attention"}
  OBVIOUS
<1>. HIDE DEF s
<1>5. item'[i].status = s
  <2>. DEFINE old == item[i]
  <2>1. old \in Item
    BY <1>1
  <2>. HIDE DEF old
  <2>2. Logged(old, s).status = s
    BY <1>4, <2>1, LoggedType
  <2>. QED BY <1>3, <2>2 DEF old
<1>6. OthersKept(c) /\ call'[c].pc \in {"next", "idle"}
  <2>1. CASE call' = [call EXCEPT ![c] = Done(@, i)]
    <3>. DEFINE r == Done(call[c], i)
    <3>1. r.pc = "next"
      BY <1>1, DoneFacts
    <3>2. call' = [call EXCEPT ![c] = r]
      BY <2>1
    <3>. HIDE DEF r
    <3>. QED BY <3>1, <3>2, ReplaceFacts DEF IInv
  <2>2. CASE End(c)
    BY <2>2, EndFacts DEF IInv
  <2>. QED BY <2>1, <2>2 DEF RecordExecution
<1>7. Accounted(item[i]) => Accounted(item'[i])
  BY <1>1, <1>2, <1>3, <1>4, LoggedAccounted
<1>8. Holds(c)' /\ ~Claimed(c)' /\ \A j \in Items : ~Resuming(c, j)'
  BY <1>6 DEF Holds, Claimed, Resuming
<1>9. OneMoves(c, i)
  BY <1>1, <1>2, <1>3, <1>6, <1>8, StillClaimed DEF OneMoves
<1>10. batch' # "completed"
  BY <1>1, <1>2 DEF IInv, NoFalseSuccess
<1>. QED BY <1>1, <1>2, <1>5, <1>7, <1>9, <1>10, ItemMoves

LEMMA FinalizeExecutionKeeps ==
  ASSUME IInv, BatchTypeOK', NEW c \in Calls, FinalizeExecution(c)
  PROVE  IInv'
<1>1. PICK i \in Items : TRUE
  BY BatchAssumption
<1>2. /\ OthersKept(c) /\ call'[c].pc = "idle" /\ UNCHANGED <<item, task>>
      /\ call[c].pc = "counted" /\ batch' = call[c].total
  BY EndFacts DEF FinalizeExecution, IInv
<1>3. Holds(c)' /\ ~Claimed(c)' /\ \A j \in Items : ~Resuming(c, j)'
  BY <1>2 DEF Holds, Claimed, Resuming
<1>4. OneMoves(c, i)
  BY <1>2, <1>3 DEF OneMoves
<1>5. KnowledgeHolds' /\ ClaimsDistinct' /\ OneResumes' /\ CountsHold'
  BY <1>4, Framed
<1>6. UnknownStopped'
  BY <1>2 DEF IInv, UnknownStopped
<1>7. AttemptsAccounted'
  BY <1>2, AttemptsKept DEF IInv
<1>8. CompletedWasVerified' /\ NoFalseSuccess'
  BY <1>2 DEF IInv, CompletedWasVerified, CountsHold, NoFalseSuccess
<1>. QED BY <1>5, <1>6, <1>7, <1>8 DEF IInv

LEMMA BatchCrashKeeps == ASSUME IInv, BatchTypeOK', BatchCrash PROVE IInv'
<1>1. \A c \in Calls : call'[c].pc = "idle"
  BY DEF BatchCrash, Ended
<1>2. KnowledgeHolds' /\ ClaimsDistinct' /\ OneResumes' /\ CountsHold'
  BY <1>1 DEF KnowledgeHolds, Holds, ClaimsDistinct, OneResumes, CountsHold, Claimed, Resuming
<1>. QED BY <1>2, RowsKept DEF BatchCrash, IInv

-----------------------------------------------------------------------------
(* The theorems.                                                           *)

LEMMA InitInvariant == BatchInit => IInv
<1>. SUFFICES ASSUME BatchInit PROVE IInv
  OBVIOUS
<1>1. BatchTypeOK
  BY InitType
<1>2. \A c \in Calls : call[c].pc = "idle"
  BY DEF BatchInit, Ended
<1>3. KnowledgeHolds /\ ClaimsDistinct /\ OneResumes /\ CountsHold
  BY <1>2 DEF KnowledgeHolds, Holds, ClaimsDistinct, OneResumes, CountsHold, Claimed, Resuming
<1>4. UnknownStopped /\ CompletedWasVerified
  BY DEF BatchInit, UnknownStopped, CompletedWasVerified
<1>5. AttemptsAccounted
  <2>. SUFFICES ASSUME NEW i \in Items PROVE Accounted(item[i])
    BY DEF AttemptsAccounted
  <2>. DEFINE h == item[i].history
  <2>1. item[i].attempts = 0 /\ item[i].status # "running"
    BY DEF BatchInit
  <2>2. h = << >>
    BY DEF BatchInit
  <2>3. Len(h) = 0 /\ 1 .. Len(h) = {}
    BY <2>2
  <2>. QED BY <2>1, <2>3, BatchAssumption DEF Accounted
<1>6. NoFalseSuccess
  BY DEF BatchInit, NoFalseSuccess
<1>. QED BY <1>1, <1>3, <1>4, <1>5, <1>6 DEF IInv

LEMMA InvariantStep == IInv /\ [BatchNext]_batchVars => IInv'
<1>. SUFFICES ASSUME IInv, [BatchNext]_batchVars PROVE IInv'
  OBVIOUS
<1>1. BatchTypeOK'
  BY TypeStep DEF IInv
<1>2. ASSUME NEW c \in Calls, NEW kind \in Operations, NEW selected \in SUBSET Items,
             Begin(c, kind, selected)
      PROVE  IInv'
  BY <1>1, <1>2, BeginKeeps
<1>3. ASSUME NEW c \in Calls, NEW i \in Items,
             \/ PassOver(c, i) \/ DecideRetry(c, i) \/ ClaimExecution(c, i)
             \/ ApproveTask(c, i)
      PROVE  IInv'
  BY <1>1, <1>3, QuietSteps, ClaimExecutionKeeps, ApproveTaskKeeps
<1>4. ASSUME NEW c \in Calls,
             \/ LoadTask(c) \/ RefuseTask(c) \/ RunTask(c) \/ VerifyTask(c) \/ LoseAnswer(c)
             \/ \E unknown \in BOOLEAN : FailTask(c, unknown)
      PROVE  IInv'
  <2>1. CASE RefuseTask(c)
    BY <1>1, <2>1, RaiseKeeps DEF RefuseTask
  <2>2. CASE LoseAnswer(c)
    BY <1>1, <2>2, RaiseKeeps DEF LoseAnswer
  <2>. QED BY <1>1, <1>4, <2>1, <2>2, LoadTaskKeeps, RunTaskKeeps, VerifyTaskKeeps, FailTaskKeeps
<1>5. ASSUME NEW c \in Calls,
             \/ PrepareRetry(c) \/ Reread(c) \/ RecordExecution(c) \/ ReturnTask(c)
             \/ CountItems(c) \/ FinalizeExecution(c)
      PROVE  IInv'
  <2>1. PICK i \in Items : TRUE
    BY BatchAssumption
  <2>. QED BY <1>1, <1>5, <2>1, PrepareRetryKeeps, QuietSteps, RecordExecutionKeeps,
              CountItemsKeeps, FinalizeExecutionKeeps
<1>6. CASE UNCHANGED batchVars
  <2>1. UNCHANGED <<batch, item, task>> /\ call' = call
    BY <1>6 DEF batchVars
  <2>2. KnowledgeHolds' /\ ClaimsDistinct' /\ OneResumes' /\ CountsHold'
    BY <2>1 DEF IInv, KnowledgeHolds, Holds, Resumable, ClaimsDistinct, OneResumes, CountsHold,
                Claimed, Resuming
  <2>. QED BY <1>1, <2>1, <2>2, RowsKept DEF IInv
<1>. QED BY <1>1, <1>2, <1>3, <1>4, <1>5, <1>6, BatchCrashKeeps DEF BatchNext, ExecuteStep

THEOREM Invariant == BatchSpec => []IInv
<1>. QED BY InitInvariant, InvariantStep, PTL DEF BatchSpec

(* claim_batch_item_execution gives an item to one call at a time, and     *)
(* keeps it for that call until record_batch_item_execution.               *)
THEOREM OneExecutor == BatchSpec => []OneExecutorPerItem
<1>1. IInv => OneExecutorPerItem
  BY DEF IInv, KnowledgeHolds, Holds, ClaimsDistinct, OneExecutorPerItem
<1>. QED BY <1>1, Invariant, PTL

(* execution_attempts and execution_history agree, and neither goes past   *)
(* the limit, for any limit.                                               *)
THEOREM AttemptsAreAccounted == BatchSpec => []AttemptsAccounted
<1>1. IInv => AttemptsAccounted
  BY DEF IInv
<1>. QED BY <1>1, Invariant, PTL

(* An item recorded as completed has a task whose write was verified.      *)
THEOREM CompletionsAreVerified == BatchSpec => []CompletedWasVerified
<1>1. IInv => CompletedWasVerified
  BY DEF IInv
<1>. QED BY <1>1, Invariant, PTL

(* finalize_batch_execution never calls a batch completed that is not.     *)
THEOREM NoFalseCompletion == BatchSpec => []NoFalseSuccess
<1>1. IInv => NoFalseSuccess
  BY DEF IInv
<1>. QED BY <1>1, Invariant, PTL

(* Of the steps, only the resume of a task that the resuming call has to   *)
(* itself changes the task, and it is not settled then.                    *)
LEMMA SettledStep ==
  ASSUME IInv, [BatchNext]_batchVars, NEW i \in Items, task'[i] # task[i]
  PROVE  /\ task[i].status # "completed" /\ ~task[i].unknown
         /\ task'[i].status = "running" => task[i].status = "stopped"
         /\ \E c \in Calls : Resuming(c, i)
<1>1. PICK c \in Calls :
        RunTask(c) \/ VerifyTask(c) \/ \E unknown \in BOOLEAN : FailTask(c, unknown)
  BY DEF BatchNext, ExecuteStep, BatchCrash, batchVars, Begin, ApproveTask, PassOver,
         DecideRetry, ClaimExecution, PrepareRetry, Reread, LoadTask, RefuseTask, LoseAnswer,
         RecordExecution, ReturnTask, CountItems, FinalizeExecution
<1>2. call[c].pc \in {"loaded", "executing"} /\ call[c].at \in Items
  BY <1>1 DEF RunTask, VerifyTask, FailTask, IInv, BatchTypeOK, OnItem
<1>3. call[c].at = i
  BY <1>1, <1>2 DEF RunTask, VerifyTask, FailTask, IInv, BatchTypeOK
<1>4. Resuming(c, i)
  BY <1>2, <1>3 DEF Resuming
<1>5. task'[i].status = "running" => call[c].pc = "loaded"
  BY <1>1, <1>2, <1>3 DEF RunTask, VerifyTask, FailTask, IInv, BatchTypeOK, Task
<1>. QED BY <1>4, <1>5, Unsettled

(* No approval, of the batch or past it, runs a settled task again.        *)
THEOREM SettledTasksStaySettled == BatchSpec => SettledIsNotRunAgain
<1>1. IInv /\ [BatchNext]_batchVars =>
        [\A i \in Items :
           task'[i] # task[i] =>
             /\ task[i].status # "completed" /\ ~task[i].unknown
             /\ task'[i].status = "running" => task[i].status = "stopped"
             /\ \E c \in Calls : Resuming(c, i)]_batchVars
  BY SettledStep
<1>. QED BY <1>1, Invariant, PTL DEF BatchSpec, SettledIsNotRunAgain

-----------------------------------------------------------------------------
(***************************************************************************)
(* The tasks of a conversation.                                            *)
(***************************************************************************)
HandPC == Idle \cup {"route", "suspend", "create", "bind", "invoke", "consume",
                 "resume", "price", "settle", "finish"}

Handled ==
  [pc : HandPC, seen : 0..MaxMessages, target : 0..MaxMessages,
   pending : [of : 0..MaxMessages, row : Question],
   thread : 0..MaxMessages, out : Asked \cup Outcomes \cup {"none"}]

LEMMA MessageFacts ==
  /\ MaxMessages \in Nat
  /\ \A t \in Messages : t \in 0..MaxMessages /\ t # 0
  /\ \A t \in 0..MaxMessages : t # 0 => t \in Messages
  BY TaskAssumption DEF Messages

LEMMA NotBegunType == NoQuestion \in Question /\ NotBegun \in Handled
  BY MessageFacts DEF NoQuestion, Question, NoPending, NotBegun, Handled, HandPC, Idle

LEMMA PendingType ==
  ASSUME TaskTypeOK PROVE Pending \in [of : 0..MaxMessages, row : Question]
  <1>1. NoQuestion \in Question /\ 0 \in 0..MaxMessages
    BY NotBegunType, MessageFacts
  <1>2. \A q \in 0..MaxMessages : question[q] \in Question
    BY DEF TaskTypeOK
  <1> QED BY <1>1, <1>2 DEF TaskTypeOK, Pending

LEMMA TargetsType ==
  ASSUME TaskTypeOK, NEW t \in Messages, NEW target \in Targets(t, Pending)
  PROVE  target \in 0..MaxMessages
  BY MessageFacts, PendingType DEF TaskTypeOK, Targets, Known, IsOpen

(* A message that goes on keeps the type of what it holds.                 *)
LEMMA GoesType ==
  ASSUME TaskTypeOK, NEW t \in Messages, NEW pc \in HandPC, Goes(t, pc) \/ Ends(t, pc)
  PROVE  hand' \in [Messages -> Handled]
  <1>1. hand \in [Messages -> Handled]
    BY DEF TaskTypeOK, Handled, HandPC
  <1>2. CASE Goes(t, pc)
    BY <1>1, <1>2 DEF Goes, Handled
  <1>3. CASE Ends(t, pc)
    BY <1>1, <1>3, NotBegunType DEF Ends, Handled
  <1> QED BY <1>2, <1>3

LEMMA HandledType ==
  TaskTypeOK <=>
    /\ begun \in 0..MaxMessages /\ active \in 0..MaxMessages
    /\ session \in [Messages -> {"none", "new", "ran"}]
    /\ question \in [0..MaxMessages -> Question]
    /\ point \in [Messages -> {"none", "open", "closed", "priced"}]
    /\ hand \in [Messages -> Handled]
  BY DEF TaskTypeOK, Handled, HandPC

LEMMA TaskInitType == TaskInit => TaskTypeOK
  BY HandledType, NotBegunType, MessageFacts DEF TaskInit

LEMMA ArrivalType ==
  ASSUME TaskTypeOK, NEW t \in Messages, BeginMessage(t) \/ RouteMessage(t)
  PROVE  TaskTypeOK'
  <1>1. CASE BeginMessage(t)
    <2>1. [NotBegun EXCEPT !.pc = "route", !.seen = active] \in Handled
      BY HandledType, NotBegunType DEF Handled, HandPC
    <2> QED BY <1>1, <2>1, HandledType, MessageFacts
            DEF BeginMessage, TaskTypeOK, Handled, HandPC
  <1>2. CASE RouteMessage(t)
    <2>1. question' \in [0..MaxMessages -> Question]
      BY <1>2, PendingType DEF RouteMessage, TaskTypeOK
    <2>2. hand' \in [Messages -> Handled]
      <3>1. PICK target \in Targets(t, Pending) :
               hand' = [hand EXCEPT ![t] =
                 [@ EXCEPT !.target = target, !.pending = Pending,
                           !.pc = IF Interrupts(t, target, Pending) THEN "suspend"
                                  ELSE IF target = t THEN "create" ELSE "bind"]]
        BY <1>2 DEF RouteMessage
      <3>2. hand[t] \in Handled /\ hand \in [Messages -> Handled]
        BY HandledType
      <3> QED BY <3>1, <3>2, TargetsType, PendingType DEF Handled, HandPC
    <2> QED BY <1>2, <2>1, <2>2 DEF RouteMessage, TaskTypeOK, Handled, HandPC
  <1> QED BY <1>1, <1>2

LEMMA BindingType ==
  ASSUME TaskTypeOK, NEW t \in Messages, Suspend(t) \/ CreateSession(t) \/ Bind(t)
  PROVE  TaskTypeOK'
  <1>1. CASE Suspend(t)
    <2>1. hand' \in [Messages -> Handled]
      BY <1>1, GoesType DEF Suspend, HandPC
    <2>2. question' \in [0..MaxMessages -> Question]
      <3> DEFINE of == hand[t].pending.of
      <3>1. of \in 0..MaxMessages
        BY HandledType DEF Handled
      <3>2. question[of] \in Question
        BY <3>1 DEF TaskTypeOK
      <3>3. [question[of] EXCEPT !.status = "suspended"] \in Question
        BY <3>2 DEF Question
      <3> QED BY <1>1, <3>3 DEF Suspend, TaskTypeOK
    <2> QED BY <1>1, <2>1, <2>2 DEF Suspend, TaskTypeOK, Handled, HandPC
  <1>2. CASE CreateSession(t)
    <2>1. NoPending \in [of : 0..MaxMessages, row : Question]
      BY NotBegunType, MessageFacts DEF NoPending
    <2>2. hand' \in [Messages -> Handled]
      <3>1. hand[t] \in Handled /\ hand \in [Messages -> Handled]
        BY HandledType
      <3>2. [hand[t] EXCEPT !.pc = "bind", !.pending = NoPending] \in Handled
        BY <2>1, <3>1 DEF Handled, HandPC
      <3>3. hand' = [hand EXCEPT ![t] = [hand[t] EXCEPT !.pc = "bind", !.pending = NoPending]]
        BY <1>2, <3>1 DEF CreateSession
      <3> QED BY <3>1, <3>2, <3>3
    <2> QED BY <1>2, <2>2 DEF CreateSession, TaskTypeOK, Handled, HandPC
  <1>3. CASE Bind(t)
    <2> DEFINE target == hand[t].target
               pending == IF target \in {0, t} \/ question[target].status = "none"
                          THEN hand[t].pending
                          ELSE [of |-> target, row |-> question[target]]
    <2>1. hand[t] \in Handled /\ target \in 0..MaxMessages
      BY HandledType DEF Handled
    <2>2. question[target] \in Question
      BY <2>1 DEF TaskTypeOK
    <2>3. pending \in [of : 0..MaxMessages, row : Question]
      BY <2>1, <2>2 DEF Handled
    <2>4. pending.row.thread \in 0..MaxMessages
      BY <2>3 DEF Question
    <2> HIDE DEF pending
    <2>5. hand' = [hand EXCEPT ![t] =
             [@ EXCEPT !.pending = pending,
                       !.thread = IF IsOpen(pending) /\ pending.row.thread # 0
                                  THEN pending.row.thread ELSE target,
                       !.pc = IF ~IsOpen(pending) THEN "invoke"
                              ELSE IF pending.row.kind = "price" THEN "price"
                              ELSE "consume"]]
      BY <1>3 DEF Bind, pending
    <2>6. hand' \in [Messages -> Handled]
      BY <2>1, <2>3, <2>4, <2>5, HandledType DEF Handled, HandPC
    <2> QED BY <1>3, <2>1, <2>6 DEF Bind, TaskTypeOK, Handled, HandPC
  <1> QED BY <1>1, <1>2, <1>3

LEMMA ReachesType ==
  ASSUME TaskTypeOK, NEW t \in Messages,
         NEW places \in SUBSET {"none", "open", "closed", "priced"}, Reaches(t, places)
  PROVE  point' \in [Messages -> {"none", "open", "closed", "priced"}]
  BY DEF TaskTypeOK, Reaches

LEMMA OutcomesType ==
  ASSUME TaskTypeOK, NEW t \in Messages,
         NEW outcomes \in SUBSET (Asked \cup Outcomes),
         \/ Runs(t, outcomes)
         \/ Replies(t, outcomes)
  PROVE  /\ hand' \in [Messages -> Handled]
         /\ point' \in [Messages -> {"none", "open", "closed", "priced"}]
  <1>1. PICK out \in outcomes : hand' = [hand EXCEPT ![t].out = out, ![t].pc = "settle"]
    BY DEF Runs, Replies
  <1>2. hand' \in [Messages -> Handled]
    <2>1. hand[t] \in Handled /\ hand \in [Messages -> Handled]
      BY HandledType
    <2>2. [hand[t] EXCEPT !.out = out, !.pc = "settle"] \in Handled
      BY <2>1 DEF Handled, HandPC
    <2>3. hand' = [hand EXCEPT ![t] = [hand[t] EXCEPT !.out = out, !.pc = "settle"]]
      BY <1>1, <2>1
    <2> QED BY <2>1, <2>2, <2>3
  <1>3. point' \in [Messages -> {"none", "open", "closed", "priced"}]
    <2>1. CASE Runs(t, outcomes)
      <3>1. PICK o \in outcomes : Reaches(t, {Place(o)})
        BY <2>1 DEF Runs
      <3>2. {Place(o)} \in SUBSET {"none", "open", "closed", "priced"}
        BY DEF Place
      <3> QED BY <3>1, <3>2, ReachesType
    <2>2. CASE Replies(t, outcomes)
      BY <2>2 DEF Replies, TaskTypeOK
    <2> QED BY <2>1, <2>2
  <1> QED BY <1>2, <1>3

LEMMA GraphType ==
  ASSUME TaskTypeOK, NEW t \in Messages,
         Invoke(t) \/ Consume(t) \/ ResumeThread(t) \/ AnswerPrice(t)
  PROVE  TaskTypeOK'
  <1> USE DEF Asked, Outcomes
  <1>1. CASE Invoke(t)
    BY <1>1, OutcomesType, HandledType DEF Invoke, TaskTypeOK, Handled, HandPC
  <1>2. CASE Consume(t)
    <2>1. hand' \in [Messages -> Handled]
      BY <1>2, GoesType DEF Consume, HandPC
    <2> QED BY <1>2, <2>1, NotBegunType DEF Consume, TaskTypeOK, Handled, HandPC
  <1>3. CASE ResumeThread(t)
    BY <1>3, OutcomesType DEF ResumeThread, TaskTypeOK, Handled, HandPC
  <1>4. CASE AnswerPrice(t)
    <2>1. /\ hand' \in [Messages -> Handled]
          /\ point' \in [Messages -> {"none", "open", "closed", "priced"}]
      BY <1>4, OutcomesType DEF AnswerPrice
    <2>2. question' \in [0..MaxMessages -> Question]
      BY <1>4, NotBegunType DEF AnswerPrice, TaskTypeOK
    <2> QED BY <1>4, <2>1, <2>2 DEF AnswerPrice, TaskTypeOK, Handled, HandPC
  <1> QED BY <1>1, <1>2, <1>3, <1>4

LEMMA FinishType ==
  ASSUME TaskTypeOK, NEW t \in Messages,
         SettleQuestion(t) \/ FinishMessage(t) \/ Breaks(t)
  PROVE  TaskTypeOK'
  <1>1. CASE SettleQuestion(t)
    <2>1. hand' \in [Messages -> Handled]
      BY <1>1, GoesType DEF SettleQuestion, HandPC
    <2>2. question' \in [0..MaxMessages -> Question]
      BY <1>1, NotBegunType, MessageFacts DEF SettleQuestion, TaskTypeOK, Question
    <2> QED BY <1>1, <2>1, <2>2 DEF SettleQuestion, TaskTypeOK, Handled, HandPC
  <1>2. CASE FinishMessage(t)
    <2>1. hand' \in [Messages -> Handled]
      BY <1>2, GoesType DEF FinishMessage, HandPC, Idle
    <2>2. session' \in [Messages -> {"none", "new", "ran"}]
      BY <1>2 DEF FinishMessage, Mirrored, TaskTypeOK
    <2> QED BY <1>2, <2>1, <2>2 DEF FinishMessage, TaskTypeOK, Handled, HandPC
  <1>3. CASE Breaks(t)
    <2>1. hand' \in [Messages -> Handled]
      BY <1>3, GoesType DEF Breaks, HandPC, Idle
    <2>2. point' \in [Messages -> {"none", "open", "closed", "priced"}]
      BY <1>3, ReachesType DEF Breaks, TaskTypeOK
    <2> QED BY <1>3, <2>1, <2>2 DEF Breaks, TaskTypeOK, Handled, HandPC
  <1> QED BY <1>1, <1>2, <1>3

LEMMA TaskTypeStep == TaskTypeOK /\ [TaskNext]_taskVars => TaskTypeOK'
  <1> SUFFICES ASSUME TaskTypeOK, [TaskNext]_taskVars PROVE TaskTypeOK'
    OBVIOUS
  <1>1. CASE UNCHANGED taskVars
    BY <1>1 DEF taskVars, TaskTypeOK, Messages, Question, Asked, Outcomes, Idle
  <1>2. CASE TaskNext
    <2>1. PICK t \in Messages : MessageStep(t)
      BY <1>2 DEF TaskNext
    <2> QED BY <2>1, ArrivalType, BindingType, GraphType, FinishType DEF MessageStep
  <1> QED BY <1>1, <1>2

(* Sessions, questions, threads and what is in hand keep their types.     *)
THEOREM TaskTypeCorrect == TaskSpec => []TaskTypeOK
  <1> QED BY TaskInitType, TaskTypeStep, PTL DEF TaskSpec

-----------------------------------------------------------------------------
(* What was put aside.                                                     *)

(* A question that a message holds was open when it was read, or is its    *)
(* own task's.                                                             *)
HoldsOpenOrOwn ==
  \A t \in Messages : \A s \in Messages : hand[t].pending.of = s =>
     hand[t].pending.row.status = "waiting" \/ hand[t].target = s

LEMMA HoldStep ==
  ASSUME TaskTypeOK, HoldsOpenOrOwn, NEW t \in Messages, MessageStep(t)
  PROVE  HoldsOpenOrOwn'
  <1>1. hand \in [Messages -> Handled]
    BY HandledType
  <1>2. SUFFICES /\ \A u \in Messages \ {t} : hand'[u] = hand[u]
                 /\ \A s \in Messages : hand'[t].pending.of = s =>
                       hand'[t].pending.row.status = "waiting" \/ hand'[t].target = s
    BY DEF HoldsOpenOrOwn, Messages
  <1>0. \A s \in Messages : s # 0
    BY MessageFacts
  <1>3. CASE BeginMessage(t)
    BY <1>0, <1>1, <1>3 DEF BeginMessage, NotBegun, NoPending, Handled
  <1>4. CASE RouteMessage(t)
    <2>1. PICK target \in Targets(t, Pending) :
             hand' = [hand EXCEPT ![t] =
               [@ EXCEPT !.target = target, !.pending = Pending,
                         !.pc = IF Interrupts(t, target, Pending) THEN "suspend"
                                ELSE IF target = t THEN "create" ELSE "bind"]]
      BY <1>4 DEF RouteMessage
    <2>2. Pending.of # 0 => Pending.row.status = "waiting"
      BY DEF Pending
    <2> QED BY <1>0, <1>1, <2>1, <2>2 DEF Handled
  <1>5. CASE Bind(t)
    <2> DEFINE target == hand[t].target
               pending == IF target \in {0, t} \/ question[target].status = "none"
                          THEN hand[t].pending
                          ELSE [of |-> target, row |-> question[target]]
    <2>1. \A s \in Messages : pending.of = s =>
             pending.row.status = "waiting" \/ target = s
      BY DEF HoldsOpenOrOwn
    <2> HIDE DEF pending
    <2>2. hand' = [hand EXCEPT ![t] =
             [@ EXCEPT !.pending = pending,
                       !.thread = IF IsOpen(pending) /\ pending.row.thread # 0
                                  THEN pending.row.thread ELSE target,
                       !.pc = IF ~IsOpen(pending) THEN "invoke"
                              ELSE IF pending.row.kind = "price" THEN "price"
                              ELSE "consume"]]
      BY <1>5 DEF Bind, pending
    <2> QED BY <1>1, <2>1, <2>2 DEF Handled
  <1>6. CASE CreateSession(t)
    BY <1>0, <1>1, <1>6 DEF CreateSession, NoPending, Handled
  <1>7. CASE Suspend(t) \/ Consume(t) \/ SettleQuestion(t)
    BY <1>1, <1>7 DEF Suspend, Consume, SettleQuestion, Goes, Handled, HoldsOpenOrOwn
  <1>8. CASE Invoke(t) \/ ResumeThread(t) \/ AnswerPrice(t)
    <2>1. PICK out : hand' = [hand EXCEPT ![t].out = out, ![t].pc = "settle"]
      BY <1>8 DEF Invoke, ResumeThread, AnswerPrice, Runs, Replies
    <2> QED BY <1>1, <2>1 DEF Handled, HoldsOpenOrOwn
  <1>9. CASE FinishMessage(t) \/ Breaks(t)
    BY <1>0, <1>1, <1>9 DEF FinishMessage, Breaks, Ends, NotBegun, NoPending, Handled
  <1> QED BY <1>3, <1>4, <1>5, <1>6, <1>7, <1>8, <1>9 DEF MessageStep

LEMMA AsideStep ==
  ASSUME TaskTypeOK, HoldsOpenOrOwn, NEW t \in Messages, MessageStep(t),
         NEW s \in Messages, question[s].status = "suspended", question'[s].status = "none"
  PROVE  /\ t \in InHand /\ hand'[t] # hand[t]
         /\ \/ hand[t].target = s
            \/ hand[t].pending.of = s /\ hand[t].pending.row.status = "waiting"
  <1>1. /\ hand \in [Messages -> Handled] /\ question \in [0..MaxMessages -> Question]
        /\ s \in 0..MaxMessages /\ s # 0 /\ hand[t] \in Handled
        /\ hand[t].pending.of \in 0..MaxMessages /\ hand[t].target \in 0..MaxMessages
    BY HandledType, MessageFacts DEF Handled
  <1>2. CASE RouteMessage(t)
    BY <1>1, <1>2 DEF RouteMessage
  <1>3. CASE Suspend(t)
    BY <1>1, <1>3 DEF Suspend
  <1>4. CASE Consume(t)
    BY <1>1, <1>4 DEF Consume, Goes, InHand, Idle, HoldsOpenOrOwn, Handled
  <1>5. CASE AnswerPrice(t)
    <2>1. PICK out : hand' = [hand EXCEPT ![t].out = out, ![t].pc = "settle"]
      BY <1>5 DEF AnswerPrice, Replies
    <2> QED BY <1>1, <1>5, <2>1 DEF AnswerPrice, InHand, Idle, HoldsOpenOrOwn, Handled
  <1>6. CASE SettleQuestion(t)
    <2>1. hand[t].target = s
      BY <1>1, <1>6 DEF SettleQuestion
    <2> QED BY <1>1, <1>6, <2>1 DEF SettleQuestion, Goes, InHand, Idle, Handled
  <1>7. question' # question
    OBVIOUS
  <1> QED BY <1>2, <1>3, <1>4, <1>5, <1>6, <1>7
          DEF MessageStep, BeginMessage, CreateSession, Bind, Invoke, ResumeThread,
              FinishMessage, Breaks

-----------------------------------------------------------------------------
(* Questions that wait.                                                    *)

(* Nothing names a message whose turn has not begun.                       *)
Fresh ==
  /\ active <= begun
  /\ \A s \in Messages : session[s] # "none" \/ question[s].status # "none" => s <= begun
  /\ \A t \in InHand : t <= begun /\ hand[t].seen <= begun /\ hand[t].target <= begun

LEMMA FreshTargets ==
  ASSUME TaskTypeOK, Fresh, NEW t \in InHand, NEW target \in Targets(t, Pending)
  PROVE  target <= begun
  <1>1. 0 <= begun /\ Pending.of <= begun
    BY DEF Fresh, Pending, TaskTypeOK
  <1> QED BY <1>1 DEF Fresh, Targets, Known

LEMMA FreshStep ==
  ASSUME TaskTypeOK, TaskTypeOK', Fresh, NEW t \in Messages, MessageStep(t)
  PROVE  Fresh'
  <1>1. /\ hand \in [Messages -> Handled] /\ question \in [0..MaxMessages -> Question]
        /\ session \in [Messages -> {"none", "new", "ran"}]
        /\ begun \in Nat /\ active \in Nat /\ begun' \in Nat /\ Messages \subseteq 0..MaxMessages
    BY HandledType, MessageFacts DEF TaskTypeOK
  <1>2. Messages' = Messages /\ InHand' = {u \in Messages : hand'[u].pc \notin Idle}
    BY DEF Messages, InHand, Idle
  <1>3. CASE BeginMessage(t)
    <2>1. hand' = [hand EXCEPT ![t] = [NotBegun EXCEPT !.pc = "route", !.seen = active]]
          /\ begun' = begun + 1 /\ t = begun + 1
      BY <1>3 DEF BeginMessage
    <2>2. \A u \in Messages \ {t} : hand'[u] = hand[u]
      BY <2>1
    <2>3. hand'[t].seen = active /\ hand'[t].target = 0
      BY <1>1, <2>1 DEF NotBegun
    <2>4. \A n \in Nat : n <= begun => n <= begun'
      BY <1>1, <2>1
    <2>5. UNCHANGED <<active, session, question>>
      BY <1>3 DEF BeginMessage
    <2>6. active' <= begun'
      BY <1>1, <2>4, <2>5 DEF Fresh
    <2>7. \A s \in Messages : session'[s] # "none" \/ question'[s].status # "none" => s <= begun'
      BY <2>4, <2>5 DEF Fresh, Messages
    <2>8. ASSUME NEW u \in InHand' 
          PROVE  u <= begun' /\ hand'[u].seen <= begun' /\ hand'[u].target <= begun'
      <3>1. CASE u = t
        BY <1>1, <2>1, <2>3, <2>6, <2>5, <3>1
      <3>2. CASE u # t
        <4>1. u \in InHand /\ hand'[u] = hand[u] /\ hand[u] \in Handled /\ u \in Nat
          BY <1>1, <1>2, <2>2, <3>2 DEF InHand, Messages
        <4> QED BY <2>4, <4>1 DEF Fresh, Handled
      <3> QED BY <3>1, <3>2
    <2> QED BY <1>2, <2>6, <2>7, <2>8 DEF Fresh
  <1>4. CASE ~BeginMessage(t)
    <2>0. t \in InHand /\ begun' = begun
      BY <1>4 DEF InHand, Idle, MessageStep, RouteMessage, Suspend, CreateSession, Bind,
            Invoke, Consume, ResumeThread, AnswerPrice, SettleQuestion, FinishMessage, Breaks
    <2>a. t <= begun /\ hand[t].target <= begun /\ hand[t].seen <= begun
          /\ hand[t].target \in 0..MaxMessages /\ hand[t] \in Handled
      BY <1>1, <2>0 DEF Fresh, Handled
    <2>1. active' <= begun
      BY <1>4, <2>a DEF Fresh, MessageStep, RouteMessage, Suspend, CreateSession, Bind,
            Invoke, Consume, ResumeThread, AnswerPrice, SettleQuestion, FinishMessage, Breaks
    <2>2. \A s \in Messages : session'[s] # "none" => s <= begun
      <3>1. CASE CreateSession(t) \/ FinishMessage(t)
        BY <1>1, <2>a, <3>1 DEF CreateSession, FinishMessage, Mirrored, Fresh
      <3>2. CASE session' = session
        BY <3>2 DEF Fresh
      <3> QED BY <1>4, <3>1, <3>2 DEF MessageStep, RouteMessage, Suspend, Bind,
            Invoke, Consume, ResumeThread, AnswerPrice, SettleQuestion, Breaks
    <2>3. \A s \in Messages : question'[s].status # "none" => s <= begun
      <3>0. \A s \in Messages : s # 0
        BY MessageFacts
      <3>1. CASE RouteMessage(t)
        <4>1. \A s \in Messages : question'[s] = question[s]
          BY <1>1, <3>0, <3>1 DEF RouteMessage
        <4> QED BY <4>1 DEF Fresh
      <3>4. CASE Suspend(t)
        <4>1. \A s \in Messages : question[s].status = "none" => question'[s].status = "none"
          BY <1>1, <3>4 DEF Suspend
        <4> QED BY <4>1 DEF Fresh
      <3>5. CASE SettleQuestion(t)
        <4>1. \A s \in Messages : s # hand[t].target => question'[s] = question[s]
          BY <1>1, <3>5 DEF SettleQuestion
        <4> QED BY <2>a, <4>1 DEF Fresh
      <3>2. CASE Consume(t) \/ AnswerPrice(t)
        <4>1. question' = question \/ question' = [question EXCEPT ![hand[t].pending.of] = NoQuestion]
          BY <3>2 DEF Consume, AnswerPrice
        <4>2. \A s \in Messages : question[s].status = "none" => question'[s].status = "none"
          <5> SUFFICES ASSUME NEW s \in Messages, question[s].status = "none"
                       PROVE  question'[s].status = "none"
            OBVIOUS
          <5>1. NoQuestion.status = "none"
            BY DEF NoQuestion
          <5>2. question'[s] = question[s] \/ question'[s] = NoQuestion
            BY <1>1, <4>1
          <5> QED BY <5>1, <5>2
        <4> QED BY <4>2 DEF Fresh
      <3>3. CASE question' = question
        BY <3>3 DEF Fresh
      <3> QED BY <1>4, <3>1, <3>2, <3>3, <3>4, <3>5 DEF MessageStep, CreateSession, Bind, Invoke,
            ResumeThread, FinishMessage, Breaks
    <2>4. \A u \in Messages \ {t} : hand'[u] = hand[u]
      BY <1>1, <1>4 DEF MessageStep, RouteMessage, Suspend, CreateSession, Bind, Invoke, Consume,
            ResumeThread, AnswerPrice, SettleQuestion, FinishMessage, Breaks, Goes, Ends,
            Runs, Replies
    <2>5. hand'[t].seen <= begun /\ hand'[t].target <= begun
      <3>1. CASE RouteMessage(t)
        <4>1. PICK target \in Targets(t, Pending) :
                hand' = [hand EXCEPT ![t] =
                 [@ EXCEPT !.target = target, !.pending = Pending,
                           !.pc = IF Interrupts(t, target, Pending) THEN "suspend"
                                  ELSE IF target = t THEN "create" ELSE "bind"]]
          BY <3>1 DEF RouteMessage
        <4>2. target <= begun
          BY <2>0, FreshTargets
        <4> QED BY <1>1, <2>a, <4>1, <4>2 DEF Handled
      <3>2. CASE FinishMessage(t) \/ Breaks(t)
        <4>1. PICK pc : Ends(t, pc)
          BY <3>2 DEF FinishMessage, Breaks
        <4>2. hand'[t].seen = 0 /\ hand'[t].target = 0
          BY <1>1, <4>1 DEF Ends, NotBegun
        <4> QED BY <1>1, <4>2
      <3>4. CASE Suspend(t) \/ Consume(t) \/ SettleQuestion(t)
        <4>1. PICK pc : Goes(t, pc)
          BY <3>4 DEF Suspend, Consume, SettleQuestion
        <4>2. hand'[t].seen = hand[t].seen /\ hand'[t].target = hand[t].target
          BY <1>1, <2>a, <4>1 DEF Goes, Handled
        <4> QED BY <2>a, <4>2
      <3>5. CASE Invoke(t) \/ ResumeThread(t) \/ AnswerPrice(t)
        <4>1. PICK out : hand' = [hand EXCEPT ![t].out = out, ![t].pc = "settle"]
          BY <3>5 DEF Invoke, ResumeThread, AnswerPrice, Runs, Replies
        <4>2. hand'[t].seen = hand[t].seen /\ hand'[t].target = hand[t].target
          BY <1>1, <2>a, <4>1 DEF Handled
        <4> QED BY <2>a, <4>2
      <3>6. CASE CreateSession(t)
        <4>1. hand'[t].seen = hand[t].seen /\ hand'[t].target = hand[t].target
          BY <1>1, <2>a, <3>6 DEF CreateSession, Handled
        <4> QED BY <2>a, <4>1
      <3>7. CASE Bind(t)
        <4>1. PICK pending, thread, pc : hand' = [hand EXCEPT ![t] =
                 [@ EXCEPT !.pending = pending, !.thread = thread, !.pc = pc]]
          BY <3>7 DEF Bind
        <4>2. hand'[t].seen = hand[t].seen /\ hand'[t].target = hand[t].target
          BY <1>1, <2>a, <4>1 DEF Handled
        <4> QED BY <2>a, <4>2
      <3> QED BY <1>4, <3>1, <3>2, <3>4, <3>5, <3>6, <3>7 DEF MessageStep
    <2> QED BY <1>2, <2>0, <2>a, <2>1, <2>2, <2>3, <2>4, <2>5 DEF Fresh, InHand
  <1> QED BY <1>3, <1>4

Alone == \A t, u \in InHand : t = u

QuestionsLive ==
  \A s \in Messages : question[s].status # "none" /\ question[s].kind # "price" =>
     question[s].thread = s /\ point[s] = "open"

OneWaits == \A s \in Messages : question[s].status = "waiting" => s = active

(* What the one message in hand knows at each of its steps.                *)
Knows(t) ==
  LET h == hand[t] IN
  /\ h.pc \in {"route", "suspend", "create"} => question[t].status = "none"
  /\ h.pc = "suspend" => h.pending.of = active /\ h.pending.of # h.target
  /\ h.pc = "create" => h.target = t
  /\ h.pc \in {"create", "bind"} =>
        \A s \in Messages : question[s].status = "waiting" => s = h.target
  /\ h.pc = "bind" /\ h.target = t => h.pending.of = 0 /\ question[t].status = "none"
  /\ h.pc = "bind" /\ h.target # 0 /\ h.pending.of = h.target =>
        question[h.target].status # "none"
  /\ h.pc \in {"invoke", "consume", "resume", "price", "settle"} /\ h.target # 0 =>
        active = h.target
  /\ h.pc = "invoke" =>
        h.thread = h.target /\ (h.target # 0 => question[h.target].status = "none")
  /\ h.pc = "consume" /\ OfItsTask(t) => h.thread = h.target /\ point[h.target] = "open"
  /\ h.pc = "resume" => /\ h.target # 0 /\ h.thread = h.target
                        /\ question[h.target].status = "none" /\ point[h.target] = "open"
  /\ h.pc = "settle" =>
        /\ h.out # "replayed"
        /\ h.out = "text" /\ h.target # 0 => h.thread = h.target /\ point[h.target] = "open"

Orderly == Alone /\ QuestionsLive /\ OneWaits /\ \A t \in InHand : Knows(t)

Kept(t) == QuestionsLive' /\ OneWaits' /\ (hand'[t].pc \notin Idle => Knows(t)')

LEMMA RouteKeeps ==
  ASSUME TaskTypeOK, Orderly, NEW t \in InHand, RouteMessage(t)
  PROVE  Kept(t)
  <1>1. /\ hand \in [Messages -> Handled] /\ question \in [0..MaxMessages -> Question]
        /\ t \in Messages /\ t \in 0..MaxMessages /\ t # 0 /\ hand[t] \in Handled
    BY HandledType, MessageFacts DEF InHand
  <1>2. \A s \in Messages : s \in 0..MaxMessages /\ s # 0
    BY MessageFacts
  <1>3. PICK target \in Targets(t, Pending) :
          hand' = [hand EXCEPT ![t] =
            [@ EXCEPT !.target = target, !.pending = Pending,
                      !.pc = IF Interrupts(t, target, Pending) THEN "suspend"
                             ELSE IF target = t THEN "create" ELSE "bind"]]
    BY DEF RouteMessage
  <1>4. \A s \in Messages : question'[s] = question[s]
    BY <1>1, <1>2 DEF RouteMessage
  <1>5. /\ hand'[t].target = target /\ hand'[t].pending = Pending
        /\ hand'[t].pc = IF Interrupts(t, target, Pending) THEN "suspend"
                         ELSE IF target = t THEN "create" ELSE "bind"
    BY <1>1, <1>3 DEF Handled
  <1>6. UNCHANGED <<point, active>> /\ question[t].status = "none"
    BY DEF RouteMessage, Orderly, Knows
  <1>7. QuestionsLive' /\ OneWaits'
    BY <1>4, <1>6 DEF Orderly, QuestionsLive, OneWaits, Messages
  <1>8. /\ Pending.of # 0 => Pending.of = active /\ question[active].status = "waiting"
        /\ Pending.of = 0 => active = 0 \/ question[active].status # "waiting"
    BY DEF Pending
  <1>9. Knows(t)'
    <2>1. CASE Interrupts(t, target, Pending)
      BY <1>4, <1>5, <1>6, <1>8, <1>1, <2>1 DEF Knows, Interrupts
    <2>2. CASE ~Interrupts(t, target, Pending)
      <3>1. Pending.of = 0 \/ (Pending.of = target /\ target = active)
        BY <1>8, <2>2 DEF Interrupts
      <3>2. \A s \in Messages : question[s].status = "waiting" => s = target
        BY <1>2, <1>8, <3>1 DEF Orderly, OneWaits
      <3>3. target # 0 /\ Pending.of = target => question[target].status = "waiting" /\ target \in Messages
        <4>1. target \in 0..MaxMessages
          BY TargetsType, <1>1
        <4> QED BY <1>8, <3>1, <4>1, MessageFacts
      <3>4. hand'[t].pc = IF target = t THEN "create" ELSE "bind"
        BY <1>5, <2>2
      <3>5. \A s \in Messages : question'[s].status = "waiting" => s = target
        BY <1>4, <3>2
      <3>6. target # 0 /\ Pending.of = target => question'[target].status # "none"
        BY <1>4, <3>3
      <3>7. question'[t].status = "none"
        BY <1>1, <1>4, <1>6
      <3>8. Messages' = Messages
        BY DEF Messages
      <3> HIDE DEF Pending
      <3> QED BY <1>5, <3>4, <3>5, <3>6, <3>7, <3>8 DEF Knows
    <2> QED BY <2>1, <2>2
  <1> QED BY <1>7, <1>9 DEF Kept

LEMMA SuspendKeeps ==
  ASSUME TaskTypeOK, Orderly, NEW t \in InHand, Suspend(t) \/ CreateSession(t)
  PROVE  Kept(t)
  <1>1. /\ hand \in [Messages -> Handled] /\ question \in [0..MaxMessages -> Question]
        /\ t \in Messages /\ t \in 0..MaxMessages /\ t # 0 /\ hand[t] \in Handled
    BY HandledType, MessageFacts DEF InHand
  <1>2. Messages' = Messages /\ (\A s \in Messages : s \in 0..MaxMessages /\ s # 0)
    BY MessageFacts DEF Messages
  <1>3. CASE Suspend(t)
    <2> DEFINE of == hand[t].pending.of
    <2>1. /\ of = active /\ of # hand[t].target /\ question[t].status = "none"
          /\ UNCHANGED <<point, active>>
      BY <1>3 DEF Orderly, Knows, Suspend
    <2>2. /\ \A s \in Messages : s # of => question'[s] = question[s]
          /\ \A s \in Messages : /\ question'[s].kind = question[s].kind
                                /\ question'[s].thread = question[s].thread
                                /\ (question'[s].status = "none") = (question[s].status = "none")
          /\ of \in Messages => question'[of].status # "waiting"
      <3>1. CASE question[of].status = "none"
        BY <1>3, <3>1 DEF Suspend
      <3>2. CASE question[of].status # "none"
        <4>1. question' = [question EXCEPT ![of].status = "suspended"]
          BY <1>3, <3>2 DEF Suspend
        <4>2. \A s \in Messages : question[s] \in Question
          BY <1>1, <1>2
        <4>3. \A s \in Messages : s # of => question'[s] = question[s]
          BY <1>1, <1>2, <4>1
        <4>4. of \in Messages => question'[of] = [question[of] EXCEPT !.status = "suspended"]
          BY <1>1, <1>2, <4>1
        <4>5. of \in Messages => /\ question'[of].status = "suspended"
                                 /\ question'[of].kind = question[of].kind
                                 /\ question'[of].thread = question[of].thread
          BY <4>2, <4>4 DEF Question
        <4> QED BY <3>2, <4>3, <4>5
      <3> QED BY <3>1, <3>2
    <2>3. \A s \in Messages : question'[s].status # "waiting"
      BY <2>1, <2>2 DEF Orderly, OneWaits
    <2>4. QuestionsLive' /\ OneWaits'
      <3>1. ASSUME NEW s \in Messages, question'[s].status # "none", question'[s].kind # "price"
            PROVE  question'[s].thread = s /\ point'[s] = "open"
        <4>1. question[s].status # "none" /\ question[s].kind # "price"
          BY <2>2, <3>1
        <4>2. question[s].thread = s /\ point[s] = "open"
          BY <4>1 DEF Orderly, QuestionsLive
        <4> QED BY <2>1, <2>2, <4>2
      <3> QED BY <1>2, <2>3, <3>1 DEF QuestionsLive, OneWaits
    <2>5. /\ hand'[t].target = hand[t].target /\ hand'[t].pending = hand[t].pending
          /\ hand'[t].pc = IF hand[t].target = t THEN "create" ELSE "bind"
      BY <1>1, <1>3 DEF Suspend, Goes, Handled
    <2>6. question'[t].status = "none"
      BY <1>1, <2>1, <2>2
    <2>7. \A s \in Messages' : question'[s].status = "waiting" => s = hand'[t].target
      BY <1>2, <2>3
    <2>8. hand'[t].pending.of # hand'[t].target
      BY <2>1, <2>5
    <2> HIDE DEF of
    <2>9. Knows(t)'
      BY <2>5, <2>6, <2>7, <2>8 DEF Knows
    <2> QED BY <2>4, <2>9 DEF Kept
  <1>4. CASE CreateSession(t)
    <2>1. /\ hand'[t].target = t /\ hand'[t].pending.of = 0 /\ hand'[t].pc = "bind"
          /\ question[t].status = "none" /\ UNCHANGED <<point, active, question>>
          /\ \A s \in Messages : question[s].status = "waiting" => s = t
      BY <1>1, <1>4 DEF Orderly, Knows, CreateSession, NoPending, Handled
    <2> QED BY <1>1, <1>2, <2>1 DEF Kept, Knows, Orderly, QuestionsLive, OneWaits
  <1> QED BY <1>3, <1>4

LEMMA BindKeeps ==
  ASSUME TaskTypeOK, Orderly, NEW t \in InHand, Bind(t)
  PROVE  Kept(t)
  <1> DEFINE target == hand[t].target
             pending == IF target \in {0, t} \/ question[target].status = "none"
                        THEN hand[t].pending
                        ELSE [of |-> target, row |-> question[target]]
  <1>1. /\ hand \in [Messages -> Handled] /\ question \in [0..MaxMessages -> Question]
        /\ t \in Messages /\ t \in 0..MaxMessages /\ t # 0 /\ hand[t] \in Handled
        /\ target \in 0..MaxMessages
    BY HandledType, MessageFacts DEF InHand, Handled
  <1>2. /\ Messages' = Messages /\ (\A s \in Messages : s \in 0..MaxMessages /\ s # 0)
        /\ target # 0 => target \in Messages
    BY <1>1, MessageFacts DEF Messages
  <1>3. /\ \A s \in Messages : question[s].status = "waiting" => s = target
        /\ target = t => hand[t].pending.of = 0 /\ question[t].status = "none"
        /\ target # 0 /\ hand[t].pending.of = target => question[target].status # "none"
    BY DEF Orderly, Knows, Bind
  <1>4. pending.of = target /\ target # 0 =>
          pending.row = question[target] /\ question[target].status # "none"
    BY <1>1, <1>3
  <1>5. ~IsOpen(pending) /\ target # 0 => question[target].status = "none"
    BY <1>1, <1>3 DEF IsOpen
  <1>6. /\ UNCHANGED <<question, point>> /\ active' = IF target = 0 THEN active ELSE target
        /\ hand' = [hand EXCEPT ![t] =
             [@ EXCEPT !.pending = pending,
                       !.thread = IF IsOpen(pending) /\ pending.row.thread # 0
                                  THEN pending.row.thread ELSE target,
                       !.pc = IF ~IsOpen(pending) THEN "invoke"
                              ELSE IF pending.row.kind = "price" THEN "price"
                              ELSE "consume"]]
    BY DEF Bind
  <1> HIDE DEF pending
  <1>7. /\ hand'[t].target = target /\ hand'[t].pending = pending
        /\ hand'[t].thread = IF IsOpen(pending) /\ pending.row.thread # 0
                             THEN pending.row.thread ELSE target
        /\ hand'[t].pc = IF ~IsOpen(pending) THEN "invoke"
                         ELSE IF pending.row.kind = "price" THEN "price" ELSE "consume"
    BY <1>1, <1>6 DEF Handled
  <1>8. QuestionsLive' /\ OneWaits'
    <2>1. \A s \in Messages : question[s].status = "waiting" => s = active'
      BY <1>2, <1>3, <1>6
    <2> QED BY <1>2, <1>6, <2>1 DEF Orderly, QuestionsLive, OneWaits
  <1>9. hand'[t].pc = "consume" /\ OfItsTask(t)' =>
          hand'[t].thread = target /\ point'[target] = "open"
    <2> SUFFICES ASSUME hand'[t].pc = "consume", OfItsTask(t)'
                 PROVE  hand'[t].thread = target /\ point'[target] = "open"
      OBVIOUS
    <2>1. pending.of = target /\ target # 0 /\ pending.row.kind # "price"
      BY <1>7 DEF OfItsTask
    <2>2. question[target].thread = target /\ point[target] = "open"
      BY <1>2, <1>4, <2>1 DEF Orderly, QuestionsLive
    <2> QED BY <1>4, <1>6, <1>7, <2>1, <2>2
  <1>10. hand'[t].pc = "invoke" =>
           hand'[t].thread = target /\ (target # 0 => question'[target].status = "none")
    BY <1>5, <1>6, <1>7
  <1>11. target # 0 => active' = target
    BY <1>6
  <1> HIDE DEF target
  <1>12. Knows(t)'
    BY <1>7, <1>9, <1>10, <1>11 DEF Knows
  <1> QED BY <1>8, <1>12 DEF Kept

LEMMA ConsumeKeeps ==
  ASSUME TaskTypeOK, Orderly, NEW t \in InHand, Consume(t), regular'
  PROVE  Kept(t)
  <1>1. /\ hand \in [Messages -> Handled] /\ question \in [0..MaxMessages -> Question]
        /\ hand[t] \in Handled /\ OfItsTask(t)
    BY HandledType DEF InHand, Consume
  <1>2. /\ Messages' = Messages /\ (\A s \in Messages : s \in 0..MaxMessages)
    BY MessageFacts DEF Messages
  <1>3. /\ hand[t].target # 0 /\ hand[t].pending.of = hand[t].target
        /\ hand[t].thread = hand[t].target /\ point[hand[t].target] = "open"
        /\ active = hand[t].target
    BY <1>1 DEF Consume, Orderly, Knows, OfItsTask
  <1>4. /\ hand'[t].target = hand[t].target /\ hand'[t].thread = hand[t].thread
        /\ hand'[t].pc = "resume" /\ UNCHANGED <<point, active>>
    BY <1>1, HandledType DEF Consume, Goes, Handled, InHand
  <1>5. /\ \A s \in Messages : s # hand[t].target => question'[s] = question[s]
        /\ question'[hand[t].target].status = "none"
    BY <1>1, <1>2, <1>3 DEF Consume, NoQuestion, Handled
  <1>6. QuestionsLive' /\ OneWaits'
    BY <1>2, <1>4, <1>5 DEF Orderly, QuestionsLive, OneWaits
  <1> QED BY <1>3, <1>4, <1>5, <1>6 DEF Kept, Knows

(* The graph runs on the thread of the message's task, which has no        *)
(* question while it runs.                                                 *)
LEMMA GraphKeeps ==
  ASSUME TaskTypeOK, Orderly, NEW t \in InHand, Invoke(t) \/ ResumeThread(t)
  PROVE  Kept(t)
  <1> DEFINE target == hand[t].target
  <1>1. /\ hand \in [Messages -> Handled] /\ t \in Messages /\ hand[t] \in Handled
        /\ point \in [Messages -> {"none", "open", "closed", "priced"}]
        /\ target \in 0..MaxMessages
    BY HandledType DEF InHand, Handled
  <1>2. /\ Messages' = Messages /\ 0 \notin Messages
        /\ target # 0 => target \in Messages
    BY <1>1, MessageFacts DEF Messages
  <1>3. /\ hand[t].thread = target /\ UNCHANGED <<question, active>>
        /\ target # 0 => question[target].status = "none" /\ active = target
    BY DEF Orderly, Knows, Invoke, ResumeThread
  <1>4. Runs(t, Outcomes)
    <2>1. CASE Invoke(t)
      BY <2>1 DEF Invoke
    <2>2. CASE ResumeThread(t)
      <3>1. point[hand[t].thread] = "open"
        BY <2>2 DEF ResumeThread, Orderly, Knows
      <3> QED BY <2>2, <3>1 DEF ResumeThread
    <2> QED BY <2>1, <2>2
  <1>5. PICK out \in Outcomes : /\ hand' = [hand EXCEPT ![t].out = out, ![t].pc = "settle"]
                                /\ Reaches(t, {Place(out)})
    BY <1>4 DEF Runs
  <1>6. /\ hand'[t].target = target /\ hand'[t].thread = target
        /\ hand'[t].pc = "settle" /\ hand'[t].out = out
    BY <1>1, <1>3, <1>5 DEF Handled
  <1>7. /\ \A s \in Messages : s # target => point'[s] = point[s]
        /\ target # 0 => point'[target] = Place(out)
    BY <1>1, <1>2, <1>3, <1>5 DEF Reaches
  <1>8. QuestionsLive' /\ OneWaits'
    <2>1. \A s \in Messages : question[s].status # "none" => s # target
      BY <1>2, <1>3
    <2> QED BY <1>2, <1>3, <1>7, <2>1 DEF Orderly, QuestionsLive, OneWaits
  <1>9. out # "replayed" /\ (out = "text" => Place(out) = "open")
    BY <1>5 DEF Outcomes, Place
  <1>10. target # 0 => active' = target
    BY <1>3
  <1> HIDE DEF target
  <1>11. Knows(t)'
    BY <1>6, <1>7, <1>9, <1>10 DEF Knows
  <1> QED BY <1>8, <1>11 DEF Kept

LEMMA PriceKeeps ==
  ASSUME TaskTypeOK, Orderly, NEW t \in InHand, AnswerPrice(t)
  PROVE  Kept(t)
  <1>1. /\ hand \in [Messages -> Handled] /\ question \in [0..MaxMessages -> Question]
        /\ t \in Messages /\ hand[t] \in Handled /\ Messages' = Messages
        /\ \A s \in Messages : s \in 0..MaxMessages
    BY HandledType, MessageFacts DEF InHand, Messages
  <1>2. PICK out \in {"again", "chat", "price", "work"} :
           hand' = [hand EXCEPT ![t].out = out, ![t].pc = "settle"]
    BY DEF AnswerPrice, Replies
  <1>3. UNCHANGED <<point, active>> /\ (hand[t].target # 0 => active = hand[t].target)
    BY DEF AnswerPrice, Replies, Orderly, Knows
  <1>4. /\ hand'[t].target = hand[t].target /\ hand'[t].pc = "settle" /\ hand'[t].out = out
    BY <1>1, <1>2 DEF Handled
  <1>5. \A s \in Messages : question'[s] = question[s] \/ question'[s] = NoQuestion
    BY <1>1 DEF AnswerPrice
  <1>6. NoQuestion.status = "none"
    BY DEF NoQuestion
  <1>7. QuestionsLive' /\ OneWaits'
    BY <1>1, <1>3, <1>5, <1>6 DEF Orderly, QuestionsLive, OneWaits
  <1>8. Knows(t)'
    BY <1>3, <1>4 DEF Knows
  <1> QED BY <1>7, <1>8 DEF Kept

LEMMA SettleKeeps ==
  ASSUME TaskTypeOK, Orderly, NEW t \in InHand, SettleQuestion(t)
  PROVE  Kept(t)
  <1> DEFINE h == hand[t]
             row == [status |-> "waiting",
                     kind |-> IF h.out \in {"text", "replayed"} THEN "text" ELSE "price",
                     thread |-> IF h.target = 0 THEN 0 ELSE h.thread, since |-> begun]
  <1>1. /\ hand \in [Messages -> Handled] /\ question \in [0..MaxMessages -> Question]
        /\ t \in Messages /\ h \in Handled /\ Messages' = Messages
        /\ \A s \in Messages : s \in 0..MaxMessages /\ s # 0
    BY HandledType, MessageFacts DEF InHand, Messages
  <1>2. /\ UNCHANGED <<point, active>> /\ hand'[t].pc = "finish"
        /\ question' = [question EXCEPT ![h.target] = IF h.out \in Asked THEN row
                                                     ELSE NoQuestion]
    BY <1>1 DEF SettleQuestion, Goes, Handled
  <1>3. /\ h.out # "replayed" /\ (h.target # 0 => active = h.target)
        /\ h.out = "text" /\ h.target # 0 => h.thread = h.target /\ point[h.target] = "open"
    BY DEF SettleQuestion, Orderly, Knows
  <1>4. /\ row.status = "waiting" /\ NoQuestion.status = "none"
        /\ row.kind # "price" => h.out = "text"
        /\ h.target # 0 => row.thread = h.thread
    BY <1>3 DEF NoQuestion
  <1> HIDE DEF row
  <1>5. \A s \in Messages :
           \/ question'[s] = question[s]
           \/ question'[s] = NoQuestion
           \/ question'[s] = row /\ s = h.target
    BY <1>1, <1>2
  <1>6. QuestionsLive' /\ OneWaits'
    <2>1. ASSUME NEW s \in Messages, question'[s].status # "none", question'[s].kind # "price"
          PROVE  question'[s].thread = s /\ point'[s] = "open"
      <3>1. CASE question'[s] = question[s]
        BY <1>2, <2>1, <3>1 DEF Orderly, QuestionsLive
      <3>2. CASE question'[s] = row /\ s = h.target
        BY <1>1, <1>2, <1>3, <1>4, <2>1, <3>2
      <3> QED BY <1>4, <1>5, <2>1, <3>1, <3>2
    <2>2. ASSUME NEW s \in Messages, question'[s].status = "waiting"
          PROVE  s = active'
      BY <1>1, <1>2, <1>3, <1>4, <1>5, <2>2 DEF Orderly, OneWaits
    <2> QED BY <1>1, <2>1, <2>2 DEF QuestionsLive, OneWaits
  <1> QED BY <1>2, <1>6 DEF Kept, Knows

LEMMA FinishKeeps ==
  ASSUME TaskTypeOK, Orderly, NEW t \in InHand, FinishMessage(t) \/ Breaks(t)
  PROVE  Kept(t)
  <1> DEFINE target == hand[t].target
  <1>1. /\ hand \in [Messages -> Handled] /\ t \in Messages /\ Messages' = Messages
        /\ point \in [Messages -> {"none", "open", "closed", "priced"}] /\ 0 \notin Messages
    BY HandledType, MessageFacts DEF InHand, Messages
  <1>2. hand'[t].pc \in Idle
    <2>1. PICK end \in Idle : Ends(t, end)
      BY DEF FinishMessage, Breaks, Idle
    <2>2. hand'[t] = [NotBegun EXCEPT !.pc = end]
      BY <1>1, <2>1 DEF Ends
    <2> QED BY <2>1, <2>2 DEF NotBegun
  <1>3. UNCHANGED <<question, active>>
    BY DEF FinishMessage, Breaks
  <1>4. \A s \in Messages : question[s].status # "none" => point'[s] = point[s]
    <2>1. CASE UNCHANGED point
      BY <2>1
    <2>2. CASE hand[t].pc \in {"invoke", "resume"} /\ Reaches(t, {"closed"})
      <3>1. hand[t].thread = target /\ (target # 0 => question[target].status = "none")
        BY <2>2 DEF Orderly, Knows
      <3>2. \A s \in Messages : s # target => point'[s] = point[s]
        BY <1>1, <2>2, <3>1 DEF Reaches
      <3> QED BY <1>1, <3>1, <3>2
    <2> QED BY <2>1, <2>2 DEF FinishMessage, Breaks
  <1>5. QuestionsLive' /\ OneWaits'
    BY <1>1, <1>3, <1>4 DEF Orderly, QuestionsLive, OneWaits
  <1> QED BY <1>2, <1>5 DEF Kept

(* The invariant. A message of a conversation that is handled by itself     *)
(* knows the rows it has read to be as it read them.                       *)
TaskInv == TaskTypeOK /\ HoldsOpenOrOwn /\ Fresh /\ (regular => Orderly)

LEMMA InitTasks == TaskInit => TaskInv
  <1> SUFFICES ASSUME TaskInit PROVE TaskInv
    OBVIOUS
  <1>1. TaskTypeOK
    BY TaskInitType
  <1>2. NoQuestion.status = "none" /\ NotBegun.pc = "idle" /\ NotBegun.pending.of = 0
    BY DEF NoQuestion, NotBegun, NoPending
  <1>3. \A s \in Messages : s \in 0..MaxMessages /\ s # 0
    BY MessageFacts
  <1>4. InHand = {}
    BY <1>2 DEF TaskInit, InHand, Idle
  <1>5. \A s \in Messages : question[s].status = "none" /\ session[s] = "none"
                          /\ hand[s].pending.of = 0
    BY <1>2, <1>3 DEF TaskInit
  <1>6. HoldsOpenOrOwn /\ Fresh
    BY <1>3, <1>4, <1>5 DEF HoldsOpenOrOwn, Fresh, TaskInit
  <1>7. Orderly
    BY <1>4, <1>5 DEF Orderly, Alone, QuestionsLive, OneWaits
  <1> QED BY <1>1, <1>6, <1>7 DEF TaskInv

(* A step of the one message in hand.                                      *)
LEMMA AloneStep ==
  ASSUME TaskTypeOK, Orderly, NEW t \in InHand, MessageStep(t), ~BeginMessage(t), regular'
  PROVE  Orderly'
  <1>1. Kept(t)
    BY RouteKeeps, SuspendKeeps, BindKeeps, ConsumeKeeps, GraphKeeps, PriceKeeps,
       SettleKeeps, FinishKeeps DEF MessageStep
  <1>2. \A u \in Messages \ {t} : hand'[u] = hand[u]
    <2>1. hand \in [Messages -> Handled] /\ t \in Messages
      BY HandledType DEF InHand
    <2> QED BY <2>1 DEF MessageStep, RouteMessage, Suspend, CreateSession, Bind, Invoke,
               Consume, ResumeThread, AnswerPrice, SettleQuestion, FinishMessage, Breaks,
               Goes, Ends, Runs, Replies
  <1>3. InHand' \subseteq {t}
    BY <1>2 DEF InHand, Idle, Messages, Orderly, Alone
  <1>4. \A u \in InHand' : hand'[u].pc \notin Idle
    BY DEF InHand, Idle
  <1>5. \A u \in InHand' : Knows(u)'
    <2> SUFFICES ASSUME NEW u \in InHand' PROVE Knows(u)'
      OBVIOUS
    <2>1. u = t
      BY <1>3
    <2> QED BY <1>1, <1>4, <2>1 DEF Kept
  <1> QED BY <1>1, <1>3, <1>5 DEF Kept, Orderly, Alone

LEMMA BeginOrderly ==
  ASSUME TaskTypeOK, Fresh, Orderly, NEW t \in Messages, BeginMessage(t), regular'
  PROVE  Orderly'
  <1>1. /\ hand \in [Messages -> Handled] /\ begun \in Nat /\ Messages' = Messages
        /\ t = begun + 1 /\ UNCHANGED <<active, question, point>>
    BY HandledType, MessageFacts DEF BeginMessage, Messages
  <1>0. InHand = {}
    BY Zenon DEF BeginMessage
  <1>2. question[t].status = "none"
    BY <1>1 DEF Fresh
  <1>3. /\ \A u \in Messages \ {t} : hand'[u] = hand[u]
        /\ hand'[t].pc = "route"
    BY <1>1 DEF BeginMessage, NotBegun
  <1>4. InHand' = {t}
    BY <1>0, <1>1, <1>3 DEF InHand, Idle
  <1>5. Knows(t)'
    BY <1>1, <1>2, <1>3 DEF Knows
  <1> QED BY <1>1, <1>4, <1>5 DEF Orderly, Alone, QuestionsLive, OneWaits

LEMMA TaskStep == TaskInv /\ [TaskNext]_taskVars => TaskInv'
  <1> SUFFICES ASSUME TaskInv, [TaskNext]_taskVars PROVE TaskInv'
    OBVIOUS
  <1>1. CASE UNCHANGED taskVars
    <2>1. TaskTypeOK'
      BY <1>1, TaskTypeStep DEF TaskInv
    <2>2. HoldsOpenOrOwn' /\ Fresh'
      BY <1>1 DEF taskVars, TaskInv, HoldsOpenOrOwn, Fresh, InHand, Idle, Messages
    <2>3. regular' => Orderly'
      BY <1>1 DEF taskVars, TaskInv, Orderly, Alone, QuestionsLive, OneWaits, Knows,
                  InHand, Idle, Messages, OfItsTask
    <2> QED BY <2>1, <2>2, <2>3 DEF TaskInv
  <1>2. CASE TaskNext
    <2>1. PICK t \in Messages : MessageStep(t)
      BY <1>2 DEF TaskNext
    <2>2. TaskTypeOK'
      BY TaskTypeStep DEF TaskInv
    <2>3. HoldsOpenOrOwn' /\ Fresh'
      BY <2>1, <2>2, HoldStep, FreshStep DEF TaskInv
    <2>4. ASSUME regular' PROVE Orderly'
      <3>1. Orderly
        BY <2>1, <2>4 DEF TaskInv, MessageStep, BeginMessage, RouteMessage, Suspend, CreateSession,
              Bind, Invoke, Consume, ResumeThread, AnswerPrice, SettleQuestion,
              FinishMessage, Breaks
      <3>2. CASE BeginMessage(t)
        BY <2>4, <3>1, <3>2, BeginOrderly DEF TaskInv
      <3>3. CASE ~BeginMessage(t)
        <4>1. t \in InHand
          BY <2>1, <3>3 DEF InHand, Idle, MessageStep, RouteMessage, Suspend, CreateSession,
                Bind, Invoke, Consume, ResumeThread, AnswerPrice, SettleQuestion,
                FinishMessage, Breaks
        <4> QED BY <2>1, <2>4, <3>1, <3>3, <4>1, AloneStep DEF TaskInv
      <3> QED BY <3>2, <3>3
    <2> QED BY <2>2, <2>3, <2>4 DEF TaskInv
  <1> QED BY <1>1, <1>2

(* While messages come one at a time and answer their own task's questions, *)
(* a clarification that waits is the active task's and can be resumed,     *)
(* whatever failed in between (facade.py:243-251).                         *)
THEOREM WaitingQuestionsAreLive == TaskSpec => []OpenQuestionIsLive
  <1>1. TaskInv => OpenQuestionIsLive
    BY MessageFacts DEF TaskInv, Orderly, QuestionsLive, OneWaits, OpenQuestionIsLive, Interrupted
  <1> QED BY <1>1, InitTasks, TaskStep, PTL DEF TaskSpec

LEMMA AsideKept ==
  ASSUME TaskInv, [TaskNext]_taskVars, NEW s \in Messages,
         question[s].status = "suspended", question'[s].status = "none"
  PROVE  \E t \in InHand :
            /\ hand'[t] # hand[t]
            /\ \/ hand[t].target = s
               \/ hand[t].pending.of = s /\ hand[t].pending.row.status = "waiting"
  <1>1. question' # question
    OBVIOUS
  <1>2. PICK t \in Messages : MessageStep(t)
    BY <1>1 DEF TaskNext, taskVars
  <1> QED BY <1>2, AsideStep DEF TaskInv

(* A question that set_task_pending_status put aside is removed by messages *)
(* for its task only, or by one that read it before, with any number of    *)
(* messages handled at a time.                                             *)
THEOREM QuestionsPutAsideAreKept == TaskSpec => SetAsideIsKept
  <1>1. TaskInv /\ [TaskNext]_taskVars =>
          [\A s \in Messages :
             question[s].status = "suspended" /\ question'[s].status = "none" =>
                \E t \in InHand :
                   /\ hand'[t] # hand[t]
                   /\ \/ hand[t].target = s
                      \/ hand[t].pending.of = s /\ hand[t].pending.row.status = "waiting"]_taskVars
    BY AsideKept
  <1> QED BY <1>1, InitTasks, TaskStep, PTL DEF TaskSpec, SetAsideIsKept

-----------------------------------------------------------------------------
(* The batches and the tasks of a conversation share no row: a behaviour of *)
(* ConversationMC is one of each part, so that every theorem about          *)
(* BatchExecution and TaskSessions is one about the composition.            *)
THEOREM ConversationIsItsParts == ConversationSpec => BatchSpec /\ TaskSpec
  <1>1. ConversationInit => BatchInit /\ TaskInit
    BY DEF ConversationInit
  <1>2. [ConversationNext]_conversationVars => [BatchNext]_batchVars /\ [TaskNext]_taskVars
    BY DEF ConversationNext, conversationVars
  <1> QED  BY <1>1, <1>2, PTL DEF ConversationSpec, BatchSpec, TaskSpec

(* All the rows of a conversation keep their types.                         *)
THEOREM ConversationTypeCorrect == ConversationSpec => []ConversationTypeOK
  <1>1. BatchTypeOK /\ TaskTypeOK => ConversationTypeOK
    BY DEF ConversationTypeOK
  <1> QED  BY <1>1, ConversationIsItsParts, BatchTypeCorrect, TaskTypeCorrect, PTL
=============================================================================
